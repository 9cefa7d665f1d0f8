------------------------------ MODULE JobQueue ------------------------------
(***************************************************************************)
(* ChatServer/JobQueue.h: a deque of jobs under one mutex with two         *)
(* condition variables, from Start (the workers are running) to the end of *)
(* Stop.  A block under the mutex is one step; a notify outside it is      *)
(* another.  A thread on a condition variable re-evaluates its predicate   *)
(* when it is notified, and may do so for no reason (spurious wake-up).    *)
(*                                                                         *)
(* Every Room owns one: unlimited, one worker, fed by TryEnqueue only,     *)
(* stopped by ~Room (module RoomLog).  This module covers what the class   *)
(* offers: any number of workers, a bound, and the blocking Enqueue.       *)
(***************************************************************************)
EXTENDS Integers, Sequences

CONSTANTS Producers, Workers,
          Jobs,             \* each handed to the queue at most once
          NoJob,
          QueueSizes        \* what the constructor may be called with; 0: unlimited

ASSUME QueueAssumption ==
    Workers # {} /\ NoJob \notin Jobs /\ QueueSizes \subseteq Nat

VARIABLES maxQueueSize, \* maxQueueSize_
          tasks,        \* tasks_
          stop,         \* stop_
          stopper,      \* the thread in Stop: "running", "joining" or "joined"
          producer,     \* where each producer is
          offer,        \* the job a producer is inside Enqueue with
          worker,       \* where each worker is
          job,          \* the job in a worker's hand
          left,         \* jobs nobody has handed in yet
          accepted,     \* history: jobs put in the queue, in order
          due,          \* history: those that came in before Stop
          taken,        \* history: jobs moved out of it, in order
          ran           \* history: jobs that have run

vars == <<maxQueueSize, tasks, stop, stopper, producer, offer, worker, job, left,
          accepted, due, taken, ran>>

ProducerLabels == {"idle", "full",      \* waiting on cvFull_
                   "notify"}            \* Enqueue: about to call notify_one
WorkerLabels == {"check",               \* about to lock and test the predicate
                 "wait",                \* waiting on cv_
                 "run", "exit"}

Init == /\ maxQueueSize \in QueueSizes
        /\ tasks = <<>> /\ stop = FALSE /\ stopper = "running"
        /\ producer = [p \in Producers |-> "idle"]
        /\ offer = [p \in Producers |-> NoJob]
        /\ worker = [w \in Workers |-> "check"]
        /\ job = [w \in Workers |-> NoJob]
        /\ left = Jobs /\ ran = {}
        /\ accepted = <<>> /\ taken = <<>> /\ due = {}

Waiting == {w \in Workers : worker[w] = "wait"}

NotifyOne_Nobody == UNCHANGED worker
NotifyOne == IF Waiting = {} THEN UNCHANGED worker
             ELSE \E w \in Waiting : worker' = [worker EXCEPT ![w] = "check"]

NotifyAll_None == UNCHANGED worker
NotifyAll == worker' = [w \in Workers |-> IF worker[w] = "wait" THEN "check"
                                          ELSE worker[w]]

Full_OffByOne == maxQueueSize > 0 /\ Len(tasks) > maxQueueSize
Full == maxQueueSize > 0 /\ Len(tasks) >= maxQueueSize

Push(j) == /\ tasks' = Append(tasks, j)
           /\ accepted' = Append(accepted, j)
           /\ due' = IF stop THEN due ELSE due \cup {j}

-----------------------------------------------------------------------------
(* Enqueue.  Only a bounded queue looks at stop_. *)

EnqueueLocked(p, j) ==
    IF maxQueueSize > 0 /\ stop
    THEN /\ producer' = [producer EXCEPT ![p] = "idle"]         \* throws
         /\ offer' = [offer EXCEPT ![p] = NoJob]
         /\ UNCHANGED <<tasks, accepted, due>>
    ELSE IF Full
    THEN /\ producer' = [producer EXCEPT ![p] = "full"]
         /\ offer' = [offer EXCEPT ![p] = j]
         /\ UNCHANGED <<tasks, accepted, due>>
    ELSE /\ producer' = [producer EXCEPT ![p] = "notify"]
         /\ offer' = [offer EXCEPT ![p] = NoJob]
         /\ Push(j)

Enqueue(p, j) ==
    /\ producer[p] = "idle" /\ j \in left
    /\ left' = left \ {j}
    /\ EnqueueLocked(p, j)
    /\ UNCHANGED <<stop, stopper, worker, job, taken, ran>>

\* Nothing ever notifies cvFull_: only a spurious wake-up gets a producer here.
EnqueueRetry(p) ==
    /\ producer[p] = "full"
    /\ EnqueueLocked(p, offer[p])
    /\ UNCHANGED <<stop, stopper, worker, job, left, taken, ran>>

EnqueueNotify(p) ==
    /\ producer[p] = "notify"
    /\ producer' = [producer EXCEPT ![p] = "idle"]
    /\ NotifyOne
    /\ UNCHANGED <<tasks, stop, stopper, offer, job, left, accepted, due,
                   taken, ran>>

-----------------------------------------------------------------------------
(* TryEnqueue *)

Refused_StopIgnored == Full
Refused == stop \/ Full

TryEnqueue(p, j) ==
    /\ producer[p] = "idle" /\ j \in left
    /\ left' = left \ {j}
    /\ IF Refused THEN UNCHANGED <<tasks, accepted, due, worker>>
                  ELSE Push(j) /\ NotifyOne
    /\ UNCHANGED <<stop, stopper, producer, offer, job, taken, ran>>

-----------------------------------------------------------------------------
(* WorkerLoop *)

Exits_AtOnce == stop
Exits == stop /\ tasks = <<>>

Take_Last(w) == /\ job' = [job EXCEPT ![w] = tasks[Len(tasks)]]
                /\ tasks' = SubSeq(tasks, 1, Len(tasks) - 1)
                /\ taken' = Append(taken, tasks[Len(tasks)])
Take(w) == /\ job' = [job EXCEPT ![w] = Head(tasks)]
           /\ tasks' = Tail(tasks)
           /\ taken' = Append(taken, Head(tasks))

WorkerCheck(w) ==
    /\ worker[w] = "check"
    /\ \/ /\ Exits
          /\ worker' = [worker EXCEPT ![w] = "exit"]
          /\ UNCHANGED <<tasks, job, taken>>
       \/ /\ ~Exits /\ tasks # <<>>
          /\ Take(w)
          /\ worker' = [worker EXCEPT ![w] = "run"]
       \/ /\ ~Exits /\ tasks = <<>>
          /\ worker' = [worker EXCEPT ![w] = "wait"]
          /\ UNCHANGED <<tasks, job, taken>>
    /\ UNCHANGED <<stop, stopper, producer, offer, left, accepted, due, ran>>

\* The job returns or throws; both lead back to the loop.
WorkerRun(w) ==
    /\ worker[w] = "run"
    /\ ran' = ran \cup {job[w]}
    /\ job' = [job EXCEPT ![w] = NoJob]
    /\ worker' = [worker EXCEPT ![w] = "check"]
    /\ UNCHANGED <<tasks, stop, stopper, producer, offer, left, accepted, due,
                   taken>>

SpuriousWake(w) ==
    /\ worker[w] = "wait"
    /\ worker' = [worker EXCEPT ![w] = "check"]
    /\ UNCHANGED <<tasks, stop, stopper, producer, offer, job, left, accepted, due,
                   taken, ran>>

-----------------------------------------------------------------------------
(* Stop *)

Stop ==
    /\ stopper = "running"
    /\ stop' = TRUE
    /\ stopper' = "joining"
    /\ NotifyAll
    /\ UNCHANGED <<tasks, producer, offer, job, left, accepted, due,
                   taken, ran>>

Join ==
    /\ stopper = "joining" /\ \A w \in Workers : worker[w] = "exit"
    /\ stopper' = "joined"
    /\ UNCHANGED <<tasks, stop, producer, offer, worker, job, left, accepted, due,
                   taken, ran>>

-----------------------------------------------------------------------------
Next == /\ UNCHANGED maxQueueSize
        /\ \/ \E p \in Producers : \/ \E j \in Jobs : Enqueue(p, j) \/ TryEnqueue(p, j)
                                   \/ EnqueueRetry(p) \/ EnqueueNotify(p)
           \/ \E w \in Workers : WorkerCheck(w) \/ WorkerRun(w) \/ SpuriousWake(w)
           \/ Stop \/ Join

Spec == Init /\ [][Next]_vars

\* Runnable threads run and jobs return; nobody is obliged to call anything, and
\* a condition variable owes no spurious wake-up.
FairSpec ==
    /\ Spec
    /\ \A p \in Producers : WF_vars(EnqueueNotify(p) /\ UNCHANGED maxQueueSize)
    /\ \A w \in Workers : WF_vars((WorkerCheck(w) \/ WorkerRun(w)) /\ UNCHANGED maxQueueSize)
    /\ WF_vars(Join /\ UNCHANGED maxQueueSize)
-----------------------------------------------------------------------------
(* Properties *)

\* Types of the queue's fields; a bounded queue keeps its bound.
TypeOK ==
    /\ maxQueueSize \in QueueSizes
    /\ tasks \in Seq(Jobs) /\ accepted \in Seq(Jobs) /\ taken \in Seq(Jobs)
    /\ maxQueueSize > 0 => Len(tasks) <= maxQueueSize
    /\ stop \in BOOLEAN /\ stopper \in {"running", "joining", "joined"}
    /\ producer \in [Producers -> ProducerLabels]
    /\ offer \in [Producers -> Jobs \cup {NoJob}]
    /\ worker \in [Workers -> WorkerLabels]
    /\ job \in [Workers -> Jobs \cup {NoJob}]
    /\ left \subseteq Jobs /\ due \subseteq Jobs /\ ran \subseteq Jobs

\* Jobs leave the queue in the order they entered it, none lost and none twice,
\* whoever pushes and whoever takes (a room's chat log keeps its order).
Fifo == accepted = taken \o tasks

\* A queued job never faces workers that all sleep: somebody is awake who will
\* look at the queue, or a notification is on its way.
NoLostWakeup ==
    tasks # <<>> /\ Waiting # {} =>
        \/ \E p \in Producers : producer[p] = "notify"
        \/ \E w \in Workers : worker[w] \in {"check", "run"}

\* Once Stop has joined the workers, every job that was accepted before the stop
\* has run, wherever it was then: ~Room may close the log file and free the room
\* its jobs point to.
StopDrains == stopper = "joined" => due \subseteq ran

\* A job that was accepted before the stop runs, with nobody stopping the queue
\* too.  (An unlimited Enqueue after the stop is accepted and may never run.)
AcceptedRuns == \A j \in Jobs : (j \in due) ~> (j \in ran)

\* "if the queue is full, wait until there is room" (JobQueue.h:61): a blocked
\* Enqueue comes back when the workers have made room or the queue stops.
EnqueueReturns == \A p \in Producers : (producer[p] = "full") ~> (producer[p] # "full")
=============================================================================
