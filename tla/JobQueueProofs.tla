--------------------------- MODULE JobQueueProofs ---------------------------
(***************************************************************************)
(* Proofs about JobQueue for any producers, workers and jobs and any bound *)
(* on the queue.                                                           *)
(*                                                                         *)
(* Fifo and NoLostWakeup are inductive together with the types.  StopDrains*)
(* is not: it needs where an accepted job is until it has run (Located),   *)
(* and that a worker leaves only when the queue is stopped and holds no    *)
(* job that came before the stop, and none enters it afterwards (Drained). *)
(***************************************************************************)
EXTENDS JobQueue, SequenceTheorems, TLAPS

\* Whoever is blocked or running has a job in hand, which is nobody else's to
\* hand in.
InHand == /\ \A p \in Producers : producer[p] = "full" => offer[p] \in Jobs \ left
          /\ \A w \in Workers : worker[w] = "run" => job[w] \in Jobs

Types == TypeOK /\ InHand

LEMMA SeqFacts ==
  ASSUME NEW S, NEW s \in Seq(S), NEW e \in S
  PROVE  /\ <<>> \in Seq(S) /\ Len(<<>>) = 0
         /\ Append(s, e) \in Seq(S) /\ Len(Append(s, e)) = Len(s) + 1
         /\ Append(s, e) # <<>>
         /\ \A i \in 1..Len(s) : Append(s, e)[i] = s[i]
         /\ Append(s, e)[Len(s) + 1] = e
         /\ Len(s) \in Nat
  OBVIOUS

LEMMA TailFacts ==
  ASSUME NEW S, NEW s \in Seq(S), s # <<>>
  PROVE  /\ Head(s) \in S /\ Head(s) = s[1]
         /\ Tail(s) \in Seq(S) /\ Len(Tail(s)) = Len(s) - 1
         /\ \A i \in 1..Len(Tail(s)) : Tail(s)[i] = s[i + 1]
         /\ Len(s) \in Nat /\ Len(s) > 0
  BY HeadTailProperties, LenProperties

\* A job that moves from one sequence's head to the other's end stays in place.
LEMMA MoveAcross ==
  ASSUME NEW S, NEW s \in Seq(S), NEW t \in Seq(S), t # <<>>
  PROVE  Append(s, Head(t)) \o Tail(t) = s \o t
  OBVIOUS

LEMMA AppendAcross ==
  ASSUME NEW S, NEW s \in Seq(S), NEW t \in Seq(S), NEW e \in S
  PROVE  s \o Append(t, e) = Append(s \o t, e)
  OBVIOUS

\* A notification moves sleeping workers only, and one of them if there is any.
LEMMA NotifyFacts ==
  ASSUME Types, NotifyOne
  PROVE  /\ worker' \in [Workers -> WorkerLabels]
         /\ \A w \in Workers : /\ worker'[w] = "run" <=> worker[w] = "run"
                               /\ worker'[w] = "exit" <=> worker[w] = "exit"
                               /\ worker[w] = "check" => worker'[w] = "check"
         /\ \/ \A w \in Workers : worker'[w] # "wait"
            \/ \E w \in Workers : worker'[w] = "check"
  BY DEF Types, TypeOK, NotifyOne, Waiting, WorkerLabels

-----------------------------------------------------------------------------
(* Types *)

LEMMA InitTypes == Init => Types
<1> SUFFICES ASSUME Init PROVE Types
  OBVIOUS
<1>1. <<>> \in Seq(Jobs) /\ Len(<<>>) = 0
  BY EmptySeq
<1>2. maxQueueSize > 0 => Len(tasks) <= maxQueueSize
  BY <1>1, QueueAssumption DEF Init
<1> QED
  BY <1>1, <1>2 DEF Init, Types, TypeOK, InHand, ProducerLabels, WorkerLabels

\* Pushing a job keeps the sequences' types and the bound.
LEMMA PushTypes ==
  ASSUME Types, NEW j \in Jobs, Push(j), ~Full, UNCHANGED maxQueueSize
  PROVE  /\ tasks' \in Seq(Jobs) /\ accepted' \in Seq(Jobs) /\ due' \subseteq Jobs
         /\ maxQueueSize' > 0 => Len(tasks') <= maxQueueSize'
<1>1. /\ Append(tasks, j) \in Seq(Jobs) /\ Append(accepted, j) \in Seq(Jobs)
      /\ Len(Append(tasks, j)) = Len(tasks) + 1 /\ Len(tasks) \in Nat
  BY SeqFacts DEF Types, TypeOK
<1>2. maxQueueSize \in Nat
  BY QueueAssumption DEF Types, TypeOK
<1>3. maxQueueSize > 0 => Len(tasks) < maxQueueSize
  BY <1>1, <1>2 DEF Full
<1>4. due' \subseteq Jobs
  BY DEF Push, Types, TypeOK
<1> QED
  BY <1>1, <1>2, <1>3, <1>4 DEF Push

\* The three outcomes of Enqueue's locked block.
LEMMA EnqueueOutcomes ==
  ASSUME NEW p \in Producers, NEW j \in Jobs, EnqueueLocked(p, j)
  PROVE  \/ /\ maxQueueSize > 0 /\ stop
            /\ producer' = [producer EXCEPT ![p] = "idle"]
            /\ offer' = [offer EXCEPT ![p] = NoJob]
            /\ UNCHANGED <<tasks, accepted, due>>
         \/ /\ Full /\ ~(maxQueueSize > 0 /\ stop)
            /\ producer' = [producer EXCEPT ![p] = "full"]
            /\ offer' = [offer EXCEPT ![p] = j]
            /\ UNCHANGED <<tasks, accepted, due>>
         \/ /\ ~Full /\ ~(maxQueueSize > 0 /\ stop)
            /\ producer' = [producer EXCEPT ![p] = "notify"]
            /\ offer' = [offer EXCEPT ![p] = NoJob]
            /\ Push(j)
  BY DEF EnqueueLocked

LEMMA EnqueueLockedTypes ==
  ASSUME Types, NEW p \in Producers, NEW j \in Jobs, EnqueueLocked(p, j),
         UNCHANGED <<maxQueueSize, stop, stopper, worker, job, taken, ran>>,
         left' \subseteq left, j \notin left'
  PROVE  Types'
<1> USE DEF Types, TypeOK, InHand, ProducerLabels, WorkerLabels
<1>1. CASE UNCHANGED <<tasks, accepted, due>>
  <2>1. /\ producer' = [producer EXCEPT ![p] = "idle"]
        /\ offer' = [offer EXCEPT ![p] = NoJob]
     \/ /\ producer' = [producer EXCEPT ![p] = "full"]
        /\ offer' = [offer EXCEPT ![p] = j]
     \/ /\ producer' = [producer EXCEPT ![p] = "notify"]
        /\ offer' = [offer EXCEPT ![p] = NoJob]
    BY EnqueueOutcomes
  <2>2. /\ producer' \in [Producers -> ProducerLabels]
        /\ offer' \in [Producers -> Jobs \cup {NoJob}]
        /\ \A q \in Producers : producer'[q] = "full" => offer'[q] \in Jobs \ left'
    BY <2>1
  <2> QED
    BY <1>1, <2>2
<1>2. CASE /\ ~Full /\ Push(j)
           /\ producer' = [producer EXCEPT ![p] = "notify"]
           /\ offer' = [offer EXCEPT ![p] = NoJob]
  <2>1. /\ tasks' \in Seq(Jobs) /\ accepted' \in Seq(Jobs) /\ due' \subseteq Jobs
        /\ maxQueueSize' > 0 => Len(tasks') <= maxQueueSize'
    BY <1>2, PushTypes
  <2>2. /\ producer' \in [Producers -> ProducerLabels]
        /\ offer' \in [Producers -> Jobs \cup {NoJob}]
        /\ \A q \in Producers : producer'[q] = "full" => offer'[q] \in Jobs \ left'
    BY <1>2
  <2> QED
    BY <2>1, <2>2
<1> QED
  BY <1>1, <1>2, EnqueueOutcomes

LEMMA TypeStep == Types /\ [Next]_vars => Types'
<1> SUFFICES ASSUME Types, [Next]_vars PROVE Types'
  OBVIOUS
<1>0. UNCHANGED maxQueueSize
  BY DEF Next, vars
<1> USE <1>0 DEF Types, TypeOK, InHand, ProducerLabels, WorkerLabels
<1>1. ASSUME NEW p \in Producers, NEW j \in Jobs, Enqueue(p, j) PROVE Types'
  <2>1. /\ EnqueueLocked(p, j)
        /\ UNCHANGED <<maxQueueSize, stop, stopper, worker, job, taken, ran>>
        /\ left' \subseteq left /\ j \notin left'
    BY <1>1 DEF Enqueue
  <2> HIDE DEF Types
  <2> QED
    BY <2>1, EnqueueLockedTypes
<1>2. ASSUME NEW p \in Producers, NEW j \in Jobs, TryEnqueue(p, j) PROVE Types'
  <2>1. CASE Refused
    BY <1>2, <2>1 DEF TryEnqueue
  <2>2. CASE ~Refused
    <3>1. /\ tasks' \in Seq(Jobs) /\ accepted' \in Seq(Jobs) /\ due' \subseteq Jobs
          /\ maxQueueSize' > 0 => Len(tasks') <= maxQueueSize'
      BY <1>2, <2>2, PushTypes DEF TryEnqueue, Refused
    <3>2. /\ worker' \in [Workers -> WorkerLabels]
          /\ \A w \in Workers : worker'[w] = "run" <=> worker[w] = "run"
      BY <1>2, <2>2, NotifyFacts DEF TryEnqueue
    <3>3. UNCHANGED <<stop, stopper, producer, offer, job, taken, ran>> /\ left' \subseteq left
      BY <1>2 DEF TryEnqueue
    <3> QED
      BY <3>1, <3>2, <3>3
  <2> QED
    BY <2>1, <2>2
<1>3. ASSUME NEW p \in Producers, EnqueueRetry(p) PROVE Types'
  <2>1. /\ offer[p] \in Jobs /\ EnqueueLocked(p, offer[p])
        /\ UNCHANGED <<maxQueueSize, stop, stopper, worker, job, taken, ran>>
        /\ left' \subseteq left /\ offer[p] \notin left'
    BY <1>3 DEF EnqueueRetry
  <2> HIDE DEF Types
  <2> QED
    BY <2>1, EnqueueLockedTypes
<1>4. ASSUME NEW p \in Producers, EnqueueNotify(p) PROVE Types'
  BY <1>4, NotifyFacts DEF EnqueueNotify
<1>5. ASSUME NEW w \in Workers, WorkerCheck(w) PROVE Types'
  <2>1. CASE tasks # <<>> /\ Take(w) /\ worker' = [worker EXCEPT ![w] = "run"]
    <3>1. /\ Head(tasks) \in Jobs /\ Tail(tasks) \in Seq(Jobs)
          /\ Len(Tail(tasks)) = Len(tasks) - 1 /\ Len(tasks) \in Nat
      BY <2>1, TailFacts
    <3>2. Append(taken, Head(tasks)) \in Seq(Jobs)
      BY <3>1, SeqFacts
    <3>3. maxQueueSize \in Nat
      BY QueueAssumption
    <3>4. maxQueueSize > 0 => Len(Tail(tasks)) <= maxQueueSize
      BY <3>1, <3>3
    <3>5. UNCHANGED <<stop, stopper, producer, offer, left, accepted, due, ran>>
      BY <1>5 DEF WorkerCheck
    <3> QED
      BY <2>1, <3>1, <3>2, <3>4, <3>5 DEF Take
  <2>2. CASE UNCHANGED <<tasks, job, taken>> /\ worker' \in [Workers -> WorkerLabels]
             /\ \A v \in Workers : worker'[v] = "run" => worker[v] = "run"
    BY <1>5, <2>2 DEF WorkerCheck
  <2> QED
    BY <1>5, <2>1, <2>2 DEF WorkerCheck
<1>6. ASSUME NEW w \in Workers, WorkerRun(w) PROVE Types'
  BY <1>6 DEF WorkerRun
<1>7. ASSUME NEW w \in Workers, SpuriousWake(w) PROVE Types'
  BY <1>7 DEF SpuriousWake
<1>8. CASE Stop
  BY <1>8 DEF Stop, NotifyAll
<1>9. CASE Join
  BY <1>9 DEF Join
<1>10. CASE UNCHANGED vars
  BY <1>10 DEF vars
<1> HIDE DEF Types
<1> QED
  BY <1>1, <1>2, <1>3, <1>4, <1>5, <1>6, <1>7, <1>8, <1>9, <1>10 DEF Next

LEMMA TypesHold == Spec => []Types
  BY InitTypes, TypeStep, PTL DEF Spec

\* The queue's fields keep their types, and a bounded queue its bound, for any
\* interleaving of Enqueue, TryEnqueue, the workers and Stop.
THEOREM TypeCorrect == Spec => []TypeOK
<1>1. Types => TypeOK
  BY DEF Types
<1> QED
  BY <1>1, TypesHold, PTL

-----------------------------------------------------------------------------
(* Order *)

LEMMA FifoPush ==
  ASSUME Types, Fifo, NEW j \in Jobs, Push(j), UNCHANGED taken
  PROVE  Fifo'
<1>1. tasks \in Seq(Jobs) /\ taken \in Seq(Jobs)
  BY DEF Types, TypeOK
<1>2. taken \o Append(tasks, j) = Append(taken \o tasks, j)
  BY <1>1, AppendAcross
<1>3. tasks' = Append(tasks, j) /\ accepted' = Append(accepted, j) /\ taken' = taken
  BY DEF Push
<1>4. accepted = taken \o tasks
  BY DEF Fifo
<1>5. accepted' = taken' \o tasks'
  BY <1>2, <1>3, <1>4, Zenon
<1> QED
  BY <1>5 DEF Fifo

LEMMA FifoStep == Types /\ Fifo /\ [Next]_vars => Fifo'
<1> SUFFICES ASSUME Types, Fifo, [Next]_vars PROVE Fifo'
  OBVIOUS
<1>1. ASSUME NEW p \in Producers, NEW j \in Jobs,
             EnqueueLocked(p, j), UNCHANGED taken
      PROVE  Fifo'
  <2>1. CASE UNCHANGED <<tasks, accepted, due>>
    BY <1>1, <2>1 DEF Fifo
  <2>2. CASE Push(j)
    BY <1>1, <2>2, FifoPush
  <2> QED
    BY <1>1, <2>1, <2>2, EnqueueOutcomes
<1>2. ASSUME NEW p \in Producers, NEW j \in Jobs, Enqueue(p, j) PROVE Fifo'
  BY <1>1, <1>2 DEF Enqueue
<1>3. ASSUME NEW p \in Producers, NEW j \in Jobs, TryEnqueue(p, j) PROVE Fifo'
  <2>1. CASE UNCHANGED <<tasks, accepted, due, worker>>
    BY <1>3, <2>1 DEF TryEnqueue, Fifo
  <2>2. CASE Push(j)
    BY <1>3, <2>2, FifoPush DEF TryEnqueue
  <2> QED
    BY <1>3, <2>1, <2>2 DEF TryEnqueue
<1>4. ASSUME NEW p \in Producers, EnqueueRetry(p) PROVE Fifo'
  <2>1. offer[p] \in Jobs
    BY <1>4 DEF EnqueueRetry, Types, InHand
  <2> QED
    BY <1>1, <1>4, <2>1 DEF EnqueueRetry
<1>5. ASSUME NEW p \in Producers, EnqueueNotify(p) PROVE Fifo'
  BY <1>5 DEF EnqueueNotify, Fifo
<1>6. ASSUME NEW w \in Workers, WorkerCheck(w) PROVE Fifo'
  <2>1. CASE tasks # <<>> /\ Take(w)
    <3>1. tasks \in Seq(Jobs) /\ taken \in Seq(Jobs)
      BY DEF Types, TypeOK
    <3>2. Append(taken, Head(tasks)) \o Tail(tasks) = taken \o tasks
      BY <2>1, <3>1, MoveAcross
    <3>3. UNCHANGED accepted
      BY <1>6 DEF WorkerCheck
    <3> QED
      BY <2>1, <3>2, <3>3 DEF Take, Fifo
  <2>2. CASE UNCHANGED <<tasks, job, taken>>
    BY <1>6, <2>2 DEF WorkerCheck, Fifo
  <2> QED
    BY <1>6, <2>1, <2>2 DEF WorkerCheck
<1>7. ASSUME NEW w \in Workers, WorkerRun(w) \/ SpuriousWake(w) PROVE Fifo'
  BY <1>7 DEF WorkerRun, SpuriousWake, Fifo
<1>8. CASE Stop \/ Join \/ UNCHANGED vars
  BY <1>8 DEF Stop, Join, vars, Fifo
<1> QED
  BY <1>2, <1>3, <1>4, <1>5, <1>6, <1>7, <1>8 DEF Next

\* Jobs leave the queue in the order they entered it, none lost and none twice.
THEOREM Order == Spec => []Fifo
<1>1. Init => Fifo
  <2>1. <<>> \in Seq(Jobs)
    BY EmptySeq
  <2>2. <<>> \o <<>> = <<>>
    BY <2>1, ConcatEmptySeq
  <2> QED
    BY <2>2 DEF Init, Fifo
<1> QED
  BY <1>1, FifoStep, TypesHold, PTL DEF Spec

-----------------------------------------------------------------------------
(* No lost wake-up *)

LEMMA WakeupStep == Types /\ NoLostWakeup /\ [Next]_vars => NoLostWakeup'
<1> SUFFICES ASSUME Types, NoLostWakeup, [Next]_vars PROVE NoLostWakeup'
  OBVIOUS
<1> USE DEF NoLostWakeup, Waiting
<1>0. /\ producer \in [Producers -> ProducerLabels]
      /\ worker \in [Workers -> WorkerLabels]
  BY DEF Types, TypeOK
<1>1. ASSUME NEW p \in Producers, NEW j, j \in Jobs, EnqueueLocked(p, j),
             UNCHANGED worker, producer[p] # "notify"
      PROVE  NoLostWakeup'
  <2>1. CASE /\ UNCHANGED <<tasks, accepted, due>>
             /\ \A q \in Producers \ {p} : producer'[q] = producer[q]
    BY <1>0, <1>1, <2>1
  <2>2. CASE producer' = [producer EXCEPT ![p] = "notify"]
    BY <1>0, <2>2
  <2>3. \/ UNCHANGED <<tasks, accepted, due>> /\ producer' = [producer EXCEPT ![p] = "idle"]
        \/ UNCHANGED <<tasks, accepted, due>> /\ producer' = [producer EXCEPT ![p] = "full"]
        \/ producer' = [producer EXCEPT ![p] = "notify"]
    BY <1>1, EnqueueOutcomes
  <2> QED
    BY <1>0, <2>1, <2>2, <2>3
<1>2. ASSUME NEW p \in Producers, NEW j \in Jobs, Enqueue(p, j) PROVE NoLostWakeup'
  BY <1>1, <1>2 DEF Enqueue
<1>3. ASSUME NEW p \in Producers, NEW j \in Jobs, TryEnqueue(p, j) PROVE NoLostWakeup'
  <2>1. CASE UNCHANGED <<tasks, accepted, due, worker>>
    BY <1>3, <2>1 DEF TryEnqueue
  <2>2. CASE NotifyOne
    BY <2>2, NotifyFacts
  <2> QED
    BY <1>3, <2>1, <2>2 DEF TryEnqueue
<1>4. ASSUME NEW p \in Producers, EnqueueRetry(p) PROVE NoLostWakeup'
  <2>1. /\ offer[p] \in Jobs /\ EnqueueLocked(p, offer[p])
        /\ UNCHANGED worker /\ producer[p] # "notify"
    BY <1>4 DEF EnqueueRetry, Types, InHand
  <2> QED
    BY <1>1, <2>1
<1>5. ASSUME NEW p \in Producers, EnqueueNotify(p) PROVE NoLostWakeup'
  BY <1>5, NotifyFacts DEF EnqueueNotify
<1>6. ASSUME NEW w \in Workers, WorkerCheck(w) PROVE NoLostWakeup'
  <2>1. CASE worker' = [worker EXCEPT ![w] = "run"]
    BY <1>0, <2>1
  <2>2. CASE tasks = <<>> /\ UNCHANGED <<tasks, job, taken>>
    BY <2>2
  <2> QED
    BY <1>6, <2>1, <2>2 DEF WorkerCheck, Exits
<1>7. ASSUME NEW w \in Workers, WorkerRun(w) \/ SpuriousWake(w) PROVE NoLostWakeup'
  BY <1>0, <1>7 DEF WorkerRun, SpuriousWake
<1>8. CASE Stop
  BY <1>0, <1>8 DEF Stop, NotifyAll
<1>9. CASE Join \/ UNCHANGED vars
  BY <1>9 DEF Join, vars
<1> QED
  BY <1>2, <1>3, <1>4, <1>5, <1>6, <1>7, <1>8, <1>9 DEF Next

\* A queued job never faces workers that all sleep without a notification under
\* way, for any number of producers and workers.
THEOREM NoneSleepsOnWork == Spec => []NoLostWakeup
<1>1. Init => NoLostWakeup
  BY DEF Init, NoLostWakeup
<1> QED
  BY <1>1, WakeupStep, TypesHold, PTL DEF Spec

-----------------------------------------------------------------------------
(* Stop drains the queue *)

Queued(j) == \E i \in 1..Len(tasks) : tasks[i] = j

\* A job accepted before the stop has run, is running, or is queued.
Located == \A j \in due : \/ j \in ran \/ Queued(j)
                          \/ \E w \in Workers : worker[w] = "run" /\ job[w] = j

\* Nobody can hand an accepted job in again; a worker leaves a stopped queue
\* without jobs from before the stop; ~Room waits for every worker.
Drained ==
    /\ due \cap left = {}
    /\ \A p \in Producers : producer[p] = "full" => maxQueueSize > 0
    /\ stopper = "running" => ~stop
    /\ \A w \in Workers : worker[w] = "exit" => stop /\ \A j \in due : ~Queued(j)
    /\ stopper = "joined" => \A w \in Workers : worker[w] = "exit"

DInv == Located /\ Drained

\* A push: the job is queued, what was queued stays so, and after the stop it is
\* not one of those that count.
LEMMA DrainPush ==
  ASSUME Types, DInv, NEW j \in Jobs, Push(j), left' \subseteq left \ {j},
         stop => j \in left,
         UNCHANGED <<maxQueueSize, stop, stopper, job, ran>>,
         \A w \in Workers : /\ worker'[w] = "run" <=> worker[w] = "run"
                            /\ worker'[w] = "exit" <=> worker[w] = "exit",
         \A p \in Producers : producer'[p] = "full" => producer[p] = "full"
  PROVE  DInv'
<1>1. /\ tasks' = Append(tasks, j) /\ Len(tasks') = Len(tasks) + 1
      /\ \A i \in 1..Len(tasks) : tasks'[i] = tasks[i]
      /\ tasks'[Len(tasks) + 1] = j /\ Len(tasks) \in Nat
  BY SeqFacts DEF Push, Types, TypeOK
<1>2. \A k : Queued(k)' <=> Queued(k) \/ k = j
  BY <1>1 DEF Queued
<1>3. due' = IF stop THEN due ELSE due \cup {j}
  BY DEF Push
<1>4. Located'
  BY <1>2, <1>3 DEF DInv, Located
<1>5. Drained'
  <2>1. due' \cap left' = {}
    BY <1>3 DEF DInv, Drained
  <2>2. ASSUME NEW w \in Workers, worker'[w] = "exit"
        PROVE  stop' /\ \A k \in due' : ~Queued(k)'
    BY <1>2, <1>3, <2>2 DEF DInv, Drained
  <2> QED
    BY <2>1, <2>2 DEF DInv, Drained
<1> QED
  BY <1>4, <1>5 DEF DInv

\* A step that leaves the jobs where they are.
LEMMA DrainFrame ==
  ASSUME DInv, UNCHANGED <<maxQueueSize, tasks, due, ran, job>>, left' \subseteq left,
         stop => stop', stopper' = "running" => ~stop',
         \A w \in Workers : worker[w] = "run" => worker'[w] = "run",
         \A w \in Workers : worker'[w] = "exit" =>
               worker[w] = "exit" \/ (stop' /\ \A j \in due : ~Queued(j)),
         stopper' = "joined" => \A w \in Workers : worker'[w] = "exit",
         \A p \in Producers : producer'[p] = "full" => maxQueueSize > 0
  PROVE  DInv'
<1>1. \A j : Queued(j)' <=> Queued(j)
  BY DEF Queued
<1>2. Located'
  BY <1>1 DEF DInv, Located
<1>3. Drained'
  BY <1>1 DEF DInv, Drained
<1> QED
  BY <1>2, <1>3 DEF DInv

LEMMA DrainStep == Types /\ DInv /\ [Next]_vars => DInv'
<1> SUFFICES ASSUME Types, DInv, [Next]_vars PROVE DInv'
  OBVIOUS
<1>0. /\ UNCHANGED maxQueueSize
      /\ producer \in [Producers -> ProducerLabels]
      /\ worker \in [Workers -> WorkerLabels]
      /\ job \in [Workers -> Jobs \cup {NoJob}]
      /\ tasks \in Seq(Jobs)
  BY DEF Next, vars, Types, TypeOK
<1>d. /\ due \cap left = {}
      /\ \A p \in Producers : producer[p] = "full" => maxQueueSize > 0
      /\ stopper = "running" => ~stop
      /\ \A w \in Workers : worker[w] = "exit" => stop /\ \A j \in due : ~Queued(j)
      /\ stopper = "joined" => \A w \in Workers : worker[w] = "exit"
  BY DEF DInv, Drained
<1>1. ASSUME NEW p \in Producers, NEW j \in Jobs, EnqueueLocked(p, j),
             left' \subseteq left \ {j}, stop /\ maxQueueSize = 0 => j \in left,
             UNCHANGED <<stop, stopper, worker, job, ran>>
      PROVE  DInv'
  <2>0. maxQueueSize \in Nat
    BY QueueAssumption DEF Types, TypeOK
  <2>1. CASE /\ UNCHANGED <<tasks, accepted, due>>
             /\ \A q \in Producers : producer'[q] = "full" => maxQueueSize > 0
    BY <1>0, <1>d, <1>1, <2>1, DrainFrame
  <2>2. CASE /\ Push(j) /\ ~(maxQueueSize > 0 /\ stop)
             /\ producer' = [producer EXCEPT ![p] = "notify"]
    <3>1. \A q \in Producers : producer'[q] = "full" => producer[q] = "full"
      BY <1>0, <2>2
    <3>2. stop => j \in left
      BY <1>1, <2>0, <2>2
    <3> QED
      BY <1>0, <1>1, <2>2, <3>1, <3>2, DrainPush
  <2>3. \/ /\ UNCHANGED <<tasks, accepted, due>> /\ maxQueueSize > 0
        \/ /\ Push(j) /\ ~(maxQueueSize > 0 /\ stop)
           /\ producer' = [producer EXCEPT ![p] = "notify"]
    BY <1>1, EnqueueOutcomes DEF Full
  <2> QED
    BY <2>1, <2>2, <2>3
<1>2. ASSUME NEW p \in Producers, NEW j \in Jobs, Enqueue(p, j) PROVE DInv'
  BY <1>1, <1>2 DEF Enqueue
<1>3. ASSUME NEW p \in Producers, NEW j \in Jobs, TryEnqueue(p, j) PROVE DInv'
  <2>0. /\ left' = left \ {j} /\ j \in left
        /\ UNCHANGED <<stop, stopper, producer, job, ran>>
    BY <1>3 DEF TryEnqueue
  <2>1. CASE UNCHANGED <<tasks, accepted, due, worker>>
    BY <1>0, <1>d, <2>0, <2>1, DrainFrame
  <2>2. CASE Push(j) /\ NotifyOne
    BY <1>0, <2>0, <2>2, NotifyFacts, DrainPush
  <2> QED
    BY <1>3, <2>1, <2>2 DEF TryEnqueue
<1>4. ASSUME NEW p \in Producers, EnqueueRetry(p) PROVE DInv'
  <2>1. /\ offer[p] \in Jobs \ left /\ EnqueueLocked(p, offer[p]) /\ maxQueueSize > 0
        /\ UNCHANGED <<left, stop, stopper, worker, job, ran>>
    BY <1>4, <1>d DEF EnqueueRetry, Types, InHand
  <2>2. ~(maxQueueSize = 0) /\ left' \subseteq left \ {offer[p]}
    BY <2>1
  <2> QED
    BY <1>1, <2>1, <2>2
<1>5. ASSUME NEW p \in Producers, EnqueueNotify(p) PROVE DInv'
  <2>1. UNCHANGED <<tasks, stop, stopper, job, left, due, ran>>
    BY <1>5 DEF EnqueueNotify
  <2>2. \A q \in Producers : producer'[q] = "full" => maxQueueSize > 0
    BY <1>0, <1>d, <1>5 DEF EnqueueNotify
  <2>3. \A w \in Workers : /\ worker'[w] = "run" <=> worker[w] = "run"
                           /\ worker'[w] = "exit" <=> worker[w] = "exit"
    BY <1>5, NotifyFacts DEF EnqueueNotify
  <2> QED
    BY <1>0, <1>d, <2>1, <2>2, <2>3, DrainFrame
<1>6. ASSUME NEW w \in Workers, WorkerCheck(w) PROVE DInv'
  <2>0. UNCHANGED <<stop, stopper, producer, left, due, ran>>
    BY <1>6 DEF WorkerCheck
  <2>1. CASE /\ tasks # <<>> /\ Take(w) /\ worker[w] = "check"
             /\ worker' = [worker EXCEPT ![w] = "run"]
    <3>1. /\ tasks' = Tail(tasks) /\ Head(tasks) = tasks[1]
          /\ Len(tasks') = Len(tasks) - 1 /\ Len(tasks) \in Nat /\ Len(tasks) > 0
          /\ \A i \in 1..Len(tasks') : tasks'[i] = tasks[i + 1]
      BY <1>0, <2>1, TailFacts DEF Take
    <3>2. job' = [job EXCEPT ![w] = Head(tasks)]
      BY <2>1 DEF Take
    <3>3. ASSUME NEW k, Queued(k) PROVE Queued(k)' \/ k = Head(tasks)
      <4>1. PICK i \in 1..Len(tasks) : tasks[i] = k
        BY <3>3 DEF Queued
      <4>2. CASE i = 1
        BY <3>1, <4>1, <4>2
      <4>3. CASE i > 1
        <5>1. i - 1 \in 1..Len(tasks') /\ (i - 1) + 1 = i
          BY <3>1, <4>1, <4>3
        <5>2. tasks'[i - 1] = k
          BY <3>1, <4>1, <5>1
        <5> QED
          BY <5>1, <5>2 DEF Queued
      <4> QED
        BY <4>1, <4>2, <4>3
    <3>4. ASSUME NEW k, Queued(k)' PROVE Queued(k)
      <4>1. PICK i \in 1..Len(tasks') : tasks'[i] = k
        BY <3>4 DEF Queued
      <4>2. i + 1 \in 1..Len(tasks) /\ tasks[i + 1] = k
        BY <3>1, <4>1
      <4> QED
        BY <4>2 DEF Queued
    <3>5. Located'
      <4> SUFFICES ASSUME NEW j \in due
                   PROVE  \/ j \in ran \/ Queued(j)'
                          \/ \E v \in Workers : worker'[v] = "run" /\ job'[v] = j
        BY <2>0 DEF Located
      <4>1. CASE j \in ran
        BY <4>1
      <4>2. CASE Queued(j)
        BY <1>0, <2>1, <3>2, <3>3, <4>2
      <4>3. ASSUME NEW v \in Workers, worker[v] = "run", job[v] = j
            PROVE  worker'[v] = "run" /\ job'[v] = j
        BY <1>0, <2>1, <3>2, <4>3
      <4> QED
        BY <4>1, <4>2, <4>3 DEF DInv, Located
    <3>6. \A v \in Workers : worker'[v] = "exit" <=> worker[v] = "exit"
      BY <1>0, <2>1
    <3>7. Drained'
      BY <1>0, <1>d, <2>0, <3>4, <3>6 DEF Drained
    <3> QED
      BY <3>5, <3>7 DEF DInv
  <2>2. CASE /\ Exits /\ worker[w] = "check" /\ worker' = [worker EXCEPT ![w] = "exit"]
             /\ UNCHANGED <<tasks, job, taken>>
    <3>1. stop' /\ \A j \in due : ~Queued(j)
      BY <2>0, <2>2, EmptySeq DEF Exits, Queued
    <3>2. \A v \in Workers : /\ worker[v] = "run" => worker'[v] = "run"
                             /\ worker'[v] = "exit" => worker[v] = "exit" \/ v = w
                             /\ worker[v] = "exit" => worker'[v] = "exit"
      BY <1>0, <2>2
    <3> QED
      BY <1>0, <1>d, <2>0, <2>2, <3>1, <3>2, DrainFrame
  <2>3. CASE /\ worker[w] = "check" /\ worker' = [worker EXCEPT ![w] = "wait"]
             /\ UNCHANGED <<tasks, job, taken>>
    <3>1. \A v \in Workers : /\ worker[v] = "run" => worker'[v] = "run"
                             /\ worker'[v] = "exit" <=> worker[v] = "exit"
      BY <1>0, <2>3
    <3> QED
      BY <1>0, <1>d, <2>0, <2>3, <3>1, DrainFrame
  <2> QED
    BY <1>6, <2>1, <2>2, <2>3 DEF WorkerCheck
<1>7. ASSUME NEW w \in Workers, WorkerRun(w) PROVE DInv'
  <2>0. /\ UNCHANGED <<tasks, stop, stopper, producer, left, due>>
        /\ ran' = ran \cup {job[w]} /\ worker[w] = "run"
        /\ worker' = [worker EXCEPT ![w] = "check"] /\ job' = [job EXCEPT ![w] = NoJob]
    BY <1>7 DEF WorkerRun
  <2>1. \A j : Queued(j)' <=> Queued(j)
    BY <2>0 DEF Queued
  <2>2. \A v \in Workers : /\ worker'[v] = "exit" <=> worker[v] = "exit"
                           /\ v # w => worker'[v] = worker[v] /\ job'[v] = job[v]
    BY <1>0, <2>0
  <2>3. Located'
    BY <2>0, <2>1, <2>2 DEF DInv, Located
  <2>4. Drained'
    BY <1>0, <1>d, <2>0, <2>1, <2>2 DEF Drained
  <2> QED
    BY <2>3, <2>4 DEF DInv
<1>8. ASSUME NEW w \in Workers, SpuriousWake(w) PROVE DInv'
  <2>0. /\ UNCHANGED <<tasks, stop, stopper, producer, job, left, due, ran>>
        /\ worker[w] = "wait" /\ worker' = [worker EXCEPT ![w] = "check"]
    BY <1>8 DEF SpuriousWake
  <2>1. \A v \in Workers : /\ worker[v] = "run" => worker'[v] = "run"
                           /\ worker'[v] = "exit" <=> worker[v] = "exit"
    BY <1>0, <2>0
  <2> QED
    BY <1>0, <1>d, <2>0, <2>1, DrainFrame
<1>9. CASE Stop
  <2>0. /\ UNCHANGED <<tasks, producer, job, left, due, ran>>
        /\ stop' = TRUE /\ stopper' = "joining"
    BY <1>9 DEF Stop
  <2>1. \A v \in Workers : /\ worker[v] = "run" => worker'[v] = "run"
                           /\ worker'[v] = "exit" <=> worker[v] = "exit"
    BY <1>0, <1>9 DEF Stop, NotifyAll
  <2> QED
    BY <1>0, <1>d, <2>0, <2>1, DrainFrame
<1>10. CASE Join
  <2>0. /\ UNCHANGED <<tasks, stop, producer, worker, job, left, due, ran>>
        /\ stopper' = "joined" /\ \A w \in Workers : worker[w] = "exit"
    BY <1>10 DEF Join
  <2> QED
    BY <1>0, <1>d, <2>0, DrainFrame
<1>11. CASE UNCHANGED vars
  <2>0. UNCHANGED <<tasks, stop, stopper, producer, worker, job, left, due, ran>>
    BY <1>11 DEF vars
  <2> QED
    BY <1>0, <1>d, <2>0, DrainFrame
<1> QED
  BY <1>2, <1>3, <1>4, <1>5, <1>6, <1>7, <1>8, <1>9, <1>10, <1>11 DEF Next

\* When Stop has joined the workers, every job accepted before the stop has run.
THEOREM StopRunsEverything == Spec => []StopDrains
<1>1. Init => DInv
  BY DEF Init, DInv, Located, Drained
<1>2. DInv => StopDrains
  <2> SUFFICES ASSUME DInv, stopper = "joined", NEW j \in due PROVE j \in ran
    BY DEF StopDrains
  <2>1. PICK w \in Workers : TRUE
    BY QueueAssumption
  <2>2. \A v \in Workers : worker[v] = "exit"
    BY DEF DInv, Drained
  <2>3. ~Queued(j)
    BY <2>1, <2>2 DEF DInv, Drained
  <2> QED
    BY <2>2, <2>3 DEF DInv, Located
<1> QED
  BY <1>1, <1>2, DrainStep, TypesHold, PTL DEF Spec
=============================================================================
