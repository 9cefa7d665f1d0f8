------------------------------- MODULE RoomLog -------------------------------
(***************************************************************************)
(* A Room's chat log: the Room's JobQueue (one worker, unlimited, fed by   *)
(* TryEnqueue) whose jobs write a line to the log file (LogChat) or a row  *)
(* to the database (LogChatToDB), composed with the connection pool, which *)
(* the login handlers on the network threads use at the same time.         *)
(*                                                                         *)
(* A database job is a Pop, a query and a Push on the room's worker; it    *)
(* gives up when the pool is shut down.  A file job is one step.  ~Room    *)
(* stops the queue.                                                        *)
(***************************************************************************)
EXTENDS DBConnectionPool

CONSTANTS RoomWorker,       \* the thread Room::Room started; it uses the pool
          Producers,        \* network threads that run chat handlers
          Jobs, NoJob,      \* logged messages
          DbJobs            \* those that came through LogChatToDB

ASSUME RoomLogAssumption ==
    RoomWorker \in Threads /\ NoJob \notin Jobs /\ DbJobs \subseteq Jobs

VARIABLES maxQueueSize, tasks, stop, stopper, producer, offer, worker, job, left,
          accepted, due, taken, ran

Queue == INSTANCE JobQueue WITH Workers <- {RoomWorker}, QueueSizes <- {0}

queueVars == <<maxQueueSize, tasks, stop, stopper, producer, offer, worker, job, left,
               accepted, due, taken, ran>>
roomVars == <<vars, queueVars>>

LogInit == Init /\ Queue!Init

-----------------------------------------------------------------------------
\* LogChat and LogChatToDB, on any network thread.
LogChat(p, j) == Queue!TryEnqueue(p, j) /\ UNCHANGED <<vars, maxQueueSize>>

\* The login handler's use of the pool.
LoginHandlers == Threads \ {RoomWorker}
LoginPop(t) == Pop(t) /\ UNCHANGED queueVars
LoginInside(t) == Inside(t) /\ UNCHANGED queueVars
LoginWakes(t) == SpuriousWake(t) /\ UNCHANGED queueVars

\* The worker between two jobs.
WorkerCheck == Queue!WorkerCheck(RoomWorker) /\ UNCHANGED <<vars, maxQueueSize>>

Running(jobs) == worker[RoomWorker] = "run" /\ job[RoomWorker] \in jobs

FileJob == /\ Running(Jobs \ DbJobs)
           /\ Queue!WorkerRun(RoomWorker)
           /\ UNCHANGED <<vars, maxQueueSize>>

DbJobPop == Running(DbJobs) /\ Pop(RoomWorker) /\ UNCHANGED queueVars

DbJobGoesOn == /\ PopWait(RoomWorker) \/ PopTake(RoomWorker) \/ Push(RoomWorker)
               /\ UNCHANGED queueVars

DbJobEnds_StillUsing == /\ Running(DbJobs) /\ pc[RoomWorker] = "using"
                        /\ Queue!WorkerRun(RoomWorker)
                        /\ UNCHANGED <<vars, maxQueueSize>>
\* The job returns after its Push, or at once from a Pop that gave nothing.
DbJobEnds == /\ PopShutdown(RoomWorker) \/ PushNotify(RoomWorker)
             /\ Queue!WorkerRun(RoomWorker)
             /\ UNCHANGED maxQueueSize

Worker == WorkerCheck \/ FileJob \/ DbJobPop \/ DbJobGoesOn \/ DbJobEnds

\* Either condition variable may wake the worker for nothing.
WorkerWakes == \/ Queue!SpuriousWake(RoomWorker) /\ UNCHANGED <<vars, maxQueueSize>>
               \/ SpuriousWake(RoomWorker) /\ UNCHANGED queueVars

\* ~Room, and the end of the process.
StopQueue == Queue!Stop /\ UNCHANGED <<vars, maxQueueSize>>
JoinWorker == Queue!Join /\ UNCHANGED <<vars, maxQueueSize>>
ClearPool == Clear /\ UNCHANGED queueVars

-----------------------------------------------------------------------------
LogNext == \/ \E p \in Producers, j \in Jobs : LogChat(p, j)
           \/ \E t \in LoginHandlers : LoginPop(t) \/ LoginInside(t) \/ LoginWakes(t)
           \/ Worker \/ WorkerWakes
           \/ StopQueue \/ JoinWorker \/ ClearPool

LogSpec == LogInit /\ [][LogNext]_roomVars

\* Runnable threads run, queries end, and ~Room goes on when its worker is gone.
LogFairSpec == /\ LogSpec
               /\ WF_roomVars(Worker) /\ WF_roomVars(JoinWorker)
               /\ \A t \in LoginHandlers : WF_roomVars(LoginInside(t))
-----------------------------------------------------------------------------
(* Properties.  Conserved and NoLostWakeup are the pool's, here with the      *)
(* room's worker among its users.                                             *)

\* Types of both parts; the worker uses the pool only inside a database job.
LogTypeOK == TypeOK /\ Queue!TypeOK /\ (pc[RoomWorker] # "idle" => Running(DbJobs))

\* When ~Room's Stop returns, every message logged before it was written or given
\* up for a dead pool, and the worker left no connection and no wait behind.
StopsClean == /\ Queue!StopDrains
              /\ stopper = "joined" => pc[RoomWorker] = "idle"

\* ~Room comes back although its worker may be waiting for a connection that
\* login handlers hold, unless logins keep the pool busy for ever.
LoginsPause == <>[](\A t \in LoginHandlers : pc[t] = "idle")
RoomStops == LoginsPause => ((stopper = "joining") ~> (stopper = "joined"))
=============================================================================
