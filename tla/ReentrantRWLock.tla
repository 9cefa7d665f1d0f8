--------------------------- MODULE ReentrantRWLock ---------------------------
(***************************************************************************)
(* What the users of ServerCore's Lock rely on (Lock.h:8-10): any number   *)
(* of readers or one writer, re-entrant for the writer, who may also read. *)
(* SessionSend, ChatRooms and the other modules take a lock in this sense. *)
(***************************************************************************)
EXTENDS Integers

CONSTANT Threads

VARIABLES writes,   \* writes[t]: write holds of thread t
          reads     \* reads[t]:  read holds of thread t

rwVars == <<writes, reads>>

Holds(t) == writes[t] > 0 \/ reads[t] > 0

RWInit == /\ writes = [t \in Threads |-> 0]
          /\ reads = [t \in Threads |-> 0]

AcquireWrite(t) == /\ \A u \in Threads \ {t} : ~Holds(u)
                   /\ reads[t] = 0
                   /\ writes' = [writes EXCEPT ![t] = @ + 1]
                   /\ UNCHANGED reads

ReleaseWrite(t) == /\ writes[t] > 0
                   /\ writes' = [writes EXCEPT ![t] = @ - 1]
                   /\ UNCHANGED reads

AcquireRead(t) == /\ \A u \in Threads \ {t} : writes[u] = 0
                  /\ reads' = [reads EXCEPT ![t] = @ + 1]
                  /\ UNCHANGED writes

ReleaseRead(t) == /\ reads[t] > 0
                  /\ reads' = [reads EXCEPT ![t] = @ - 1]
                  /\ UNCHANGED writes

RWNext == \E t \in Threads : \/ AcquireWrite(t) \/ ReleaseWrite(t)
                             \/ AcquireRead(t) \/ ReleaseRead(t)

RWSpec == RWInit /\ [][RWNext]_rwVars
=============================================================================
