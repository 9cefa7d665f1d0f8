-------------------------- MODULE DBConnectionPool --------------------------
(***************************************************************************)
(* ServerCore/DBConnectionPool: a queue of connections under one mutex     *)
(* with a condition variable.  Worker threads (the login handler) and room *)
(* workers (Room::LogChatToDB) pop a connection, use it and push it back;  *)
(* Clear, run by the destructor, shuts the pool down.                      *)
(*                                                                         *)
(* main calls Connect before it launches a thread and aborts when it fails,*)
(* so a pool in use starts with all its connections.  A block under the    *)
(* mutex is one step; Push notifies after it, in a step of its own.  A     *)
(* waiting Pop re-evaluates its predicate when notified, or spuriously.    *)
(***************************************************************************)
EXTENDS Integers, Sequences, FiniteSets, SequencesExt

CONSTANTS Threads,
          Connections,  \* the DBConnection objects Connect made
          None          \* no connection in hand

ASSUME PoolAssumption == /\ IsFiniteSet(Threads) /\ IsFiniteSet(Connections)
                         /\ None \notin Connections

VARIABLES connections,  \* _connections
          shutdown,     \* _shutdown
          deleted,      \* connections Clear has deleted
          pc,           \* where each thread is
          held          \* the connection in each thread's hand

vars == <<connections, shutdown, deleted, pc, held>>

Labels == {"idle",      \* outside the pool
           "pop",       \* Pop: about to lock and test the predicate
           "wait",      \* Pop: on the condition variable
           "using",     \* holding a connection
           "notify"}    \* Push: about to call notify_one

Goto(t, label) == pc' = [pc EXCEPT ![t] = label]

Init == /\ connections \in SetToSeqs(Connections)
        /\ shutdown = FALSE /\ deleted = {}
        /\ pc = [t \in Threads |-> "idle"]
        /\ held = [t \in Threads |-> None]

-----------------------------------------------------------------------------
(* Pop *)

Pop(t) == /\ pc[t] = "idle" /\ Goto(t, "pop")
          /\ UNCHANGED <<connections, shutdown, deleted, held>>

MustWait_ShutdownIgnored == connections = <<>>
MustWait == connections = <<>> /\ ~shutdown

PopWait(t) ==
    /\ pc[t] = "pop" /\ MustWait
    /\ Goto(t, "wait")
    /\ UNCHANGED <<connections, shutdown, deleted, held>>

\* Pop returns nullptr: the login handler answers CONNECT_FAIL, a log job gives up.
PopShutdown(t) ==
    /\ pc[t] = "pop" /\ ~MustWait /\ shutdown
    /\ Goto(t, "idle")
    /\ UNCHANGED <<connections, shutdown, deleted, held>>

Rest_NotPopped == connections
Rest == Tail(connections)

PopTake(t) ==
    /\ pc[t] = "pop" /\ ~MustWait /\ ~shutdown
    /\ held' = [held EXCEPT ![t] = Head(connections)]
    /\ connections' = Rest
    /\ Goto(t, "using")
    /\ UNCHANGED <<shutdown, deleted>>

SpuriousWake(t) ==
    /\ pc[t] = "wait" /\ Goto(t, "pop")
    /\ UNCHANGED <<connections, shutdown, deleted, held>>

-----------------------------------------------------------------------------
(* Push *)

HandsBack_Keeps(t) == held
HandsBack(t) == [held EXCEPT ![t] = None]

Push(t) ==
    /\ pc[t] = "using"
    /\ connections' = Append(connections, held[t])
    /\ held' = HandsBack(t)
    /\ Goto(t, "notify")
    /\ UNCHANGED <<shutdown, deleted>>

Waiting == {t \in Threads : pc[t] = "wait"}

Woken_Nobody(t) == {}
\* notify_one reaches one of the waiting threads, if there is one.
Woken(t) == Waiting

PushNotify(t) ==
    /\ pc[t] = "notify"
    /\ \/ Woken(t) = {} /\ Goto(t, "idle")
       \/ \E u \in Woken(t) : pc' = [pc EXCEPT ![t] = "idle", ![u] = "pop"]
    /\ UNCHANGED <<connections, shutdown, deleted, held>>

-----------------------------------------------------------------------------
(* Clear *)

Clear ==
    /\ ~shutdown
    /\ shutdown' = TRUE
    /\ pc' = [t \in Threads |-> IF pc[t] = "wait" THEN "pop" ELSE pc[t]]
    /\ deleted' = deleted \cup ToSet(connections)
    /\ connections' = <<>>
    /\ UNCHANGED held

-----------------------------------------------------------------------------
Inside(t) == PopWait(t) \/ PopShutdown(t) \/ PopTake(t) \/ Push(t) \/ PushNotify(t)

Next == \/ \E t \in Threads : Pop(t) \/ Inside(t) \/ SpuriousWake(t)
        \/ Clear

Spec == Init /\ [][Next]_vars

\* A thread in Pop or Push goes on and a query ends; nothing makes a thread pop,
\* the pool be cleared, or a wait end without a notification.
FairSpec == Spec /\ \A t \in Threads : WF_vars(Inside(t))
-----------------------------------------------------------------------------
(* Properties *)

\* Types; a thread has a connection exactly while it uses one.
TypeOK ==
    /\ connections \in Seq(Connections)
    /\ shutdown \in BOOLEAN /\ deleted \subseteq Connections
    /\ pc \in [Threads -> Labels]
    /\ held \in [Threads -> Connections \cup {None}]
    /\ \A t \in Threads : held[t] # None <=> pc[t] = "using"

\* No connection is in two hands, in a hand and in the queue, twice in the
\* queue, or deleted while somebody could still use it; and none gets lost.
Free == ToSet(connections)
InUse == {held[t] : t \in Threads} \ {None}
Conserved ==
    /\ \A t, u \in Threads : held[t] # None /\ held[t] = held[u] => t = u
    /\ \A i, j \in DOMAIN connections : connections[i] = connections[j] => i = j
    /\ Free \cap InUse = {} /\ deleted \cap (Free \cup InUse) = {}
    /\ Free \cup InUse \cup deleted = Connections

\* A thread sleeps only while every free connection has a thread awake that will
\* take it or is about to tell of it (notify_one after the unlock loses none),
\* and nobody sleeps on a pool that is shut down.
Awake == {t \in Threads : pc[t] \in {"pop", "notify"}}
NoLostWakeup == Waiting # {} => /\ Len(connections) <= Cardinality(Awake)
                                /\ ~shutdown

=============================================================================
