----------------------------- MODULE LockProfiler -----------------------------
(***************************************************************************)
(* DeadLockProfiler, and the locks that feed it in a debug build: a thread *)
(* announces a lock by name before it waits for it, the profiler records   *)
(* the order (previous lock, this lock) and looks for a cycle, by a        *)
(* depth-first search from every lock, whenever an order is new.           *)
(*                                                                         *)
(* A name is the class that owns the lock (typeid(this).name()), so locks  *)
(* of two objects share one.  Locks are taken for writing only here, by    *)
(* guards: the last one taken is the first one given back.                 *)
(***************************************************************************)
EXTENDS Integers, Sequences, FiniteSets, SequencesExt

CONSTANTS Takers,       \* threads
          Locks, NoLock,
          NameOf,       \* the name each lock is announced by
          MaxHeld       \* bound: guards a thread nests

ASSUME ProfilerAssumption == NoLock \notin Locks

VARIABLES names,        \* _nameToId and _idToName: a name's id is its place here
          history,      \* _lockHistory, the edges <<prev, this>>
          lockStack,    \* LLockStack of each thread
          locked,       \* the locks a thread really holds, oldest first
          waiting,      \* the lock it announced and does not have yet
          alarm         \* "none" or the cause of CRASH

profilerVars == <<names, history, lockStack, locked, waiting, alarm>>

ProfilerInit == /\ names = <<>> /\ history = {} /\ alarm = "none"
                /\ lockStack = [t \in Takers |-> <<>>]
                /\ locked = [t \in Takers |-> <<>>]
                /\ waiting = [t \in Takers |-> NoLock]

-----------------------------------------------------------------------------
(* CheckCycle and Dfs.  The calls of Dfs under way are the path, outermost    *)
(* first; looked are the edges that their loops and the earlier calls' are    *)
(* past.  One SearchStep is the entry of a call, one round of its loop, or    *)
(* its end.                                                                   *)

Undiscovered(search, v) == search.order[v] = -1

\* The edge leads back into the path the search is on.
BackEdge(search, here, there) == /\ search.order[here] >= search.order[there]
                                 /\ ~search.finished[there]

Least(ids) == CHOOSE v \in ids : \A w \in ids : v <= w

\* Dfs(v) is called, as far as its loop.
Discover(search, v) == [search EXCEPT !.order[v] = search.count,
                                      !.count = search.count + 1,
                                      !.path = Append(search.path, v)]

\* The loop of Dfs(here) comes to an edge: a tree edge, a back edge or neither.
Look(search, here, there) ==
    LET past == [search EXCEPT !.looked = search.looked \cup {<<here, there>>}]
    IN  IF Undiscovered(search, there) THEN Discover(past, there)
        ELSE [past EXCEPT !.cycle = BackEdge(search, here, there)]

\* Dfs(here) returns.
Finish(search, here) == [search EXCEPT !.finished[here] = TRUE,
                                       !.path = Front(search.path)]

\* The neighbours the loop of Dfs(here) has not come to, which it takes in order.
Ahead(search, edges, here) == {e[2] : e \in {x \in edges \ search.looked : x[1] = here}}
Roots(search) == {v \in DOMAIN search.order : Undiscovered(search, v)}

\* A search that has found a cycle has crashed: it goes no further.
SearchStep(search, edges) ==
    IF search.cycle THEN search
    ELSE IF search.path = <<>>
         THEN IF Roots(search) = {} THEN search ELSE Discover(search, Least(Roots(search)))
         ELSE LET here == Last(search.path)
                  ahead == Ahead(search, edges, here)
              IN  IF ahead = {} THEN Finish(search, here) ELSE Look(search, here, Least(ahead))

SearchStart(count) == [order |-> [v \in 1..count |-> -1], count |-> 0, cycle |-> FALSE,
                       finished |-> [v \in 1..count |-> FALSE],
                       path |-> <<>>, looked |-> {}]

\* Each name is discovered and finished once and each edge looked at once.
SearchLength(count, edges) == 2 * count + Cardinality(edges)
Search(count, edges) ==
    LET after[n \in 0..SearchLength(count, edges)] ==
            IF n = 0 THEN SearchStart(count) ELSE SearchStep(after[n - 1], edges)
    IN  after

CheckCycle(count, edges) == Search(count, edges)[SearchLength(count, edges)].cycle

-----------------------------------------------------------------------------
(* PushLock, called before the lock is waited for; PopLock *)

Previous_Oldest(t) == Head(lockStack[t])
Previous(t) == Last(lockStack[t])

Registered(name) == IF name \in ToSet(names) THEN names ELSE Append(names, name)

Id(name, list) == CHOOSE i \in DOMAIN list : list[i] = name

PushLock(t, l) ==
    /\ waiting[t] = NoLock /\ Len(locked[t]) < MaxHeld
    /\ names' = Registered(NameOf[l])
    /\ LET id == Id(NameOf[l], names') IN
       /\ history' = IF lockStack[t] # <<>> /\ Previous(t) # id
                     THEN history \cup {<<Previous(t), id>>} ELSE history
       /\ alarm' = IF history' # history /\ CheckCycle(Len(names'), history')
                   THEN "DEADLOCK_DETECTED" ELSE "none"
       /\ lockStack' = [lockStack EXCEPT ![t] = Append(@, id)]
    /\ waiting' = [waiting EXCEPT ![t] = l]
    /\ UNCHANGED locked

Owners(l) == {t \in Takers : l \in ToSet(locked[t])}

\* The lock is free, or the thread's own already.
Obtain(t) ==
    /\ waiting[t] # NoLock /\ Owners(waiting[t]) \subseteq {t}
    /\ locked' = [locked EXCEPT ![t] = Append(@, waiting[t])]
    /\ waiting' = [waiting EXCEPT ![t] = NoLock]
    /\ UNCHANGED <<names, history, lockStack, alarm>>

PopLock(t) ==
    /\ waiting[t] = NoLock /\ locked[t] # <<>>
    /\ LET id == Id(NameOf[Last(locked[t])], names) IN
       alarm' = IF lockStack[t] = <<>> THEN "MULTIPLE_UNLOCK"
                ELSE IF Last(lockStack[t]) # id THEN "INVALID_UNLOCK" ELSE "none"
    /\ lockStack' = [lockStack EXCEPT ![t] = Front(@)]
    /\ locked' = [locked EXCEPT ![t] = Front(@)]
    /\ UNCHANGED <<names, history, waiting>>

ProfilerNext == /\ alarm = "none"
                /\ \E t \in Takers : \/ \E l \in Locks : PushLock(t, l)
                                     \/ Obtain(t) \/ PopLock(t)

ProfilerSpec == ProfilerInit /\ [][ProfilerNext]_profilerVars

-----------------------------------------------------------------------------
(* Properties *)

\* Reference: every set of nodes that holds what u and the set lead to holds v, so
\* that one or more edges lead from u to v.
Reaches(nodes, edges, u, v) ==
    \A set \in SUBSET nodes :
        (\A e \in edges : e[1] \in set \cup {u} => e[2] \in set) => v \in set
HasCycle(nodes, edges) == \E v \in nodes : Reaches(nodes, edges, v, v)

Waits(t, u) == waiting[t] # NoLock /\ u \in Owners(waiting[t]) /\ t # u

\* Threads that wait for each other in a circle, for locks of more than one name.
Stuck(ring) == ring # {} /\ \A t \in ring : \E u \in ring : Waits(t, u)
CircularWait == \E ring \in SUBSET Takers :
    /\ Stuck(ring) /\ \A arc \in SUBSET ring : arc # ring => ~Stuck(arc)
    /\ Cardinality({NameOf[waiting[t]] : t \in ring}) > 1

\* The alarm goes off exactly when the recorded orders have a cycle, guards never
\* trip it otherwise, and no circular wait between locks of different names ever
\* comes about without it.
DeadlockReported ==
    /\ alarm \in {"none", "DEADLOCK_DETECTED"}
    /\ alarm = "DEADLOCK_DETECTED" <=> HasCycle(1..Len(names), history)
    /\ CircularWait => alarm # "none"
=============================================================================
