---------------------------- MODULE RoomLogProofs ----------------------------
(***************************************************************************)
(* Proofs about the connection pool for any threads and connections, and   *)
(* about a room's chat log over it for any jobs and producers.             *)
(*                                                                         *)
(* Conserved and NoLostWakeup are inductive with the pool's types.  A step *)
(* of the room's worker is a step of the pool, of the job queue, or of     *)
(* both at once (DbJobEnds), so LogSpec implements both specifications and *)
(* inherits what is proved of each; what is left to show of StopsClean is  *)
(* that the worker is in the pool only in the middle of a database job.    *)
(***************************************************************************)
EXTENDS RoomLog, FiniteSetTheorems, SequenceTheorems, TLAPS

-----------------------------------------------------------------------------
(* Sequences and their elements *)

LEMMA SeqFacts ==
  ASSUME NEW S, NEW s \in Seq(S), NEW e \in S
  PROVE  /\ Append(s, e) \in Seq(S) /\ Len(Append(s, e)) = Len(s) + 1 /\ Len(s) \in Nat
         /\ \A i \in 1..Len(s) : Append(s, e)[i] = s[i]
         /\ Append(s, e)[Len(s) + 1] = e
  OBVIOUS

LEMMA TailFacts ==
  ASSUME NEW S, NEW s \in Seq(S), s # <<>>
  PROVE  /\ Head(s) \in S /\ Head(s) = s[1] /\ Tail(s) \in Seq(S)
         /\ Len(Tail(s)) = Len(s) - 1 /\ Len(s) \in Nat /\ Len(s) > 0
         /\ \A i \in 1..Len(s) - 1 : Tail(s)[i] = s[i + 1]
  BY HeadTailProperties, LenProperties

LEMMA ElementsOf ==
  ASSUME NEW S, NEW s \in Seq(S)
  PROVE  /\ DOMAIN s = 1..Len(s) /\ ToSet(s) \subseteq S
         /\ \A x : x \in ToSet(s) <=> \E i \in 1..Len(s) : s[i] = x
  BY LenProperties DEF ToSet

LEMMA AppendElements ==
  ASSUME NEW S, NEW s \in Seq(S), NEW e \in S
  PROVE  ToSet(Append(s, e)) = ToSet(s) \cup {e}
<1>1. Append(s, e) \in Seq(S)
  BY SeqFacts
<1>2. ASSUME NEW x \in ToSet(Append(s, e)) PROVE x \in ToSet(s) \cup {e}
  <2>1. PICK i \in 1..Len(Append(s, e)) : Append(s, e)[i] = x
    BY <1>1, ElementsOf
  <2>2. (i \in 1..Len(s) /\ s[i] = x) \/ x = e
    BY <2>1, SeqFacts
  <2> QED
    BY <2>2, ElementsOf
<1>3. ASSUME NEW x \in ToSet(s) PROVE x \in ToSet(Append(s, e))
  <2>1. PICK i \in 1..Len(s) : s[i] = x
    BY ElementsOf
  <2>2. i \in 1..Len(Append(s, e)) /\ Append(s, e)[i] = x
    BY <2>1, SeqFacts
  <2> QED
    BY <1>1, <2>2, ElementsOf
<1>4. e \in ToSet(Append(s, e))
  <2>1. Len(s) + 1 \in 1..Len(Append(s, e)) /\ Append(s, e)[Len(s) + 1] = e
    BY SeqFacts
  <2> QED
    BY <1>1, <2>1, ElementsOf
<1> QED
  BY <1>2, <1>3, <1>4

Distinct(s) == \A i, j \in DOMAIN s : s[i] = s[j] => i = j

\* What is taken from the front of a queue without repetitions is gone from it.
LEMMA TailElements ==
  ASSUME NEW S, NEW s \in Seq(S), s # <<>>, Distinct(s)
  PROVE  /\ ToSet(s) = ToSet(Tail(s)) \cup {Head(s)} /\ Head(s) \notin ToSet(Tail(s))
         /\ Distinct(Tail(s))
<1>1. /\ Tail(s) \in Seq(S) /\ Head(s) = s[1] /\ Len(Tail(s)) = Len(s) - 1 /\ Len(s) \in Nat
      /\ Len(s) > 0 /\ \A i \in 1..Len(s) - 1 : Tail(s)[i] = s[i + 1]
  BY TailFacts
<1>2. DOMAIN s = 1..Len(s) /\ DOMAIN Tail(s) = 1..Len(s) - 1
  BY <1>1, ElementsOf
<1>3. ASSUME NEW x \in ToSet(s) PROVE x \in ToSet(Tail(s)) \cup {Head(s)}
  <2>1. PICK i \in 1..Len(s) : s[i] = x
    BY ElementsOf
  <2>2. CASE i = 1
    BY <1>1, <2>1, <2>2
  <2>3. CASE i # 1
    <3>1. i - 1 \in 1..Len(s) - 1 /\ (i - 1) + 1 = i
      BY <1>1, <2>3
    <3>2. i - 1 \in 1..Len(Tail(s)) /\ Tail(s)[i - 1] = x
      BY <1>1, <2>1, <3>1
    <3>3. x \in ToSet(Tail(s))
      BY <1>1, <3>2, ElementsOf
    <3> QED
      BY <3>3
  <2> QED
    BY <2>2, <2>3
<1>4. ASSUME NEW x \in ToSet(Tail(s)) PROVE x \in ToSet(s) /\ x # Head(s)
  <2>1. PICK i \in 1..Len(Tail(s)) : Tail(s)[i] = x
    BY <1>1, ElementsOf
  <2>2. i + 1 \in 1..Len(s) /\ s[i + 1] = x /\ i + 1 # 1 /\ 1 \in 1..Len(s)
    BY <1>1, <2>1
  <2> QED
    BY <1>1, <1>2, <2>2, ElementsOf DEF Distinct
<1>5. Head(s) \in ToSet(s)
  <2>1. 1 \in 1..Len(s)
    BY <1>1
  <2> QED
    BY <1>1, <2>1, ElementsOf
<1>6. Distinct(Tail(s))
  <2> SUFFICES ASSUME NEW i \in 1..Len(s) - 1, NEW j \in 1..Len(s) - 1, Tail(s)[i] = Tail(s)[j]
               PROVE  i = j
    BY <1>2 DEF Distinct
  <2>1. s[i + 1] = s[j + 1] /\ i + 1 \in 1..Len(s) /\ j + 1 \in 1..Len(s)
    BY <1>1
  <2>2. i + 1 = j + 1
    BY <1>2, <2>1 DEF Distinct
  <2> QED
    BY <2>2
<1> QED
  BY <1>3, <1>4, <1>5, <1>6

LEMMA AppendDistinct ==
  ASSUME NEW S, NEW s \in Seq(S), NEW e \in S, Distinct(s), e \notin ToSet(s)
  PROVE  Distinct(Append(s, e))
<1>1. /\ Append(s, e) \in Seq(S) /\ Len(Append(s, e)) = Len(s) + 1 /\ Len(s) \in Nat
      /\ \A i \in 1..Len(s) : Append(s, e)[i] = s[i]
      /\ Append(s, e)[Len(s) + 1] = e
  BY SeqFacts
<1>2. DOMAIN Append(s, e) = 1..Len(s) + 1 /\ DOMAIN s = 1..Len(s)
  BY <1>1, ElementsOf
<1>3. \A i \in 1..Len(s) : s[i] # e
  BY ElementsOf
<1>4. ASSUME NEW i \in 1..Len(s) + 1, NEW j \in 1..Len(s) + 1,
             Append(s, e)[i] = Append(s, e)[j]
      PROVE  i = j
  <2>1. CASE i \in 1..Len(s) /\ j \in 1..Len(s)
    BY <1>1, <1>2, <1>4, <2>1 DEF Distinct
  <2>2. CASE i = Len(s) + 1 \/ j = Len(s) + 1
    BY <1>1, <1>3, <1>4, <2>2
  <2> QED
    BY <1>1, <2>1, <2>2
<1> QED
  BY <1>2, <1>4 DEF Distinct

-----------------------------------------------------------------------------
(* The pool's types *)

LEMMA InitTypes == Init => TypeOK /\ Distinct(connections) /\ Free = Connections
<1> SUFFICES ASSUME Init PROVE TypeOK /\ Distinct(connections) /\ Free = Connections
  OBVIOUS
<1> DEFINE n == Cardinality(Connections)
<1>1. n \in Nat
  BY PoolAssumption, FS_CardinalityType
<1>2. /\ connections \in [1..n -> Connections]
      /\ \A i, j \in 1..n : i # j => connections[i] # connections[j]
  BY DEF Init, SetToSeqs
<1> HIDE DEF n
<1>3. connections \in Seq(Connections) /\ Len(connections) = n
  BY <1>1, <1>2
<1>4. Distinct(connections)
  BY <1>2 DEF Distinct
<1>5. Free = Connections
  <2>1. connections \in Injection(1..n, Connections)
    BY <1>2 DEF Injection, IsInjective
  <2>2. Cardinality(1..n) = n
    <3>1. n \in Int /\ 1 \in Int
      BY <1>1
    <3>2. Cardinality(1..n) = IF 1 > n THEN 0 ELSE n - 1 + 1
      BY <3>1, FS_Interval, Zenon
    <3> QED
      BY <1>1, <3>2
  <2>3. connections \in Surjection(1..n, Connections)
    BY <2>1, <2>2, PoolAssumption, FS_Injection DEF n
  <2> QED
    BY <1>2, <2>3 DEF Surjection, Free, ToSet
<1>6. TypeOK
  BY <1>3, PoolAssumption DEF Init, TypeOK, Labels
<1> QED
  BY <1>4, <1>5, <1>6

LEMMA NextTypes == TypeOK /\ [Next]_vars => TypeOK'
<1> SUFFICES ASSUME TypeOK, [Next]_vars PROVE TypeOK'
  OBVIOUS
<1>1. ASSUME NEW t \in Threads, Pop(t) \/ PopWait(t) \/ PopShutdown(t) \/ SpuriousWake(t)
      PROVE  TypeOK'
  BY <1>1 DEF TypeOK, Pop, PopWait, PopShutdown, SpuriousWake, Goto, Labels
<1>2. ASSUME NEW t \in Threads, PopTake(t) PROVE TypeOK'
  <2>1. connections # <<>>
    BY <1>2 DEF PopTake, MustWait
  <2>2. Head(connections) \in Connections /\ Tail(connections) \in Seq(Connections)
    BY <2>1, TailFacts DEF TypeOK
  <2>3. Head(connections) # None
    BY <2>2, PoolAssumption
  <2> QED
    BY <1>2, <2>2, <2>3 DEF TypeOK, PopTake, Rest, Goto, Labels
<1>3. ASSUME NEW t \in Threads, Push(t) PROVE TypeOK'
  <2>1. held[t] \in Connections
    BY <1>3 DEF TypeOK, Push
  <2>2. Append(connections, held[t]) \in Seq(Connections)
    BY <2>1, SeqFacts DEF TypeOK
  <2> QED
    BY <1>3, <2>2 DEF TypeOK, Push, HandsBack, Goto, Labels
<1>4. ASSUME NEW t \in Threads, PushNotify(t) PROVE TypeOK'
  BY <1>4 DEF TypeOK, PushNotify, Woken, Waiting, Goto, Labels
<1>5. CASE Clear
  <2>1. <<>> \in Seq(Connections) /\ ToSet(connections) \subseteq Connections
    BY EmptySeq, ElementsOf DEF TypeOK
  <2> QED
    BY <1>5, <2>1 DEF TypeOK, Clear, Labels
<1>6. CASE UNCHANGED vars
  BY <1>6 DEF TypeOK, vars
<1> QED
  BY <1>1, <1>2, <1>3, <1>4, <1>5, <1>6 DEF Next, Inside

\* The pool's queue holds connections, and a thread has one in hand exactly while it
\* is using it.
THEOREM PoolTypes == Spec => []TypeOK
  BY InitTypes, NextTypes, PTL DEF Spec

-----------------------------------------------------------------------------
(* No connection is shared or lost *)

OneHand == \A t, u \in Threads : held[t] # None /\ held[t] = held[u] => t = u

LEMMA ConservedParts ==
  Conserved <=> /\ OneHand /\ Distinct(connections)
                /\ Free \cap InUse = {} /\ deleted \cap (Free \cup InUse) = {}
                /\ Free \cup InUse \cup deleted = Connections
  BY DEF Conserved, OneHand, Distinct

LEMMA NextConserved == TypeOK /\ Conserved /\ [Next]_vars => Conserved'
<1> SUFFICES ASSUME TypeOK, Conserved, [Next]_vars PROVE Conserved'
  OBVIOUS
<1>0. /\ OneHand /\ Distinct(connections) /\ Free = ToSet(connections)
      /\ Free \cap InUse = {} /\ deleted \cap (Free \cup InUse) = {}
      /\ Free \cup InUse \cup deleted = Connections
  BY ConservedParts DEF Free
<1>t. connections \in Seq(Connections) /\ held \in [Threads -> Connections \cup {None}]
  BY DEF TypeOK
<1>1. ASSUME UNCHANGED <<connections, held, deleted>> PROVE Conserved'
  BY <1>1 DEF Conserved, Free, InUse
<1>2. ASSUME NEW t \in Threads, PopTake(t) PROVE Conserved'
  <2> DEFINE c == Head(connections)
  <2>1. /\ connections # <<>> /\ connections' = Tail(connections) /\ pc[t] = "pop"
        /\ held' = [held EXCEPT ![t] = c] /\ deleted' = deleted
    BY <1>2 DEF PopTake, MustWait, Rest
  <2>2. /\ c \in Connections /\ Free = ToSet(Tail(connections)) \cup {c}
        /\ c \notin ToSet(Tail(connections)) /\ Distinct(Tail(connections))
    BY <1>0, <1>t, <2>1, TailFacts, TailElements
  <2> HIDE DEF c
  <2>3. held[t] = None /\ c # None /\ c \notin InUse
    BY <1>0, <2>1, <2>2, PoolAssumption DEF TypeOK
  <2>4. InUse' = InUse \cup {c}
    BY <1>t, <2>1, <2>3 DEF InUse
  <2>5. OneHand'
    BY <1>0, <1>t, <2>1, <2>3 DEF OneHand, InUse
  <2>6. Free' = ToSet(Tail(connections))
    BY <2>1 DEF Free
  <2>7. Distinct(connections')
    BY <2>1, <2>2
  <2>8. /\ Free' \cap InUse' = {} /\ deleted' \cap (Free' \cup InUse') = {}
        /\ Free' \cup InUse' \cup deleted' = Connections
    BY <1>0, <2>1, <2>2, <2>3, <2>4, <2>6
  <2> QED
    BY <2>5, <2>7, <2>8 DEF Conserved, OneHand, Distinct
<1>3. ASSUME NEW t \in Threads, Push(t) PROVE Conserved'
  <2> DEFINE c == held[t]
  <2>1. /\ connections' = Append(connections, c) /\ pc[t] = "using"
        /\ held' = [held EXCEPT ![t] = None] /\ deleted' = deleted
    BY <1>3 DEF Push, HandsBack
  <2>2. c \in Connections /\ c # None /\ c \in InUse
    BY <2>1, PoolAssumption DEF TypeOK, InUse
  <2>3. InUse' = InUse \ {c}
    BY <1>0, <1>t, <2>1, <2>2 DEF InUse, OneHand
  <2>4. OneHand'
    BY <1>0, <1>t, <2>1 DEF OneHand
  <2> HIDE DEF c
  <2>5. c \notin Free
    BY <1>0, <2>2
  <2>6. Distinct(connections') /\ Free' = Free \cup {c}
    BY <1>0, <1>t, <2>1, <2>2, <2>5, AppendDistinct, AppendElements DEF Free
  <2>7. /\ Free' \cap InUse' = {} /\ deleted' \cap (Free' \cup InUse') = {}
        /\ Free' \cup InUse' \cup deleted' = Connections
    BY <1>0, <2>1, <2>2, <2>3, <2>5, <2>6
  <2> QED
    BY <2>4, <2>6, <2>7 DEF Conserved, OneHand, Distinct
<1>4. CASE Clear
  <2>1. /\ connections' = <<>> /\ held' = held /\ deleted' = deleted \cup Free
    BY <1>4 DEF Clear, Free
  <2>2. Free' = {} /\ DOMAIN connections' = {}
    BY <2>1, EmptySeq, ElementsOf DEF Free, ToSet
  <2>3. InUse' = InUse /\ OneHand'
    BY <1>0, <2>1 DEF InUse, OneHand
  <2>4. /\ Free' \cap InUse' = {} /\ deleted' \cap (Free' \cup InUse') = {}
        /\ Free' \cup InUse' \cup deleted' = Connections
    BY <1>0, <2>1, <2>2, <2>3
  <2> QED
    BY <2>2, <2>3, <2>4 DEF Conserved, OneHand
<1>5. ASSUME NEW t \in Threads,
             Pop(t) \/ PopWait(t) \/ PopShutdown(t) \/ SpuriousWake(t) \/ PushNotify(t)
      PROVE  Conserved'
  BY <1>1, <1>5 DEF Pop, PopWait, PopShutdown, SpuriousWake, PushNotify
<1>6. CASE UNCHANGED vars
  BY <1>1, <1>6 DEF vars
<1> QED
  BY <1>2, <1>3, <1>4, <1>5, <1>6 DEF Next, Inside

\* No connection is in two hands, in a hand and in the queue, or deleted while in
\* either, and none is lost, for any number of threads and connections.
THEOREM ConnectionsConserved == Spec => []Conserved
<1>1. Init => Conserved
  <2> SUFFICES ASSUME Init PROVE Conserved
    OBVIOUS
  <2>1. Distinct(connections) /\ Free = Connections
    BY InitTypes
  <2>2. InUse = {} /\ deleted = {} /\ OneHand
    BY DEF Init, InUse, OneHand
  <2> QED
    BY <2>1, <2>2, ConservedParts
<1> QED
  BY <1>1, PoolTypes, NextConserved, PTL DEF Spec

-----------------------------------------------------------------------------
(* No wake-up is lost *)

LEMMA AwakeFacts ==
  ASSUME TypeOK
  PROVE  IsFiniteSet(Awake) /\ Cardinality(Awake) \in Nat /\ Len(connections) \in Nat
<1>1. Awake \in SUBSET Threads /\ IsFiniteSet(Threads)
  BY PoolAssumption DEF Awake
<1>2. IsFiniteSet(Awake)
  BY <1>1, FS_Subset
<1> QED
  BY <1>2, FS_CardinalityType, LenProperties DEF TypeOK

LEMMA NextWakeup == TypeOK /\ NoLostWakeup /\ [Next]_vars => NoLostWakeup'
<1> SUFFICES ASSUME TypeOK, NoLostWakeup, [Next]_vars PROVE NoLostWakeup'
  OBVIOUS
<1>0. /\ pc \in [Threads -> Labels] /\ connections \in Seq(Connections)
      /\ IsFiniteSet(Awake) /\ Cardinality(Awake) \in Nat /\ Len(connections) \in Nat
      /\ Waiting # {} => Len(connections) <= Cardinality(Awake) /\ ~shutdown
  BY AwakeFacts DEF TypeOK, NoLostWakeup
<1>1. ASSUME NEW t \in Threads, Pop(t) \/ SpuriousWake(t) PROVE NoLostWakeup'
  <2>1. /\ Awake' = Awake \cup {t} /\ Waiting' \subseteq Waiting /\ t \notin Awake
        /\ UNCHANGED <<connections, shutdown>>
    BY <1>0, <1>1 DEF Pop, SpuriousWake, Goto, Awake, Waiting
  <2>2. Cardinality(Awake') = Cardinality(Awake) + 1
    BY <1>0, <2>1, FS_AddElement
  <2> QED
    BY <1>0, <2>1, <2>2 DEF NoLostWakeup
<1>2. ASSUME NEW t \in Threads, PopWait(t) PROVE NoLostWakeup'
  <2>1. /\ connections = <<>> /\ ~shutdown /\ UNCHANGED <<connections, shutdown>>
        /\ Awake' = Awake \ {t}
    BY <1>0, <1>2 DEF PopWait, MustWait, Goto, Awake
  <2>2. Cardinality(Awake') \in Nat /\ Len(<<>>) = 0
    BY <1>0, <2>1, FS_RemoveElement, FS_CardinalityType, EmptySeq
  <2> QED
    BY <2>1, <2>2 DEF NoLostWakeup
<1>3. ASSUME NEW t \in Threads, PopShutdown(t) PROVE NoLostWakeup'
  <2>1. shutdown /\ Waiting' = Waiting
    BY <1>0, <1>3 DEF PopShutdown, Goto, Waiting
  <2> QED
    BY <1>0, <2>1 DEF NoLostWakeup
<1>4. ASSUME NEW t \in Threads, PopTake(t) PROVE NoLostWakeup'
  <2>1. /\ connections # <<>> /\ connections' = Tail(connections) /\ shutdown' = shutdown
        /\ Awake' = Awake \ {t} /\ Waiting' = Waiting /\ t \in Awake
    BY <1>0, <1>4 DEF PopTake, MustWait, Rest, Goto, Awake, Waiting
  <2>2. /\ Cardinality(Awake') = Cardinality(Awake) - 1
        /\ Len(connections') = Len(connections) - 1
    BY <1>0, <2>1, FS_RemoveElement, TailFacts
  <2> QED
    BY <1>0, <2>1, <2>2 DEF NoLostWakeup
<1>5. ASSUME NEW t \in Threads, Push(t) PROVE NoLostWakeup'
  <2>1. /\ connections' = Append(connections, held[t]) /\ shutdown' = shutdown
        /\ Awake' = Awake \cup {t} /\ Waiting' = Waiting /\ t \notin Awake
    BY <1>0, <1>5 DEF Push, Goto, Awake, Waiting
  <2>2. held[t] \in Connections
    BY <1>5 DEF TypeOK, Push
  <2>3. /\ Cardinality(Awake') = Cardinality(Awake) + 1
        /\ Len(connections') = Len(connections) + 1
    BY <1>0, <2>1, <2>2, FS_AddElement, SeqFacts
  <2> QED
    BY <1>0, <2>1, <2>3 DEF NoLostWakeup
<1>6. ASSUME NEW t \in Threads, PushNotify(t) PROVE NoLostWakeup'
  <2>0. UNCHANGED <<connections, shutdown>> /\ pc[t] = "notify"
    BY <1>6 DEF PushNotify
  <2>1. CASE Waiting = {}
    <3>1. Waiting' = {}
      BY <1>0, <1>6, <2>1 DEF PushNotify, Woken, Waiting, Goto
    <3> QED
      BY <3>1 DEF NoLostWakeup
  <2>2. CASE Waiting # {}
    <3>1. PICK u \in Waiting : pc' = [pc EXCEPT ![t] = "idle", ![u] = "pop"]
      BY <1>6, <2>2 DEF PushNotify, Woken
    <3>2. u \in Threads /\ pc[u] = "wait" /\ u # t
      BY <2>0, <3>1 DEF Waiting
    <3>3. Awake' = (Awake \ {t}) \cup {u} /\ t \in Awake /\ u \notin Awake \ {t}
      BY <1>0, <2>0, <3>1, <3>2 DEF Awake
    <3>4. /\ IsFiniteSet(Awake \ {t}) /\ Cardinality(Awake \ {t}) = Cardinality(Awake) - 1
      BY <1>0, <3>3, FS_RemoveElement
    <3>5. Cardinality(Awake') = Cardinality(Awake \ {t}) + 1
      BY <3>3, <3>4, FS_AddElement
    <3> QED
      BY <1>0, <2>0, <2>2, <3>4, <3>5 DEF NoLostWakeup
  <2> QED
    BY <2>1, <2>2
<1>7. CASE Clear
  <2>1. Waiting' = {}
    BY <1>0, <1>7 DEF Clear, Waiting
  <2> QED
    BY <2>1 DEF NoLostWakeup
<1>8. CASE UNCHANGED vars
  BY <1>8 DEF vars, NoLostWakeup, Waiting, Awake
<1> QED
  BY <1>1, <1>2, <1>3, <1>4, <1>5, <1>6, <1>7, <1>8 DEF Next, Inside

\* A thread sleeps in Pop only while every free connection has a thread awake that
\* will take it or is about to tell of it, and never on a pool that is shut down.
THEOREM PoolWakesWaiters == Spec => []NoLostWakeup
<1>1. Init => NoLostWakeup
  BY DEF Init, NoLostWakeup, Waiting
<1> QED
  BY <1>1, PoolTypes, NextWakeup, PTL DEF Spec

-----------------------------------------------------------------------------
(* The room's log implements the pool and the job queue *)

\* What JobQueueProofs shows of a queue with one worker and no bound.
OneWorker == INSTANCE JobQueueProofs WITH Workers <- {RoomWorker}, QueueSizes <- {0}

LEMMA LogStepOfPool == [LogNext]_roomVars => [Next]_vars
<1> SUFFICES ASSUME [LogNext]_roomVars PROVE [Next]_vars
  OBVIOUS
<1>0. RoomWorker \in Threads /\ LoginHandlers \subseteq Threads
  BY RoomLogAssumption DEF LoginHandlers
<1>1. ASSUME NEW p \in Producers, NEW j \in Jobs, LogChat(p, j) PROVE vars' = vars
  BY <1>1 DEF LogChat
<1>2. ASSUME NEW t \in LoginHandlers, LoginPop(t) \/ LoginInside(t) \/ LoginWakes(t) PROVE Next
  BY <1>0, <1>2 DEF LoginPop, LoginInside, LoginWakes, Next
<1>3. CASE Worker
  <2>1. CASE WorkerCheck \/ FileJob
    BY <2>1 DEF WorkerCheck, FileJob
  <2>2. CASE DbJobPop \/ DbJobGoesOn \/ DbJobEnds
    BY <1>0, <2>2 DEF DbJobPop, DbJobGoesOn, DbJobEnds, Next, Inside
  <2> QED
    BY <1>3, <2>1, <2>2 DEF Worker
<1>4. CASE WorkerWakes
  BY <1>0, <1>4 DEF WorkerWakes, Next
<1>5. CASE StopQueue \/ JoinWorker
  BY <1>5 DEF StopQueue, JoinWorker
<1>6. CASE ClearPool
  BY <1>6 DEF ClearPool, Next
<1>7. CASE UNCHANGED roomVars
  BY <1>7 DEF roomVars
<1> QED
  BY <1>1, <1>2, <1>3, <1>4, <1>5, <1>6, <1>7 DEF LogNext

LEMMA LogStepOfQueue == [LogNext]_roomVars => [OneWorker!Next]_(OneWorker!vars)
<1> SUFFICES ASSUME [LogNext]_roomVars PROVE OneWorker!Next \/ UNCHANGED OneWorker!vars
  OBVIOUS
<1>a. queueVars' = queueVars => UNCHANGED OneWorker!vars
  BY DEF queueVars, OneWorker!vars
<1>1. ASSUME NEW p \in Producers, NEW j \in Jobs, LogChat(p, j) PROVE OneWorker!Next
  <2>1. OneWorker!TryEnqueue(p, j) /\ UNCHANGED maxQueueSize
    BY <1>1 DEF LogChat, Queue!TryEnqueue, Queue!Refused, Queue!Full, Queue!Push,
                Queue!NotifyOne, Queue!Waiting, OneWorker!TryEnqueue, OneWorker!Refused,
                OneWorker!Full, OneWorker!Push, OneWorker!NotifyOne, OneWorker!Waiting
  <2> QED
    BY <2>1 DEF OneWorker!Next
<1>2. ASSUME NEW t \in LoginHandlers, LoginPop(t) \/ LoginInside(t) \/ LoginWakes(t)
      PROVE  queueVars' = queueVars
  BY <1>2 DEF LoginPop, LoginInside, LoginWakes
<1>3. CASE WorkerCheck
  <2>1. OneWorker!WorkerCheck(RoomWorker) /\ UNCHANGED maxQueueSize
    BY <1>3 DEF WorkerCheck, Queue!WorkerCheck, Queue!Exits, Queue!Take,
                OneWorker!WorkerCheck, OneWorker!Exits, OneWorker!Take
  <2> QED
    BY <2>1 DEF OneWorker!Next
<1>4. CASE FileJob \/ DbJobEnds
  <2>1. OneWorker!WorkerRun(RoomWorker) /\ UNCHANGED maxQueueSize
    BY <1>4 DEF FileJob, DbJobEnds, Queue!WorkerRun, OneWorker!WorkerRun
  <2> QED
    BY <2>1 DEF OneWorker!Next
<1>5. CASE DbJobPop \/ DbJobGoesOn \/ ClearPool
  BY <1>5, <1>a DEF DbJobPop, DbJobGoesOn, ClearPool
<1>6. CASE WorkerWakes
  <2>1. CASE Queue!SpuriousWake(RoomWorker) /\ UNCHANGED maxQueueSize
    <3>1. OneWorker!SpuriousWake(RoomWorker)
      BY <2>1 DEF Queue!SpuriousWake, OneWorker!SpuriousWake
    <3> QED
      BY <2>1, <3>1 DEF OneWorker!Next
  <2>2. CASE queueVars' = queueVars
    BY <1>a, <2>2
  <2> QED
    BY <1>6, <2>1, <2>2 DEF WorkerWakes
<1>7. CASE StopQueue
  <2>1. OneWorker!Stop /\ UNCHANGED maxQueueSize
    BY <1>7 DEF StopQueue, Queue!Stop, Queue!NotifyAll, OneWorker!Stop, OneWorker!NotifyAll
  <2> QED
    BY <2>1 DEF OneWorker!Next
<1>8. CASE JoinWorker
  <2>1. OneWorker!Join /\ UNCHANGED maxQueueSize
    BY <1>8 DEF JoinWorker, Queue!Join, OneWorker!Join
  <2> QED
    BY <2>1 DEF OneWorker!Next
<1>9. CASE UNCHANGED roomVars
  BY <1>9, <1>a DEF roomVars
<1> QED
  BY <1>1, <1>2, <1>3, <1>4, <1>5, <1>6, <1>7, <1>8, <1>9, <1>a DEF LogNext, Worker

\* A room's log uses the connection pool as any user of it may: what holds of the pool
\* holds with the room's worker among its threads.
THEOREM LogImplementsPool == LogSpec => Spec
<1>1. LogInit => Init
  BY DEF LogInit
<1> QED
  BY <1>1, LogStepOfPool, PTL DEF LogSpec, Spec

\* It uses the job queue as a room does, with one worker and no bound.
LEMMA LogImplementsQueue == LogSpec => OneWorker!Spec
<1>1. LogInit => OneWorker!Init
  BY DEF LogInit, Queue!Init, OneWorker!Init
<1> QED
  BY <1>1, LogStepOfQueue, PTL DEF LogSpec, OneWorker!Spec

\* Connections are neither shared nor lost while login handlers and a room's log jobs
\* use the pool together.
THEOREM LogConserves == LogSpec => []Conserved
  BY LogImplementsPool, ConnectionsConserved, PTL

\* No login handler and no log job sleeps over a free connection or a dead pool.
THEOREM LogWakesWaiters == LogSpec => []NoLostWakeup
  BY LogImplementsPool, PoolWakesWaiters, PTL

-----------------------------------------------------------------------------
(* The worker between the queue and the pool *)

LEMMA QueueTypes == LogSpec => []Queue!TypeOK
<1>1. OneWorker!TypeOK => Queue!TypeOK
  BY DEF OneWorker!TypeOK, OneWorker!ProducerLabels, OneWorker!WorkerLabels,
         Queue!TypeOK, Queue!ProducerLabels, Queue!WorkerLabels
<1>2. OneWorker!Spec => []OneWorker!TypeOK
  BY OneWorker!TypeCorrect, RoomLogAssumption
<1> QED
  BY <1>1, <1>2, LogImplementsQueue, PTL

InPoolOnlyForJob == pc[RoomWorker] # "idle" => Running(DbJobs)
JoinedExited == stopper = "joined" => worker[RoomWorker] = "exit"

LEMMA NextWorker ==
  TypeOK /\ Queue!TypeOK /\ InPoolOnlyForJob /\ JoinedExited /\ [LogNext]_roomVars
     => InPoolOnlyForJob' /\ JoinedExited'
<1> SUFFICES ASSUME TypeOK, Queue!TypeOK, InPoolOnlyForJob, JoinedExited, [LogNext]_roomVars
             PROVE  InPoolOnlyForJob' /\ JoinedExited'
  OBVIOUS
<1>0. /\ pc \in [Threads -> Labels] /\ RoomWorker \in Threads
      /\ worker \in [{RoomWorker} -> {"check", "wait", "run", "exit"}]
      /\ stopper \in {"running", "joining", "joined"}
  BY RoomLogAssumption DEF TypeOK, Queue!TypeOK, Queue!WorkerLabels
<1> USE DEF InPoolOnlyForJob, JoinedExited, Running
<1>1. ASSUME NEW p \in Producers, NEW j \in Jobs, LogChat(p, j)
      PROVE  InPoolOnlyForJob' /\ JoinedExited'
  <2>1. /\ vars' = vars /\ job' = job /\ stopper' = stopper
        /\ Queue!NotifyOne \/ worker' = worker
    BY <1>1 DEF LogChat, Queue!TryEnqueue
  <2>2. worker' = worker \/ worker[RoomWorker] = "wait"
    BY <1>0, <2>1 DEF Queue!NotifyOne, Queue!Waiting
  <2> QED
    BY <1>0, <2>1, <2>2 DEF vars
<1>2. ASSUME NEW t \in LoginHandlers, LoginPop(t) \/ LoginInside(t) \/ LoginWakes(t)
      PROVE  InPoolOnlyForJob' /\ JoinedExited'
  <2>1. /\ UNCHANGED <<worker, job, stopper>> /\ t # RoomWorker /\ t \in Threads
        /\ Pop(t) \/ Inside(t) \/ SpuriousWake(t)
    BY <1>2 DEF LoginPop, LoginInside, LoginWakes, queueVars, LoginHandlers
  <2>2. pc'[RoomWorker] = pc[RoomWorker] \/ pc[RoomWorker] = "wait"
    BY <1>0, <2>1 DEF Pop, Inside, PopWait, PopShutdown, PopTake, Push, PushNotify,
                      SpuriousWake, Goto, Woken, Waiting
  <2> QED
    BY <2>1, <2>2
<1>3. CASE WorkerCheck
  <2>1. worker[RoomWorker] = "check" /\ vars' = vars /\ stopper' = stopper
    BY <1>3 DEF WorkerCheck, Queue!WorkerCheck
  <2> QED
    BY <2>1 DEF vars
<1>4. CASE FileJob
  <2>1. /\ worker[RoomWorker] = "run" /\ job[RoomWorker] \notin DbJobs
        /\ vars' = vars /\ stopper' = stopper
    BY <1>4 DEF FileJob, Queue!WorkerRun
  <2> QED
    BY <2>1 DEF vars
<1>5. CASE DbJobPop \/ DbJobGoesOn
  <2>1. UNCHANGED <<worker, job, stopper>> /\ Running(DbJobs)
    BY <1>5 DEF DbJobPop, DbJobGoesOn, queueVars, PopWait, PopTake, Push
  <2> QED
    BY <2>1
<1>6. CASE DbJobEnds
  <2>1. pc'[RoomWorker] = "idle"
    BY <1>0, <1>6 DEF DbJobEnds, PopShutdown, PushNotify, Goto, Woken, Waiting
  <2>2. worker[RoomWorker] = "run" /\ stopper' = stopper
    BY <1>6 DEF DbJobEnds, Queue!WorkerRun
  <2> QED
    BY <2>1, <2>2
<1>7. CASE WorkerWakes
  <2>1. CASE Queue!SpuriousWake(RoomWorker) /\ UNCHANGED vars
    BY <2>1 DEF Queue!SpuriousWake, vars
  <2>2. CASE SpuriousWake(RoomWorker) /\ UNCHANGED queueVars
    BY <2>2 DEF SpuriousWake, queueVars
  <2> QED
    BY <1>7, <2>1, <2>2 DEF WorkerWakes
<1>8. CASE StopQueue
  <2>1. /\ vars' = vars /\ job' = job /\ stopper' = "joining"
        /\ worker'[RoomWorker] = worker[RoomWorker] \/ worker[RoomWorker] = "wait"
    BY <1>0, <1>8 DEF StopQueue, Queue!Stop, Queue!NotifyAll
  <2> QED
    BY <2>1 DEF vars
<1>9. CASE JoinWorker
  <2>1. /\ vars' = vars /\ job' = job /\ worker' = worker /\ worker[RoomWorker] = "exit"
    BY <1>9 DEF JoinWorker, Queue!Join
  <2> QED
    BY <2>1 DEF vars
<1>10. CASE ClearPool
  <2>1. /\ UNCHANGED <<worker, job, stopper>>
        /\ pc'[RoomWorker] = pc[RoomWorker] \/ pc[RoomWorker] = "wait"
    BY <1>0, <1>10 DEF ClearPool, Clear, queueVars
  <2> QED
    BY <2>1
<1>11. CASE UNCHANGED roomVars
  BY <1>11 DEF roomVars, vars, queueVars
<1> QED
  BY <1>1, <1>2, <1>3, <1>4, <1>5, <1>6, <1>7, <1>8, <1>9, <1>10, <1>11 DEF LogNext, Worker

LEMMA WorkerHolds == LogSpec => [](InPoolOnlyForJob /\ JoinedExited)
<1>1. LogInit => InPoolOnlyForJob /\ JoinedExited
  BY RoomLogAssumption DEF LogInit, Init, Queue!Init, InPoolOnlyForJob, JoinedExited
<1> QED
  BY <1>1, LogImplementsPool, PoolTypes, QueueTypes, NextWorker, PTL DEF LogSpec

\* The worker of a room's queue is in the pool only in the middle of a database job.
THEOREM LogTypes == LogSpec => []LogTypeOK
<1>1. TypeOK /\ Queue!TypeOK /\ InPoolOnlyForJob => LogTypeOK
  BY DEF LogTypeOK, InPoolOnlyForJob
<1> QED
  BY <1>1, LogImplementsPool, PoolTypes, QueueTypes, WorkerHolds, PTL

\* When ~Room's Stop returns, every message logged before it has been written or given
\* up for a dead pool, and the worker left no connection and no wait behind.
THEOREM LogStopsClean == LogSpec => []StopsClean
<1>1. OneWorker!Spec => []OneWorker!StopDrains
  BY OneWorker!StopRunsEverything, RoomLogAssumption
<1>2. OneWorker!StopDrains /\ InPoolOnlyForJob /\ JoinedExited => StopsClean
  BY DEF OneWorker!StopDrains, Queue!StopDrains, StopsClean, InPoolOnlyForJob, JoinedExited,
         Running
<1> QED
  BY <1>1, <1>2, LogImplementsQueue, WorkerHolds, PTL
=============================================================================
