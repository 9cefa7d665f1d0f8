----------------------------- MODULE LockProofs -----------------------------
(***************************************************************************)
(* The lock and the profiler its guards call.                              *)
(*                                                                         *)
(* RwSpinLock: mutual exclusion and the implementation of the re-entrant   *)
(* readers-writer lock, for every set of thread ids and every depth.       *)
(* MutualExclusion is not inductive: a writer's CAS succeeds on the flag   *)
(* alone.  FlagFaithful ties the flag to the guards alive (the reader half *)
(* is the number of read holds), and Shape says what a thread inside a     *)
(* lock function already knows.                                            *)
(*                                                                         *)
(* LockProfiler: its search finds a cycle of any recorded orders exactly   *)
(* when there is one, and no threads, in any number and nested to any      *)
(* depth, come to wait for each other in a circle before it does.  A cycle *)
(* is reasoned about as a ring, a set of names each with an order to one   *)
(* of the set: a finite set of names has one exactly when a name reaches   *)
(* itself.                                                                 *)
(***************************************************************************)
EXTENDS RwSpinLock, LockProfiler,
        FiniteSetTheorems, SequenceTheorems, WellFoundedInduction, TLAPS

Shape ==
    /\ \A t \in Threads : reads[t] <= MaxDepth
    /\ \A t, u \in Threads : InWrite(t) /\ t # u => reads[u] = 0
    /\ \A t \in Threads :
         /\ pc[t] \in {"wSpin", "wCount"} => writes[t] = 0 /\ reads[t] = 0
         /\ pc[t] \in {"wuDec", "wuStore"} => writes[t] > 0 /\ reads[t] = 0
         /\ pc[t] = "wuStore" => writes[t] = 1
         /\ pc[t] = "rAdd" => writes[t] > 0 /\ reads[t] < MaxDepth
         /\ pc[t] \in {"rLoad", "rCas"} => writes[t] = 0 /\ reads[t] < MaxDepth

IInv == TypeOK /\ FlagFaithful /\ Shape /\ NoOrderCrash

-----------------------------------------------------------------------------
(* Counting read holds *)

HoldsOf(f) == {h \in Threads \X (1..MaxDepth) : h[2] <= f[h[1]]}

LEMMA HoldsFinite == ASSUME NEW f PROVE IsFiniteSet(HoldsOf(f))
<1>1. IsFiniteSet(Threads)
  BY LockAssumption
<1>2. IsFiniteSet(1..MaxDepth)
  <2>1. 1 \in Int /\ MaxDepth \in Int
    BY LockAssumption
  <2>2. QED
    BY <2>1, FS_Interval, Zenon
<1>3. IsFiniteSet(Threads \X (1..MaxDepth))
  BY <1>1, <1>2, FS_Product
<1> QED
  BY <1>3, FS_Subset DEF HoldsOf

\* One more hold of t is one more element.
LEMMA HoldsUp ==
  ASSUME NEW f \in [Threads -> Nat], NEW t \in Threads, f[t] < MaxDepth
  PROVE  Cardinality(HoldsOf([f EXCEPT ![t] = @ + 1])) = Cardinality(HoldsOf(f)) + 1
<1> DEFINE new == <<t, f[t] + 1>>
<1>1. new \notin HoldsOf(f)
  BY DEF HoldsOf
<1>2. HoldsOf([f EXCEPT ![t] = @ + 1]) = HoldsOf(f) \cup {new}
  BY LockAssumption DEF HoldsOf
<1> HIDE DEF new
<1> QED
  BY <1>1, <1>2, HoldsFinite, FS_AddElement

\* One hold less of t is one element less.
LEMMA HoldsDown ==
  ASSUME NEW f \in [Threads -> Nat], NEW t \in Threads, f[t] > 0, f[t] <= MaxDepth
  PROVE  /\ Cardinality(HoldsOf([f EXCEPT ![t] = @ - 1])) = Cardinality(HoldsOf(f)) - 1
         /\ Cardinality(HoldsOf(f)) > 0
<1> DEFINE old == <<t, f[t]>>
<1>1. old \in HoldsOf(f)
  BY LockAssumption DEF HoldsOf
<1>2. HoldsOf([f EXCEPT ![t] = @ - 1]) = HoldsOf(f) \ {old}
  BY LockAssumption DEF HoldsOf
<1>3. HoldsOf(f) # {} /\ Cardinality(HoldsOf(f)) \in Nat
  BY <1>1, HoldsFinite, FS_CardinalityType
<1> HIDE DEF old
<1> QED
  <2>1. Cardinality(HoldsOf(f) \ {old}) = Cardinality(HoldsOf(f)) - 1
    BY <1>1, HoldsFinite, FS_RemoveElement
  <2>2. Cardinality(HoldsOf(f)) # 0
    BY <1>3, HoldsFinite, FS_EmptySet
  <2>3. Cardinality(HoldsOf([f EXCEPT ![t] = @ - 1])) = Cardinality(HoldsOf(f) \ {old})
    BY <1>2
  <2>4. Cardinality(HoldsOf(f)) > 0
    BY <1>3, <2>2
  <2>5. QED
    BY <2>1, <2>3, <2>4

\* No holds counted means no holds.
LEMMA HoldsNone ==
  ASSUME NEW f \in [Threads -> Nat], \A t \in Threads : f[t] <= MaxDepth
  PROVE  Cardinality(HoldsOf(f)) = 0 <=> \A t \in Threads : f[t] = 0
<1>1. Cardinality(HoldsOf(f)) = 0 <=> HoldsOf(f) = {}
  BY HoldsFinite, FS_EmptySet
<1>2. ASSUME HoldsOf(f) = {}, NEW t \in Threads PROVE f[t] = 0
  <2>1. SUFFICES ASSUME f[t] > 0 PROVE FALSE
    OBVIOUS
  <2>2. <<t, f[t]>> \in HoldsOf(f)
    BY <2>1, LockAssumption DEF HoldsOf
  <2>3. QED
    BY <1>2, <2>2
<1>3. ASSUME \A t \in Threads : f[t] = 0 PROVE HoldsOf(f) = {}
  BY <1>3 DEF HoldsOf
<1> QED
  BY <1>1, <1>2, <1>3

LEMMA ReadHoldsIsHoldsOf == ReadHolds = HoldsOf(reads) /\ ReadHolds' = HoldsOf(reads')
  BY DEF ReadHolds, HoldsOf

-----------------------------------------------------------------------------
(* The inductive invariant *)

LEMMA InitIInv == Init => IInv
<1> SUFFICES ASSUME Init PROVE IInv
  OBVIOUS
<1>1. TypeOK /\ NoOrderCrash
  BY DEF Init, TypeOK, NoOrderCrash, Labels, Crashes, EMPTY_FLAG
<1>2. Shape
  BY LockAssumption DEF Init, Shape, InWrite
<1>3. FlagFaithful
  <2>1. reads \in [Threads -> Nat] /\ \A t \in Threads : reads[t] = 0 /\ reads[t] <= MaxDepth
    BY LockAssumption DEF Init
  <2>2. Cardinality(ReadHolds) = 0
    BY <2>1, HoldsNone, ReadHoldsIsHoldsOf
  <2>3. QED
    BY <2>2, LockAssumption DEF Init, FlagFaithful, InWrite, EMPTY_FLAG
<1> QED
  BY <1>1, <1>2, <1>3 DEF IInv

\* A step that touches neither the read holds nor the reader half of the flag
\* keeps the second conjunct of FlagFaithful.
LEMMA SameReaders == ReadHolds' = ReadHolds /\ flag'.readers = flag.readers /\ FlagFaithful
                        => flag'.readers = Cardinality(ReadHolds')
  BY DEF FlagFaithful

LEMMA WriteSteps ==
  ASSUME IInv, NEW t \in Threads,
         WriteLock(t) \/ WriteLockCount(t) \/ WriteUnlock(t) \/ WriteUnlockDec(t)
  PROVE  IInv'
<1> USE LockAssumption DEF IInv, TypeOK, Labels, Crashes, Goto, NoOrderCrash
<1>1. ReadHolds' = ReadHolds /\ UNCHANGED <<flag, reads>>
  BY DEF WriteLock, WriteLockCount, WriteUnlock, WriteUnlockDec, ReadHolds
<1>2. flag'.readers = Cardinality(ReadHolds')
  BY <1>1, SameReaders
<1>3. CASE WriteLock(t)
  <2>1. TypeOK' /\ NoOrderCrash'
    BY <1>3 DEF WriteLock
  <2>2. Shape'
    BY <1>3 DEF WriteLock, Shape, InWrite, FlagFaithful
  <2>3. FlagFaithful'
    BY <1>2, <1>3 DEF WriteLock, FlagFaithful, InWrite
  <2>4. QED
    BY <2>1, <2>2, <2>3
<1>4. CASE WriteLockCount(t)
  <2>1. TypeOK' /\ NoOrderCrash'
    BY <1>4 DEF WriteLockCount
  <2>2. Shape'
    BY <1>4 DEF WriteLockCount, Shape, InWrite
  <2>3. FlagFaithful'
    BY <1>2, <1>4 DEF WriteLockCount, FlagFaithful, InWrite, Shape
  <2>4. QED
    BY <2>1, <2>2, <2>3
<1>5. CASE WriteUnlock(t)
  <2>1. flag.readers = 0
    <3>1. flag.owner = t
      BY <1>5 DEF WriteUnlock, FlagFaithful, InWrite
    <3>2. \A u \in Threads : reads[u] = 0 /\ reads[u] <= MaxDepth
      BY <1>5 DEF WriteUnlock, Shape, InWrite
    <3>3. Cardinality(ReadHolds) = 0
      BY <3>2, HoldsNone, ReadHoldsIsHoldsOf
    <3>4. QED
      BY <3>3 DEF FlagFaithful
  <2>2. TypeOK' /\ NoOrderCrash'
    BY <1>5, <2>1 DEF WriteUnlock
  <2>3. Shape'
    BY <1>5, <2>1 DEF WriteUnlock, Shape, InWrite
  <2>4. FlagFaithful'
    BY <1>2, <1>5, <2>1 DEF WriteUnlock, FlagFaithful, InWrite
  <2>5. QED
    BY <2>2, <2>3, <2>4
<1>6. CASE WriteUnlockDec(t)
  <2>1. writes[t] > 0 /\ flag.owner = t /\ writeCount = writes[t]
    BY <1>6 DEF WriteUnlockDec, Shape, FlagFaithful, InWrite
  <2>2. TypeOK' /\ NoOrderCrash'
    BY <1>6, <2>1 DEF WriteUnlockDec
  <2>3. Shape'
    BY <1>6, <2>1 DEF WriteUnlockDec, Shape, InWrite, LastHold
  <2>4. FlagFaithful'
    BY <1>2, <1>6, <2>1 DEF WriteUnlockDec, FlagFaithful, InWrite, LastHold
  <2>5. QED
    BY <2>2, <2>3, <2>4
<1> QED
  BY <1>3, <1>4, <1>5, <1>6

\* The writer's CAS: an empty flag means no writer and, by the count, no reader.
LEMMA WriteLockCasStep == ASSUME IInv, NEW t \in Threads, WriteLockCas(t) PROVE IInv'
<1> USE LockAssumption DEF IInv, TypeOK, Labels, Crashes, Goto, NoOrderCrash, EMPTY_FLAG,
                           WriteLockCas, FreeForWriter
<1>1. \A u \in Threads : reads[u] = 0
  <2>1. Cardinality(HoldsOf(reads)) = 0
    BY ReadHoldsIsHoldsOf DEF FlagFaithful
  <2>2. QED
    BY <2>1, HoldsNone DEF Shape
<1>2. \A u \in Threads : ~InWrite(u)
  BY DEF FlagFaithful
<1>3. TypeOK'
  OBVIOUS
<1>4. Shape'
  BY <1>1, <1>2 DEF Shape, InWrite
<1>5. FlagFaithful'
  <2>1. ReadHolds' = ReadHolds
    BY DEF ReadHolds
  <2>2. flag'.readers = Cardinality(ReadHolds')
    BY <2>1 DEF FlagFaithful
  <2>3. flag'.owner = t /\ \A u \in Threads : InWrite(u)' <=> u = t
    BY <1>2 DEF InWrite
  <2>4. writeCount' = writes'[t]
    BY DEF FlagFaithful, Shape
  <2>5. QED
    BY <2>2, <2>3, <2>4 DEF FlagFaithful
<1> QED
  BY <1>3, <1>4, <1>5

LEMMA WriteUnlockStoreStep == ASSUME IInv, NEW t \in Threads, WriteUnlockStore(t) PROVE IInv'
<1> USE LockAssumption DEF IInv, TypeOK, Labels, Crashes, Goto, NoOrderCrash, EMPTY_FLAG,
                           WriteUnlockStore
<1>1. flag.owner = t /\ writeCount = 0 /\ writes[t] = 1
  BY DEF Shape, FlagFaithful, InWrite
<1>2. \A u \in Threads : reads[u] = 0
  BY <1>1 DEF Shape, InWrite
<1>3. TypeOK'
  BY <1>1
<1>4. Shape'
  BY <1>1, <1>2 DEF Shape, InWrite
<1>5. FlagFaithful'
  <2>1. ReadHolds' = HoldsOf(reads)
    BY ReadHoldsIsHoldsOf
  <2>2. Cardinality(ReadHolds') = 0
    BY <1>2, <2>1, HoldsNone
  <2>3. \A u \in Threads : ~InWrite(u)'
    BY <1>1 DEF FlagFaithful, InWrite
  <2>4. QED
    BY <1>1, <2>2, <2>3 DEF FlagFaithful
<1> QED
  BY <1>3, <1>4, <1>5

-----------------------------------------------------------------------------
(* ReadLock and ReadUnlock *)

LEMMA CountReaderStep ==
  ASSUME IInv, NEW t \in Threads, CountReader(t), reads[t] < MaxDepth,
         flag.owner \in {0, t}, pc[t] \in {"rAdd", "rCas"},
         expected' \in [Threads -> Nat], UNCHANGED <<writeCount, writes, crash>>
  PROVE  IInv'
<1> USE LockAssumption DEF IInv, TypeOK, Labels, Crashes, Goto, NoOrderCrash, CountReader
<1>1. TypeOK'
  <2>1. flag' \in [owner : Threads \cup {0}, readers : Nat]
    OBVIOUS
  <2>2. reads' \in [Threads -> Nat] /\ pc' \in [Threads -> Labels]
    OBVIOUS
  <2>3. QED
    BY <2>1, <2>2
<1>2. \A u \in Threads : InWrite(u) => u = t
  BY DEF FlagFaithful
<1>3. Shape'
  BY <1>2 DEF Shape, InWrite
<1>4. FlagFaithful'
  <2>1. Cardinality(ReadHolds') = Cardinality(ReadHolds) + 1
    BY HoldsUp, ReadHoldsIsHoldsOf
  <2>2. flag'.readers = Cardinality(ReadHolds')
    BY <2>1 DEF FlagFaithful
  <2>3. flag'.owner = flag.owner /\ \A u \in Threads : InWrite(u)' <=> InWrite(u)
    BY DEF InWrite
  <2>4. QED
    BY <2>2, <2>3 DEF FlagFaithful
<1> QED
  BY <1>1, <1>3, <1>4

LEMMA ReadSteps ==
  ASSUME IInv, NEW t \in Threads,
         ReadLock(t) \/ ReadLockAdd(t) \/ ReadLockLoad(t) \/ ReadLockCas(t)
  PROVE  IInv'
<1> USE LockAssumption DEF IInv, TypeOK, Labels, Crashes, Goto, NoOrderCrash
<1>1. ASSUME UNCHANGED <<flag, writeCount, writes, reads, crash>>,
             pc[t] \in {"user", "rLoad", "rCas"}, pc'[t] \in {"rAdd", "rLoad", "rCas"},
             pc' = [pc EXCEPT ![t] = pc'[t]],
             pc'[t] = "rAdd" => writes[t] > 0, pc'[t] # "rAdd" => writes[t] = 0,
             reads[t] < MaxDepth, expected' \in [Threads -> Nat]
      PROVE  IInv'
  <2>1. ReadHolds' = ReadHolds
    BY <1>1 DEF ReadHolds
  <2>2. TypeOK' /\ NoOrderCrash'
    BY <1>1
  <2>3. Shape'
    BY <1>1 DEF Shape, InWrite
  <2>4. FlagFaithful'
    BY <1>1, <2>1 DEF FlagFaithful, InWrite
  <2>5. QED
    BY <2>2, <2>3, <2>4
<1>2. CASE ReadLock(t)
  <2>1. flag.owner = t <=> writes[t] > 0
    BY <1>2 DEF ReadLock, FlagFaithful, InWrite
  <2>2. QED
    BY <1>1, <1>2, <2>1 DEF ReadLock
<1>3. CASE ReadLockAdd(t)
  BY <1>3, CountReaderStep DEF ReadLockAdd, Shape, FlagFaithful, InWrite
<1>4. CASE ReadLockLoad(t)
  BY <1>1, <1>4 DEF ReadLockLoad, Shape
<1>5. CASE ReadLockCas(t)
  <2>1. CASE FreeForReader(t)
    BY <1>5, <2>1, CountReaderStep DEF ReadLockCas, FreeForReader, Shape
  <2>2. CASE ~FreeForReader(t)
    BY <1>1, <1>5, <2>2 DEF ReadLockCas, Shape
  <2>3. QED
    BY <2>1, <2>2
<1> QED
  BY <1>2, <1>3, <1>4, <1>5

LEMMA ReadUnlockStep == ASSUME IInv, NEW t \in Threads, ReadUnlock(t) PROVE IInv'
<1> USE LockAssumption DEF IInv, TypeOK, Labels, Crashes, Goto, NoOrderCrash, ReadUnlock
<1>1. /\ Cardinality(HoldsOf(reads')) = Cardinality(HoldsOf(reads)) - 1
      /\ Cardinality(HoldsOf(reads)) > 0
  BY HoldsDown DEF Shape
<1>2. flag.readers > 0 /\ flag.readers = Cardinality(HoldsOf(reads))
  BY <1>1, ReadHoldsIsHoldsOf DEF FlagFaithful
<1>3. TypeOK' /\ NoOrderCrash'
  BY <1>2 DEF EMPTY_FLAG
<1>4. Shape'
  BY DEF Shape, InWrite
<1>5. FlagFaithful'
  <2>1. flag'.readers = Cardinality(ReadHolds')
    BY <1>1, <1>2, ReadHoldsIsHoldsOf
  <2>2. flag'.owner = flag.owner /\ \A u \in Threads : InWrite(u)' <=> InWrite(u)
    BY DEF InWrite
  <2>3. QED
    BY <2>1, <2>2 DEF FlagFaithful
<1> QED
  BY <1>3, <1>4, <1>5

LEMMA Inductive == Spec => []IInv
<1>1. IInv /\ [Next]_vars => IInv'
  <2> SUFFICES ASSUME IInv, [Next]_vars PROVE IInv'
    OBVIOUS
  <2>1. ASSUME NEW t \in Threads, Timeout(t) PROVE IInv'
    <3>1. ReadHolds' = ReadHolds
      BY <2>1 DEF Timeout, ReadHolds
    <3>2. QED
      BY <2>1, <3>1 DEF Timeout, IInv, TypeOK, Crashes, NoOrderCrash, Shape, FlagFaithful, InWrite
  <2>2. CASE UNCHANGED vars
    <3>1. ReadHolds' = ReadHolds
      BY <2>2 DEF vars, ReadHolds
    <3>2. QED
      BY <2>2, <3>1 DEF vars, IInv, TypeOK, NoOrderCrash, Shape, FlagFaithful, InWrite
  <2>3. QED
    BY <2>1, <2>2, WriteSteps, WriteLockCasStep, WriteUnlockStoreStep, ReadSteps, ReadUnlockStep
       DEF Next, Inside, Unlock
<1> QED
  BY InitIInv, <1>1, PTL DEF Spec

-----------------------------------------------------------------------------
\* The lock's fields keep their types; neither count goes below zero.
THEOREM TypeCorrect == Spec => []TypeOK
  BY Inductive, PTL DEF IInv

\* The flag always agrees with the guards alive.
THEOREM FlagCorrect == Spec => []FlagFaithful
  BY Inductive, PTL DEF IInv

\* One writer alone, or readers only.
THEOREM Exclusion == Spec => []MutualExclusion
<1>1. IInv => MutualExclusion
  BY LockAssumption DEF IInv, TypeOK, Shape, FlagFaithful, InWrite, MutualExclusion
<1> QED
  BY <1>1, Inductive, PTL

\* Guards never trip the unlock-order checks.
THEOREM NoFalseAlarm == Spec => []NoOrderCrash
  BY Inductive, PTL DEF IInv

-----------------------------------------------------------------------------
(* The lock implements ReentrantRWLock. *)

LEMMA AbstractStep == IInv /\ [Next]_vars => [Abstract!RWNext]_(Abstract!rwVars)
<1> SUFFICES ASSUME IInv, [Next]_vars
             PROVE  Abstract!RWNext \/ UNCHANGED <<writes, reads>>
  BY DEF Abstract!rwVars
<1> USE DEF IInv, TypeOK, Goto
<1>1. ASSUME NEW t \in Threads, flag.owner = t
      PROVE  \A u \in Threads \ {t} : writes[u] = 0 /\ reads[u] = 0
  BY <1>1 DEF FlagFaithful, Shape, InWrite
<1>2. ASSUME NEW t \in Threads, WriteLock(t) \/ WriteLockCount(t)
      PROVE  Abstract!AcquireWrite(t) \/ UNCHANGED <<writes, reads>>
  <2>1. CASE UNCHANGED <<writes, reads>>
    BY <2>1
  <2>2. CASE writes' = [writes EXCEPT ![t] = @ + 1]
    <3>1. flag.owner = t /\ reads[t] = 0 /\ UNCHANGED reads
      BY <1>2, <2>2 DEF WriteLock, WriteLockCount, FlagFaithful, Shape, InWrite
    <3>2. QED
      BY <1>1, <2>2, <3>1 DEF Abstract!AcquireWrite, Abstract!Holds
  <2>3. QED
    BY <1>2, <2>1, <2>2 DEF WriteLock, WriteLockCount
<1>3. ASSUME NEW t \in Threads, WriteUnlockDec(t) \/ WriteUnlockStore(t)
      PROVE  Abstract!ReleaseWrite(t) \/ UNCHANGED <<writes, reads>>
  BY <1>3 DEF WriteUnlockDec, WriteUnlockStore, Shape, Abstract!ReleaseWrite
<1>4. ASSUME NEW t \in Threads, ReadLockAdd(t) \/ ReadLockCas(t)
      PROVE  Abstract!AcquireRead(t) \/ UNCHANGED <<writes, reads>>
  <2>1. CASE UNCHANGED <<writes, reads>>
    BY <2>1
  <2>2. CASE CountReader(t) /\ UNCHANGED writes
    <3>1. flag.owner \in {0, t}
      BY <1>4, <2>2 DEF ReadLockAdd, ReadLockCas, FreeForReader, CountReader,
                        FlagFaithful, Shape, InWrite
    <3>2. \A u \in Threads \ {t} : writes[u] = 0
      BY <3>1, LockAssumption DEF FlagFaithful, InWrite
    <3>3. QED
      BY <2>2, <3>2 DEF CountReader, Abstract!AcquireRead
  <2>3. QED
    BY <1>4, <2>1, <2>2 DEF ReadLockAdd, ReadLockCas
<1>5. ASSUME NEW t \in Threads, ReadUnlock(t)
      PROVE  Abstract!ReleaseRead(t)
  BY <1>5 DEF ReadUnlock, Abstract!ReleaseRead
<1>6. ASSUME NEW t \in Threads,
             \/ WriteLockCas(t) \/ WriteUnlock(t) \/ ReadLock(t) \/ ReadLockLoad(t) \/ Timeout(t)
      PROVE  UNCHANGED <<writes, reads>>
  BY <1>6 DEF WriteLockCas, WriteUnlock, ReadLock, ReadLockLoad, Timeout
<1>7. CASE UNCHANGED vars
  BY <1>7 DEF vars
<1> QED
  BY <1>2, <1>3, <1>4, <1>5, <1>6, <1>7 DEF Next, Inside, Unlock, Abstract!RWNext

\* Every behaviour of the spin lock is one of the re-entrant readers-writer lock.
THEOREM ImplementsAbstractLock == Spec => ImplementsRWLock
<1>1. Init => Abstract!RWInit
  BY DEF Init, Abstract!RWInit
<1> QED
  BY <1>1, AbstractStep, Inductive, PTL DEF Spec, ImplementsRWLock, Abstract!RWSpec

-----------------------------------------------------------------------------
(* Cycles.  A ring is a set of nodes each of which has an edge to one of the *)
(* set: there is one exactly when some node reaches itself.                  *)

Ring(edges, R) == R # {} /\ \A v \in R : \E w \in R : <<v, w>> \in edges

Graph(nodes, edges) == edges \in SUBSET (nodes \X nodes)

\* A non-empty set of naturals has a least element: how the proofs below induct.
LEMMA LeastNat ==
  ASSUME NEW T \in SUBSET Nat, T # {}
  PROVE  \E x \in T : \A y \in T : x <= y
<1> DEFINE R == OpToRel(<, Nat)
<1>1. IsWellFoundedOn(R, Nat)
  BY NatLessThanWellFounded
<1>2. \A x, y \in Nat : y < x => <<y, x>> \in R
  BY DEF OpToRel
<1> HIDE DEF R
<1>3. PICK x \in T : \A y \in T : <<y, x>> \notin R
  BY <1>1, WFMin
<1>4. \A y \in T : ~(y < x)
  BY <1>2, <1>3
<1>5. \A y \in T : y \in Nat
  OBVIOUS
<1> QED
  BY <1>4, <1>5

\* One edge reaches.
LEMMA ReachEdge ==
  ASSUME NEW nodes, NEW edges, NEW u, NEW v, <<u, v>> \in edges
  PROVE  Reaches(nodes, edges, u, v)
<1> SUFFICES ASSUME NEW set \in SUBSET nodes,
                    \A e \in edges : e[1] \in set \cup {u} => e[2] \in set
             PROVE  v \in set
  BY DEF Reaches
<1>1. <<u, v>>[1] = u /\ <<u, v>>[2] = v
  OBVIOUS
<1> QED
  BY <1>1

\* A path and then an edge reach.
LEMMA ReachThenEdge ==
  ASSUME NEW nodes, NEW edges, NEW u, NEW v, NEW w,
         Reaches(nodes, edges, u, v), <<v, w>> \in edges
  PROVE  Reaches(nodes, edges, u, w)
<1> SUFFICES ASSUME NEW set \in SUBSET nodes,
                    \A e \in edges : e[1] \in set \cup {u} => e[2] \in set
             PROVE  w \in set
  BY DEF Reaches
<1>1. <<v, w>>[1] = v /\ <<v, w>>[2] = w
  OBVIOUS
<1>2. v \in set
  BY DEF Reaches
<1> QED
  BY <1>1, <1>2

\* An edge and then a path reach.
LEMMA EdgeThenReach ==
  ASSUME NEW nodes, NEW edges, NEW u, NEW v, NEW w,
         <<u, v>> \in edges, Reaches(nodes, edges, v, w)
  PROVE  Reaches(nodes, edges, u, w)
<1> SUFFICES ASSUME NEW set \in SUBSET nodes,
                    \A e \in edges : e[1] \in set \cup {u} => e[2] \in set
             PROVE  w \in set
  BY DEF Reaches
<1>1. <<u, v>>[1] = u /\ <<u, v>>[2] = v
  OBVIOUS
<1>2. v \in set
  BY <1>1
<1>3. \A e \in edges : e[1] \in set \cup {v} => e[2] \in set
  BY <1>2
<1> QED
  BY <1>3 DEF Reaches

\* From a node that reaches itself, the nodes it reaches that reach it are a ring.
LEMMA CycleGivesRing ==
  ASSUME NEW nodes, NEW edges, Graph(nodes, edges),
         NEW v \in nodes, Reaches(nodes, edges, v, v)
  PROVE  \E R \in SUBSET nodes : Ring(edges, R)
<1> DEFINE R == {w \in nodes : Reaches(nodes, edges, v, w) /\ Reaches(nodes, edges, w, v)}
<1>1. \A x, y : <<x, y>> \in edges => x \in nodes /\ y \in nodes
  BY DEF Graph
<1>2. ASSUME NEW w \in R PROVE \E x \in R : <<w, x>> \in edges
  <2> DEFINE From == {y \in nodes : \E x \in nodes : /\ <<w, x>> \in edges
                                                     /\ y = x \/ Reaches(nodes, edges, x, y)}
  <2>1. ASSUME NEW e \in edges, e[1] \in From \cup {w} PROVE e[2] \in From
    <3>1. e = <<e[1], e[2]>> /\ e[2] \in nodes /\ <<e[1], e[2]>> \in edges
      BY DEF Graph
    <3>2. CASE e[1] = w
      BY <3>1, <3>2
    <3>3. CASE e[1] \in From
      <4>1. PICK x \in nodes : /\ <<w, x>> \in edges
                               /\ e[1] = x \/ Reaches(nodes, edges, x, e[1])
        BY <3>3
      <4>2. Reaches(nodes, edges, x, e[2])
        BY <4>1, <3>1, ReachEdge, ReachThenEdge
      <4> QED
        BY <4>1, <4>2, <3>1
    <3> QED
      BY <2>1, <3>2, <3>3
  <2>2. v \in From
    <3>1. Reaches(nodes, edges, w, v) /\ From \in SUBSET nodes
      OBVIOUS
    <3> HIDE DEF From
    <3> QED
      BY <2>1, <3>1 DEF Reaches
  <2>3. PICK x \in nodes : <<w, x>> \in edges /\ (v = x \/ Reaches(nodes, edges, x, v))
    BY <2>2
  <2>4. Reaches(nodes, edges, v, x)
    BY <2>3, ReachThenEdge
  <2>5. Reaches(nodes, edges, x, v)
    BY <2>3, <2>4
  <2> QED
    BY <2>3, <2>4, <2>5
<1>3. v \in R
  OBVIOUS
<1>4. R \in SUBSET nodes
  OBVIOUS
<1> HIDE DEF R
<1> QED
  BY <1>2, <1>3, <1>4 DEF Ring

\* The node of a ring that reaches fewest of the ring reaches its own successor's
\* descendants again, the successor among them.
LEMMA RingGivesCycle ==
  ASSUME NEW nodes, NEW edges, IsFiniteSet(nodes), NEW R \in SUBSET nodes, Ring(edges, R)
  PROVE  \E v \in nodes : Reaches(nodes, edges, v, v)
<1> DEFINE C(v) == {w \in R : Reaches(nodes, edges, v, w)}
           T == {Cardinality(C(v)) : v \in R}
<1>1. \A v \in R : IsFiniteSet(C(v)) /\ Cardinality(C(v)) \in Nat
  <2>1. IsFiniteSet(R)
    BY FS_Subset
  <2>2. ASSUME NEW v \in R PROVE IsFiniteSet(C(v))
    BY <2>1, FS_Subset
  <2> QED
    BY <2>2, FS_CardinalityType
<1> HIDE DEF C
<1>2. T \in SUBSET Nat /\ T # {}
  BY <1>1 DEF Ring
<1>3. PICK k \in T : \A j \in T : k <= j
  <2> HIDE DEF T
  <2> QED
    BY <1>2, LeastNat
<1>4. PICK v \in R : k = Cardinality(C(v))
  BY <1>3
<1>5. PICK w \in R : <<v, w>> \in edges
  BY DEF Ring
<1>6. C(w) \subseteq C(v) /\ w \in C(v)
  BY <1>5, EdgeThenReach, ReachEdge DEF C
<1>7. Cardinality(C(v)) <= Cardinality(C(w))
  BY <1>3, <1>4
<1>8. C(w) = C(v)
  <2>1. /\ IsFiniteSet(C(v)) /\ Cardinality(C(v)) \in Nat /\ Cardinality(C(w)) \in Nat
    BY <1>1
  <2>2. C(w) # C(v) => Cardinality(C(w)) < Cardinality(C(v))
    BY <2>1, <1>6, FS_Subset
  <2> QED
    BY <2>1, <2>2, <1>7
<1>9. Reaches(nodes, edges, w, w)
  BY <1>6, <1>8 DEF C
<1> QED
  BY <1>9

\* A finite graph has a cycle exactly when a set of its nodes is a ring.
LEMMA CycleIsRing ==
  ASSUME NEW nodes, NEW edges, IsFiniteSet(nodes), Graph(nodes, edges)
  PROVE  HasCycle(nodes, edges) <=> \E R \in SUBSET nodes : Ring(edges, R)
  BY CycleGivesRing, RingGivesCycle DEF HasCycle

-----------------------------------------------------------------------------
(* The search.  Until it finds a cycle the path is the discovered, unfinished *)
(* names in the order of their discovery, what a finished name leads to is    *)
(* finished, and no ring is among the finished.                               *)

SearchTypes(count, edges) ==
    [order : [1..count -> Int], count : Nat, cycle : BOOLEAN,
     finished : [1..count -> BOOLEAN], path : Seq(1..count), looked : SUBSET edges]

OnPath(d, v) == \E i \in 1..Len(d.path) : d.path[i] = v

Ordered(d, nodes) ==
    /\ \A v \in nodes : -1 <= d.order[v] /\ d.order[v] < d.count
    /\ \A v \in nodes : OnPath(d, v) <=> ~Undiscovered(d, v) /\ ~d.finished[v]
    /\ \A v \in nodes : d.finished[v] => ~Undiscovered(d, v)
    /\ \A i, j \in 1..Len(d.path) : i < j => d.order[d.path[i]] < d.order[d.path[j]]

Explored(d, edges) ==
    /\ \A i \in 1..Len(d.path) - 1 : <<d.path[i], d.path[i + 1]>> \in edges
    /\ \A e \in edges : d.finished[e[1]] => e \in d.looked
    /\ \A e \in d.looked : \/ d.finished[e[2]]
                           \/ \E i \in 1..Len(d.path) - 1 : e = <<d.path[i], d.path[i + 1]>>

Clear(d, nodes, edges) == \A R \in SUBSET nodes : (\A v \in R : d.finished[v]) => ~Ring(edges, R)

Sane(d, count, edges) ==
    /\ d \in SearchTypes(count, edges)
    /\ IF d.cycle THEN \E R \in SUBSET (1..count) : Ring(edges, R)
       ELSE Ordered(d, 1..count) /\ Explored(d, edges) /\ Clear(d, 1..count, edges)

\* What a search has done; each list only grows.
Discovered(d) == {v \in DOMAIN d.order : ~Undiscovered(d, v)}
Finished(d) == {v \in DOMAIN d.order : d.finished[v]}
Ended(d) == d.cycle \/ (d.path = <<>> /\ Roots(d) = {})

\* What Front leaves of a stack.
LEMMA FrontIs ==
  ASSUME NEW S, NEW s \in Seq(S), Len(s) > 0
  PROVE  /\ Front(s) \in Seq(S) /\ Len(Front(s)) = Len(s) - 1
         /\ \A i \in 1..Len(s) - 1 : Front(s)[i] = s[i]
<1> DEFINE m == Len(s) - 1
<1>1. Len(s) \in Nat /\ \A i \in 1..Len(s) : s[i] \in S
  BY ElementOfSeq
<1>2. m \in Nat /\ \A i \in 1..m : i \in 1..Len(s)
  BY <1>1
<1>3. \A i \in 1..m : s[i] \in S
  BY <1>1, <1>2
<1>4. Front(s) = SubSeq(s, 1, m)
  BY DEF Front
<1>5. Front(s) = [i \in 1..m |-> s[i]]
  BY <1>1, <1>2, <1>4
<1> QED
  BY <1>2, <1>3, <1>5

\* The least of a set of names.
LEMMA LeastIsIn ==
  ASSUME NEW ids \in SUBSET Nat, ids # {}
  PROVE  Least(ids) \in ids
  BY LeastNat DEF Least

\* A search that has done nothing yet.
LEMMA StartIsSane ==
  ASSUME NEW count \in Nat, NEW edges, Graph(1..count, edges)
  PROVE  Sane(SearchStart(count), count, edges)
<1> DEFINE d == SearchStart(count)
<1>1. /\ d \in SearchTypes(count, edges) /\ d.cycle = FALSE /\ d.path = <<>> /\ Len(d.path) = 0
      /\ d.looked = {} /\ d.count = 0
      /\ \A v \in 1..count : d.order[v] = -1 /\ d.finished[v] = FALSE
  BY DEF SearchTypes, SearchStart
<1>2. \A e \in edges : e[1] \in 1..count
  BY DEF Graph
<1> HIDE DEF d
<1>3. Ordered(d, 1..count)
  BY <1>1 DEF Ordered, OnPath, Undiscovered
<1>4. Explored(d, edges)
  BY <1>1, <1>2 DEF Explored
<1>5. Clear(d, 1..count, edges)
  BY <1>1 DEF Clear, Ring
<1> QED
  BY <1>1, <1>3, <1>4, <1>5 DEF Sane, d

Past(d, more) == [d EXCEPT !.looked = d.looked \cup more]

\* A call of Dfs for v, from the loop of CheckCycle or of the call for the last of the
\* path; the edge it came by, if any, counts as looked at.
LEMMA DiscoverIsSane ==
  ASSUME NEW count \in Nat, NEW edges, Graph(1..count, edges),
         NEW d, Sane(d, count, edges), ~d.cycle,
         NEW v \in 1..count, Undiscovered(d, v),
         NEW more \in SUBSET edges,
         \A e \in more : d.path # <<>> /\ e = <<d.path[Len(d.path)], v>>,
         d.path # <<>> => <<d.path[Len(d.path)], v>> \in edges,
         NEW m, m = Past(d, more)
  PROVE  /\ Sane(Discover(m, v), count, edges)
         /\ Discovered(Discover(m, v)) = Discovered(d) \cup {v}
         /\ Finished(Discover(m, v)) = Finished(d)
         /\ Discover(m, v).looked = d.looked \cup more
<1> DEFINE n == Discover(m, v)
           L == Len(d.path)
<1>1. /\ d \in SearchTypes(count, edges) /\ d.order \in [1..count -> Int] /\ d.count \in Nat
      /\ d.path \in Seq(1..count) /\ d.finished \in [1..count -> BOOLEAN] /\ d.looked \in SUBSET edges
      /\ L \in Nat
  <2>1. d \in SearchTypes(count, edges)
    BY DEF Sane
  <2>2. d.order \in [1..count -> Int] /\ d.count \in Nat /\ d.path \in Seq(1..count)
    BY <2>1 DEF SearchTypes
  <2>3. d.finished \in [1..count -> BOOLEAN] /\ d.looked \in SUBSET edges
    BY <2>1 DEF SearchTypes
  <2>4. L \in Nat
    BY <2>2
  <2> QED
    BY <2>1, <2>2, <2>3, <2>4
<1>2. /\ n.order = [d.order EXCEPT ![v] = d.count] /\ n.count = d.count + 1
      /\ n.path = Append(d.path, v) /\ n.finished = d.finished
      /\ n.looked = d.looked \cup more /\ n.cycle = d.cycle
      /\ n \in SearchTypes(count, edges)
  <2>1. /\ m \in SearchTypes(count, edges)
        /\ m.order = d.order /\ m.count = d.count /\ m.path = d.path /\ m.cycle = d.cycle
        /\ m.finished = d.finished /\ m.looked = d.looked \cup more
    BY <1>1 DEF SearchTypes, Past
  <2>2. /\ [m.order EXCEPT ![v] = m.count] \in [1..count -> Int] /\ m.count + 1 \in Nat
        /\ Append(m.path, v) \in Seq(1..count)
    BY <1>1, <2>1
  <2>3. /\ Discover(m, v) \in SearchTypes(count, edges)
        /\ Discover(m, v).order = [m.order EXCEPT ![v] = m.count]
        /\ Discover(m, v).count = m.count + 1 /\ Discover(m, v).path = Append(m.path, v)
        /\ Discover(m, v).finished = m.finished /\ Discover(m, v).looked = m.looked
        /\ Discover(m, v).cycle = m.cycle
    BY <2>1, <2>2 DEF Discover, SearchTypes
  <2> QED
    BY <2>1, <2>3
<1> HIDE DEF n
<1>3. /\ Len(n.path) = L + 1 /\ n.path[L + 1] = v
      /\ \A i \in 1..L : n.path[i] = d.path[i] /\ d.path[i] \in 1..count
  <2>1. /\ Len(Append(d.path, v)) = L + 1 /\ Append(d.path, v)[L + 1] = v
        /\ \A i \in 1..L : Append(d.path, v)[i] = d.path[i]
    BY <1>1, AppendProperties
  <2>2. \A i \in 1..L : d.path[i] \in 1..count
    BY <1>1, ElementOfSeq
  <2> QED
    BY <1>2, <2>1, <2>2
<1>4. Ordered(d, 1..count) /\ Explored(d, edges) /\ Clear(d, 1..count, edges)
  BY DEF Sane
<1>5. \A i \in 1..L : d.path[i] # v /\ OnPath(d, d.path[i])
  BY <1>3, <1>4 DEF Ordered, OnPath
<1>6. Ordered(n, 1..count)
  <2>1. \A w \in 1..count : /\ n.order[w] = IF w = v THEN d.count ELSE d.order[w]
                            /\ n.finished[w] = d.finished[w]
    BY <1>1, <1>2
  <2>a. \A w \in 1..count : -1 <= d.order[w] /\ d.order[w] < d.count /\ d.order[w] \in Int
    BY <1>1, <1>4 DEF Ordered
  <2>b. d.count \in Nat /\ n.count = d.count + 1
    BY <1>1, <1>2
  <2>2. \A w \in 1..count : -1 <= n.order[w] /\ n.order[w] < n.count
    BY <2>1, <2>a, <2>b
  <2>3. \A w \in 1..count : Undiscovered(n, w) <=> Undiscovered(d, w) /\ w # v
    BY <2>1, <2>b DEF Undiscovered
  <2>4. ASSUME NEW w \in 1..count PROVE OnPath(n, w) <=> OnPath(d, w) \/ w = v
    <3>0. L \in Nat /\ Len(n.path) = L + 1
      BY <1>1, <1>3
    <3>a. L \in Nat /\ 1..Len(n.path) = (1..L) \cup {L + 1}
      BY <3>0
    <3>1. OnPath(n, w) => OnPath(d, w) \/ w = v
      BY <3>a, <1>3 DEF OnPath
    <3>2. OnPath(d, w) => OnPath(n, w)
      BY <3>a, <1>3 DEF OnPath
    <3>3. OnPath(n, v)
      BY <3>a, <1>3 DEF OnPath
    <3> QED
      BY <3>1, <3>2, <3>3
  <2>5. ~d.finished[v]
    BY <1>4 DEF Ordered
  <2>6. \A w \in 1..count : /\ OnPath(n, w) <=> ~Undiscovered(n, w) /\ ~n.finished[w]
                            /\ n.finished[w] => ~Undiscovered(n, w)
    BY <2>1, <2>3, <2>4, <2>5, <1>4 DEF Ordered
  <2>7. ASSUME NEW i \in 1..Len(n.path), NEW j \in 1..Len(n.path), i < j
        PROVE  n.order[n.path[i]] < n.order[n.path[j]]
    <3>a. L \in Nat /\ Len(n.path) = L + 1
      BY <1>1, <1>3
    <3>1. i \in 1..L /\ (j \in 1..L \/ j = L + 1)
      BY <2>7, <3>a
    <3>2. n.order[n.path[i]] = d.order[d.path[i]] /\ d.path[i] \in 1..count
      BY <3>1, <2>1, <1>3, <1>5
    <3>3. CASE j \in 1..L
      <4>1. n.order[n.path[j]] = d.order[d.path[j]]
        BY <3>3, <2>1, <1>3, <1>5
      <4>2. d.order[d.path[i]] < d.order[d.path[j]]
        BY <3>1, <3>3, <2>7, <1>4 DEF Ordered
      <4> QED
        BY <3>2, <4>1, <4>2
    <3>4. CASE j = L + 1
      <4>1. n.order[n.path[j]] = d.count
        BY <3>4, <2>1, <1>3
      <4> QED
        BY <3>2, <4>1, <1>4 DEF Ordered
    <3> QED
      BY <3>1, <3>3, <3>4
  <2> QED
    BY <2>2, <2>6, <2>7 DEF Ordered
<1>7. Explored(n, edges)
  <2>1. ASSUME NEW i \in 1..Len(n.path) - 1 PROVE <<n.path[i], n.path[i + 1]>> \in edges
    <3>1. i \in 1..L /\ (i \in 1..L - 1 \/ i = L)
      BY <1>1, <1>3
    <3>2. CASE i \in 1..L - 1
      <4>0. L \in Nat
        BY <1>1
      <4>a. i \in 1..L /\ i + 1 \in 1..L
        BY <3>2, <4>0
      <4>1. n.path[i] = d.path[i] /\ n.path[i + 1] = d.path[i + 1]
        BY <4>a, <1>3
      <4> QED
        BY <4>1, <3>2, <1>4 DEF Explored
    <3>3. CASE i = L
      <4>1. d.path # <<>>
        BY <3>1, <3>3, <1>1
      <4> QED
        BY <4>1, <3>1, <3>3, <1>3
    <3> QED
      BY <3>1, <3>2, <3>3
  <2>2. \A e \in edges : n.finished[e[1]] => e \in n.looked
    BY <1>2, <1>4 DEF Explored
  <2>3. ASSUME NEW e \in n.looked
        PROVE  \/ n.finished[e[2]]
               \/ \E i \in 1..Len(n.path) - 1 : e = <<n.path[i], n.path[i + 1]>>
    <3>1. CASE e \in more
      <4>1. L \in 1..L /\ e = <<d.path[L], v>>
        <5>1. d.path # <<>> /\ e = <<d.path[L], v>>
          BY <3>1
        <5> QED
          BY <5>1, <1>1
      <4>a. L \in 1..Len(n.path) - 1
        BY <4>1, <1>1, <1>3
      <4>2. L \in 1..Len(n.path) - 1 /\ e = <<n.path[L], n.path[L + 1]>>
        BY <4>1, <4>a, <1>3
      <4> QED
        BY <4>2
    <3>2. CASE e \in d.looked
      <4>1. CASE d.finished[e[2]]
        BY <4>1, <1>2
      <4>2. ASSUME NEW i \in 1..L - 1, e = <<d.path[i], d.path[i + 1]>>
            PROVE  \E k \in 1..Len(n.path) - 1 : e = <<n.path[k], n.path[k + 1]>>
        <5>0. L \in Nat /\ Len(n.path) = L + 1
          BY <1>1, <1>3
        <5>1. i \in 1..Len(n.path) - 1 /\ i \in 1..L /\ i + 1 \in 1..L
          BY <5>0
        <5> QED
          BY <4>2, <5>1, <1>3
      <4> QED
        BY <3>2, <4>1, <4>2, <1>4 DEF Explored
    <3> QED
      BY <3>1, <3>2, <1>2
  <2> QED
    BY <2>1, <2>2, <2>3 DEF Explored
<1>8. Clear(n, 1..count, edges)
  BY <1>2, <1>4 DEF Clear
<1>9. Sane(n, count, edges)
  BY <1>2, <1>6, <1>7, <1>8 DEF Sane
<1>10. Discovered(n) = Discovered(d) \cup {v}
  <2>a. d.order \in [1..count -> Int] /\ d.count \in Nat /\ n.order = [d.order EXCEPT ![v] = d.count]
    BY <1>1, <1>2
  <2>b. d.count # -1
    BY <2>a
  <2>1. /\ DOMAIN n.order = 1..count /\ DOMAIN d.order = 1..count /\ d.count # -1
        /\ \A w \in 1..count : n.order[w] = IF w = v THEN d.count ELSE d.order[w]
    BY <2>a, <2>b
  <2> QED
    BY <2>1 DEF Discovered, Undiscovered
<1>11. Finished(n) = Finished(d)
  BY <1>1, <1>2 DEF Finished
<1> QED
  BY <1>2, <1>9, <1>10, <1>11 DEF n

\* What Ordered and Explored say of the call the search is in.
LEMMA InnermostCall ==
  ASSUME NEW count \in Nat, NEW edges, Graph(1..count, edges),
         NEW d, Sane(d, count, edges), ~d.cycle, d.path # <<>>
  PROVE  /\ Len(d.path) \in Nat /\ Len(d.path) \in 1..Len(d.path)
         /\ Last(d.path) = d.path[Len(d.path)] /\ Last(d.path) \in 1..count
         /\ ~d.finished[Last(d.path)] /\ ~Undiscovered(d, Last(d.path))
         /\ \A i \in 1..Len(d.path) - 1 : d.path[i] # Last(d.path)
         /\ \A i \in 1..Len(d.path) : d.path[i] \in 1..count /\ d.order[d.path[i]] \in Int
<1>1. d.path \in Seq(1..count) /\ d.order \in [1..count -> Int]
  BY DEF Sane, SearchTypes
<1>2. Len(d.path) \in Nat /\ Len(d.path) \in 1..Len(d.path)
  BY <1>1
<1>3. \A i \in 1..Len(d.path) : d.path[i] \in 1..count /\ d.order[d.path[i]] \in Int
  BY <1>1, ElementOfSeq
<1>4. Last(d.path) = d.path[Len(d.path)]
  BY DEF Last
<1>5. Ordered(d, 1..count)
  BY DEF Sane
<1>6. OnPath(d, Last(d.path))
  BY <1>2, <1>4 DEF OnPath
<1>7. ~d.finished[Last(d.path)] /\ ~Undiscovered(d, Last(d.path))
  BY <1>2, <1>3, <1>4, <1>5, <1>6 DEF Ordered
<1>8. ASSUME NEW i \in 1..Len(d.path) - 1, d.path[i] = Last(d.path) PROVE FALSE
  <2>1. i \in 1..Len(d.path) /\ i < Len(d.path)
    BY <1>2
  <2>2. d.order[d.path[i]] < d.order[d.path[Len(d.path)]]
    BY <2>1, <1>2, <1>5 DEF Ordered
  <2> QED
    BY <2>1, <2>2, <1>3, <1>4, <1>8
<1> QED
  BY <1>2, <1>3, <1>4, <1>7, <1>8

\* Dfs(here) returns when its loop is past every edge of here: they all lead to
\* finished names, so that a ring with here in it would be a ring without it.
LEMMA FinishIsSane ==
  ASSUME NEW count \in Nat, NEW edges, Graph(1..count, edges),
         NEW d, Sane(d, count, edges), ~d.cycle, d.path # <<>>,
         Ahead(d, edges, Last(d.path)) = {}
  PROVE  /\ Sane(Finish(d, Last(d.path)), count, edges)
         /\ Discovered(Finish(d, Last(d.path))) = Discovered(d)
         /\ Finished(Finish(d, Last(d.path))) = Finished(d) \cup {Last(d.path)}
         /\ Last(d.path) \notin Finished(d)
         /\ Finish(d, Last(d.path)).looked = d.looked
<1> DEFINE here == Last(d.path)
           n == Finish(d, here)
           L == Len(d.path)
<1>1. /\ d \in SearchTypes(count, edges) /\ d.order \in [1..count -> Int]
      /\ d.path \in Seq(1..count) /\ d.finished \in [1..count -> BOOLEAN] /\ d.looked \in SUBSET edges
  BY DEF Sane, SearchTypes
<1>2. /\ L \in Nat /\ L \in 1..L /\ here = d.path[L] /\ here \in 1..count
      /\ ~d.finished[here] /\ ~Undiscovered(d, here)
      /\ (\A i \in 1..L - 1 : d.path[i] # here)
      /\ \A i \in 1..L : d.path[i] \in 1..count /\ d.order[d.path[i]] \in Int
  BY InnermostCall
<1>3. /\ Front(d.path) \in Seq(1..count) /\ Len(Front(d.path)) = L - 1
      /\ \A i \in 1..L - 1 : Front(d.path)[i] = d.path[i]
  <2>1. L \in Nat /\ L > 0
    BY <1>2
  <2> QED
    BY <2>1, <1>1, FrontIs
<1>4. /\ n.order = d.order /\ n.count = d.count /\ n.cycle = d.cycle /\ n.looked = d.looked
      /\ n.path = Front(d.path) /\ n.finished = [d.finished EXCEPT ![here] = TRUE]
      /\ n \in SearchTypes(count, edges)
  <2>1. [d.finished EXCEPT ![here] = TRUE] \in [1..count -> BOOLEAN]
    BY <1>1
  <2> QED
    BY <1>1, <1>3, <2>1 DEF Finish, SearchTypes
<1> HIDE DEF n
<1>5. Ordered(d, 1..count) /\ Explored(d, edges) /\ Clear(d, 1..count, edges)
  BY DEF Sane
<1>6. \A w \in 1..count : n.finished[w] <=> d.finished[w] \/ w = here
  BY <1>1, <1>2, <1>4
<1>7. \A e \in edges : e[1] \in 1..count /\ e[2] \in 1..count /\ e = <<e[1], e[2]>>
  BY DEF Graph
<1>8. \A e \in edges : e[1] = here => e \in d.looked /\ d.finished[e[2]]
  <2> SUFFICES ASSUME NEW e \in edges, e[1] = here PROVE e \in d.looked /\ d.finished[e[2]]
    OBVIOUS
  <2>1. e \in d.looked
    BY DEF Ahead
  <2>2. ASSUME NEW i \in 1..L - 1, e = <<d.path[i], d.path[i + 1]>> PROVE FALSE
    <3>1. e[1] = d.path[i]
      BY <2>2
    <3> QED
      BY <3>1, <1>2
  <2> QED
    BY <2>1, <2>2, <1>5 DEF Explored
<1>9. \A e \in edges : d.finished[e[1]] => d.finished[e[2]]
  <2> SUFFICES ASSUME NEW e \in edges, d.finished[e[1]] PROVE d.finished[e[2]]
    OBVIOUS
  <2>1. e \in d.looked
    BY <1>5 DEF Explored
  <2>2. ASSUME NEW i \in 1..L - 1, e = <<d.path[i], d.path[i + 1]>> PROVE FALSE
    <3>1. e[1] = d.path[i] /\ i \in 1..L /\ d.path[i] \in 1..count
      BY <2>2, <1>2
    <3>2. OnPath(d, d.path[i])
      BY <3>1 DEF OnPath
    <3> QED
      BY <3>1, <3>2, <1>5 DEF Ordered
  <2> QED
    BY <2>1, <2>2, <1>5 DEF Explored
<1>10. Ordered(n, 1..count)
  <2>1. \A w \in 1..count : /\ -1 <= n.order[w] /\ n.order[w] < n.count
                            /\ Undiscovered(n, w) <=> Undiscovered(d, w)
    BY <1>4, <1>5 DEF Ordered, Undiscovered
  <2>2. ASSUME NEW w \in 1..count PROVE OnPath(n, w) <=> OnPath(d, w) /\ w # here
    <3>1. 1..Len(n.path) = 1..L - 1 /\ 1..L = (1..L - 1) \cup {L} /\ \A i \in 1..L - 1 : n.path[i] = d.path[i]
      BY <1>2, <1>3, <1>4
    <3> QED
      BY <3>1, <1>2 DEF OnPath
  <2>3. \A w \in 1..count : /\ OnPath(n, w) <=> ~Undiscovered(n, w) /\ ~n.finished[w]
                            /\ n.finished[w] => ~Undiscovered(n, w)
    BY <2>1, <2>2, <1>2, <1>5, <1>6 DEF Ordered
  <2>4. ASSUME NEW i \in 1..Len(n.path), NEW j \in 1..Len(n.path), i < j
        PROVE  n.order[n.path[i]] < n.order[n.path[j]]
    <3>1. Len(n.path) = L - 1
      BY <1>3, <1>4
    <3>2. i \in 1..L - 1 /\ j \in 1..L - 1
      BY <3>1
    <3>a. \A k \in 1..L - 1 : k \in 1..L
      BY <1>2
    <3>b. \A k \in 1..L - 1 : n.path[k] = d.path[k]
      BY <1>3, <1>4
    <3>3. n.path[i] = d.path[i] /\ n.path[j] = d.path[j] /\ i \in 1..L /\ j \in 1..L
      BY <3>2, <3>a, <3>b
    <3> QED
      BY <3>3, <2>4, <1>4, <1>5 DEF Ordered
  <2> QED
    BY <2>1, <2>3, <2>4 DEF Ordered
<1>11. Explored(n, edges)
  <2>0. Len(n.path) = L - 1
    BY <1>3, <1>4
  <2>1. ASSUME NEW i \in 1..Len(n.path) - 1
        PROVE  /\ <<n.path[i], n.path[i + 1]>> \in edges
    <3>1. i \in 1..L - 1 /\ i + 1 \in 1..L - 1
      BY <2>0, <1>2
    <3>2. n.path[i] = d.path[i] /\ n.path[i + 1] = d.path[i + 1]
      BY <3>1, <1>3, <1>4
    <3> QED
      BY <3>1, <3>2, <1>5 DEF Explored
  <2>2. \A e \in edges : n.finished[e[1]] => e \in n.looked
    BY <1>4, <1>5, <1>6, <1>7, <1>8 DEF Explored
  <2>3. ASSUME NEW e \in n.looked
        PROVE  \/ n.finished[e[2]]
               \/ \E i \in 1..Len(n.path) - 1 : e = <<n.path[i], n.path[i + 1]>>
    <3>1. e \in d.looked /\ e \in edges
      BY <1>1, <1>4
    <3>2. CASE d.finished[e[2]]
      BY <3>1, <3>2, <1>6, <1>7
    <3>3. ASSUME NEW i \in 1..L - 1, e = <<d.path[i], d.path[i + 1]>>
          PROVE  \/ n.finished[e[2]]
                 \/ \E k \in 1..Len(n.path) - 1 : e = <<n.path[k], n.path[k + 1]>>
      <4>1. CASE i = L - 1
        <5>1. e[2] = here
          BY <3>3, <4>1, <1>2
        <5> QED
          BY <5>1, <1>2, <1>6
      <4>2. CASE i # L - 1
        <5>1. i \in 1..Len(n.path) - 1 /\ i \in 1..L - 1 /\ i + 1 \in 1..L - 1
          BY <4>2, <2>0, <1>2
        <5>2. e = <<n.path[i], n.path[i + 1]>>
          BY <5>1, <3>3, <1>3, <1>4
        <5> QED
          BY <5>1, <5>2
      <4> QED
        BY <4>1, <4>2
    <3> QED
      BY <3>1, <3>2, <3>3, <1>5 DEF Explored
  <2> QED
    BY <2>1, <2>2, <2>3 DEF Explored
<1>12. Clear(n, 1..count, edges)
  <2> SUFFICES ASSUME NEW R \in SUBSET (1..count), \A v \in R : n.finished[v], Ring(edges, R)
               PROVE  FALSE
    BY DEF Clear
  <2> DEFINE Q == R \ {here}
  <2>1. \A v \in R : \E w \in R : <<v, w>> \in edges /\ d.finished[w]
    <3> SUFFICES ASSUME NEW v \in R PROVE \E w \in R : <<v, w>> \in edges /\ d.finished[w]
      OBVIOUS
    <3>1. PICK w \in R : <<v, w>> \in edges
      BY DEF Ring
    <3>2. <<v, w>>[1] = v /\ <<v, w>>[2] = w /\ (d.finished[v] \/ v = here)
      BY <1>6
    <3>3. d.finished[w]
      BY <3>1, <3>2, <1>8, <1>9
    <3> QED
      BY <3>1, <3>3
  <2>2. \A w \in R : d.finished[w] => w \in Q
    BY <1>2
  <2>3. Ring(edges, Q)
    BY <2>1, <2>2 DEF Ring
  <2>4. \A v \in Q : d.finished[v]
    BY <1>6
  <2> QED
    BY <2>3, <2>4, <1>5 DEF Clear
<1>13. Sane(n, count, edges)
  BY <1>4, <1>10, <1>11, <1>12 DEF Sane
<1>14. Discovered(n) = Discovered(d)
  BY <1>4 DEF Discovered, Undiscovered
<1>15. Finished(n) = Finished(d) \cup {here} /\ here \notin Finished(d)
  BY <1>1, <1>2, <1>4, <1>6 DEF Finished
<1> QED
  BY <1>4, <1>13, <1>14, <1>15 DEF n

\* An edge to a discovered name: finished, or on the path and then a cycle, which the
\* comparison of the discovery orders never hides.
LEMMA LookBackIsSane ==
  ASSUME NEW count \in Nat, NEW edges, Graph(1..count, edges),
         NEW d, Sane(d, count, edges), ~d.cycle, d.path # <<>>,
         NEW there \in 1..count, ~Undiscovered(d, there),
         <<Last(d.path), there>> \in edges
  PROVE  /\ Sane(Look(d, Last(d.path), there), count, edges)
         /\ Discovered(Look(d, Last(d.path), there)) = Discovered(d)
         /\ Finished(Look(d, Last(d.path), there)) = Finished(d)
         /\ Look(d, Last(d.path), there).looked = d.looked \cup {<<Last(d.path), there>>}
<1> DEFINE here == Last(d.path)
           n == Look(d, here, there)
           L == Len(d.path)
           back == BackEdge(d, here, there)
<1>1. /\ d \in SearchTypes(count, edges) /\ d.looked \in SUBSET edges
      /\ d.order \in [1..count -> Int] /\ d.finished \in [1..count -> BOOLEAN]
  BY DEF Sane, SearchTypes
<1>2. /\ L \in Nat /\ L \in 1..L /\ here = d.path[L] /\ here \in 1..count
      /\ \A i \in 1..L : d.path[i] \in 1..count /\ d.order[d.path[i]] \in Int
  BY InnermostCall
<1>3. Ordered(d, 1..count) /\ Explored(d, edges) /\ Clear(d, 1..count, edges)
  BY DEF Sane
<1>4. back \in BOOLEAN
  BY DEF BackEdge
<1>5. /\ n.order = d.order /\ n.count = d.count /\ n.path = d.path /\ n.finished = d.finished
      /\ n.cycle = back /\ n.looked = d.looked \cup {<<here, there>>}
      /\ n \in SearchTypes(count, edges)
  <2> DEFINE past == [d EXCEPT !.looked = d.looked \cup {<<here, there>>}]
  <2>1. /\ past \in SearchTypes(count, edges)
        /\ past.order = d.order /\ past.count = d.count /\ past.path = d.path
        /\ past.finished = d.finished /\ past.looked = d.looked \cup {<<here, there>>}
    BY <1>1 DEF SearchTypes
  <2>2. n = [past EXCEPT !.cycle = back]
    BY DEF Look
  <2> HIDE DEF past, n, back
  <2> QED
    BY <2>1, <2>2, <1>4 DEF SearchTypes
<1> HIDE DEF n
<1>6. ASSUME back PROVE Sane(n, count, edges)
  <2>1. OnPath(d, there)
    BY <1>3, <1>6 DEF Ordered, BackEdge
  <2>2. PICK i \in 1..L : d.path[i] = there
    BY <2>1 DEF OnPath
  <2> DEFINE R == {d.path[j] : j \in i..L}
  <2>3. R \in SUBSET (1..count) /\ R # {}
    <3>1. \A j \in i..L : j \in 1..L
      BY <1>2, <2>2
    <3>2. L \in i..L
      BY <1>2, <2>2
    <3> QED
      BY <3>1, <3>2, <1>2
  <2>4. ASSUME NEW j \in i..L PROVE \E w \in R : <<d.path[j], w>> \in edges
    <3>1. CASE j = L
      <4>1. i \in i..L
        BY <1>2, <2>2
      <4>2. there \in R
        BY <4>1, <2>2
      <4> QED
        BY <3>1, <4>2, <1>2
    <3>2. CASE j # L
      <4>1. j \in 1..L - 1 /\ j + 1 \in i..L
        BY <3>2, <1>2, <2>2
      <4>2. <<d.path[j], d.path[j + 1]>> \in edges
        BY <4>1, <1>3 DEF Explored
      <4> QED
        BY <4>1, <4>2
    <3> QED
      BY <3>1, <3>2
  <2>5. Ring(edges, R)
    BY <2>3, <2>4 DEF Ring
  <2>6. n.cycle = TRUE
    BY <1>4, <1>5, <1>6
  <2> HIDE DEF R
  <2>7. n \in SearchTypes(count, edges) /\ \E Q \in SUBSET (1..count) : Ring(edges, Q)
    BY <2>3, <2>5, <1>5
  <2> QED
    BY <2>6, <2>7 DEF Sane
<1>7. ASSUME ~back PROVE Sane(n, count, edges)
  <2>1. d.finished[there]
    <3> SUFFICES ASSUME ~d.finished[there] PROVE FALSE
      OBVIOUS
    <3>1. OnPath(d, there)
      BY <1>3 DEF Ordered
    <3>2. PICK i \in 1..L : d.path[i] = there
      BY <3>1 DEF OnPath
    <3>3. d.order[there] <= d.order[here]
      <4>1. CASE i = L
        BY <4>1, <3>2, <1>2
      <4>2. CASE i # L
        <5>1. i < L
          BY <4>2, <1>2
        <5>2. d.order[d.path[i]] < d.order[d.path[L]]
          BY <5>1, <1>2, <1>3 DEF Ordered
        <5>3. d.order[there] < d.order[here]
          BY <5>2, <3>2, <1>2
        <5>4. d.order[there] \in Int /\ d.order[here] \in Int
          BY <1>1, <1>2
        <5> QED
          BY <5>3, <5>4
      <4> QED
        BY <4>1, <4>2
    <3>4. d.order[there] \in Int /\ d.order[here] \in Int
      BY <1>1, <1>2
    <3> QED
      BY <3>3, <3>4, <1>7 DEF BackEdge
  <2>2. Ordered(n, 1..count)
    BY <1>3, <1>5 DEF Ordered, OnPath, Undiscovered
  <2>3. Explored(n, edges)
    <3>1. <<here, there>>[2] = there
      OBVIOUS
    <3>2. \A e \in n.looked : \/ n.finished[e[2]]
                              \/ \E i \in 1..Len(n.path) - 1 : e = <<n.path[i], n.path[i + 1]>>
      BY <2>1, <3>1, <1>3, <1>5 DEF Explored
    <3> QED
      BY <3>2, <1>3, <1>5 DEF Explored
  <2>4. Clear(n, 1..count, edges)
    BY <1>3, <1>5 DEF Clear
  <2>5. n.cycle = FALSE /\ n \in SearchTypes(count, edges)
    BY <1>4, <1>5, <1>7
  <2> QED
    BY <2>2, <2>3, <2>4, <2>5 DEF Sane
<1>8. Discovered(n) = Discovered(d) /\ Finished(n) = Finished(d)
  BY <1>5 DEF Discovered, Finished, Undiscovered
<1> QED
  BY <1>4, <1>5, <1>6, <1>7, <1>8 DEF n

\* What has been done is counted; every step of a search that has not ended adds to it.
Done(d) == Cardinality(Discovered(d)) + Cardinality(Finished(d)) + Cardinality(d.looked)

\* What there is to do, and has been done, can be counted.
LEMMA WorkIsFinite ==
  ASSUME NEW count \in Nat, NEW edges, Graph(1..count, edges), NEW d, Sane(d, count, edges)
  PROVE  /\ IsFiniteSet(edges) /\ Cardinality(edges) \in Nat
         /\ IsFiniteSet(Discovered(d)) /\ IsFiniteSet(Finished(d)) /\ IsFiniteSet(d.looked)
         /\ Cardinality(Discovered(d)) \in Nat /\ Cardinality(Discovered(d)) <= count
         /\ Cardinality(Finished(d)) \in Nat /\ Cardinality(Finished(d)) <= count
         /\ Cardinality(d.looked) \in Nat /\ Cardinality(d.looked) <= Cardinality(edges)
         /\ Discovered(d) \subseteq 1..count /\ Finished(d) \subseteq 1..count
<1>1. IsFiniteSet(1..count) /\ Cardinality(1..count) = count
  <2>1. 1 \in Int /\ count \in Int
    OBVIOUS
  <2>2. Cardinality(1..count) = IF 1 > count THEN 0 ELSE count - 1 + 1
    BY <2>1, FS_Interval
  <2>3. IsFiniteSet(1..count)
    BY <2>1, FS_Interval
  <2> QED
    BY <2>2, <2>3
<1>2. IsFiniteSet(edges)
  <2>1. IsFiniteSet((1..count) \X (1..count))
    BY <1>1, FS_Product
  <2> QED
    BY <2>1, FS_Subset DEF Graph
<1>3. /\ DOMAIN d.order = 1..count /\ d.looked \in SUBSET edges
  BY DEF Sane, SearchTypes
<1>4. Discovered(d) \in SUBSET (1..count) /\ Finished(d) \in SUBSET (1..count)
  BY <1>3 DEF Discovered, Finished
<1>5. /\ IsFiniteSet(Discovered(d)) /\ Cardinality(Discovered(d)) <= Cardinality(1..count)
  BY <1>1, <1>4, FS_Subset
<1>6. /\ IsFiniteSet(Finished(d)) /\ Cardinality(Finished(d)) <= Cardinality(1..count)
  BY <1>1, <1>4, FS_Subset
<1>7. /\ IsFiniteSet(d.looked) /\ Cardinality(d.looked) <= Cardinality(edges)
  BY <1>2, <1>3, FS_Subset
<1>8. /\ Cardinality(Discovered(d)) \in Nat /\ Cardinality(Finished(d)) \in Nat
      /\ Cardinality(d.looked) \in Nat /\ Cardinality(edges) \in Nat
  BY <1>2, <1>5, <1>6, <1>7, FS_CardinalityType
<1> QED
  BY <1>1, <1>2, <1>4, <1>5, <1>6, <1>7, <1>8

\* A step keeps the search sane, and does some work or finds that the search has ended.
LEMMA SearchStepIsSane ==
  ASSUME NEW count \in Nat, NEW edges, Graph(1..count, edges), NEW d, Sane(d, count, edges)
  PROVE  /\ Sane(SearchStep(d, edges), count, edges)
         /\ Ended(d) => SearchStep(d, edges) = d
         /\ ~Ended(d) => Done(SearchStep(d, edges)) >= Done(d) + 1
<1> DEFINE n == SearchStep(d, edges)
<1>1. CASE Ended(d)
  BY <1>1 DEF Ended, SearchStep
<1> HIDE DEF n
<1>2. CASE ~Ended(d)
  <2>0. ~d.cycle
    BY <1>2 DEF Ended
  <2>1. /\ IsFiniteSet(Discovered(d)) /\ IsFiniteSet(Finished(d)) /\ IsFiniteSet(d.looked)
        /\ Cardinality(Discovered(d)) \in Nat /\ Cardinality(Finished(d)) \in Nat
        /\ Cardinality(d.looked) \in Nat
    BY WorkIsFinite
  <2>2. /\ d \in SearchTypes(count, edges) /\ DOMAIN d.order = 1..count
        /\ d.looked \in SUBSET edges
    BY DEF Sane, SearchTypes
  <2>3. CASE d.path = <<>>
    <3> DEFINE v == Least(Roots(d))
    <3>1. Roots(d) # {} /\ Roots(d) \in SUBSET (1..count) /\ Roots(d) \in SUBSET Nat
      BY <1>2, <2>2, <2>3 DEF Ended, Roots
    <3>2. v \in Roots(d)
      BY <3>1, LeastIsIn
    <3> HIDE DEF v
    <3>3. v \in 1..count /\ Undiscovered(d, v) /\ v \notin Discovered(d)
      BY <3>1, <3>2 DEF Roots, Discovered
    <3> DEFINE none == {}
               past == Past(d, none)
    <3>4. past = d /\ none \in SUBSET edges /\ \A e \in none : FALSE
      BY <2>2 DEF SearchTypes, Past
    <3>5. n = Discover(d, v)
      BY <2>0, <2>3, <3>1 DEF SearchStep, n, v
    <3>6. /\ Sane(Discover(d, v), count, edges)
          /\ Discovered(Discover(d, v)) = Discovered(d) \cup {v}
          /\ Finished(Discover(d, v)) = Finished(d)
          /\ Discover(d, v).looked = d.looked \cup none
      <4>1. /\ none \in SUBSET edges /\ past = Past(d, none)
            /\ \A e \in none : d.path # <<>> /\ e = <<d.path[Len(d.path)], v>>
            /\ d.path # <<>> => <<d.path[Len(d.path)], v>> \in edges
        BY <2>3, <3>4
      <4> HIDE DEF none, past
      <4>2. /\ Sane(Discover(past, v), count, edges)
            /\ Discovered(Discover(past, v)) = Discovered(d) \cup {v}
            /\ Finished(Discover(past, v)) = Finished(d)
            /\ Discover(past, v).looked = d.looked \cup none
        BY <2>0, <3>3, <4>1, DiscoverIsSane
      <4> QED
        BY <4>2, <3>4
    <3>7. Cardinality(Discovered(d) \cup {v}) = Cardinality(Discovered(d)) + 1
      BY <2>1, <3>3, FS_AddElement
    <3>8. Done(n) >= Done(d) + 1
      BY <2>1, <3>5, <3>6, <3>7 DEF Done
    <3> QED
      BY <1>2, <3>5, <3>6, <3>8 DEF n
  <2>4. CASE d.path # <<>>
    <3> DEFINE here == Last(d.path)
               ahead == Ahead(d, edges, here)
    <3>1. n = IF ahead = {} THEN Finish(d, here) ELSE Look(d, here, Least(ahead))
      BY <2>0, <2>4 DEF SearchStep, n
    <3>2. CASE ahead = {}
      <4>1. /\ Sane(Finish(d, here), count, edges)
            /\ Discovered(Finish(d, here)) = Discovered(d)
            /\ Finished(Finish(d, here)) = Finished(d) \cup {here}
            /\ here \notin Finished(d) /\ Finish(d, here).looked = d.looked
        BY <2>0, <2>4, <3>2, FinishIsSane
      <4>2. Cardinality(Finished(d) \cup {here}) = Cardinality(Finished(d)) + 1
        BY <2>1, <4>1, FS_AddElement
      <4>3. n = Finish(d, here)
        BY <3>1, <3>2
      <4>a. /\ Cardinality(Discovered(n)) = Cardinality(Discovered(d))
            /\ Cardinality(Finished(n)) = Cardinality(Finished(d)) + 1
            /\ Cardinality(n.looked) = Cardinality(d.looked)
        BY <4>1, <4>2, <4>3
      <4>4. Done(n) >= Done(d) + 1
        BY <2>1, <4>a DEF Done
      <4> QED
        BY <1>2, <4>1, <4>3, <4>4 DEF n
    <3>3. CASE ahead # {}
      <4> DEFINE there == Least(ahead)
      <4>1. \A e \in edges : e[1] \in 1..count /\ e[2] \in 1..count /\ e = <<e[1], e[2]>>
        BY DEF Graph
      <4>2. ahead \in SUBSET Nat
        BY <4>1 DEF Ahead
      <4>3. there \in ahead
        <5> HIDE DEF ahead
        <5> QED
          BY <3>3, <4>2, LeastIsIn
      <4>4. PICK e \in edges \ d.looked : e[1] = here /\ e[2] = there
        BY <4>3 DEF Ahead
      <4> HIDE DEF there, ahead
      <4>5. /\ there \in 1..count /\ <<here, there>> \in edges /\ <<here, there>> \notin d.looked
            /\ n = Look(d, here, there)
        BY <4>1, <4>4, <3>1, <3>3 DEF there
      <4>6. Cardinality(d.looked \cup {<<here, there>>}) = Cardinality(d.looked) + 1
        BY <2>1, <4>5, FS_AddElement
      <4>7. CASE Undiscovered(d, there)
        <5> DEFINE more == {<<here, there>>}
                   past == Past(d, more)
                   m == Discover(past, there)
        <5>1. past.order = d.order
          BY <2>2 DEF SearchTypes, Past
        <5>2. n = m
          <6>1. Look(d, here, there) = IF Undiscovered(d, there) THEN Discover(past, there)
                                       ELSE [past EXCEPT !.cycle = BackEdge(d, here, there)]
            BY DEF Look, Past
          <6> HIDE DEF past
          <6> QED
            BY <4>5, <4>7, <6>1
        <5>3. here = d.path[Len(d.path)]
          BY DEF Last
        <5>4. /\ more \in SUBSET edges /\ <<d.path[Len(d.path)], there>> \in edges
              /\ \A x \in more : d.path # <<>> /\ x = <<d.path[Len(d.path)], there>>
          BY <2>4, <4>5, <5>3
        <5>5. /\ Sane(m, count, edges) /\ Discovered(m) = Discovered(d) \cup {there}
              /\ Finished(m) = Finished(d) /\ m.looked = d.looked \cup more
          <6> HIDE DEF more
          <6> QED
            BY <2>0, <4>5, <4>7, <5>4, DiscoverIsSane
        <5>6. there \notin Discovered(d)
          BY <4>7 DEF Discovered
        <5>7. Cardinality(Discovered(d) \cup {there}) = Cardinality(Discovered(d)) + 1
          BY <2>1, <5>6, FS_AddElement
        <5> HIDE DEF m
        <5>8. Done(m) >= Done(d) + 1
          BY <2>1, <4>6, <5>5, <5>7 DEF Done
        <5> QED
          BY <1>2, <5>2, <5>5, <5>8 DEF n
      <4>8. CASE ~Undiscovered(d, there)
        <5>1. /\ Sane(Look(d, here, there), count, edges)
              /\ Discovered(Look(d, here, there)) = Discovered(d)
              /\ Finished(Look(d, here, there)) = Finished(d)
              /\ Look(d, here, there).looked = d.looked \cup {<<here, there>>}
          BY <2>0, <2>4, <4>5, <4>8, LookBackIsSane
        <5>2. Done(n) >= Done(d) + 1
          BY <2>1, <4>5, <4>6, <5>1 DEF Done
        <5> QED
          BY <1>2, <4>5, <5>1, <5>2 DEF n
      <4> QED
        BY <4>7, <4>8
    <3> QED
      BY <3>2, <3>3
  <2> QED
    BY <2>3, <2>4
<1> QED
  BY <1>1, <1>2

\* f is the search step by step.  It exists: the shortest search without it would
\* extend the one before.
Follows(f, k, count, edges) ==
    f = [n \in 0..k |-> IF n = 0 THEN SearchStart(count) ELSE SearchStep(f[n - 1], edges)]

\* The steps of the search follow one another.
LEMMA SearchExists ==
  ASSUME NEW count, NEW edges, NEW k \in Nat
  PROVE  \E f : Follows(f, k, count, edges)
<1> DEFINE Bad == {j \in Nat : ~\E f : Follows(f, j, count, edges)}
<1> SUFFICES ASSUME Bad # {} PROVE FALSE
  OBVIOUS
<1>1. PICK j \in Bad : \A i \in Bad : j <= i
  <2>1. Bad \in SUBSET Nat
    OBVIOUS
  <2> HIDE DEF Bad
  <2> QED
    BY <2>1, LeastNat
<1>2. j \in Nat
  OBVIOUS
<1>3. j # 0
  <2> DEFINE z == [n \in 0..0 |-> SearchStart(count)]
  <2>1. Follows(z, 0, count, edges)
    BY DEF Follows
  <2> HIDE DEF z
  <2> QED
    BY <2>1
<1>4. j - 1 \in Nat /\ j - 1 \notin Bad
  <2>1. j - 1 \in Nat /\ ~(j <= j - 1)
    BY <1>2, <1>3
  <2> HIDE DEF Bad
  <2> QED
    BY <2>1, <1>1
<1>5. PICK f : Follows(f, j - 1, count, edges)
  BY <1>4
<1> DEFINE g == [n \in 0..j |-> IF n = j THEN SearchStep(f[j - 1], edges) ELSE f[n]]
<1>6. Follows(g, j, count, edges)
  <2>1. \A n \in 0..(j - 1) : f[n] = IF n = 0 THEN SearchStart(count)
                                             ELSE SearchStep(f[n - 1], edges)
    BY <1>5 DEF Follows
  <2>2. \A n \in 0..j : g[n] = IF n = 0 THEN SearchStart(count)
                                       ELSE SearchStep(g[n - 1], edges)
    BY <2>1, <1>2, <1>3
  <2> QED
    BY <2>2 DEF Follows
<1> HIDE DEF g
<1> QED
  BY <1>6

\* The search finds a cycle exactly when there is one: it stays sane, and is as long as
\* all the work there can be.
THEOREM SearchFindsCycles ==
  ASSUME NEW count \in Nat, NEW edges, Graph(1..count, edges)
  PROVE  CheckCycle(count, edges) <=> HasCycle(1..count, edges)
<1> DEFINE N == SearchLength(count, edges)
           run == Search(count, edges)
           V == 1..count
<1>1. Sane(SearchStart(count), count, edges)
  BY StartIsSane
<1>2. IsFiniteSet(edges) /\ Cardinality(edges) \in Nat
  BY <1>1, WorkIsFinite
<1>3. N = 2 * count + Cardinality(edges) /\ N \in Nat
  BY <1>2 DEF SearchLength
<1> HIDE DEF N
<1>4. PICK f : Follows(f, N, count, edges)
  BY <1>3, SearchExists
<1>5. Follows(run, N, count, edges)
  BY <1>4 DEF Follows, Search, N
<1>6. CheckCycle(count, edges) = run[N].cycle
  BY DEF CheckCycle, N
<1> HIDE DEF run
<1>7. /\ run[0] = SearchStart(count)
      /\ \A n \in 0..N : n # 0 => run[n] = SearchStep(run[n - 1], edges)
  BY <1>3, <1>5 DEF Follows
<1> DEFINE Good(n) == /\ Sane(run[n], count, edges)
                      /\ Ended(run[n]) \/ Done(run[n]) >= n
           Bad == {n \in 0..N : ~Good(n)}
<1>8. Bad = {}
  <2> SUFFICES ASSUME Bad # {} PROVE FALSE
    OBVIOUS
  <2>1. PICK n \in Bad : \A i \in Bad : n <= i
    <3>1. Bad \in SUBSET Nat
      OBVIOUS
    <3> HIDE DEF Bad
    <3> QED
      BY <3>1, LeastNat
  <2>2. n \in 0..N /\ ~Good(n)
    OBVIOUS
  <2>3. Good(0)
    <3>1. /\ Cardinality(Discovered(SearchStart(count))) \in Nat
          /\ Cardinality(Finished(SearchStart(count))) \in Nat
          /\ Cardinality(SearchStart(count).looked) \in Nat
      BY <1>1, WorkIsFinite
    <3>2. Done(SearchStart(count)) >= 0
      BY <3>1 DEF Done
    <3> QED
      BY <1>1, <1>7, <3>2
  <2>4. n # 0
    BY <2>2, <2>3
  <2>5. n - 1 \in 0..N /\ ~(n <= n - 1) /\ n \in Nat
    BY <2>2, <2>4, <1>3
  <2>6. Good(n - 1)
    <3>1. n - 1 \notin Bad
      <4> HIDE DEF Bad
      <4> QED
        BY <2>1, <2>5
    <3> QED
      BY <3>1, <2>5
  <2> DEFINE p == run[n - 1]
  <2>7. run[n] = SearchStep(p, edges)
    BY <1>7, <2>2, <2>4
  <2>8. Sane(p, count, edges) /\ (Ended(p) \/ Done(p) >= n - 1)
    BY <2>6
  <2> HIDE DEF p, Good, Bad
  <2>9. /\ Sane(SearchStep(p, edges), count, edges)
        /\ Ended(p) => SearchStep(p, edges) = p
        /\ ~Ended(p) => Done(SearchStep(p, edges)) >= Done(p) + 1
    BY <2>8, SearchStepIsSane
  <2>10. Ended(SearchStep(p, edges)) \/ Done(SearchStep(p, edges)) >= n
    <3>1. CASE Ended(p)
      BY <3>1, <2>9
    <3>2. CASE ~Ended(p)
      <4>1. Done(p) >= n - 1 /\ Done(SearchStep(p, edges)) >= Done(p) + 1
        BY <3>2, <2>8, <2>9
      <4>2. Done(p) \in Nat /\ Done(SearchStep(p, edges)) \in Nat
        <5>1. ASSUME NEW d, Sane(d, count, edges) PROVE Done(d) \in Nat
          <6>1. /\ Cardinality(Discovered(d)) \in Nat /\ Cardinality(Finished(d)) \in Nat
                /\ Cardinality(d.looked) \in Nat
            BY <5>1, WorkIsFinite
          <6> QED
            BY <6>1 DEF Done
        <5> QED
          BY <5>1, <2>8, <2>9
      <4> QED
        BY <4>1, <4>2, <2>5
    <3> QED
      BY <3>1, <3>2
  <2> QED
    BY <2>2, <2>7, <2>9, <2>10 DEF Good
<1>9. Good(N)
  <2>1. N \in 0..N
    BY <1>3
  <2> QED
    BY <1>8, <2>1
<1> DEFINE last == run[N]
<1>10. Sane(last, count, edges) /\ (Ended(last) \/ Done(last) >= N)
  BY <1>9
<1> HIDE DEF last, Good, Bad
<1>11. last.cycle \in BOOLEAN /\ last \in SearchTypes(count, edges)
  BY <1>10 DEF Sane, SearchTypes
<1>12. IsFiniteSet(V)
  <2>1. 1 \in Int /\ count \in Int
    OBVIOUS
  <2> QED
    BY <2>1, FS_Interval
<1>13. HasCycle(V, edges) <=> \E R \in SUBSET V : Ring(edges, R)
  <2> HIDE DEF V
  <2> QED
    BY <1>12, CycleIsRing DEF V
<1>14. CASE last.cycle = TRUE
  <2>1. \E R \in SUBSET V : Ring(edges, R)
    BY <1>10, <1>14 DEF Sane
  <2> QED
    BY <2>1, <1>6, <1>13, <1>14 DEF last
<1>15. CASE last.cycle = FALSE
  <2>1. Ordered(last, V) /\ Clear(last, V, edges)
    BY <1>10, <1>15 DEF Sane
  <2>2. \A v \in V : last.finished[v]
    <3>1. CASE Ended(last)
      <4>1. last.path = <<>> /\ Roots(last) = {} /\ DOMAIN last.order = V
        BY <3>1, <1>11, <1>15 DEF Ended, SearchTypes
      <4>2. Len(last.path) = 0
        BY <4>1
      <4>3. \A v \in V : ~Undiscovered(last, v) /\ ~OnPath(last, v)
        BY <4>1, <4>2 DEF Roots, OnPath
      <4> QED
        BY <4>3, <2>1 DEF Ordered
    <3>2. CASE Done(last) >= N
      <4>1. /\ IsFiniteSet(Finished(last))
            /\ Cardinality(Discovered(last)) \in Nat /\ Cardinality(Discovered(last)) <= count
            /\ Cardinality(Finished(last)) \in Nat /\ Cardinality(Finished(last)) <= count
            /\ Cardinality(last.looked) \in Nat /\ Cardinality(last.looked) <= Cardinality(edges)
            /\ Finished(last) \subseteq V
        BY <1>10, WorkIsFinite
      <4>2. Cardinality(Finished(last)) = count
        BY <4>1, <3>2, <1>2, <1>3 DEF Done
      <4>3. Cardinality(V) = count
        <5>1. 1 \in Int /\ count \in Int
          OBVIOUS
        <5>2. Cardinality(1..count) = IF 1 > count THEN 0 ELSE count - 1 + 1
          BY <5>1, FS_Interval
        <5> QED
          BY <5>2
      <4>4. Finished(last) = V
        <5> HIDE DEF V
        <5>0. IsFiniteSet(V) /\ Finished(last) \in SUBSET V
          BY <1>12, <4>1
        <5>1. Cardinality(V) = Cardinality(Finished(last)) => V = Finished(last)
          BY <5>0, FS_Subset
        <5>2. Cardinality(Finished(last)) \in Nat /\ Cardinality(V) = Cardinality(Finished(last))
          BY <4>1, <4>2, <4>3
        <5> QED
          BY <5>1, <5>2
      <4> QED
        BY <4>4 DEF Finished
    <3> QED
      BY <3>1, <3>2, <1>10
  <2>3. ~\E R \in SUBSET V : Ring(edges, R)
    BY <2>1, <2>2 DEF Clear
  <2> QED
    BY <2>3, <1>6, <1>13, <1>15 DEF last
<1> QED
  BY <1>11, <1>14, <1>15

-----------------------------------------------------------------------------
(* The profiler.  A thread's lock stack is the names of the locks it holds    *)
(* and of the one it announced, in that order, and what lies below a name in   *)
(* it was recorded as an edge to that name.                                    *)

Names == {NameOf[l] : l \in Locks}

Announced(t) == IF waiting[t] = NoLock THEN locked[t] ELSE Append(locked[t], waiting[t])

ProfilerTypeOK ==
    /\ names \in Seq(Names)
    /\ \A i, j \in 1..Len(names) : names[i] = names[j] => i = j
    /\ Graph(1..Len(names), history)
    /\ lockStack \in [Takers -> Seq(Nat)]
    /\ locked \in [Takers -> Seq(Locks)]
    /\ waiting \in [Takers -> Locks \cup {NoLock}]
    /\ alarm \in {"none", "DEADLOCK_DETECTED"}

Mirrored == \A t \in Takers :
    /\ Len(lockStack[t]) = Len(Announced(t))
    /\ \A i \in 1..Len(lockStack[t]) : /\ lockStack[t][i] \in 1..Len(names)
                                       /\ names[lockStack[t][i]] = NameOf[Announced(t)[i]]

Recorded == \A t \in Takers : \A i \in 1..Len(lockStack[t]) - 1 :
    \/ lockStack[t][i] = lockStack[t][i + 1]
    \/ <<lockStack[t][i], lockStack[t][i + 1]>> \in history

AlarmExact == alarm = "DEADLOCK_DETECTED" <=> HasCycle(1..Len(names), history)

ProfilerInv == ProfilerTypeOK /\ Mirrored /\ Recorded /\ AlarmExact

\* A name that is not the last on a stack leads to another one above it, or is all
\* there is above it.
LEMMA Above ==
  ASSUME ProfilerTypeOK, Mirrored, Recorded, NEW t \in Takers, NEW i \in 1..Len(lockStack[t]),
         \A k \in i..Len(lockStack[t]) : <<lockStack[t][i], lockStack[t][k]>> \notin history
  PROVE  lockStack[t][Len(lockStack[t])] = lockStack[t][i]
<1> DEFINE s == lockStack[t]
<1>1. s \in Seq(Nat) /\ Len(s) \in Nat
  BY DEF ProfilerTypeOK
<1>2. SUFFICES ASSUME s[Len(s)] # s[i] PROVE FALSE
  OBVIOUS
<1> DEFINE T == {k \in i..Len(s) : s[k] # s[i]}
<1>3. T \in SUBSET Nat /\ Len(s) \in T
  BY <1>1, <1>2
<1>4. PICK k \in T : \A m \in T : k <= m
  BY <1>3, LeastNat
<1>5. k \in Nat /\ k > i /\ k <= Len(s) /\ s[k] # s[i]
  BY <1>1, <1>4
<1>6. k - 1 \in i..Len(s) /\ k - 1 \in 1..Len(s) - 1 /\ k - 1 + 1 = k
  BY <1>1, <1>5
<1>7. k - 1 \notin T
  BY <1>4, <1>5
<1>8. s[k - 1] = s[i]
  BY <1>6, <1>7
<1>9. s[k - 1] = s[k] \/ <<s[k - 1], s[k]>> \in history
  BY <1>6 DEF Recorded
<1> QED
  BY <1>1, <1>5, <1>8, <1>9

\* Threads that wait for each other in a circle for locks of more than one name leave
\* a ring of recorded orders: the names, on their stacks, from one that a thread of the
\* circle waits for upwards.  Were one of them without an order to another, all those
\* above it would be it, and the threads that wait for that name a smaller circle.
LEMMA CircleIsRing ==
  ASSUME ProfilerTypeOK, Mirrored, Recorded, CircularWait
  PROVE  \E R \in SUBSET (1..Len(names)) : Ring(history, R)
<1>1. PICK ring \in SUBSET Takers :
         /\ Stuck(ring) /\ \A arc \in SUBSET ring : arc # ring => ~Stuck(arc)
         /\ Cardinality({NameOf[waiting[t]] : t \in ring}) > 1
  BY DEF CircularWait
<1> DEFINE Wanted(l) == \E t \in ring : waiting[t] = l
           From(u) == {i \in 1..Len(lockStack[u]) :
                          \E j \in 1..Len(locked[u]) : j <= i /\ Wanted(locked[u][j])}
           InR(x) == \E u \in ring : \E i \in From(u) : lockStack[u][i] = x
           R == {x \in 1..Len(names) : InR(x)}
<1>2. ASSUME NEW t \in ring
      PROVE  /\ waiting[t] # NoLock
             /\ locked[t] \in Seq(Locks) /\ Len(locked[t]) \in Nat
             /\ lockStack[t] \in Seq(Nat)
             /\ Len(lockStack[t]) = Len(locked[t]) + 1
             /\ \A i \in 1..Len(locked[t]) : names[lockStack[t][i]] = NameOf[locked[t][i]]
             /\ names[lockStack[t][Len(lockStack[t])]] = NameOf[waiting[t]]
             /\ \A i \in 1..Len(lockStack[t]) : lockStack[t][i] \in 1..Len(names)
  <2>1. waiting[t] # NoLock /\ t \in Takers
    BY <1>1 DEF Stuck, Waits
  <2>2. locked[t] \in Seq(Locks) /\ lockStack[t] \in Seq(Nat) /\ Len(locked[t]) \in Nat
    BY <2>1 DEF ProfilerTypeOK
  <2>3. Announced(t) = Append(locked[t], waiting[t])
    BY <2>1 DEF Announced
  <2>4. Len(Announced(t)) = Len(locked[t]) + 1 /\ Announced(t)[Len(locked[t]) + 1] = waiting[t]
        /\ \A i \in 1..Len(locked[t]) : Announced(t)[i] = locked[t][i]
    BY <2>2, <2>3
  <2>5. /\ Len(lockStack[t]) = Len(Announced(t))
        /\ \A i \in 1..Len(lockStack[t]) : /\ lockStack[t][i] \in 1..Len(names)
                                           /\ names[lockStack[t][i]] = NameOf[Announced(t)[i]]
    BY <2>1 DEF Mirrored
  <2>6. \A i \in 1..Len(locked[t]) : i \in 1..Len(lockStack[t])
    BY <2>2, <2>4, <2>5
  <2>7. Len(lockStack[t]) \in 1..Len(lockStack[t])
    BY <2>2, <2>4, <2>5
  <2> QED
    BY <2>1, <2>2, <2>4, <2>5, <2>6, <2>7
<1>3. ASSUME NEW t \in ring
      PROVE  \E u \in ring : Waits(t, u) /\ \E j \in 1..Len(locked[u]) :
                /\ locked[u][j] = waiting[t] /\ j \in From(u)
                /\ names[lockStack[u][j]] = NameOf[waiting[t]]
  <2>1. PICK u \in ring : Waits(t, u)
    BY <1>1 DEF Stuck
  <2>2. PICK j \in 1..Len(locked[u]) : locked[u][j] = waiting[t]
    <3>1. waiting[t] \in ToSet(locked[u])
      BY <2>1 DEF Waits, Owners
    <3>2. DOMAIN locked[u] = 1..Len(locked[u])
      BY <1>2
    <3> QED
      BY <3>1, <3>2 DEF ToSet
  <2>3. j \in 1..Len(lockStack[u]) /\ j <= j
    BY <1>2
  <2>4. j \in From(u)
    BY <2>2, <2>3
  <2>5. names[lockStack[u][j]] = NameOf[waiting[t]]
    BY <2>2, <1>2
  <2> QED
    BY <2>1, <2>2, <2>4, <2>5
<1>4. ASSUME NEW u \in ring, NEW i \in From(u), NEW k \in i..Len(lockStack[u])
      PROVE  k \in From(u) /\ lockStack[u][k] \in R
  <2>1. PICK j \in 1..Len(locked[u]) : j <= i /\ Wanted(locked[u][j])
    OBVIOUS
  <2>2. k \in 1..Len(lockStack[u]) /\ j <= k
    BY <2>1, <1>2
  <2>3. k \in From(u)
    BY <2>1, <2>2
  <2>4. lockStack[u][k] \in 1..Len(names)
    BY <2>2, <1>2
  <2> QED
    BY <2>3, <2>4
<1>5. R # {}
  <2>1. PICK t \in ring : TRUE
    BY <1>1 DEF Stuck
  <2>2. PICK u \in ring : \E j \in 1..Len(locked[u]) : j \in From(u)
    BY <1>3
  <2>3. PICK j \in From(u) : TRUE
    BY <2>2
  <2>4. j \in j..Len(lockStack[u])
    BY <1>2
  <2> QED
    BY <2>4, <1>4
<1>6. ASSUME NEW x \in R, \A y \in R : <<x, y>> \notin history PROVE FALSE
  <2>1. ASSUME NEW u \in ring, NEW i \in From(u), lockStack[u][i] = x
        PROVE  NameOf[waiting[u]] = names[x]
    <3>1. \A k \in i..Len(lockStack[u]) : <<lockStack[u][i], lockStack[u][k]>> \notin history
      BY <1>4, <1>6, <2>1
    <3>2. lockStack[u][Len(lockStack[u])] = lockStack[u][i]
      BY <3>1, Above, <1>1
    <3> QED
      BY <3>2, <2>1, <1>2
  <2> DEFINE arc == {t \in ring : NameOf[waiting[t]] = names[x]}
  <2>2. arc # {}
    BY <2>1
  <2>3. ASSUME NEW t \in arc PROVE \E u \in arc : Waits(t, u)
    <3>1. PICK u \in ring : Waits(t, u) /\ \E j \in 1..Len(locked[u]) :
             /\ locked[u][j] = waiting[t] /\ j \in From(u)
             /\ names[lockStack[u][j]] = NameOf[waiting[t]]
      BY <1>3
    <3>2. PICK j \in 1..Len(locked[u]) : j \in From(u) /\ names[lockStack[u][j]] = NameOf[waiting[t]]
      BY <3>1
    <3>3. lockStack[u][j] \in 1..Len(names) /\ x \in 1..Len(names)
      BY <3>2, <1>2
    <3>4. lockStack[u][j] = x
      BY <3>2, <3>3 DEF ProfilerTypeOK
    <3>5. NameOf[waiting[u]] = names[x]
      BY <3>2, <3>4, <2>1
    <3> QED
      BY <3>1, <3>5
  <2>4. arc = ring
    BY <2>2, <2>3, <1>1 DEF Stuck
  <2>5. {NameOf[waiting[t]] : t \in ring} = {names[x]}
    BY <2>2, <2>4
  <2>6. Cardinality({names[x]}) = 1
    BY FS_Singleton
  <2>7. Cardinality({NameOf[waiting[t]] : t \in ring}) = 1
    BY <2>5, <2>6
  <2> QED
    BY <2>7, <1>1
<1>7. Ring(history, R)
  BY <1>5, <1>6 DEF Ring
<1> QED
  BY <1>7

\* An id is the one place of a name that is registered.
LEMMA IdOf ==
  ASSUME NEW list \in Seq(Names), \A i, j \in 1..Len(list) : list[i] = list[j] => i = j,
         NEW i \in 1..Len(list)
  PROVE  Id(list[i], list) = i
<1>1. DOMAIN list = 1..Len(list)
  OBVIOUS
<1> QED
  BY <1>1 DEF Id

\* Nothing is announced or recorded yet.
LEMMA ProfilerInitInv == ProfilerInit => ProfilerInv
<1> SUFFICES ASSUME ProfilerInit PROVE ProfilerInv
  OBVIOUS
<1>1. 1..Len(names) = {}
  BY DEF ProfilerInit
<1>2. ProfilerTypeOK
  BY <1>1 DEF ProfilerInit, ProfilerTypeOK, Graph
<1>3. Mirrored
  BY DEF ProfilerInit, Mirrored, Announced
<1>4. Recorded
  BY DEF ProfilerInit, Recorded
<1>5. AlarmExact
  BY <1>1 DEF ProfilerInit, AlarmExact, HasCycle
<1> QED
  BY <1>2, <1>3, <1>4, <1>5 DEF ProfilerInv

\* A lock that is obtained was announced: the stack is already right.
LEMMA ObtainInv ==
  ASSUME ProfilerInv, NEW t \in Takers, Obtain(t)
  PROVE  ProfilerInv'
<1> USE DEF ProfilerInv
<1>1. locked[t] \in Seq(Locks) /\ waiting[t] \in Locks
  BY DEF ProfilerTypeOK, Obtain
<1>2. ProfilerTypeOK'
  BY <1>1 DEF ProfilerTypeOK, Obtain
<1>3. ASSUME NEW u \in Takers PROVE Announced(u)' = Announced(u)
  BY DEF Obtain, Announced, ProfilerTypeOK
<1>4. Mirrored'
  BY <1>3 DEF Mirrored, Obtain
<1>5. Recorded'
  BY DEF Recorded, Obtain
<1>6. AlarmExact'
  BY DEF AlarmExact, Obtain
<1> QED
  BY <1>2, <1>4, <1>5, <1>6

\* A guard gives back the last lock locked, whose name is the last of the stack.
LEMMA PopLockInv ==
  ASSUME ProfilerInv, NEW t \in Takers, alarm = "none", PopLock(t)
  PROVE  ProfilerInv'
<1> USE DEF ProfilerInv
<1> DEFINE n == Len(locked[t])
<1>1. locked[t] \in Seq(Locks) /\ lockStack[t] \in Seq(Nat) /\ n \in Nat /\ n > 0
  BY DEF ProfilerTypeOK, PopLock
<1>2. Announced(t) = locked[t] /\ Len(lockStack[t]) = n
  BY DEF Announced, PopLock, Mirrored
<1>3. \A i \in 1..n : lockStack[t][i] \in 1..Len(names) /\ names[lockStack[t][i]] = NameOf[locked[t][i]]
  BY <1>2 DEF Mirrored
<1>4. alarm' = "none"
  <2>1. lockStack[t] # <<>> /\ Last(lockStack[t]) = lockStack[t][n] /\ Last(locked[t]) = locked[t][n]
        /\ n \in 1..n
    BY <1>1, <1>2 DEF Last
  <2>2. names[lockStack[t][n]] = NameOf[locked[t][n]] /\ lockStack[t][n] \in 1..Len(names)
    BY <2>1, <1>3
  <2>3. Id(names[lockStack[t][n]], names) = lockStack[t][n]
    BY <2>2, IdOf DEF ProfilerTypeOK
  <2> QED
    BY <2>1, <2>2, <2>3 DEF PopLock
<1>5. /\ Front(locked[t]) \in Seq(Locks) /\ Len(Front(locked[t])) = n - 1
      /\ \A i \in 1..n - 1 : Front(locked[t])[i] = locked[t][i]
      /\ Front(lockStack[t]) \in Seq(Nat) /\ Len(Front(lockStack[t])) = n - 1
      /\ \A i \in 1..n - 1 : Front(lockStack[t])[i] = lockStack[t][i]
  BY <1>1, <1>2, FrontIs
<1>6. /\ locked' = [locked EXCEPT ![t] = Front(locked[t])]
      /\ lockStack' = [lockStack EXCEPT ![t] = Front(lockStack[t])]
      /\ UNCHANGED <<names, history, waiting>> /\ waiting[t] = NoLock
  BY DEF PopLock
<1>7. ProfilerTypeOK'
  BY <1>4, <1>5, <1>6 DEF ProfilerTypeOK
<1>8. /\ locked'[t] = Front(locked[t]) /\ lockStack'[t] = Front(lockStack[t])
      /\ \A u \in Takers : u # t => locked'[u] = locked[u] /\ lockStack'[u] = lockStack[u]
  BY <1>6 DEF ProfilerTypeOK
<1>9. Mirrored'
  <2> SUFFICES ASSUME NEW u \in Takers
               PROVE  /\ Len(lockStack'[u]) = Len(Announced(u)')
                      /\ \A i \in 1..Len(lockStack'[u]) :
                            /\ lockStack'[u][i] \in 1..Len(names)
                            /\ names[lockStack'[u][i]] = NameOf[Announced(u)'[i]]
    BY <1>6 DEF Mirrored
  <2>1. CASE u = t
    <3>1. Announced(t)' = Front(locked[t])
      BY <1>6, <1>8 DEF Announced
    <3>2. \A i \in 1..n - 1 : i \in 1..n
      BY <1>1
    <3>3. Len(lockStack'[t]) = n - 1 /\ Len(Announced(t)') = n - 1
      BY <3>1, <1>5, <1>8
    <3>4. ASSUME NEW i \in 1..n - 1
          PROVE  lockStack'[t][i] \in 1..Len(names) /\ names[lockStack'[t][i]] = NameOf[Announced(t)'[i]]
      <4>1. lockStack'[t][i] = lockStack[t][i] /\ Announced(t)'[i] = locked[t][i]
        BY <3>1, <1>5, <1>8
      <4> QED
        BY <4>1, <3>2, <1>3
    <3> QED
      BY <2>1, <3>3, <3>4
  <2>2. CASE u # t
    <3>1. Announced(u)' = Announced(u)
      BY <2>2, <1>6, <1>8 DEF Announced
    <3> QED
      BY <3>1, <2>2, <1>8 DEF Mirrored
  <2> QED
    BY <2>1, <2>2
<1>10. Recorded'
  <2> SUFFICES ASSUME NEW u \in Takers, NEW i \in 1..Len(lockStack'[u]) - 1
               PROVE  \/ lockStack'[u][i] = lockStack'[u][i + 1]
                      \/ <<lockStack'[u][i], lockStack'[u][i + 1]>> \in history
    BY <1>6 DEF Recorded
  <2>1. CASE u = t
    <3>1. i \in 1..n - 1 /\ i + 1 \in 1..n - 1 /\ i \in 1..Len(lockStack[t]) - 1
      BY <2>1, <1>1, <1>2, <1>5, <1>8
    <3> QED
      BY <3>1, <2>1, <1>5, <1>8 DEF Recorded
  <2>2. CASE u # t
    BY <2>2, <1>8 DEF Recorded
  <2> QED
    BY <2>1, <2>2
<1>11. AlarmExact'
  BY <1>4, <1>6 DEF AlarmExact
<1> QED
  BY <1>7, <1>9, <1>10, <1>11

\* A name that is pushed gets the place it has, or the next.
LEMMA RegisteredIs ==
  ASSUME ProfilerTypeOK, NEW name \in Names
  PROVE  LET list == Registered(name)
         IN  /\ list \in Seq(Names)
             /\ \A i, j \in 1..Len(list) : list[i] = list[j] => i = j
             /\ Len(names) <= Len(list)
             /\ \A i \in 1..Len(names) : i \in 1..Len(list) /\ list[i] = names[i]
             /\ Id(name, list) \in 1..Len(list)
             /\ list[Id(name, list)] = name
<1> DEFINE list == Registered(name)
<1>1. names \in Seq(Names) /\ Len(names) \in Nat /\ DOMAIN names = 1..Len(names)
      /\ \A i, j \in 1..Len(names) : names[i] = names[j] => i = j
  BY DEF ProfilerTypeOK
<1>2. CASE name \in ToSet(names)
  <2>1. list = names
    BY <1>2 DEF Registered
  <2>2. PICK i \in 1..Len(names) : names[i] = name
    BY <1>1, <1>2 DEF ToSet
  <2>3. Id(name, list) = i
    BY <1>1, <2>1, <2>2, IdOf
  <2> QED
    BY <1>1, <2>1, <2>2, <2>3
<1>3. CASE name \notin ToSet(names)
  <2> DEFINE n == Len(names) + 1
  <2>1. list = Append(names, name)
    BY <1>3 DEF Registered
  <2>2. list \in Seq(Names) /\ Len(list) = n /\ list[n] = name /\ n \in 1..n
        /\ \A i \in 1..Len(names) : i \in 1..n /\ list[i] = names[i]
    BY <1>1, <2>1
  <2>3. \A i \in 1..Len(names) : names[i] # name
    BY <1>1, <1>3 DEF ToSet
  <2>4. \A i \in 1..n : i = n \/ i \in 1..Len(names)
    BY <1>1
  <2>5. \A i, j \in 1..n : list[i] = list[j] => i = j
    BY <1>1, <2>2, <2>3, <2>4
  <2>6. Id(name, list) = n
    <3> HIDE DEF n
    <3> QED
      BY <2>2, <2>5, IdOf
  <2> QED
    BY <1>1, <2>2, <2>5, <2>6
<1> QED
  BY <1>2, <1>3

\* A name without an order to or from it is in no ring.
LEMMA CycleOfOldNames ==
  ASSUME NEW n \in Nat, NEW m \in Nat, n <= m, NEW edges, Graph(1..n, edges)
  PROVE  Graph(1..m, edges) /\ (HasCycle(1..m, edges) <=> HasCycle(1..n, edges))
<1>1. 1..n \subseteq 1..m /\ IsFiniteSet(1..n) /\ IsFiniteSet(1..m)
  BY FS_Interval
<1>2. Graph(1..m, edges)
  BY <1>1 DEF Graph
<1>3. ASSUME NEW R \in SUBSET (1..m), Ring(edges, R) PROVE R \in SUBSET (1..n)
  <2>1. \A v \in R : \E w \in R : <<v, w>> \in (1..n) \X (1..n)
    BY <1>3 DEF Ring, Graph
  <2> QED
    BY <2>1
<1>4. HasCycle(1..n, edges) <=> \E R \in SUBSET (1..n) : Ring(edges, R)
  BY <1>1, CycleIsRing
<1>5. HasCycle(1..m, edges) <=> \E R \in SUBSET (1..m) : Ring(edges, R)
  BY <1>1, <1>2, CycleIsRing
<1> QED
  BY <1>1, <1>2, <1>3, <1>4, <1>5

\* The name goes on top of the stack and what was on top before is recorded as an order
\* to it; when that order is new, the search decides the alarm.
LEMMA PushLockInv ==
  ASSUME ProfilerInv, NEW t \in Takers, NEW l \in Locks, alarm = "none", PushLock(t, l)
  PROVE  ProfilerInv'
<1> DEFINE n == Len(lockStack[t])
           id == Id(NameOf[l], names')
           s == Append(lockStack[t], id)
<1>1. ProfilerTypeOK /\ Mirrored /\ Recorded /\ AlarmExact
  BY DEF ProfilerInv
<1>2. /\ lockStack[t] \in Seq(Nat) /\ n \in Nat /\ locked[t] \in Seq(Locks)
      /\ Announced(t) = locked[t] /\ Len(locked[t]) = n
  BY <1>1 DEF ProfilerTypeOK, Mirrored, Announced, PushLock
<1>3. \A i \in 1..n : lockStack[t][i] \in 1..Len(names) /\ names[lockStack[t][i]] = NameOf[locked[t][i]]
  BY <1>1, <1>2 DEF Mirrored
<1>4. /\ names' \in Seq(Names) /\ \A i, j \in 1..Len(names') : names'[i] = names'[j] => i = j
      /\ Len(names) <= Len(names')
      /\ \A i \in 1..Len(names) : i \in 1..Len(names') /\ names'[i] = names[i]
      /\ id \in 1..Len(names') /\ names'[id] = NameOf[l]
  <2>1. NameOf[l] \in Names /\ names' = Registered(NameOf[l])
    BY DEF Names, PushLock
  <2> QED
    BY <2>1, <1>1, RegisteredIs
<1>5. Len(names) \in Nat /\ Len(names') \in Nat
  BY <1>1, <1>4 DEF ProfilerTypeOK
<1>6. /\ waiting' = [waiting EXCEPT ![t] = l] /\ locked' = locked /\ waiting[t] = NoLock
      /\ lockStack' = [lockStack EXCEPT ![t] = s]
      /\ history' = IF lockStack[t] # <<>> /\ Previous(t) # id
                    THEN history \cup {<<Previous(t), id>>} ELSE history
      /\ alarm' = IF history' # history /\ CheckCycle(Len(names'), history')
                  THEN "DEADLOCK_DETECTED" ELSE "none"
  BY DEF PushLock
<1>7. /\ lockStack'[t] = s /\ waiting'[t] = l
      /\ \A u \in Takers : u # t => lockStack'[u] = lockStack[u] /\ waiting'[u] = waiting[u]
  BY <1>1, <1>6 DEF ProfilerTypeOK
<1>8. /\ Len(s) = n + 1 /\ s[n + 1] = id /\ \A i \in 1..n : s[i] = lockStack[t][i]
      /\ n > 0 => Previous(t) = lockStack[t][n] /\ Previous(t) \in 1..Len(names)
      /\ n > 0 <=> lockStack[t] # <<>>
  <2> HIDE DEF id
  <2>1. n > 0 => n \in 1..n
    BY <1>2
  <2>2. n > 0 <=> lockStack[t] # <<>>
    BY <1>2
  <2>3. Previous(t) = lockStack[t][n]
    BY DEF Previous, Last
  <2>4. Len(s) = n + 1 /\ s[n + 1] = id /\ \A i \in 1..n : s[i] = lockStack[t][i]
    BY <1>2
  <2> QED
    BY <2>1, <2>2, <2>3, <2>4, <1>3
<1>9. s \in Seq(Nat)
  BY <1>2, <1>4, <1>5
<1>10. history \subseteq history' /\ (n > 0 => lockStack[t][n] = id \/ <<lockStack[t][n], id>> \in history')
  <2> HIDE DEF n, id
  <2> QED
    BY <1>6, <1>8
<1> HIDE DEF s, id, n
<1>11. Graph(1..Len(names), history) /\ Graph(1..Len(names'), history)
  BY <1>1, <1>5, <1>4, CycleOfOldNames DEF ProfilerTypeOK
<1>12. Graph(1..Len(names'), history')
  <2>1. lockStack[t] # <<>> => Previous(t) \in 1..Len(names')
    BY <1>4, <1>8
  <2> QED
    BY <2>1, <1>4, <1>6, <1>11 DEF Graph
<1>13. ProfilerTypeOK'
  <2>1. lockStack' \in [Takers -> Seq(Nat)]
    BY <1>1, <1>6, <1>9 DEF ProfilerTypeOK
  <2>2. waiting' \in [Takers -> Locks \cup {NoLock}] /\ locked' \in [Takers -> Seq(Locks)]
    BY <1>1, <1>6 DEF ProfilerTypeOK
  <2>3. alarm' \in {"none", "DEADLOCK_DETECTED"}
    BY <1>6
  <2> QED
    BY <2>1, <2>2, <2>3, <1>4, <1>12 DEF ProfilerTypeOK
<1>14. Mirrored'
  <2> SUFFICES ASSUME NEW u \in Takers
               PROVE  /\ Len(lockStack'[u]) = Len(Announced(u)')
                      /\ \A i \in 1..Len(lockStack'[u]) :
                            /\ lockStack'[u][i] \in 1..Len(names')
                            /\ names'[lockStack'[u][i]] = NameOf[Announced(u)'[i]]
    BY DEF Mirrored
  <2>1. CASE u = t
    <3>1. Announced(t)' = Append(locked[t], l)
      <4>1. l # NoLock
        BY ProfilerAssumption
      <4> QED
        BY <4>1, <1>6, <1>7 DEF Announced
    <3>2. Len(Announced(t)') = n + 1 /\ Announced(t)'[n + 1] = l
          /\ \A i \in 1..n : Announced(t)'[i] = locked[t][i]
      BY <3>1, <1>2
    <3>3. ASSUME NEW i \in 1..n + 1
          PROVE  s[i] \in 1..Len(names') /\ names'[s[i]] = NameOf[Announced(t)'[i]]
      <4>1. CASE i = n + 1
        BY <4>1, <3>2, <1>4, <1>8
      <4>2. CASE i # n + 1
        <5>1. i \in 1..n
          BY <4>2, <1>2
        <5> QED
          BY <5>1, <3>2, <1>3, <1>4, <1>8
      <4> QED
        BY <4>1, <4>2
    <3> QED
      BY <2>1, <3>2, <3>3, <1>7, <1>8
  <2>2. CASE u # t
    <3>1. Announced(u)' = Announced(u) /\ lockStack'[u] = lockStack[u]
      BY <2>2, <1>6, <1>7 DEF Announced
    <3>2. /\ Len(lockStack[u]) = Len(Announced(u))
          /\ \A i \in 1..Len(lockStack[u]) : /\ lockStack[u][i] \in 1..Len(names)
                                             /\ names[lockStack[u][i]] = NameOf[Announced(u)[i]]
      BY <1>1 DEF Mirrored
    <3> QED
      BY <3>1, <3>2, <1>4
  <2> QED
    BY <2>1, <2>2
<1>15. Recorded'
  <2> SUFFICES ASSUME NEW u \in Takers, NEW i \in 1..Len(lockStack'[u]) - 1
               PROVE  \/ lockStack'[u][i] = lockStack'[u][i + 1]
                      \/ <<lockStack'[u][i], lockStack'[u][i + 1]>> \in history'
    BY DEF Recorded
  <2>1. CASE u = t
    <3>1. i \in 1..n /\ lockStack'[u] = s
      BY <2>1, <1>2, <1>7, <1>8
    <3>2. CASE i = n
      BY <3>1, <3>2, <1>2, <1>8, <1>10
    <3>3. CASE i # n
      <4>1. i \in 1..Len(lockStack[t]) - 1 /\ i + 1 \in 1..n
        BY <3>1, <3>3, <1>2 DEF n
      <4>2. lockStack[t][i] = lockStack[t][i + 1] \/ <<lockStack[t][i], lockStack[t][i + 1]>> \in history
        BY <4>1, <1>1 DEF Recorded
      <4> QED
        BY <4>1, <4>2, <3>1, <1>8, <1>10
    <3> QED
      BY <3>2, <3>3
  <2>2. CASE u # t
    BY <2>2, <1>1, <1>7, <1>10 DEF Recorded
  <2> QED
    BY <2>1, <2>2
<1>16. AlarmExact'
  <2>1. CASE history' # history
    <3>1. CheckCycle(Len(names'), history') <=> HasCycle(1..Len(names'), history')
      BY <1>5, <1>12, SearchFindsCycles
    <3> QED
      BY <2>1, <3>1, <1>6 DEF AlarmExact
  <2>2. CASE history' = history
    <3>1. HasCycle(1..Len(names'), history) <=> HasCycle(1..Len(names), history)
      BY <1>4, <1>5, <1>11, CycleOfOldNames
    <3>2. ~HasCycle(1..Len(names), history)
      BY <1>1 DEF AlarmExact
    <3> QED
      BY <2>2, <3>1, <3>2, <1>6 DEF AlarmExact
  <2> QED
    BY <2>1, <2>2
<1> QED
  BY <1>13, <1>14, <1>15, <1>16 DEF ProfilerInv

\* The profiler keeps its books, whoever locks what in any order.
LEMMA ProfilerInductive == ProfilerSpec => []ProfilerInv
<1>1. ProfilerInit => ProfilerInv
  BY ProfilerInitInv
<1>2. ProfilerInv /\ [ProfilerNext]_profilerVars => ProfilerInv'
  <2> SUFFICES ASSUME ProfilerInv, [ProfilerNext]_profilerVars PROVE ProfilerInv'
    OBVIOUS
  <2>1. CASE UNCHANGED profilerVars
    BY <2>1 DEF profilerVars, ProfilerInv, ProfilerTypeOK, Mirrored, Announced, Recorded, AlarmExact
  <2>2. ASSUME ProfilerNext PROVE ProfilerInv'
    <3>1. PICK t \in Takers : \/ \E l \in Locks : PushLock(t, l)
                             \/ Obtain(t) \/ PopLock(t)
      BY <2>2 DEF ProfilerNext
    <3>2. alarm = "none"
      BY <2>2 DEF ProfilerNext
    <3>3. ASSUME NEW l \in Locks, PushLock(t, l) PROVE ProfilerInv'
      BY <3>2, <3>3, PushLockInv
    <3>4. CASE Obtain(t)
      BY <3>4, ObtainInv
    <3>5. CASE PopLock(t)
      BY <3>2, <3>5, PopLockInv
    <3> QED
      BY <3>1, <3>3, <3>4, <3>5
  <2> QED
    BY <2>1, <2>2
<1> QED
  BY <1>1, <1>2, PTL DEF ProfilerSpec

\* Every name has one id and only registered names are ordered, and nothing but a
\* deadlock is ever reported: MULTIPLE_UNLOCK and INVALID_UNLOCK never are.
THEOREM ProfilerTypes == ProfilerSpec => []ProfilerTypeOK
<1>1. ProfilerInv => ProfilerTypeOK
  BY DEF ProfilerInv
<1> QED
  BY <1>1, ProfilerInductive, PTL

\* The alarm goes off exactly on a cycle of recorded orders, and no circular wait between
\* locks of different names comes about without it.
THEOREM DeadlocksReported == ProfilerSpec => []DeadlockReported
<1>1. ProfilerInv => DeadlockReported
  <2> SUFFICES ASSUME ProfilerInv PROVE DeadlockReported
    OBVIOUS
  <2>1. alarm \in {"none", "DEADLOCK_DETECTED"}
        /\ (alarm = "DEADLOCK_DETECTED" <=> HasCycle(1..Len(names), history))
    BY DEF ProfilerInv, ProfilerTypeOK, AlarmExact
  <2>2. ASSUME CircularWait PROVE alarm # "none"
    <3>1. \E R \in SUBSET (1..Len(names)) : Ring(history, R)
      BY <2>2, CircleIsRing DEF ProfilerInv
    <3>2. IsFiniteSet(1..Len(names)) /\ Graph(1..Len(names), history)
      BY FS_Interval DEF ProfilerInv, ProfilerTypeOK
    <3>3. HasCycle(1..Len(names), history)
      BY <3>1, <3>2, CycleIsRing
    <3> QED
      BY <3>3, <2>1
  <2> QED
    BY <2>1, <2>2 DEF DeadlockReported
<1> QED
  BY <1>1, ProfilerInductive, PTL
=============================================================================
