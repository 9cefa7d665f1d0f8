----------------------------- MODULE RwSpinLock -----------------------------
(***************************************************************************)
(* ServerCore's Lock, one atomic access of _lockFlag per step, used        *)
(* through ReadLockGuard and WriteLockGuard.                               *)
(*                                                                         *)
(* The guards release in reverse order of construction, and the code never *)
(* constructs a write guard inside a read guard of the same lock (that     *)
(* thread would spin on its own read hold), so a thread's holds are some   *)
(* write holds with some read holds inside them.  The thread ids are those *)
(* ThreadManager::InitTLS hands out, from 1 on.  A process that starts     *)
(* fewer than 2^16 threads and nests fewer than 2^16 holds never carries   *)
(* from one half of the flag into the other, so the flag is a record of    *)
(* its halves.                                                             *)
(***************************************************************************)
EXTENDS Integers, FiniteSets

CONSTANTS Threads,    \* the values of LThreadId
          MaxDepth    \* bound: holds of one kind one thread nests

ASSUME LockAssumption == /\ Threads \subseteq Nat \ {0} /\ IsFiniteSet(Threads)
                         /\ MaxDepth \in Nat

VARIABLES flag,         \* _lockFlag: owner (upper 16 bits), readers (lower 16)
          writeCount,   \* _writeCount
          writes,       \* write guards alive in each thread
          reads,        \* read guards alive in each thread
          pc,           \* where each thread is
          expected,     \* the read count a thread's next CAS expects
          crash         \* "none", or the cause CRASH stopped the process with

vars == <<flag, writeCount, writes, reads, pc, expected, crash>>

Labels == {"user",       \* in the code that uses the lock
           "wSpin",      \* WriteLock: about to try its CAS
           "wCount",     \* WriteLock: CAS succeeded, about to count the hold
           "wuDec",      \* WriteUnlock: about to decrement the count
           "wuStore",    \* WriteUnlock: count reached 0, about to clear the flag
           "rAdd",       \* ReadLock: own write lock seen, about to fetch_add
           "rLoad",      \* ReadLock: about to read the count
           "rCas"}       \* ReadLock: about to try its CAS

Crashes == {"none", "INVALID_UNLOCK_ORDER", "MULTIPLE_UNLOCK", "LOCK_TIMEOUT"}

EMPTY_FLAG == [owner |-> 0, readers |-> 0]

Goto(t, label) == pc' = [pc EXCEPT ![t] = label]

Init == /\ flag = EMPTY_FLAG
        /\ writeCount = 0
        /\ writes = [t \in Threads |-> 0]
        /\ reads = [t \in Threads |-> 0]
        /\ pc = [t \in Threads |-> "user"]
        /\ expected = [t \in Threads |-> 0]
        /\ crash = "none"

-----------------------------------------------------------------------------
(* WriteLock *)

\* The load that finds the caller's own id cannot be outdated by another thread
\* (nobody else writes or clears it), so counting the hold belongs to this step.
WriteLock(t) ==
    /\ pc[t] = "user" /\ reads[t] = 0 /\ writes[t] < MaxDepth
    /\ IF flag.owner = t
       THEN /\ writeCount' = writeCount + 1
            /\ writes' = [writes EXCEPT ![t] = @ + 1]
            /\ UNCHANGED pc
       ELSE Goto(t, "wSpin") /\ UNCHANGED <<writeCount, writes>>
    /\ UNCHANGED <<flag, reads, expected, crash>>

FreeForWriter_ReadersIgnored == flag.owner = 0
FreeForWriter == flag = EMPTY_FLAG

\* A failed CAS changes nothing and spins.
WriteLockCas(t) ==
    /\ pc[t] = "wSpin" /\ FreeForWriter
    /\ flag' = [owner |-> t, readers |-> 0]
    /\ Goto(t, "wCount")
    /\ UNCHANGED <<writeCount, writes, reads, expected, crash>>

WriteLockCount(t) ==
    /\ pc[t] = "wCount"
    /\ writeCount' = writeCount + 1
    /\ writes' = [writes EXCEPT ![t] = @ + 1]
    /\ Goto(t, "user")
    /\ UNCHANGED <<flag, reads, expected, crash>>

-----------------------------------------------------------------------------
(* WriteUnlock *)

WriteUnlock(t) ==
    /\ pc[t] = "user" /\ reads[t] = 0 /\ writes[t] > 0
    /\ IF flag.readers # 0
       THEN crash' = "INVALID_UNLOCK_ORDER" /\ UNCHANGED pc
       ELSE Goto(t, "wuDec") /\ UNCHANGED crash
    /\ UNCHANGED <<flag, writeCount, writes, reads, expected>>

LastHold_OldValue == writeCount = 0
LastHold == writeCount = 1

WriteUnlockDec(t) ==
    /\ pc[t] = "wuDec"
    /\ writeCount' = writeCount - 1
    /\ IF LastHold
       THEN Goto(t, "wuStore") /\ UNCHANGED writes
       ELSE Goto(t, "user") /\ writes' = [writes EXCEPT ![t] = @ - 1]
    /\ UNCHANGED <<flag, reads, expected, crash>>

WriteUnlockStore(t) ==
    /\ pc[t] = "wuStore"
    /\ flag' = EMPTY_FLAG
    /\ writes' = [writes EXCEPT ![t] = @ - 1]
    /\ Goto(t, "user")
    /\ UNCHANGED <<writeCount, reads, expected, crash>>

-----------------------------------------------------------------------------
(* ReadLock *)

ReadLock(t) ==
    /\ pc[t] = "user" /\ reads[t] < MaxDepth
    /\ Goto(t, IF flag.owner = t THEN "rAdd" ELSE "rLoad")
    /\ UNCHANGED <<flag, writeCount, writes, reads, expected, crash>>

CountReader(t) == /\ flag' = [flag EXCEPT !.readers = @ + 1]
                  /\ reads' = [reads EXCEPT ![t] = @ + 1]
                  /\ Goto(t, "user")

ReadLockAdd(t) ==
    /\ pc[t] = "rAdd"
    /\ CountReader(t)
    /\ UNCHANGED <<writeCount, writes, expected, crash>>

ReadLockLoad(t) ==
    /\ pc[t] = "rLoad"
    /\ expected' = [expected EXCEPT ![t] = flag.readers]
    /\ Goto(t, "rCas")
    /\ UNCHANGED <<flag, writeCount, writes, reads, crash>>

FreeForReader_OwnerIgnored(t) == flag.readers = expected[t]
\* The CAS expects a flag without an owner.
FreeForReader(t) == flag = [owner |-> 0, readers |-> expected[t]]

ReadLockCas(t) ==
    /\ pc[t] = "rCas"
    /\ IF FreeForReader(t) THEN CountReader(t)
                           ELSE Goto(t, "rLoad") /\ UNCHANGED <<flag, reads>>
    /\ expected' = [expected EXCEPT ![t] = 0]
    /\ UNCHANGED <<writeCount, writes, crash>>

-----------------------------------------------------------------------------
(* ReadUnlock.  The test is (old flag && mask) == 0, a logical and: it is    *)
(* true only when the whole flag was 0.                                      *)

ReadUnlock(t) ==
    /\ pc[t] = "user" /\ reads[t] > 0
    /\ flag' = [flag EXCEPT !.readers = @ - 1]
    /\ crash' = IF flag = EMPTY_FLAG THEN "MULTIPLE_UNLOCK" ELSE crash
    /\ reads' = [reads EXCEPT ![t] = @ - 1]
    /\ UNCHANGED <<writeCount, writes, pc, expected>>

\* Ten seconds of spinning stop the process; how long a thread has spun is not
\* modelled, so any spinning thread may be the one that gives up.
Spinning(t) == pc[t] \in {"wSpin", "rLoad", "rCas"}

Timeout(t) ==
    /\ Spinning(t)
    /\ crash' = "LOCK_TIMEOUT"
    /\ UNCHANGED <<flag, writeCount, writes, reads, pc, expected>>

-----------------------------------------------------------------------------
Inside(t) == \/ WriteLockCas(t) \/ WriteLockCount(t)
             \/ WriteUnlockDec(t) \/ WriteUnlockStore(t)
             \/ ReadLockAdd(t) \/ ReadLockLoad(t) \/ ReadLockCas(t)

Unlock(t) == WriteUnlock(t) \/ ReadUnlock(t)

Next == /\ crash = "none"
        /\ \E t \in Threads : \/ WriteLock(t) \/ ReadLock(t)
                              \/ Inside(t) \/ Unlock(t) \/ Timeout(t)

Spec == Init /\ [][Next]_vars

\* A thread inside a lock function goes on, and the end of a guard's scope is
\* reached.  Nothing makes a thread take the lock, and nothing orders waiters.
FairSpec == /\ Spec
            /\ \A t \in Threads : /\ WF_vars(Inside(t) /\ crash = "none")
                                  /\ WF_vars(Unlock(t) /\ crash = "none")

-----------------------------------------------------------------------------
(* Properties *)

\* Types of the lock's fields; neither count goes below zero.
TypeOK ==
    /\ flag \in [owner : Threads \cup {0}, readers : Nat]
    /\ writeCount \in Nat
    /\ writes \in [Threads -> Nat] /\ reads \in [Threads -> Nat]
    /\ pc \in [Threads -> Labels]
    /\ expected \in [Threads -> Nat]
    /\ crash \in Crashes

\* One writer alone, or readers only (Lock.h:9-10).
MutualExclusion ==
    \A t, u \in Threads : t # u /\ writes[t] > 0 => writes[u] = 0 /\ reads[u] = 0

\* The flag and the count agree with the guards alive: the owner half names the
\* thread that has write holds or is about to count its first, the reader half
\* is the number of read holds.
ReadHolds == {h \in Threads \X (1..MaxDepth) : h[2] <= reads[h[1]]}
InWrite(t) == writes[t] > 0 \/ pc[t] = "wCount"
FlagFaithful ==
    /\ \A t \in Threads : InWrite(t) <=> flag.owner = t
    /\ flag.readers = Cardinality(ReadHolds)
    /\ \A t \in Threads : flag.owner = t =>
          writeCount = IF pc[t] = "wuStore" THEN 0 ELSE writes[t]
    /\ flag.owner = 0 => writeCount = 0

\* Guards used as the code uses them never trip the two unlock-order checks,
\* although those read the flag before they change it.
NoOrderCrash == crash \notin {"INVALID_UNLOCK_ORDER", "MULTIPLE_UNLOCK"}

\* A lock somebody spins for is taken (by somebody) again and again: no
\* interleaving of an unlock with the spinning leaves it closed for ever.
Reacquired == (\E t \in Threads : Spinning(t))
                 ~> (\E t \in Threads : writes[t] + reads[t] > 0) \/ crash # "none"

\* The lock implements the re-entrant readers-writer lock its users rely on.
Abstract == INSTANCE ReentrantRWLock
ImplementsRWLock == Abstract!RWSpec
=============================================================================
