----------------------------- MODULE MemoryPools -----------------------------
(***************************************************************************)
(* Memory: the table of pools for each allocation size, and threads that   *)
(* allocate and release blocks through MemoryPool's lock-free lists.       *)
(*                                                                         *)
(* A block is [MemoryHeader][data]; the header's allocSize, 0 while the    *)
(* block is in a pool, leads Release back to the pool.  Each access to the *)
(* list, to a counter or to a header is one step of its thread; the lists  *)
(* are the Windows SLISTs, whose push and pop are atomic.                  *)
(***************************************************************************)
EXTENDS Integers, Sequences, FiniteSets, SequencesExt

CONSTANTS Users,        \* threads
          Blocks,       \* bound: blocks the C runtime has to give
          NoBlock,
          Requests,     \* the sizes asked for
          MemoryHeaderSize  \* sizeof(MemoryHeader)

ASSUME PoolsAssumption == /\ Requests \subseteq Nat /\ MemoryHeaderSize \in Nat \ {0}
                          /\ NoBlock \notin Blocks /\ IsFiniteSet(Blocks) /\ IsFiniteSet(Users)

VARIABLES freeList,     \* MemoryPool::_header of each pool, top first
          useCount, reserveCount,
          allocSize,    \* the size in each block's header
          capacity,     \* the size it was malloc'ed with, 0 if it is not
          owned,        \* blocks handed out to the program
          step, block, wanted, \* the thread's place, its block and its allocSize
          strayPool,    \* a pool pointer was read that was never set
          poolAssert    \* Pop's ASSERT_CRASH failed

poolVars == <<freeList, useCount, reserveCount, allocSize, capacity, owned,
              step, block, wanted, strayPool, poolAssert>>

MaxAllocSize == 4096

\* for (; size <= last; size += step)
SizesFrom(first, by, last) == [i \in 1..((last - first) \div by + 1) |-> first + (i - 1) * by]
After(sizes, by) == sizes[Len(sizes)] + by

By32 == SizesFrom(32, 32, 1024)
By128 == SizesFrom(After(By32, 32), 128, 2048)
By256 == SizesFrom(After(By128, 128), 256, 4096)
PoolSizes == By32 \o By128 \o By256

FilledUpTo_Exclusive(p) == p
\* How many entries of the table are filled after a pool's turn.
FilledUpTo(p) == p + 1
\* A pool's turn fills the entries left up to its size: entry n gets the first pool that
\* comes as far as n.
Fills(n, i) == n < FilledUpTo(PoolSizes[i])
Turn(n) == CHOOSE i \in 1..Len(PoolSizes) : Fills(n, i) /\ \A j \in 1..i - 1 : ~Fills(n, j)
PoolTable == [n \in 0..FilledUpTo(PoolSizes[Len(PoolSizes)]) - 1 |-> PoolSizes[Turn(n)]]
NoPool == 0
PoolFor(bytes) == IF bytes \in DOMAIN PoolTable THEN PoolTable[bytes] ELSE NoPool

AllocSizes == {n + MemoryHeaderSize : n \in Requests}
Pools == {PoolFor(a) : a \in AllocSizes} \ {NoPool}

PoolInit ==
    /\ freeList = [p \in Pools |-> <<>>]
    /\ useCount = [p \in Pools |-> 0] /\ reserveCount = [p \in Pools |-> 0]
    /\ allocSize = [b \in Blocks |-> 0] /\ capacity = [b \in Blocks |-> 0]
    /\ owned = {}
    /\ step = [u \in Users |-> "idle"]
    /\ block = [u \in Users |-> NoBlock]
    /\ wanted = [u \in Users |-> 0]
    /\ strayPool = FALSE /\ poolAssert = FALSE

-----------------------------------------------------------------------------
StepTo(u, s) == step' = [step EXCEPT ![u] = s]

\* Malloc gives a block nobody has.
Malloc(u, bytes) == \E b \in Blocks : /\ capacity[b] = 0
                                      /\ capacity' = [capacity EXCEPT ![b] = bytes]
                                      /\ block' = [block EXCEPT ![u] = b]

\* Allocate, as far as the list.
Allocate(u, a) ==
    /\ step[u] = "idle"
    /\ wanted' = [wanted EXCEPT ![u] = a]
    /\ LET p == PoolFor(a) IN
       \/ /\ a > MaxAllocSize
          /\ Malloc(u, a) /\ StepTo(u, "attach")
          /\ UNCHANGED <<freeList, strayPool, poolAssert>>
       \/ /\ a <= MaxAllocSize /\ p = NoPool
          /\ strayPool' = TRUE
          /\ UNCHANGED <<freeList, capacity, block, step, poolAssert>>
       \/ /\ a <= MaxAllocSize /\ p # NoPool /\ freeList[p] = <<>>
          /\ Malloc(u, p) /\ StepTo(u, "use")
          /\ UNCHANGED <<freeList, strayPool, poolAssert>>
       \/ /\ a <= MaxAllocSize /\ p # NoPool /\ freeList[p] # <<>>
          /\ block' = [block EXCEPT ![u] = Head(freeList[p])]
          /\ freeList' = [freeList EXCEPT ![p] = Tail(@)]
          /\ poolAssert' = (allocSize[Head(freeList[p])] # 0)
          /\ StepTo(u, "unreserve")
          /\ UNCHANGED <<capacity, strayPool>>
    /\ UNCHANGED <<useCount, reserveCount, allocSize, owned>>

Reserved(u, n) == reserveCount' = [reserveCount EXCEPT ![PoolFor(wanted[u])] = @ + n]
Used(u, n) == useCount' = [useCount EXCEPT ![PoolFor(wanted[u])] = @ + n]

\* The counters, one at a time: Pop from its list, Push after its list.
Count(u) ==
    /\ \/ step[u] = "unreserve" /\ Reserved(u, -1) /\ UNCHANGED useCount /\ StepTo(u, "use")
       \/ step[u] = "use" /\ Used(u, 1) /\ UNCHANGED reserveCount /\ StepTo(u, "attach")
       \/ step[u] = "unuse" /\ Used(u, -1) /\ UNCHANGED reserveCount /\ StepTo(u, "reserve")
       \/ step[u] = "reserve" /\ Reserved(u, 1) /\ UNCHANGED useCount /\ StepTo(u, "idle")
    /\ UNCHANGED <<freeList, allocSize, capacity, owned, block, wanted, strayPool,
                   poolAssert>>

AttachHeader(u) ==
    /\ step[u] = "attach"
    /\ allocSize' = [allocSize EXCEPT ![block[u]] = wanted[u]]
    /\ owned' = owned \cup {block[u]}
    /\ block' = [block EXCEPT ![u] = NoBlock]
    /\ StepTo(u, "idle")
    /\ UNCHANGED <<freeList, useCount, reserveCount, capacity, wanted, strayPool,
                   poolAssert>>

ResetSize_Skipped(b) == allocSize
ResetSize(b) == [allocSize EXCEPT ![b] = 0]

\* Release by any thread: the header says where to.
Release(u, b) ==
    /\ step[u] = "idle" /\ b \in owned
    /\ owned' = owned \ {b}
    /\ wanted' = [wanted EXCEPT ![u] = allocSize[b]]
    /\ \/ /\ allocSize[b] > MaxAllocSize
          /\ capacity' = [capacity EXCEPT ![b] = 0]
          /\ UNCHANGED <<allocSize, block, step>>
       \/ /\ allocSize[b] <= MaxAllocSize
          /\ allocSize' = ResetSize(b)
          /\ block' = [block EXCEPT ![u] = b]
          /\ StepTo(u, "push")
          /\ UNCHANGED capacity
    /\ UNCHANGED <<freeList, useCount, reserveCount, strayPool, poolAssert>>

Push(u) ==
    /\ step[u] = "push"
    /\ freeList' = [freeList EXCEPT ![PoolFor(wanted[u])] = <<block[u]>> \o @]
    /\ block' = [block EXCEPT ![u] = NoBlock]
    /\ StepTo(u, "unuse")
    /\ UNCHANGED <<useCount, reserveCount, allocSize, capacity, owned, wanted, strayPool,
                   poolAssert>>

PoolNext == /\ ~strayPool /\ ~poolAssert
            /\ \E u \in Users :
                 \/ \E a \in AllocSizes : Allocate(u, a)
                 \/ \E b \in Blocks : Release(u, b)
                 \/ Count(u) \/ AttachHeader(u) \/ Push(u)

PoolSpec == PoolInit /\ [][PoolNext]_poolVars

-----------------------------------------------------------------------------
(* Properties *)

PoolSteps == {"idle", "unreserve", "use", "attach", "push", "unuse", "reserve"}

\* Types.
PoolTypes ==
    /\ freeList \in [Pools -> Seq(Blocks)]
    /\ useCount \in [Pools -> Int] /\ reserveCount \in [Pools -> Int]
    /\ allocSize \in [Blocks -> Nat] /\ capacity \in [Blocks -> Nat]
    /\ owned \subseteq Blocks
    /\ step \in [Users -> PoolSteps]
    /\ block \in [Users -> Blocks \cup {NoBlock}]
    /\ wanted \in [Users -> Nat]
    /\ strayPool \in BOOLEAN

\* The grain of the pools that Memory.h:12 promises for a size.
Grain(bytes) == IF bytes <= 1024 THEN 32 ELSE IF bytes <= 2048 THEN 128 ELSE 256

ServesTightly(bytes) == PoolFor(bytes) >= bytes /\ PoolFor(bytes) - bytes < Grain(bytes)

TableServesTightly == \A bytes \in 1..PoolSizes[Len(PoolSizes)] : ServesTightly(bytes)

\* Every size up to the last pool's has a pool at least as large that wastes less than
\* a grain, and a block that was allocated keeps the capacity and the size it was
\* served with, whatever was allocated and released before.
ServedTightly ==
    /\ TableServesTightly
    /\ \A b \in owned : /\ capacity[b] >= allocSize[b]
                        /\ allocSize[b] <= MaxAllocSize =>
                             capacity[b] - allocSize[b] < Grain(allocSize[b])

\* "Up to 4096 by 256" (Memory.h:14) and "the largest size pooled, MAX_ALLOC_SIZE =
\* 4096" (Memory.h:17): whatever a thread asks for up to that size has such a pool.
PooledUpToMax == \A u \in Users : wanted[u] \in 1..MaxAllocSize => ServesTightly(wanted[u])

\* A block goes back to the pool it came from, marked unused, and is in one place
\* only, so that Pop's assertion holds; between operations the counters say how
\* many blocks are out and how many wait.
InPool(p) == ToSet(freeList[p])
Held(u) == IF block[u] = NoBlock THEN {} ELSE {block[u]}
BlocksComeHome ==
    /\ ~poolAssert
    /\ \A p \in Pools : /\ Cardinality(InPool(p)) = Len(freeList[p])
                        /\ InPool(p) \cap (owned \cup UNION {Held(u) : u \in Users}) = {}
                        /\ \A b \in InPool(p) : capacity[b] = p /\ allocSize[b] = 0
    /\ (\A u \in Users : step[u] = "idle") =>
          \A p \in Pools : /\ reserveCount[p] = Len(freeList[p])
                           /\ useCount[p] = Cardinality({b \in owned : capacity[b] = p})
=============================================================================
