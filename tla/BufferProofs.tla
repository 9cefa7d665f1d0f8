---------------------------- MODULE BufferProofs ----------------------------
(***************************************************************************)
(* Proofs about the memory of the core: the chunks send buffers are cut    *)
(* from (SendBufferPool), the receive buffer (RecvBuffer) and the pools    *)
(* every allocation goes to (MemoryPools).  They share nothing but the     *)
(* facts about numbers and sequences.                                      *)
(*                                                                         *)
(* Send buffers, for any threads and chunks, any chunk size and any sizes  *)
(* asked of Open.  That live buffers never overlap needs to know where in  *)
(* its chunk a buffer lies (Cuts): closed below the used size, or the one  *)
(* open buffer, which starts there.  A Reset puts the used size back to 0  *)
(* and is safe because the pool holds only chunks nothing refers to        *)
(* (OnePlace); OnePlace in turn needs that a thread has a popped chunk     *)
(* only in Open (Steps).                                                   *)
(*                                                                         *)
(* Receive buffer, for any packets, cuts and buffer of at least three      *)
(* times the largest packet.  Once the complete packets are parsed less    *)
(* than a packet is left (Parsed), so what Clean moves fits in front of    *)
(* where it was, and a BufferSize of room is left (Cleaned).               *)
(*                                                                         *)
(* Memory pools, for any threads, blocks, requests and header.  Between    *)
(* two steps of Allocate or Release the counters are off by what the       *)
(* threads under way have done to the lists and not yet to the counters    *)
(* (Counters).                                                             *)
(***************************************************************************)
EXTENDS SendBufferPool, RecvBuffer, MemoryPools, FiniteSetTheorems, SequenceTheorems,
        WellFoundedInduction, TLAPS

-----------------------------------------------------------------------------
(* Send buffers: where the chunks and the buffers are *)

\* What a thread knows at each of its steps.
Steps == \A t \in Threads :
    /\ taken[t] # None <=> pc[t] = "assign"
    /\ pc[t] \in {"open", "fill", "nullptr"} => local[t] # None
    /\ pc[t] = "open" => size[t] <= FreeSize(local[t])
    /\ pc[t] # "nullptr"

\* The buffer thread t has open.
Opened(t) == [chunk |-> local[t], start |-> usedSize[local[t]], len |-> size[t]]

Closed(b) == b.len > 0 /\ b.start + b.len <= usedSize[b.chunk]

\* Where the live buffers are.
Cuts ==
    /\ \A b \in live : Closed(b) \/ \E t \in Threads : pc[t] = "fill" /\ b = Opened(t)
    /\ \A t \in Threads : pc[t] = "fill" =>
          Opened(t) \in live /\ size[t] <= FreeSize(local[t])

\* A thread's chunk is open only while the thread fills a buffer.
ShutOutside == \A t \in Threads : pc[t] # "fill" /\ local[t] # None => ~open[local[t]]

IInv == TypeOK /\ OnePlace /\ Steps /\ Cuts /\ ShutOutside /\ LiveDisjoint

-----------------------------------------------------------------------------
(* The stack of free chunks *)

LEMMA BackOfStack ==
  ASSUME NEW S, NEW s \in Seq(S), s # <<>>
  PROVE  /\ Last(s) \in S /\ Front(s) \in Seq(S)
         /\ Last(s) \in ToSet(s) /\ ToSet(Front(s)) \subseteq ToSet(s)
         /\ ToSet(s) = ToSet(Front(s)) \cup {Last(s)}
         /\ (\A i, j \in DOMAIN s : s[i] = s[j] => i = j) =>
               /\ \A i, j \in DOMAIN Front(s) : Front(s)[i] = Front(s)[j] => i = j
               /\ Last(s) \notin ToSet(Front(s))
<1>1. Len(s) \in Nat /\ Len(s) > 0 /\ DOMAIN s = 1..Len(s)
  BY LenProperties, EmptySeq
<1>2. /\ Front(s) \in Seq(S) /\ Len(Front(s)) = Len(s) - 1
      /\ DOMAIN Front(s) = 1..(Len(s) - 1)
      /\ \A i \in 1..(Len(s) - 1) : Front(s)[i] = s[i]
  BY <1>1, SubSeqProperties DEF Front
<1> QED
  BY <1>1, <1>2 DEF Last, ToSet

LEMMA TopOfStack ==
  ASSUME NEW S, NEW s \in Seq(S), NEW e \in S
  PROVE  /\ Append(s, e) \in Seq(S)
         /\ ToSet(Append(s, e)) = ToSet(s) \cup {e}
         /\ (\A i, j \in DOMAIN s : s[i] = s[j] => i = j) /\ e \notin ToSet(s) =>
               \A i, j \in DOMAIN Append(s, e) : Append(s, e)[i] = Append(s, e)[j] => i = j
<1>1. /\ Append(s, e) \in Seq(S) /\ Len(s) \in Nat /\ DOMAIN s = 1..Len(s)
      /\ DOMAIN Append(s, e) = 1..(Len(s) + 1)
      /\ \A i \in 1..Len(s) : Append(s, e)[i] = s[i]
      /\ Append(s, e)[Len(s) + 1] = e
  BY AppendProperties, LenProperties
<1> QED
  BY <1>1 DEF ToSet

LEMMA PoolIsOfChunks == TypeOK => ToSet(pool) \subseteq Chunks
  BY DEF TypeOK, ToSet

\* The open buffer is the only live one at its chunk's used size.
LEMMA OpenBufferFacts ==
  ASSUME IInv, NEW t \in Threads, pc[t] = "fill"
  PROVE  OpenBuffer(t) = Opened(t)
<1>0. TypeOK /\ OnePlace /\ Steps /\ Cuts
  BY DEF IInv
<1>1. Opened(t) \in live /\ Opened(t).chunk = local[t] /\ Opened(t).start = usedSize[local[t]]
  BY <1>0 DEF Cuts, Opened
<1>2. ASSUME NEW b \in live, b.chunk = local[t], b.start = usedSize[local[t]]
      PROVE  b = Opened(t)
  <2>1. local[t] # None /\ local[t] \in Chunks /\ usedSize[local[t]] \in 0..ChunkSize
    BY <1>0 DEF Steps, TypeOK
  <2>2. b.start \in Nat /\ b.len \in Nat
    BY <1>0 DEF TypeOK, Buffers
  <2>3. ~Closed(b)
    BY <1>2, <2>1, <2>2, PoolAssumption DEF Closed
  <2>4. PICK u \in Threads : pc[u] = "fill" /\ b = Opened(u)
    BY <1>0, <2>3 DEF Cuts
  <2>5. local[u] = local[t]
    BY <1>2, <2>4 DEF Opened
  <2> QED
    BY <1>0, <2>1, <2>4, <2>5 DEF OnePlace
<1> QED
  BY <1>1, <1>2 DEF OpenBuffer

-----------------------------------------------------------------------------
(* Types *)

LEMMA SizeFacts ==
  ASSUME IInv, NEW t \in Threads
  PROVE  /\ size[t] \in Nat /\ size[t] <= ChunkSize /\ ChunkSize \in Nat
         /\ \A c \in Chunks : usedSize[c] \in Nat /\ usedSize[c] <= ChunkSize
         /\ local[t] # None => local[t] \in Chunks
         /\ taken[t] # None => taken[t] \in Chunks
<1>1. TypeOK /\ ChunkSize \in Nat /\ Sizes \subseteq 0..ChunkSize
  BY PoolAssumption DEF IInv
<1>2. size[t] \in 0..ChunkSize
  <2>1. size[t] \in Sizes \/ size[t] = 0
    BY <1>1 DEF TypeOK
  <2>2. 0 \in 0..ChunkSize
    BY PoolAssumption
  <2> QED
    BY <1>1, <2>1, <2>2
<1>3. \A c \in Chunks : usedSize[c] \in 0..ChunkSize
  BY <1>1 DEF TypeOK
<1>4. local[t] # None => local[t] \in Chunks
  BY <1>1 DEF TypeOK
<1>5. taken[t] # None => taken[t] \in Chunks
  BY <1>1 DEF TypeOK
<1> QED
  BY <1>1, <1>2, <1>3, <1>4, <1>5

\* A thread that cuts its buffer has room for it.
LEMMA CutFacts ==
  ASSUME IInv, NEW t \in Threads, Cut(t)
  PROVE  /\ local[t] # None /\ local[t] \in Chunks /\ size[t] <= FreeSize(local[t])
         /\ open' = [open EXCEPT ![local[t]] = TRUE]
         /\ live' = live \cup {Opened(t)}
         /\ pc[t] = "open" /\ pc' = [pc EXCEPT ![t] = "fill"]
         /\ UNCHANGED <<local, usedSize, pool, fresh, returning, size, taken>>
<1>1. local[t] # None /\ size[t] <= FreeSize(local[t])
  BY DEF IInv, Steps, Cut
<1>2. local[t] \in Chunks
  BY <1>1, SizeFacts
<1>3. ~(size[t] > FreeSize(local[t]))
  BY <1>1, <1>2, SizeFacts DEF FreeSize
<1> QED
  BY <1>1, <1>2, <1>3 DEF Cut, Opened, Goto

LEMMA CloseFacts ==
  ASSUME IInv, NEW t \in Threads, Close(t)
  PROVE  \E n \in 1..size[t] :
            /\ local[t] \in Chunks /\ usedSize[local[t]] + n \in 0..ChunkSize
            /\ live' = (live \ {Opened(t)})
                        \cup {[chunk |-> local[t], start |-> usedSize[local[t]], len |-> n]}
            /\ usedSize' = [usedSize EXCEPT ![local[t]] = usedSize[local[t]] + n]
<1>1. OpenBuffer(t) = Opened(t)
  BY OpenBufferFacts DEF Close
<1>2. PICK n \in 1..size[t] :
        /\ live' = (live \ {Opened(t)}) \cup {[Opened(t) EXCEPT !.len = n]}
        /\ usedSize' = [usedSize EXCEPT ![local[t]] = usedSize[local[t]] + n]
  BY <1>1 DEF Close, UsedAfterClose
<1>3. [Opened(t) EXCEPT !.len = n] =
        [chunk |-> local[t], start |-> usedSize[local[t]], len |-> n]
  BY DEF Opened
<1>4. local[t] # None /\ size[t] <= ChunkSize - usedSize[local[t]]
  BY DEF IInv, Steps, Cuts, Close, FreeSize
<1>5. local[t] \in Chunks /\ usedSize[local[t]] + n \in 0..ChunkSize
  BY <1>4, SizeFacts
<1> QED
  BY <1>2, <1>3, <1>5

LEMMA NextTypes == IInv /\ [Next]_vars => TypeOK'
<1> SUFFICES ASSUME IInv, [Next]_vars PROVE TypeOK'
  OBVIOUS
<1>0. TypeOK
  BY DEF IInv
<1>1. ASSUME NEW t \in Threads, NEW n \in Sizes, Open(t, n) PROVE TypeOK'
  BY <1>0, <1>1 DEF TypeOK, Open, Goto, Labels
<1>2. ASSUME NEW t \in Threads, Pop(t) PROVE TypeOK'
  <2>1. pool # <<>> => Last(pool) \in Chunks /\ Front(pool) \in Seq(Chunks)
    BY <1>0, BackOfStack DEF TypeOK
  <2> QED
    BY <1>0, <1>2, <2>1 DEF TypeOK, Pop, Goto, Labels
<1>3. ASSUME NEW t \in Threads, Assign(t) PROVE TypeOK'
  <2>1. taken[t] \in Chunks /\ 0 \in 0..ChunkSize
    BY <1>3, PoolAssumption, SizeFacts DEF IInv, Steps, Assign
  <2> QED
    BY <1>0, <1>3, <2>1 DEF TypeOK, Assign, Goto, Labels, DropsOld, UsedAfterReset
<1>4. ASSUME NEW t \in Threads, Cut(t) PROVE TypeOK'
  <2>1. local[t] \in Chunks
    BY <1>4, SizeFacts DEF IInv, Steps, Cut
  <2>2. live' \subseteq Buffers
    BY <1>0, <1>4, <2>1, SizeFacts DEF TypeOK, Cut, Buffers
  <2> QED
    BY <1>0, <1>4, <2>1, <2>2 DEF TypeOK, Cut, Goto, Labels
<1>5. ASSUME NEW t \in Threads, Close(t) PROVE TypeOK'
  <2>1. live' \subseteq Buffers /\ usedSize' \in [Chunks -> 0..ChunkSize]
    <3>1. PICK n \in 1..size[t] :
            /\ local[t] \in Chunks /\ usedSize[local[t]] + n \in 0..ChunkSize
            /\ live' = (live \ {Opened(t)})
                        \cup {[chunk |-> local[t], start |-> usedSize[local[t]], len |-> n]}
            /\ usedSize' = [usedSize EXCEPT ![local[t]] = usedSize[local[t]] + n]
      BY <1>5, CloseFacts
    <3>2. [chunk |-> local[t], start |-> usedSize[local[t]], len |-> n] \in Buffers
      BY <3>1, SizeFacts DEF Buffers
    <3> QED
      BY <1>0, <3>1, <3>2 DEF TypeOK
  <2> QED
    BY <1>0, <1>5, <2>1 DEF TypeOK, Close, Goto, Labels
<1>6. ASSUME NEW b \in live, ReleaseBuffer(b) PROVE TypeOK'
  BY <1>0, <1>6 DEF TypeOK, ReleaseBuffer, Buffers
<1>7. ASSUME NEW c \in Chunks, PushGlobal(c) PROVE TypeOK'
  BY <1>0, <1>7, TopOfStack DEF TypeOK, PushGlobal
<1>8. CASE UNCHANGED vars
  BY <1>0, <1>8 DEF TypeOK, vars
<1> QED
  BY <1>1, <1>2, <1>3, <1>4, <1>5, <1>6, <1>7, <1>8 DEF Next

-----------------------------------------------------------------------------
(* Where the chunks are *)

\* A step that leaves every chunk where it is.
LEMMA SamePlace ==
  ASSUME OnePlace, UNCHANGED <<local, pool, fresh, returning, taken>>,
         \A c \in Chunks : InUse(c)' <=> InUse(c),
         fresh \cup Pooled \subseteq Chunks
  PROVE  OnePlace'
  BY DEF OnePlace, Pooled

LEMMA NextOnePlace == IInv /\ [Next]_vars => OnePlace'
<1> SUFFICES ASSUME IInv, [Next]_vars PROVE OnePlace'
  OBVIOUS
<1>0. TypeOK /\ OnePlace /\ Steps
  BY DEF IInv
<1>a. fresh \cup Pooled \subseteq Chunks
  BY <1>0, PoolIsOfChunks DEF Pooled, TypeOK
<1>1. ASSUME NEW t \in Threads, NEW n \in Sizes, Open(t, n) PROVE OnePlace'
  BY <1>0, <1>1, <1>a, SamePlace DEF Open, InUse
<1>2. ASSUME NEW t \in Threads, Pop(t) PROVE OnePlace'
  <2>1. taken[t] = None
    BY <1>0, <1>2 DEF Steps, Pop
  <2>2. CASE pool # <<>>
    <3>1. /\ Last(pool) \in Chunks /\ ToSet(pool) = ToSet(Front(pool)) \cup {Last(pool)}
          /\ Last(pool) \notin ToSet(Front(pool))
          /\ \A i, j \in DOMAIN Front(pool) : Front(pool)[i] = Front(pool)[j] => i = j
      BY <1>0, <2>2, BackOfStack DEF TypeOK, OnePlace
    <3>2. pool' = Front(pool) /\ taken' = [taken EXCEPT ![t] = Last(pool)]
          /\ UNCHANGED <<local, fresh, returning, live>>
      BY <1>2, <2>2 DEF Pop
    <3>3. Pooled' = Pooled
      BY <1>0, <2>1, <3>1, <3>2, PoolAssumption DEF Pooled, TypeOK
    <3> QED
      BY <1>0, <2>1, <3>1, <3>2, <3>3 DEF OnePlace, InUse, TypeOK
  <2>3. CASE pool = <<>>
    <3>1. PICK c \in fresh : /\ taken' = [taken EXCEPT ![t] = c] /\ fresh' = fresh \ {c}
                             /\ UNCHANGED <<local, pool, returning, live>>
      BY <1>2, <2>3 DEF Pop
    <3>2. c \in Chunks /\ c \notin Pooled
      BY <1>0, <3>1 DEF OnePlace, TypeOK
    <3>3. Pooled' = Pooled \cup {c}
      BY <1>0, <2>1, <3>1, <3>2, PoolAssumption DEF Pooled, TypeOK
    <3> QED
      <4>1. \A u \in Threads : taken'[u] = IF u = t THEN c ELSE taken[u]
        BY <1>0, <3>1 DEF TypeOK
      <4>2. c \notin ToSet(pool) \cup returning /\ \A u \in Threads : taken[u] # c
        BY <1>0, <3>2, PoolAssumption DEF Pooled, TypeOK
      <4>3. \A u, v \in Threads : taken'[u] # None /\ taken'[u] = taken'[v] => u = v
        BY <1>0, <4>1, <4>2 DEF OnePlace
      <4>4. \A u \in Threads : taken'[u] \notin ToSet(pool') \cup returning'
        BY <1>0, <3>1, <4>1, <4>2 DEF OnePlace
      <4>5. fresh' \cup Pooled' = fresh \cup Pooled /\ fresh' \cap Pooled' = {}
        BY <1>0, <3>1, <3>2, <3>3 DEF OnePlace
      <4>6. \A d \in Chunks : InUse(d)' <=> InUse(d)
        BY <3>1 DEF InUse
      <4> QED
        BY <1>0, <1>a, <3>1, <4>3, <4>4, <4>5, <4>6 DEF OnePlace
  <2> QED
    BY <2>2, <2>3
<1>3. ASSUME NEW t \in Threads, Assign(t) PROVE OnePlace'
  <2> DEFINE old == local[t]
             new == taken[t]
  <2>1. new # None /\ new \in Chunks /\ new \in Pooled
    BY <1>0, <1>3, SizeFacts DEF Steps, Assign, Pooled
  <2>2. /\ ~InUse(new) /\ \A u \in Threads : local[u] # new
        /\ new \notin ToSet(pool) \cup returning \cup fresh
        /\ \A u \in Threads : u # t => taken[u] # new
    BY <1>0, <2>1 DEF OnePlace
  <2>3. /\ local' = [local EXCEPT ![t] = new] /\ taken' = [taken EXCEPT ![t] = None]
        /\ UNCHANGED <<pool, fresh, live>>
        /\ returning' = IF DropsOld(t) THEN returning \cup {old} ELSE returning
    BY <1>3 DEF Assign
  <2>4. DropsOld(t) <=> old # None /\ ~InUse(old)
    BY DEF DropsOld
  <2>5. old # None => /\ old \in Chunks /\ old \notin Pooled \cup fresh
                      /\ \A u \in Threads : u # t => local[u] # old
    BY <1>0, SizeFacts DEF OnePlace
  <2>6. \A c : InUse(c)' <=> InUse(c)
    BY <2>3 DEF InUse
  <2>7. Pooled' = (Pooled \ {new}) \cup (IF DropsOld(t) THEN {old} ELSE {})
    BY <1>0, <2>1, <2>2, <2>3 DEF Pooled, TypeOK
  <2>8. \A u \in Threads : local'[u] = IF u = t THEN new ELSE local[u]
    BY <1>0, <2>3 DEF TypeOK
  <2>9. \A u \in Threads : taken'[u] = IF u = t THEN None ELSE taken[u]
    BY <1>0, <2>3 DEF TypeOK
  <2> HIDE DEF old, new
  <2>10. \A u, v \in Threads : local'[u] # None /\ local'[u] = local'[v] => u = v
    BY <1>0, <2>2, <2>8 DEF OnePlace
  <2>11. \A u, v \in Threads : taken'[u] # None /\ taken'[u] = taken'[v] => u = v
    BY <1>0, <2>9 DEF OnePlace
  <2>12. ToSet(pool') \cap returning' = {}
    BY <1>0, <2>3, <2>4, <2>5 DEF OnePlace, Pooled
  <2>13. \A u \in Threads : taken'[u] \notin ToSet(pool') \cup returning'
    BY <1>0, <1>a, <2>3, <2>4, <2>5, <2>9, PoolAssumption DEF OnePlace, Pooled
  <2>14. \A c \in Pooled' \cup fresh' : ~InUse(c)' /\ \A u \in Threads : local'[u] # c
    BY <1>0, <2>2, <2>3, <2>4, <2>5, <2>6, <2>7, <2>8 DEF OnePlace
  <2>15. fresh' \cap Pooled' = {}
    BY <1>0, <2>3, <2>4, <2>5, <2>7 DEF OnePlace
  <2>16. \A c \in Chunks : \/ InUse(c)' \/ c \in fresh' \cup Pooled'
                            \/ \E u \in Threads : local'[u] = c
    <3> SUFFICES ASSUME NEW c \in Chunks, ~InUse(c), c \notin fresh \cup Pooled'
                 PROVE  \E u \in Threads : local'[u] = c
      BY <2>3, <2>6
    <3>1. CASE c \in Pooled
      BY <2>7, <2>8, <3>1
    <3>2. CASE \E u \in Threads : local[u] = c
      <4>1. PICK u \in Threads : local[u] = c
        BY <3>2
      <4>2. CASE u = t
        <5>1. c = old /\ c # None
          BY <4>1, <4>2, PoolAssumption DEF old
        <5> QED
          BY <2>4, <2>7, <5>1
      <4>3. CASE u # t
        BY <2>8, <4>1, <4>3
      <4> QED
        BY <4>2, <4>3
    <3> QED
      BY <1>0, <2>3, <3>1, <3>2 DEF OnePlace
  <2> QED
    BY <1>0, <2>3, <2>10, <2>11, <2>12, <2>13, <2>14, <2>15, <2>16 DEF OnePlace
<1>4. ASSUME NEW t \in Threads, Cut(t) PROVE OnePlace'
  <2>1. local[t] # None /\ local[t] \in Chunks /\ local[t] \notin Pooled \cup fresh
    BY <1>0, <1>4, CutFacts DEF OnePlace
  <2>2. \A c \in Chunks : InUse(c)' <=> InUse(c) \/ c = local[t]
    <3>1. live' = live \cup {Opened(t)} /\ Opened(t).chunk = local[t]
      BY <1>4, CutFacts DEF Opened
    <3> QED
      BY <3>1 DEF InUse
  <2>3. UNCHANGED <<local, pool, fresh, returning, taken>>
    BY <1>4 DEF Cut
  <2> QED
    BY <1>0, <1>a, <2>1, <2>2, <2>3 DEF OnePlace, Pooled
<1>5. ASSUME NEW t \in Threads, Close(t) PROVE OnePlace'
  <2>1. \A c \in Chunks : InUse(c)' <=> InUse(c)
    <3>1. PICK n \in 1..size[t] :
            live' = (live \ {Opened(t)})
                    \cup {[chunk |-> local[t], start |-> usedSize[local[t]], len |-> n]}
      BY <1>5, CloseFacts
    <3>2. Opened(t) \in live /\ Opened(t).chunk = local[t]
      BY <1>5 DEF IInv, Cuts, Opened, Close
    <3>3. \E b \in live' : b.chunk = local[t]
      <4>1. PICK m \in 1..size[t] :
              [chunk |-> local[t], start |-> usedSize[local[t]], len |-> m] \in live'
        BY <3>1
      <4> QED
        BY <4>1
    <3>4. \A b \in live' : b.chunk = local[t] \/ b \in live
      BY <3>1
    <3>5. \A b \in live : b.chunk = local[t] \/ b \in live'
      BY <3>1, <3>2
    <3> QED
      BY <3>2, <3>3, <3>4, <3>5 DEF InUse
  <2> QED
    BY <1>0, <1>5, <1>a, <2>1, SamePlace DEF Close
<1>6. ASSUME NEW b \in live, ReleaseBuffer(b) PROVE OnePlace'
  <2>1. /\ live' = live \ {b} /\ UNCHANGED <<local, pool, fresh, taken>>
        /\ returning' = IF LastRef(b) THEN returning \cup {b.chunk} ELSE returning
    BY <1>6 DEF ReleaseBuffer
  <2>2. b.chunk \in Chunks /\ InUse(b.chunk)
    BY <1>0 DEF TypeOK, Buffers, InUse
  <2>3. b.chunk \notin Pooled \cup fresh
    BY <1>0, <2>2 DEF OnePlace
  <2>4. Pooled' = Pooled \cup (IF LastRef(b) THEN {b.chunk} ELSE {})
    BY <2>1 DEF Pooled
  <2>5. \A c \in Chunks : c # b.chunk => (InUse(c)' <=> InUse(c))
    BY <2>1 DEF InUse
  <2>6. LastRef(b) => ~InUse(b.chunk)' /\ \A t \in Threads : local[t] # b.chunk
    BY <2>1 DEF LastRef, InUse
  <2>7. ~LastRef(b) => InUse(b.chunk)' \/ \E t \in Threads : local[t] = b.chunk
    BY <2>1 DEF LastRef, InUse
  <2>8. /\ ToSet(pool') \cap returning' = {}
        /\ \A t \in Threads : taken'[t] \notin ToSet(pool') \cup returning'
    BY <1>0, <2>1, <2>2, <2>3, PoolAssumption DEF OnePlace, Pooled
  <2>9. fresh' \cap Pooled' = {}
    BY <1>0, <2>1, <2>3, <2>4 DEF OnePlace
  <2>10. \A c \in Pooled' \cup fresh' : ~InUse(c)' /\ \A t \in Threads : local'[t] # c
    BY <1>0, <1>a, <2>1, <2>3, <2>4, <2>5, <2>6 DEF OnePlace
  <2>11. \A c \in Chunks : \/ InUse(c)' \/ c \in fresh' \cup Pooled'
                            \/ \E t \in Threads : local'[t] = c
    BY <1>0, <2>1, <2>4, <2>5, <2>7 DEF OnePlace
  <2> QED
    BY <1>0, <2>1, <2>8, <2>9, <2>10, <2>11 DEF OnePlace
<1>7. ASSUME NEW c \in Chunks, PushGlobal(c) PROVE OnePlace'
  <2>1. /\ pool' = Append(pool, c) /\ ToSet(pool') = ToSet(pool) \cup {c}
        /\ c \in returning /\ returning' = returning \ {c}
        /\ UNCHANGED <<local, fresh, live, taken>>
    BY <1>0, <1>7, TopOfStack DEF PushGlobal, TypeOK
  <2>2. \A i, j \in DOMAIN pool' : pool'[i] = pool'[j] => i = j
    <3>1. c \notin ToSet(pool) /\ \A i, j \in DOMAIN pool : pool[i] = pool[j] => i = j
      BY <1>0, <2>1 DEF OnePlace
    <3> QED
      BY <1>0, <2>1, <3>1, TopOfStack DEF TypeOK
  <2>3. Pooled' = Pooled
    BY <2>1 DEF Pooled
  <2> QED
    BY <1>0, <2>1, <2>2, <2>3 DEF OnePlace, InUse
<1>8. CASE UNCHANGED vars
  BY <1>0, <1>8, <1>a, SamePlace DEF vars, InUse
<1> QED
  BY <1>1, <1>2, <1>3, <1>4, <1>5, <1>6, <1>7, <1>8 DEF Next

-----------------------------------------------------------------------------
(* What a thread knows, and where the live buffers are *)

\* Assign takes a chunk nothing refers to, and hands it out empty.
LEMMA AssignFacts ==
  ASSUME IInv, NEW t \in Threads, Assign(t)
  PROVE  /\ taken[t] \in Chunks /\ taken[t] # None /\ pc[t] = "assign"
         /\ \A u \in Threads : local[u] # taken[t]
         /\ \A b \in live : b.chunk # taken[t]
         /\ \A u \in Threads : local'[u] = IF u = t THEN taken[t] ELSE local[u]
         /\ \A u \in Threads : taken'[u] = IF u = t THEN None ELSE taken[u]
         /\ \A u \in Threads : pc'[u] = IF u = t THEN "open" ELSE pc[u]
         /\ \A c \in Chunks : usedSize'[c] = IF c = taken[t] THEN 0 ELSE usedSize[c]
         /\ \A c \in Chunks : open'[c] = IF c = taken[t] THEN FALSE ELSE open[c]
         /\ UNCHANGED <<live, size>>
<1>0. TypeOK /\ OnePlace /\ Steps
  BY DEF IInv
<1>1. taken[t] \in Chunks /\ taken[t] # None /\ pc[t] = "assign"
  BY <1>0, SizeFacts DEF Assign, Steps
<1>2. taken[t] \in Pooled
  BY <1>1 DEF Pooled
<1>3. ~InUse(taken[t]) /\ \A u \in Threads : local[u] # taken[t]
  BY <1>0, <1>2 DEF OnePlace
<1>4. \A b \in live : b.chunk # taken[t]
  BY <1>3 DEF InUse
<1> QED
  BY <1>0, <1>1, <1>3, <1>4 DEF Assign, TypeOK, Goto, UsedAfterReset

LEMMA NextSteps == IInv /\ [Next]_vars => Steps'
<1> SUFFICES ASSUME IInv, [Next]_vars PROVE Steps'
  OBVIOUS
<1>0. TypeOK /\ OnePlace /\ Steps
  BY DEF IInv
<1>1. ASSUME NEW t \in Threads, NEW n \in Sizes, Open(t, n) PROVE Steps'
  <2>1. n \in Nat
    BY PoolAssumption
  <2>2. Fits(t, n) => local[t] # None /\ n <= FreeSize(local[t])
    BY <2>1, SizeFacts DEF Fits, FreeSize
  <2> QED
    BY <1>0, <1>1, <2>2 DEF Steps, Open, Goto, FreeSize, TypeOK
<1>2. ASSUME NEW t \in Threads, Pop(t) PROVE Steps'
  <2>1. PICK c \in Chunks : taken' = [taken EXCEPT ![t] = c]
    <3>1. pool # <<>> => Last(pool) \in Chunks
      BY <1>0, BackOfStack DEF TypeOK
    <3> QED
      BY <1>0, <1>2, <3>1 DEF Pop, TypeOK
  <2> QED
    BY <1>0, <1>2, <2>1, PoolAssumption DEF Steps, Pop, Goto, FreeSize, TypeOK
<1>3. ASSUME NEW t \in Threads, Assign(t) PROVE Steps'
  <2>1. size[t] <= ChunkSize - 0
    BY SizeFacts
  <2>2. ASSUME NEW u \in Threads, u # t, pc[u] = "open"
        PROVE  size[u] <= ChunkSize - usedSize'[local[u]]
    <3>1. local[u] \in Chunks /\ local[u] # taken[t] /\ size[u] <= ChunkSize - usedSize[local[u]]
      BY <1>0, <1>3, <2>2, AssignFacts, SizeFacts DEF Steps, FreeSize
    <3>2. usedSize'[local[u]] = usedSize[local[u]]
      BY <1>3, <3>1, AssignFacts
    <3> QED
      BY <3>1, <3>2
  <2>3. /\ local'[t] = taken[t] /\ usedSize'[taken[t]] = 0 /\ size' = size
        /\ taken[t] # None /\ taken'[t] = None /\ pc'[t] = "open"
    BY <1>3, AssignFacts
  <2>4. \A u \in Threads : u # t => /\ local'[u] = local[u] /\ pc'[u] = pc[u]
                                   /\ taken'[u] = taken[u]
    BY <1>3, AssignFacts
  <2> QED
    BY <1>0, <2>1, <2>2, <2>3, <2>4 DEF Steps, FreeSize
<1>4. ASSUME NEW t \in Threads, Cut(t) PROVE Steps'
  BY <1>0, <1>4, CutFacts DEF Steps, TypeOK, FreeSize
<1>5. ASSUME NEW t \in Threads, Close(t) PROVE Steps'
  <2>1. PICK n \in 1..size[t] :
          usedSize' = [usedSize EXCEPT ![local[t]] = usedSize[local[t]] + n]
    BY <1>5, CloseFacts
  <2>2. \A u \in Threads : u # t /\ local[u] # None => local[u] # local[t]
    BY <1>0 DEF OnePlace
  <2>3. \A u \in Threads : u # t /\ local[u] # None
           => usedSize'[local[u]] = usedSize[local[u]]
    BY <1>0, <2>1, <2>2, SizeFacts DEF TypeOK
  <2> QED
    BY <1>0, <1>5, <2>3 DEF Steps, Close, Goto, FreeSize, TypeOK
<1>6. ASSUME UNCHANGED <<local, usedSize, pc, size, taken>> PROVE Steps'
  BY <1>0, <1>6 DEF Steps, FreeSize
<1> QED
  BY <1>1, <1>2, <1>3, <1>4, <1>5, <1>6 DEF Next, ReleaseBuffer, PushGlobal, vars

LEMMA NextShut == IInv /\ [Next]_vars => ShutOutside'
<1> SUFFICES ASSUME IInv, [Next]_vars PROVE ShutOutside'
  OBVIOUS
<1>0. TypeOK /\ OnePlace /\ Steps /\ ShutOutside
  BY DEF IInv
<1>1. ASSUME NEW t \in Threads, NEW n \in Sizes, Open(t, n) PROVE ShutOutside'
  BY <1>0, <1>1 DEF ShutOutside, Open, Goto, TypeOK
<1>2. ASSUME NEW t \in Threads, Pop(t) PROVE ShutOutside'
  BY <1>0, <1>2 DEF ShutOutside, Pop, Goto, TypeOK
<1>3. ASSUME NEW t \in Threads, Assign(t) PROVE ShutOutside'
  <2>1. local'[t] = taken[t] /\ open'[taken[t]] = FALSE
    BY <1>3, AssignFacts
  <2>2. ASSUME NEW u \in Threads, u # t, local[u] # None
        PROVE  local'[u] = local[u] /\ pc'[u] = pc[u] /\ open'[local[u]] = open[local[u]]
    BY <1>3, <2>2, AssignFacts, SizeFacts
  <2>3. \A u \in Threads : u # t => local'[u] = local[u]
    BY <1>3, AssignFacts
  <2> QED
    BY <1>0, <2>1, <2>2, <2>3 DEF ShutOutside
<1>4. ASSUME NEW t \in Threads, Cut(t) PROVE ShutOutside'
  BY <1>0, <1>4, CutFacts, SizeFacts DEF ShutOutside, OnePlace, TypeOK
<1>5. ASSUME NEW t \in Threads, Close(t) PROVE ShutOutside'
  BY <1>0, <1>5, SizeFacts DEF ShutOutside, Close, Goto, TypeOK
<1>6. ASSUME UNCHANGED <<local, open, pc>> PROVE ShutOutside'
  BY <1>0, <1>6 DEF ShutOutside
<1> QED
  BY <1>1, <1>2, <1>3, <1>4, <1>5, <1>6 DEF Next, ReleaseBuffer, PushGlobal, vars

\* A step that moves no used size and no open buffer.
LEMMA SameCuts ==
  ASSUME Cuts, UNCHANGED <<live, usedSize>>,
         \A t \in Threads : pc'[t] = "fill" <=> pc[t] = "fill",
         \A t \in Threads : pc[t] = "fill" => local'[t] = local[t] /\ size'[t] = size[t]
  PROVE  Cuts'
<1>1. \A b \in live : Closed(b) => Closed(b)'
  BY DEF Closed
<1>2. \A t \in Threads : pc[t] = "fill" => Opened(t)' = Opened(t)
                                       /\ FreeSize(local[t])' = FreeSize(local[t])
                                       /\ local'[t] = local[t] /\ size'[t] = size[t]
  BY DEF Opened, FreeSize
<1> QED
  BY <1>1, <1>2 DEF Cuts, FreeSize

LEMMA NextCuts == IInv /\ [Next]_vars => Cuts'
<1> SUFFICES ASSUME IInv, [Next]_vars PROVE Cuts'
  OBVIOUS
<1>0. TypeOK /\ OnePlace /\ Steps /\ Cuts
  BY DEF IInv
<1>1. ASSUME NEW t \in Threads, NEW n \in Sizes, Open(t, n) PROVE Cuts'
  BY <1>0, <1>1, SameCuts DEF Open, Goto, TypeOK
<1>2. ASSUME NEW t \in Threads, Pop(t) PROVE Cuts'
  BY <1>0, <1>2, SameCuts DEF Pop, Goto, TypeOK
<1>3. ASSUME NEW t \in Threads, Assign(t) PROVE Cuts'
  <2>1. /\ pc[t] = "assign" /\ pc'[t] = "open" /\ live' = live /\ size' = size
        /\ \A b \in live : b.chunk # taken[t]
    BY <1>3, AssignFacts
  <2>2. \A c \in Chunks : c # taken[t] => usedSize'[c] = usedSize[c]
    <3>1. \A c \in Chunks : usedSize'[c] = IF c = taken[t] THEN 0 ELSE usedSize[c]
      BY <1>3, AssignFacts
    <3> QED
      BY <3>1
  <2>3. ASSUME NEW u \in Threads, pc[u] = "fill"
        PROVE  /\ Opened(u)' = Opened(u) /\ FreeSize(local[u])' = FreeSize(local[u])
               /\ pc'[u] = "fill"
    <3>1. u # t /\ local[u] \in Chunks /\ local[u] # taken[t]
      BY <1>0, <1>3, <2>1, <2>3, AssignFacts, SizeFacts DEF Steps
    <3>2. local'[u] = local[u] /\ pc'[u] = pc[u]
      BY <1>3, <3>1, AssignFacts
    <3> QED
      BY <2>1, <2>2, <2>3, <3>1, <3>2 DEF Opened, FreeSize
  <2>4. \A u \in Threads : pc'[u] = "fill" => pc[u] = "fill"
    BY <1>3, <2>1, AssignFacts
  <2>5. ASSUME NEW b \in live, Closed(b) PROVE Closed(b)'
    <3>1. b.chunk \in Chunks
      BY <1>0 DEF TypeOK, Buffers
    <3> QED
      BY <2>1, <2>2, <2>5, <3>1 DEF Closed
  <2> QED
    BY <1>0, <2>1, <2>3, <2>4, <2>5 DEF Cuts, FreeSize
<1>4. ASSUME NEW t \in Threads, Cut(t) PROVE Cuts'
  <2>1. /\ live' = live \cup {Opened(t)} /\ pc'[t] = "fill" /\ size[t] <= FreeSize(local[t])
        /\ \A u \in Threads : u # t => pc'[u] = pc[u]
        /\ pc[t] # "fill" /\ UNCHANGED <<local, usedSize, size>>
    BY <1>0, <1>4, CutFacts DEF TypeOK
  <2>2. \A u \in Threads : Opened(u)' = Opened(u) /\ FreeSize(local[u])' = FreeSize(local[u])
    BY <2>1 DEF Opened, FreeSize
  <2>3. \A b \in live : Closed(b) => Closed(b)'
    BY <2>1 DEF Closed
  <2> QED
    BY <1>0, <2>1, <2>2, <2>3 DEF Cuts, FreeSize
<1>5. ASSUME NEW t \in Threads, Close(t) PROVE Cuts'
  <2>1. PICK n \in 1..size[t] :
          /\ local[t] \in Chunks /\ usedSize[local[t]] + n \in 0..ChunkSize
          /\ live' = (live \ {Opened(t)})
                     \cup {[chunk |-> local[t], start |-> usedSize[local[t]], len |-> n]}
          /\ usedSize' = [usedSize EXCEPT ![local[t]] = usedSize[local[t]] + n]
    BY <1>5, CloseFacts
  <2>2. /\ pc[t] = "fill" /\ pc'[t] = "idle" /\ local' = local
        /\ \A u \in Threads : u # t => pc'[u] = pc[u] /\ size'[u] = size[u]
    BY <1>0, <1>5 DEF Close, Goto, TypeOK
  <2>3. \A c \in Chunks : usedSize[c] \in Nat /\ usedSize'[c] \in Nat /\ usedSize'[c] >= usedSize[c]
                         /\ (c # local[t] => usedSize'[c] = usedSize[c])
    BY <1>0, <2>1, SizeFacts DEF TypeOK
  <2>4. ASSUME NEW b \in live, Closed(b) PROVE Closed(b)'
    <3>1. b.chunk \in Chunks /\ b.start \in Nat /\ b.len \in Nat
      BY <1>0 DEF TypeOK, Buffers
    <3> QED
      BY <2>3, <2>4, <3>1 DEF Closed
  <2>5. ASSUME NEW u \in Threads, u # t, pc[u] = "fill"
        PROVE  /\ Opened(u)' = Opened(u) /\ Opened(u) \in live'
               /\ size'[u] <= FreeSize(local[u])'
    <3>1. local[u] \in Chunks /\ local[u] # local[t]
      BY <1>0, <2>5, SizeFacts DEF Steps, OnePlace
    <3>2. local'[u] = local[u] /\ usedSize'[local[u]] = usedSize[local[u]] /\ size'[u] = size[u]
      BY <2>2, <2>3, <2>5, <3>1
    <3>3. Opened(u) # Opened(t)
      BY <3>1 DEF Opened
    <3>4. Opened(u) \in live /\ size[u] <= FreeSize(local[u])
      BY <1>0, <2>5 DEF Cuts
    <3> QED
      BY <2>1, <3>2, <3>3, <3>4 DEF Opened, FreeSize
  <2>6. ASSUME NEW b \in live'
        PROVE  Closed(b)' \/ \E u \in Threads : pc'[u] = "fill" /\ b = Opened(u)'
    <3>1. CASE b \in live \ {Opened(t)}
      <4>1. CASE Closed(b)
        BY <2>4, <3>1, <4>1
      <4>2. CASE ~Closed(b)
        <5>1. PICK u \in Threads : pc[u] = "fill" /\ b = Opened(u)
          BY <1>0, <3>1, <4>2 DEF Cuts
        <5>2. u # t
          BY <3>1, <5>1
        <5> QED
          BY <2>2, <2>5, <5>1, <5>2
      <4> QED
        BY <4>1, <4>2
    <3>2. CASE b = [chunk |-> local[t], start |-> usedSize[local[t]], len |-> n]
      BY <1>0, <2>1, <3>2 DEF Closed, TypeOK
    <3> QED
      BY <2>1, <3>1, <3>2
  <2>7. \A u \in Threads : pc'[u] = "fill" => u # t /\ pc[u] = "fill"
    BY <2>2
  <2> QED
    BY <2>2, <2>5, <2>6, <2>7 DEF Cuts, FreeSize
<1>6. ASSUME NEW b \in live, ReleaseBuffer(b) PROVE Cuts'
  <2>1. live' = live \ {b} /\ UNCHANGED <<local, usedSize, pc, size>>
    BY <1>6 DEF ReleaseBuffer
  <2>2. \A t \in Threads : pc[t] = "fill" => b # Opened(t)
    BY <1>6, OpenBufferFacts DEF ReleaseBuffer, Filling
  <2> QED
    BY <1>0, <2>1, <2>2 DEF Cuts, Closed, Opened, FreeSize
<1>7. CASE \/ \E c \in Chunks : PushGlobal(c)
           \/ UNCHANGED vars
  BY <1>0, <1>7, SameCuts DEF PushGlobal, vars
<1> QED
  BY <1>1, <1>2, <1>3, <1>4, <1>5, <1>6, <1>7 DEF Next

-----------------------------------------------------------------------------
(* No two live buffers share a byte *)

\* The open buffer of a thread has no other live buffer above its start.
LEMMA OpenIsLast ==
  ASSUME IInv, NEW t \in Threads, local[t] # None,
         NEW b \in live, b.chunk = local[t], b # Opened(t) \/ pc[t] # "fill"
  PROVE  b.start + b.len <= usedSize[local[t]]
<1>1. Cuts /\ OnePlace
  BY DEF IInv
<1>2. CASE Closed(b)
  BY <1>2 DEF Closed
<1>3. CASE ~Closed(b)
  <2>1. PICK u \in Threads : pc[u] = "fill" /\ b = Opened(u)
    BY <1>1, <1>3 DEF Cuts
  <2>2. local[u] = local[t]
    BY <2>1 DEF Opened
  <2>3. u = t
    BY <1>1, <2>2 DEF OnePlace
  <2> QED
    BY <2>1, <2>3
<1> QED
  BY <1>2, <1>3

LEMMA NextDisjoint == IInv /\ [Next]_vars => LiveDisjoint'
<1> SUFFICES ASSUME IInv, [Next]_vars PROVE LiveDisjoint'
  OBVIOUS
<1>0. TypeOK /\ LiveDisjoint /\ Steps /\ Cuts
  BY DEF IInv
<1>a. \A b \in live : b.start \in Nat /\ b.len \in Nat
  BY <1>0 DEF TypeOK, Buffers
<1>1. ASSUME live' \subseteq live PROVE LiveDisjoint'
  BY <1>0, <1>1 DEF LiveDisjoint
<1>2. ASSUME NEW t \in Threads, Cut(t) PROVE LiveDisjoint'
  <2>1. /\ live' = live \cup {Opened(t)} /\ local[t] # None /\ local[t] \in Chunks
        /\ size[t] <= FreeSize(local[t]) /\ pc[t] # "fill"
    BY <1>2, CutFacts
  <2>2. usedSize[local[t]] \in Nat /\ size[t] \in Nat /\ ChunkSize \in Nat
    BY <2>1, SizeFacts
  <2>3. ASSUME NEW b \in live PROVE ~Overlap(b, Opened(t)) /\ ~Overlap(Opened(t), b)
    <3>1. b.chunk = local[t] => b.start + b.len <= usedSize[local[t]]
      BY <2>1, OpenIsLast
    <3> QED
      BY <1>a, <2>2, <3>1 DEF Overlap, Opened
  <2>4. Opened(t).start + Opened(t).len <= ChunkSize
    BY <2>1, <2>2 DEF Opened, FreeSize
  <2> QED
    BY <1>0, <2>1, <2>3, <2>4 DEF LiveDisjoint
<1>3. ASSUME NEW t \in Threads, Close(t) PROVE LiveDisjoint'
  <2>1. PICK n \in 1..size[t] :
          /\ local[t] \in Chunks /\ usedSize[local[t]] + n \in 0..ChunkSize
          /\ live' = (live \ {Opened(t)})
                     \cup {[chunk |-> local[t], start |-> usedSize[local[t]], len |-> n]}
    BY <1>3, CloseFacts
  <2> DEFINE new == [chunk |-> local[t], start |-> usedSize[local[t]], len |-> n]
  <2>2. usedSize[local[t]] \in Nat /\ size[t] \in Nat /\ ChunkSize \in Nat /\ n \in Nat
    BY <2>1, SizeFacts
  <2>3. pc[t] = "fill" /\ local[t] # None
    BY <1>0, <1>3 DEF Close, Steps
  <2>4. ASSUME NEW b \in live, b # Opened(t) PROVE ~Overlap(b, new) /\ ~Overlap(new, b)
    <3>1. b.chunk = local[t] => b.start + b.len <= usedSize[local[t]]
      BY <2>3, <2>4, OpenIsLast
    <3> QED
      BY <1>a, <2>2, <3>1 DEF Overlap
  <2>5. new.start + new.len <= ChunkSize
    BY <2>1, <2>2
  <2>6. live' = (live \ {Opened(t)}) \cup {new}
    BY <2>1
  <2> HIDE DEF new
  <2> QED
    BY <1>0, <2>4, <2>5, <2>6 DEF LiveDisjoint
<1>4. live' \subseteq live \/ \E t \in Threads : Cut(t) \/ Close(t)
  BY DEF Next, Open, Pop, Assign, ReleaseBuffer, PushGlobal, vars
<1> QED
  BY <1>1, <1>2, <1>3, <1>4

-----------------------------------------------------------------------------
(* The theorems *)

LEMMA InitIInv == Init => IInv
<1> SUFFICES ASSUME Init PROVE IInv
  OBVIOUS
<1>1. pool \in Seq(Chunks) /\ pool = <<>> /\ ToSet(pool) = {} /\ DOMAIN pool = {}
  BY EmptySeq DEF Init, ToSet
<1>2. 0 \in 0..ChunkSize
  BY PoolAssumption
<1>3. TypeOK
  BY <1>1, <1>2 DEF Init, TypeOK, Labels
<1>4. Pooled = {} /\ fresh = Chunks /\ live = {}
  BY <1>1 DEF Init, Pooled
<1>5. OnePlace
  BY <1>1, <1>4, PoolAssumption DEF Init, OnePlace, InUse
<1>6. Steps /\ Cuts /\ ShutOutside /\ LiveDisjoint
  BY DEF Init, Steps, Cuts, ShutOutside, LiveDisjoint
<1> QED
  BY <1>3, <1>5, <1>6 DEF IInv

LEMMA PoolInvariant == Spec => []IInv
<1>1. IInv /\ [Next]_vars => IInv'
  BY NextTypes, NextOnePlace, NextSteps, NextCuts, NextShut, NextDisjoint DEF IInv
<1> QED
  BY InitIInv, <1>1, PTL DEF Spec

\* Every thread's chunk, every chunk's used size and every buffer keep their types,
\* for any number of threads, chunks and buffers.
THEOREM SendBufferTypes == Spec => []TypeOK
<1>1. IInv => TypeOK
  BY DEF IInv
<1> QED
  BY PoolInvariant, <1>1, PTL

\* The bytes of a buffer somebody still refers to are never written again, although
\* chunks go round through the pool and are reset.
THEOREM BuffersNeverOverlap == Spec => []LiveDisjoint
<1>1. IInv => LiveDisjoint
  BY DEF IInv
<1> QED
  BY PoolInvariant, <1>1, PTL

\* A chunk has one place at a time, one thread cuts it, none leaks, and the pool
\* holds nothing that is referred to.
THEOREM ChunksInOnePlace == Spec => []OnePlace
<1>1. IInv => OnePlace
  BY DEF IInv
<1> QED
  BY PoolInvariant, <1>1, PTL

\* SendBufferChunk::Open is never called on an open chunk (its ASSERT_CRASH) and never
\* returns nullptr to MakeSendBuffer.
THEOREM OpenAlwaysSucceeds == Spec => []OpenSucceeds
<1>1. IInv => OpenSucceeds
  BY DEF IInv, Steps, ShutOutside, OpenSucceeds
<1> QED
  BY PoolInvariant, <1>1, PTL

-----------------------------------------------------------------------------
(* Receive buffer: the packets in the stream *)

\* Induction over the naturals: a set of them has a least element.
LEMMA LeastNat ==
  ASSUME NEW T \in SUBSET Nat, T # {}
  PROVE  \E x \in T : \A y \in T : x <= y
<1> DEFINE R == OpToRel(<, Nat)
<1>1. IsWellFoundedOn(R, Nat)
  BY NatLessThanWellFounded
<1>2. \A x, y \in Nat : y < x => <<y, x>> \in R
  BY DEF OpToRel
<1> HIDE DEF R
<1>3. PICK x \in T : \A y \in T : <<y, x>> \notin R
  BY <1>1, WFMin
<1>4. \A y \in T : ~(y < x)
  BY <1>2, <1>3
<1>5. \A y \in T : y \in Nat
  OBVIOUS
<1> QED
  BY <1>4, <1>5

\* RecvSizes of packets, and of the buffer.
LEMMA RecvSizes ==
  /\ PacketCount \in Nat /\ BufferSize \in Nat /\ MaxPacket \in Nat
  /\ 0 < MaxPacket /\ MaxPacket <= BufferSize
  /\ Capacity \in Nat /\ Capacity >= 3 * BufferSize
  /\ \A k \in 1..PacketCount + 1 : Start(k) \in Nat
  /\ \A k \in 1..PacketCount : /\ Start(k + 1) = PacketEnds[k] /\ PacketEnds[k] \in Nat
                               /\ Start(k) < PacketEnds[k]
                               /\ PacketEnds[k] - Start(k) <= MaxPacket
<1>1. /\ HeaderSize \in Nat /\ HeaderSize > 0 /\ HeaderSize <= MaxPacket
      /\ BufferSize \in Nat /\ MaxPacket \in Nat /\ MaxPacket <= BufferSize
      /\ BUFFER_COUNT \in Nat /\ BUFFER_COUNT >= 3 /\ PacketEnds \in Seq(Nat)
  BY RecvAssumption
<1>2. PacketCount \in Nat /\ \A k \in 1..PacketCount : PacketEnds[k] \in Nat
  BY <1>1 DEF PacketCount
<1>3. Capacity \in Nat /\ Capacity >= 3 * BufferSize
  <2>1. \A a, c \in Nat : c >= 3 => a * c \in Nat /\ a * c >= 3 * a
    OBVIOUS
  <2> QED
    BY <1>1, <2>1 DEF Capacity
<1>4. \A k \in 1..PacketCount + 1 : Start(k) \in Nat
  BY <1>2 DEF Start
<1>5. \A k \in 1..PacketCount : Start(k + 1) = PacketEnds[k]
  BY <1>2 DEF Start
<1>6. \A k \in 1..PacketCount : /\ HeaderSize <= PacketEnds[k] - Start(k)
                                /\ PacketEnds[k] - Start(k) <= MaxPacket
  BY RecvAssumption DEF PacketCount
<1>7. \A k \in 1..PacketCount : Start(k) < PacketEnds[k]
  <2> SUFFICES ASSUME NEW k \in 1..PacketCount PROVE Start(k) < PacketEnds[k]
    OBVIOUS
  <2>1. k \in 1..PacketCount + 1
    BY <1>2
  <2>2. Start(k) \in Nat /\ PacketEnds[k] \in Nat
    BY <1>2, <1>4, <2>1
  <2> QED
    BY <1>1, <1>6, <2>2
<1> QED
  BY <1>1, <1>2, <1>3, <1>4, <1>5, <1>6, <1>7

\* Later packets start later in the stream.
LEMMA StartsInOrder ==
  ASSUME NEW i \in 1..PacketCount + 1, NEW j \in 1..PacketCount + 1, i <= j
  PROVE  Start(i) <= Start(j)
<1> DEFINE T == {k \in Nat : i <= k /\ k <= PacketCount + 1 /\ Start(k) < Start(i)}
<1>1. SUFFICES ASSUME T # {} PROVE FALSE
  BY RecvSizes
<1>2. PICK k \in T : \A n \in T : k <= n
  BY <1>1, LeastNat
<1>3. /\ k \in Nat /\ i < k /\ k - 1 \in 1..PacketCount /\ k - 1 \in 1..PacketCount + 1
      /\ k \in 1..PacketCount + 1
  BY <1>2, RecvSizes
<1>4. Start(k - 1) >= Start(i)
  <2>1. k - 1 \notin T
    BY <1>2, <1>3
  <2> QED
    BY <1>3, <2>1, RecvSizes
<1>5. Start((k - 1) + 1) = PacketEnds[k - 1] /\ Start(k - 1) < PacketEnds[k - 1]
  BY <1>3, RecvSizes
<1>6. (k - 1) + 1 = k
  BY <1>3
<1>7. Start(k) > Start(k - 1)
  BY <1>5, <1>6, <1>3, RecvSizes
<1>8. Start(k) < Start(i)
  BY <1>2
<1> QED
  BY <1>3, <1>4, <1>7, <1>8, RecvSizes
-----------------------------------------------------------------------------
Unread == RecvTypeOK /\ Faithful /\ RecvFreeSize >= BufferSize /\ closed # "no room"

\* What is in the buffer, for cursors r and w, after next packets.
Holds(b, r, w, next) ==
    /\ b \in [Cells -> Nat \cup {Junk}]
    /\ r \in Nat /\ w \in Nat /\ r <= w /\ w <= Capacity
    /\ \A i \in r..w - 1 : b[i] = Start(next + 1) + (i - r)
    /\ next < PacketCount => PacketEnds[next + 1] - Start(next + 1) > w - r

\* Once the packets are parsed, less than a packet is left unread.
LEMMA Parsed ==
  ASSUME Unread, NEW n \in 1..Capacity, ProcessRecv(n)
  PROVE  \E r, w \in Nat, b \in [Cells -> Nat \cup {Junk}] :
            /\ w = writePos + n /\ w - r = received' - Start(handled' + 1)
            /\ w - r < MaxPacket
            /\ Holds(b, r, w, handled') /\ Clean(r, w, b)
            /\ handled' \in 0..PacketCount /\ received' \in Nat
            /\ posted' = FALSE /\ closed' = closed
<1> DEFINE w == writePos + n
           b == [i \in Cells |-> IF i \in writePos..writePos + n - 1
                                 THEN received + (i - writePos) ELSE buffer[i]]
<1>1. /\ readPos \in Nat /\ writePos \in Nat /\ readPos <= writePos /\ received \in Nat
      /\ handled \in 0..PacketCount /\ writePos - readPos = received - Consumed
      /\ n \in Nat /\ w <= Capacity /\ Consumed \in Nat
  <2>1. /\ readPos \in Nat /\ writePos \in Nat /\ readPos <= writePos /\ received \in Nat
        /\ handled \in 0..PacketCount /\ writePos - readPos = received - Consumed
        /\ n <= Capacity - writePos
    BY DEF Unread, RecvTypeOK, Faithful, ProcessRecv, RecvFreeSize, DataSize
  <2>2. handled + 1 \in 1..PacketCount + 1
    BY <2>1, RecvSizes
  <2> QED
    BY <2>1, <2>2, RecvSizes DEF Consumed
<1>2. PICK k \in 0..PacketCount - handled :
         /\ Parses(k, DataSize + n) /\ handled' = handled + k
         /\ Clean(readPos + (Start(handled + k + 1) - Consumed), w, b)
  BY DEF ProcessRecv
<1> DEFINE next == Start(handled + k + 1)
           r == readPos + (next - Consumed)
<1>3. /\ received' = received + n /\ received + n <= Start(PacketCount + 1)
      /\ posted' = FALSE /\ closed' = closed
  BY DEF ProcessRecv
<1>4. k \in Nat /\ handled + k \in 0..PacketCount /\ handled + k + 1 \in 1..PacketCount + 1
  BY <1>1, <1>2, RecvSizes
<1>5. next \in Nat /\ Consumed <= next
  BY <1>1, <1>4, StartsInOrder, RecvSizes DEF Consumed
<1>6. next <= received + n
  <2>1. CASE k = 0
    BY <1>1, <2>1 DEF Consumed
  <2>2. CASE k # 0
    <3>1. Complete(k, DataSize + n)
      BY <1>2, <1>4, <2>2 DEF Parses
    <3>2. handled + k \in 1..PacketCount
      BY <1>1, <1>4, <2>2
    <3>3. next = PacketEnds[handled + k] /\ PacketEnds[handled + k] \in Nat
      BY <3>2, RecvSizes
    <3> QED
      BY <1>1, <3>1, <3>3 DEF Complete, DataSize
  <2> QED
    BY <2>1, <2>2
<1>7. handled + k < PacketCount => PacketEnds[handled + k + 1] - next > received + n - next
  <2> SUFFICES ASSUME handled + k < PacketCount
               PROVE  PacketEnds[handled + k + 1] - next > received + n - next
    OBVIOUS
  <2>1. ~Complete(k + 1, DataSize + n)
    BY <1>2 DEF Parses
  <2>2. handled + k + 1 \in 1..PacketCount
    BY <1>1, <1>4, RecvSizes
  <2>3. PacketEnds[handled + k + 1] \in Nat /\ handled + (k + 1) = handled + k + 1
    BY <1>1, <1>4, <2>2, RecvSizes
  <2> QED
    BY <1>1, <1>5, <2>1, <2>3 DEF Complete, DataSize
<1>8. /\ r \in Nat /\ w \in Nat /\ w - r = received + n - next /\ r <= w
      /\ w - r < MaxPacket
  <2>1. r \in Nat /\ w \in Nat /\ w - r = received + n - next /\ r <= w
    BY <1>1, <1>5, <1>6
  <2>2. CASE handled + k = PacketCount
    <3>1. next = Start(PacketCount + 1)
      BY <2>2
    <3> QED
      BY <1>1, <1>3, <1>5, <2>1, <3>1, RecvSizes
  <2>3. CASE handled + k < PacketCount
    <3>1. handled + k + 1 \in 1..PacketCount
      BY <1>4, <2>3, RecvSizes
    <3>2. PacketEnds[handled + k + 1] - next <= MaxPacket /\ PacketEnds[handled + k + 1] \in Nat
      BY <3>1, RecvSizes
    <3> QED
      BY <1>1, <1>5, <1>7, <2>1, <2>3, <3>2, RecvSizes
  <2> QED
    BY <1>4, <2>1, <2>2, <2>3, RecvSizes
<1>9. b \in [Cells -> Nat \cup {Junk}]
  <2>1. buffer \in [Cells -> Nat \cup {Junk}]
    BY DEF Unread, RecvTypeOK
  <2>2. \A i \in writePos..writePos + n - 1 : received + (i - writePos) \in Nat
    BY <1>1
  <2> QED
    BY <2>1, <2>2
<1>10. \A i \in r..w - 1 : b[i] = next + (i - r)
  <2> SUFFICES ASSUME NEW i \in r..w - 1 PROVE b[i] = next + (i - r)
    OBVIOUS
  <2>1. i \in Cells /\ i \in readPos..w - 1
    BY <1>1, <1>5, <1>8, RecvSizes DEF Cells
  <2>2. CASE i \in writePos..writePos + n - 1
    <3>1. b[i] = received + (i - writePos)
      BY <2>1, <2>2
    <3> QED
      BY <1>1, <1>5, <2>1, <3>1
  <2>3. CASE i \notin writePos..writePos + n - 1
    <3>1. b[i] = buffer[i] /\ i \in readPos..writePos - 1
      BY <1>1, <2>1, <2>3
    <3>2. buffer[i] = Consumed + (i - readPos)
      BY <3>1 DEF Unread, Faithful
    <3> QED
      BY <1>1, <1>5, <2>1, <3>1, <3>2
  <2> QED
    BY <2>2, <2>3
<1>11. received' \in Nat
  BY <1>1, <1>3
<1>12. handled' = handled + k
  BY <1>2
<1>13. Clean(r, w, b)
  BY <1>2
<1>14. w - r = received' - Start(handled' + 1) /\ handled' \in 0..PacketCount
  <2>1. Start(handled' + 1) = next /\ handled' \in 0..PacketCount
    BY <1>4, <1>12
  <2>2. received' - next = received + n - next
    BY <1>1, <1>3, <1>5, <1>11
  <2>3. w - r = received + n - next
    BY <1>8
  <2> HIDE DEF w, r, next
  <2> QED
    BY <2>1, <2>2, <2>3
<1>15. w <= Capacity
  BY <1>1
<1> HIDE DEF r, w, b
<1>16. Holds(b, r, w, handled')
  BY <1>7, <1>8, <1>9, <1>10, <1>12, <1>15 DEF Holds
<1>17. w = writePos + n
  BY DEF w
<1> QED
  BY <1>3, <1>8, <1>9, <1>11, <1>13, <1>14, <1>16, <1>17

\* Clean keeps the unread bytes, leaves a BufferSize of room, and copies only what fits
\* before its source.
LEMMA Cleaned ==
  ASSUME NEW r \in Nat, NEW w \in Nat, NEW b, NEW next \in 0..PacketCount,
         Holds(b, r, w, next), w - r < MaxPacket, Clean(r, w, b)
  PROVE  /\ Holds(buffer', readPos', writePos', next)
         /\ writePos' - readPos' = w - r /\ Capacity - writePos' >= BufferSize
         /\ readPos' = r \/ w - r <= r
<1>1. CASE w = r
  BY <1>1, RecvSizes DEF Clean, Holds
<1>2. CASE w # r /\ ~CleanNeeded(w)
  BY <1>2, RecvSizes DEF Clean, CleanNeeded, Holds
<1>3. CASE w # r /\ CleanNeeded(w)
  <2>1. /\ readPos' = 0 /\ writePos' = w - r
        /\ buffer' = [i \in Cells |-> IF i < w - r THEN b[r + i] ELSE b[i]]
    BY <1>3 DEF Clean, Moved
  <2>2. w <= Capacity /\ r <= w /\ b \in [Cells -> Nat \cup {Junk}]
    BY DEF Holds
  <2>3. \A i \in Cells : i < w - r => r + i \in Cells
    BY <2>2, RecvSizes DEF Cells
  <2>4. buffer' \in [Cells -> Nat \cup {Junk}]
    BY <2>1, <2>2, <2>3
  <2>5. \A i \in 0..(w - r) - 1 : buffer'[i] = Start(next + 1) + i
    <3> SUFFICES ASSUME NEW i \in 0..(w - r) - 1 PROVE buffer'[i] = Start(next + 1) + i
      OBVIOUS
    <3>1. i \in Cells /\ i < w - r /\ r + i \in r..w - 1
      BY <2>2, RecvSizes DEF Cells
    <3>2. buffer'[i] = b[r + i]
      BY <2>1, <3>1
    <3>3. b[r + i] = Start(next + 1) + ((r + i) - r)
      BY <3>1 DEF Holds
    <3> QED
      BY <3>1, <3>2, <3>3
  <2>6. w - r <= r /\ Capacity - (w - r) >= BufferSize
    BY <1>3, <2>2, RecvSizes DEF CleanNeeded
  <2>7. next + 1 \in 1..PacketCount + 1 /\ Start(next + 1) \in Nat
    BY RecvSizes
  <2>8. next < PacketCount => PacketEnds[next + 1] - Start(next + 1) > w - r
    BY DEF Holds
  <2> QED
    BY <2>1, <2>2, <2>4, <2>5, <2>6, <2>7, <2>8, RecvSizes DEF Holds
<1> QED
  BY <1>1, <1>2, <1>3

LEMMA UnreadInit == RecvInit => Unread
<1> SUFFICES ASSUME RecvInit PROVE Unread
  OBVIOUS
<1>1. Consumed = 0 /\ DataSize = 0 /\ handled = 0 /\ received = 0
  BY DEF RecvInit, Consumed, Start, DataSize
<1>2. 0 < PacketCount => PacketEnds[1] - 0 > 0
  BY RecvSizes DEF Start
<1> QED
  BY <1>1, <1>2, RecvSizes DEF RecvInit, Unread, RecvTypeOK, Faithful, RecvFreeSize, Cells, Junk

LEMMA Received ==
  ASSUME Unread, NEW n \in 1..Capacity, ProcessRecv(n)
  PROVE  Unread' /\ (readPos' = Source \/ DataSize' <= Source)
<1>1. PICK r, w \in Nat, b \in [Cells -> Nat \cup {Junk}] :
         /\ w = writePos + n /\ w - r = received' - Start(handled' + 1)
         /\ w - r < MaxPacket
         /\ Holds(b, r, w, handled') /\ Clean(r, w, b)
         /\ handled' \in 0..PacketCount /\ received' \in Nat
         /\ posted' = FALSE /\ closed' = closed
  BY Parsed
<1>2. /\ Holds(buffer', readPos', writePos', handled')
      /\ writePos' - readPos' = w - r /\ Capacity - writePos' >= BufferSize
      /\ readPos' = r \/ w - r <= r
  BY <1>1, Cleaned
<1>3. RecvTypeOK' /\ (RecvFreeSize >= BufferSize)' /\ (closed # "no room")'
  BY <1>1, <1>2 DEF RecvTypeOK, Holds, Unread, RecvFreeSize
<1>4. Faithful'
  BY <1>1, <1>2 DEF Faithful, Holds, DataSize, Consumed
<1>5. Source = r
  <2>1. received' = received + n /\ received \in Nat /\ writePos \in Nat
    BY DEF ProcessRecv, Unread, RecvTypeOK
  <2> QED
    BY <1>1, <1>2, <2>1 DEF Source, DataSize
<1> QED
  BY <1>1, <1>2, <1>3, <1>4, <1>5 DEF Unread, DataSize

LEMMA UnreadStep ==
  ASSUME Unread, [RecvNext]_recvVars
  PROVE  Unread' /\ (readPos' = Source \/ DataSize' <= Source)
<1>1. ASSUME NEW n \in 1..Capacity, ProcessRecv(n)
      PROVE  Unread' /\ (readPos' = Source \/ DataSize' <= Source)
  BY <1>1, Received
<1>2. ASSUME UNCHANGED <<readPos, writePos, buffer, received, handled>>
      PROVE  readPos' = Source
  <2>1. readPos \in Nat /\ writePos \in Nat /\ received \in Nat
    BY DEF Unread, RecvTypeOK
  <2> QED
    BY <1>2, <2>1 DEF Source, DataSize
<1>3. CASE ProcessRecvZero
  <2>1. RecvFreeSize # 0
    <3>1. writePos \in Nat /\ RecvFreeSize >= BufferSize
      BY DEF Unread, RecvTypeOK
    <3> QED
      BY <3>1, RecvSizes DEF RecvFreeSize
  <2> QED
    BY <1>2, <1>3, <2>1
       DEF ProcessRecvZero, Unread, RecvTypeOK, Faithful, DataSize, RecvFreeSize, Consumed
<1>4. CASE RegisterRecv
  BY <1>2, <1>4 DEF RegisterRecv, Unread, RecvTypeOK, Faithful, DataSize, RecvFreeSize, Consumed
<1>5. CASE UNCHANGED recvVars
  BY <1>2, <1>5 DEF recvVars, Unread, RecvTypeOK, Faithful, DataSize, RecvFreeSize, Consumed
<1> QED
  BY <1>1, <1>3, <1>4, <1>5 DEF RecvNext

LEMMA UnreadAlways == RecvSpec => []Unread
BY UnreadInit, UnreadStep, PTL DEF RecvSpec

\* The cursors stay in order inside the buffer, and the counts of bytes and packets
\* keep their types, for any packets and any cuts.
THEOREM RecvTypes == RecvSpec => []RecvTypeOK
<1>1. Unread => RecvTypeOK
  BY DEF Unread
<1> QED
  BY <1>1, UnreadAlways, PTL

\* Between the cursors are the unread bytes of the stream, in place, and every complete
\* packet has been handed on, for any packets and any cuts.
THEOREM ReceivesFaithfully == RecvSpec => []Faithful
<1>1. Unread => Faithful
  BY DEF Unread
<1> QED
  BY <1>1, UnreadAlways, PTL

\* Every WSARecv is posted with at least a BufferSize of room, so a receive of 0 bytes
\* always is the peer's close.
THEOREM AlwaysRoom == RecvSpec => []RoomToReceive
<1>1. Unread => RoomToReceive
  BY DEF Unread, RoomToReceive
<1> QED
  BY <1>1, UnreadAlways, PTL

\* The memcpy of RecvBuffer::Clean never copies onto what it copies from.
THEOREM CleanNeverOverlaps == RecvSpec => CleanSafe
<1>1. Unread /\ [RecvNext]_recvVars => [readPos' # Source => DataSize' <= Source]_recvVars
  BY UnreadStep
<1> QED
  BY <1>1, UnreadAlways, PTL DEF RecvSpec, CleanSafe

-----------------------------------------------------------------------------
(* The table *)

\* The sizes of the pools the constructor makes.
SizeOf(i) == IF i <= 32 THEN 32 * i
             ELSE IF i <= 40 THEN 1056 + 128 * (i - 33) ELSE 2080 + 256 * (i - 41)

LEMMA Joined ==
  ASSUME NEW a \in Seq(Int), NEW b \in Seq(Int)
  PROVE  /\ a \o b \in Seq(Int) /\ Len(a \o b) = Len(a) + Len(b)
         /\ \A i \in 1..Len(a) : (a \o b)[i] = a[i]
         /\ \A i \in Nat : Len(a) < i /\ i <= Len(a) + Len(b) => (a \o b)[i] = b[i - Len(a)]
<1>1. Len(a) \in Nat /\ Len(b) \in Nat
  BY LenProperties
<1>2. /\ a \o b \in Seq(Int) /\ Len(a \o b) = Len(a) + Len(b)
      /\ \A i \in 1..Len(a) + Len(b) : (a \o b)[i] = IF i <= Len(a) THEN a[i] ELSE b[i - Len(a)]
  BY ConcatProperties
<1> QED
  BY <1>1, <1>2

LEMMA PoolSizesAre == Len(PoolSizes) = 48 /\ \A i \in 1..48 : PoolSizes[i] = SizeOf(i)
<1>1. By32 = [i \in 1..32 |-> 32 + (i - 1) * 32]
  BY DEF By32, SizesFrom
<1>2. By32 \in Seq(Int) /\ Len(By32) = 32
  BY <1>1
<1>3. \A i \in 1..32 : By32[i] = 32 * i
  BY <1>1
<1>4. After(By32, 32) = 1056
  BY <1>2, <1>3 DEF After
<1>5. By128 = [i \in 1..8 |-> 1056 + (i - 1) * 128]
  BY <1>4 DEF By128, SizesFrom
<1>6. By128 \in Seq(Int) /\ Len(By128) = 8
  BY <1>5
<1>7. \A i \in 1..8 : By128[i] = 1056 + 128 * (i - 1)
  BY <1>5
<1>8. After(By128, 128) = 2080
  BY <1>6, <1>7 DEF After
<1>9. By256 = [i \in 1..8 |-> 2080 + (i - 1) * 256]
  BY <1>8 DEF By256, SizesFrom
<1>10. By256 \in Seq(Int) /\ Len(By256) = 8
  BY <1>9
<1>11. \A i \in 1..8 : By256[i] = 2080 + 256 * (i - 1)
  BY <1>9
<1> DEFINE s == By32 \o By128
<1>12. /\ s \in Seq(Int) /\ Len(s) = Len(By32) + Len(By128)
       /\ \A i \in 1..Len(By32) : s[i] = By32[i]
       /\ \A i \in Nat : Len(By32) < i /\ i <= Len(By32) + Len(By128)
                           => s[i] = By128[i - Len(By32)]
  BY <1>2, <1>6, Joined
<1>13. Len(s) = 40
  BY <1>2, <1>6, <1>12
<1> HIDE DEF s
<1>14. /\ Len(s \o By256) = Len(s) + Len(By256)
       /\ \A i \in 1..Len(s) : (s \o By256)[i] = s[i]
       /\ \A i \in Nat : Len(s) < i /\ i <= Len(s) + Len(By256)
                           => (s \o By256)[i] = By256[i - Len(s)]
  BY <1>10, <1>12, Joined
<1>15. Len(s \o By256) = 48
  BY <1>10, <1>13, <1>14
<1>16. PoolSizes = s \o By256
  BY DEF PoolSizes, s
<1>17. ASSUME NEW i \in 1..48 PROVE PoolSizes[i] = SizeOf(i)
  <2>1. CASE i <= 32
    <3>1. i \in 1..Len(By32) /\ i \in 1..Len(s) /\ i \in 1..32
      BY <1>2, <1>13, <2>1
    <3>2. PoolSizes[i] = By32[i]
      BY <1>12, <1>14, <1>16, <3>1
    <3> QED
      BY <1>3, <3>1, <3>2, <2>1 DEF SizeOf
  <2>2. CASE 32 < i /\ i <= 40
    <3>1. i \in 1..Len(s) /\ i \in Nat /\ Len(By32) < i /\ i <= Len(By32) + Len(By128)
      BY <1>2, <1>6, <1>13, <2>2
    <3>2. PoolSizes[i] = By128[i - Len(By32)]
      BY <1>12, <1>14, <1>16, <3>1
    <3>3. i - Len(By32) = i - 32 /\ i - 32 \in 1..8
      BY <1>2, <2>2
    <3>4. PoolSizes[i] = 1056 + 128 * ((i - 32) - 1)
      BY <1>7, <3>2, <3>3
    <3> QED
      BY <3>4, <2>2 DEF SizeOf
  <2>3. CASE 40 < i
    <3>1. i \in Nat /\ Len(s) < i /\ i <= Len(s) + Len(By256)
      BY <1>10, <1>13, <2>3
    <3>2. PoolSizes[i] = By256[i - Len(s)]
      BY <1>14, <1>16, <3>1
    <3>3. i - Len(s) = i - 40 /\ i - 40 \in 1..8
      BY <1>13, <2>3
    <3>4. PoolSizes[i] = 2080 + 256 * ((i - 40) - 1)
      BY <1>11, <3>2, <3>3
    <3> QED
      BY <3>4, <2>3 DEF SizeOf
  <2> QED
    BY <2>1, <2>2, <2>3
<1> QED
  BY <1>15, <1>16, <1>17

LastSize == 3872

\* An entry is filled by the first pool that is large enough.
LEMMA TableEntry ==
  ASSUME NEW n \in 0..LastSize
  PROVE  \E i \in 1..48 : /\ PoolFor(n) = SizeOf(i) /\ n <= SizeOf(i)
                          /\ i > 1 => SizeOf(i - 1) < n
<1>1. Len(PoolSizes) = 48 /\ \A i \in 1..48 : Fills(n, i) <=> n <= SizeOf(i)
  BY PoolSizesAre DEF Fills, FilledUpTo, SizeOf, LastSize
<1>2. \E i \in 1..48 : Fills(n, i) /\ \A j \in 1..i - 1 : ~Fills(n, j)
  <2> DEFINE T == {i \in 1..48 : Fills(n, i)}
  <2>1. SizeOf(48) = LastSize /\ n <= LastSize /\ 48 \in 1..48
    BY DEF SizeOf, LastSize
  <2>2. Fills(n, 48)
    BY <1>1, <2>1
  <2>3. 48 \in T
    BY <2>1, <2>2
  <2>4. T \in SUBSET Nat /\ T # {}
    BY <2>3
  <2>5. \A i \in 1..48 : i \in T <=> Fills(n, i)
    OBVIOUS
  <2>6. T \subseteq 1..48
    OBVIOUS
  <2> HIDE DEF T
  <2>7. PICK i \in T : \A j \in T : i <= j
    BY <2>4, LeastNat
  <2> QED
    BY <2>7, <2>5, <2>6
<1>3. /\ Turn(n) \in 1..48 /\ Fills(n, Turn(n))
      /\ \A j \in 1..Turn(n) - 1 : ~Fills(n, j)
  BY <1>1, <1>2 DEF Turn
<1>4. PICK i \in 1..48 : i = Turn(n)
  BY <1>3
<1>5. PoolFor(n) = PoolSizes[i]
  <2>1. FilledUpTo(PoolSizes[Len(PoolSizes)]) - 1 = LastSize
    BY PoolSizesAre DEF FilledUpTo, SizeOf, LastSize
  <2> QED
    BY <1>4, <2>1 DEF PoolFor, PoolTable, LastSize
<1>6. i > 1 => ~(n <= SizeOf(i - 1))
  BY <1>1, <1>3, <1>4
<1> QED
  BY <1>1, <1>3, <1>4, <1>5, <1>6, PoolSizesAre DEF SizeOf, LastSize

LEMMA PoolForBounds ==
  \A n \in 0..LastSize : PoolFor(n) \in Nat /\ PoolFor(n) >= 1 /\ PoolFor(n) <= LastSize
<1> SUFFICES ASSUME NEW n \in 0..LastSize
             PROVE  PoolFor(n) \in Nat /\ PoolFor(n) >= 1 /\ PoolFor(n) <= LastSize
  OBVIOUS
<1>1. PICK i \in 1..48 : PoolFor(n) = SizeOf(i)
  BY TableEntry
<1> QED
  BY <1>1 DEF SizeOf, LastSize

LEMMA TightFit ==
  \A n \in 0..LastSize : PoolFor(n) >= n /\ (n >= 1 => PoolFor(n) - n < Grain(n))
<1> SUFFICES ASSUME NEW n \in 0..LastSize
             PROVE  PoolFor(n) >= n /\ (n >= 1 => PoolFor(n) - n < Grain(n))
  OBVIOUS
<1>1. PICK i \in 1..48 : /\ PoolFor(n) = SizeOf(i) /\ n <= SizeOf(i)
                         /\ i > 1 => SizeOf(i - 1) < n
  BY TableEntry
<1> QED
  BY <1>1 DEF SizeOf, LastSize, Grain

LEMMA LastPool == PoolSizes[Len(PoolSizes)] = LastSize
BY PoolSizesAre DEF SizeOf, LastSize

LEMMA PastTheTable == \A n \in Nat : n > LastSize => PoolFor(n) = NoPool
<1>1. FilledUpTo(PoolSizes[Len(PoolSizes)]) - 1 = LastSize
  BY LastPool DEF FilledUpTo, LastSize
<1> QED
  BY <1>1 DEF PoolFor, PoolTable, LastSize
-----------------------------------------------------------------------------
(* The invariant *)

Holding == {"unreserve", "use", "attach", "push"}

\* A block of capacity c serves a request of a bytes.
Served(a, c) == /\ a \in AllocSizes
                /\ IF a <= MaxAllocSize THEN PoolFor(a) \in Pools /\ c = PoolFor(a)
                   ELSE c = a

\* What a thread and its block are, at each of its steps.
ThreadSteps == \A u \in Users :
    /\ block[u] # NoBlock <=> step[u] \in Holding
    /\ step[u] \in Holding => Served(wanted[u], capacity[block[u]])
    /\ step[u] \notin {"idle", "attach"} =>
          wanted[u] \in AllocSizes /\ wanted[u] <= MaxAllocSize /\ PoolFor(wanted[u]) \in Pools
    /\ step[u] = "push" => allocSize[block[u]] = 0

OwnedServe == \A b \in owned : Served(allocSize[b], capacity[b])

\* The i-th block of a list is of the pool, marked unused, and nowhere else.
InList(p, i) ==
    /\ capacity[freeList[p][i]] = p /\ allocSize[freeList[p][i]] = 0
    /\ freeList[p][i] \notin owned
    /\ \A u \in Users : block[u] # freeList[p][i]
    /\ \A j \in 1..Len(freeList[p]) : freeList[p][i] = freeList[p][j] => i = j

\* A block is with one thread, or owned, or in one place of one list.
BlockPlaces ==
    /\ \A u, v \in Users : block[u] # NoBlock /\ block[u] = block[v] => u = v
    /\ \A u \in Users : block[u] \notin owned
    /\ \A p \in Pools : \A i \in 1..Len(freeList[p]) : InList(p, i)

\* The threads at one of some steps for a pool.
At(p, steps) == {u \in Users : step[u] \in steps /\ PoolFor(wanted[u]) = p}
Out(p) == {b \in owned : capacity[b] = p}

Counters == \A p \in Pools :
    /\ reserveCount[p] = Len(freeList[p]) + Cardinality(At(p, {"unreserve"}))
                           - Cardinality(At(p, {"unuse", "reserve"}))
    /\ useCount[p] = Cardinality(Out(p)) + Cardinality(At(p, {"attach", "push", "unuse"}))

HomeInv == /\ PoolTypes /\ ThreadSteps /\ OwnedServe /\ BlockPlaces /\ Counters
           /\ ~poolAssert
-----------------------------------------------------------------------------
(* Sizes, lists and counts *)

LEMMA AllocFacts ==
  /\ LastSize \in Nat /\ MaxAllocSize \in Nat /\ LastSize < MaxAllocSize
  /\ \A a \in AllocSizes : a \in Nat /\ a >= 1
  /\ \A p \in Pools : p \in Nat /\ p >= 1 /\ p <= LastSize
  /\ \A a \in AllocSizes : /\ PoolFor(a) # NoPool => PoolFor(a) \in Pools
                           /\ PoolFor(a) \in Pools => a <= LastSize
                           /\ PoolFor(a) = NoPool => a > LastSize
<1>1. LastSize \in Nat /\ MaxAllocSize \in Nat /\ LastSize < MaxAllocSize
  BY DEF LastSize, MaxAllocSize
<1>2. \A a \in AllocSizes : a \in Nat /\ a >= 1
  BY PoolsAssumption DEF AllocSizes
<1>3. \A a \in AllocSizes : a <= LastSize =>
         PoolFor(a) \in Nat /\ PoolFor(a) >= 1 /\ PoolFor(a) <= LastSize
  <2>1. \A a \in AllocSizes : a <= LastSize => a \in 0..LastSize
    BY <1>1, <1>2
  <2> QED
    BY <2>1, PoolForBounds
<1>4. \A a \in AllocSizes : a > LastSize => PoolFor(a) = NoPool
  BY <1>1, <1>2, PastTheTable
<1>5. \A a \in AllocSizes : PoolFor(a) # NoPool => a <= LastSize
  BY <1>1, <1>2, <1>4
<1>6. \A p \in Pools : p # NoPool /\ \E a \in AllocSizes : p = PoolFor(a)
  BY DEF Pools
<1>7. \A p \in Pools : p \in Nat /\ p >= 1 /\ p <= LastSize
  BY <1>3, <1>5, <1>6
<1>8. \A a \in AllocSizes : PoolFor(a) # NoPool => PoolFor(a) \in Pools
  BY DEF Pools
<1>9. \A a \in AllocSizes : PoolFor(a) = NoPool => a > LastSize
  BY <1>1, <1>2, <1>3 DEF NoPool
<1> QED
  BY <1>1, <1>2, <1>5, <1>6, <1>7, <1>8, <1>9

LEMMA ServedFacts ==
  ASSUME NEW a, NEW c, Served(a, c)
  PROVE  /\ a \in AllocSizes /\ a \in Nat /\ a >= 1 /\ c \in Nat /\ c >= 1
         /\ a <= MaxAllocSize => c \in Pools /\ c = PoolFor(a) /\ a <= LastSize
         /\ a > MaxAllocSize => c \notin Pools /\ PoolFor(a) \notin Pools
BY AllocFacts DEF Served

LEMMA PopList ==
  ASSUME NEW S, NEW s \in Seq(S), s # <<>>
  PROVE  /\ Len(s) \in Nat /\ Len(s) >= 1 /\ Head(s) = s[1] /\ s[1] \in S
         /\ Tail(s) \in Seq(S) /\ Len(Tail(s)) = Len(s) - 1
         /\ \A i \in 1..Len(s) - 1 : Tail(s)[i] = s[i + 1]
BY HeadTailProperties, EmptySeq, LenProperties

LEMMA PushList ==
  ASSUME NEW S, NEW s \in Seq(S), NEW e \in S
  PROVE  /\ Len(s) \in Nat /\ <<e>> \o s \in Seq(S) /\ Len(<<e>> \o s) = Len(s) + 1
         /\ (<<e>> \o s)[1] = e
         /\ \A i \in 2..Len(s) + 1 : (<<e>> \o s)[i] = s[i - 1]
<1>1. <<e>> \in Seq(S) /\ Len(<<e>>) = 1 /\ <<e>>[1] = e /\ Len(s) \in Nat
  BY LenProperties
<1>2. /\ <<e>> \o s \in Seq(S) /\ Len(<<e>> \o s) = Len(<<e>>) + Len(s)
      /\ \A i \in 1..Len(<<e>>) + Len(s) :
            (<<e>> \o s)[i] = IF i <= Len(<<e>>) THEN <<e>>[i] ELSE s[i - Len(<<e>>)]
  BY <1>1, ConcatProperties
<1> QED
  BY <1>1, <1>2

\* A thread that steps is counted where it goes and no more where it was.
LEMMA AtMoves ==
  ASSUME NEW u \in Users, NEW p, NEW S,
         \A v \in Users : v # u => step'[v] = step[v] /\ wanted'[v] = wanted[v]
  PROVE  /\ Cardinality(At(p, S)) \in Nat /\ Cardinality(At(p, S)') \in Nat
         /\ Cardinality(At(p, S)') =
              Cardinality(At(p, S))
                + (IF step'[u] \in S /\ PoolFor(wanted'[u]) = p THEN 1 ELSE 0)
                - (IF step[u] \in S /\ PoolFor(wanted[u]) = p THEN 1 ELSE 0)
<1> DEFINE A == At(p, S)
           B == At(p, S)'
<1>1. A \subseteq Users /\ B \subseteq Users /\ IsFiniteSet(Users)
  BY PoolsAssumption DEF At
<1>2. IsFiniteSet(A) /\ IsFiniteSet(B)
  BY <1>1, FS_Subset
<1>3. A \ {u} = B \ {u}
  BY DEF At
<1>4. u \in A <=> step[u] \in S /\ PoolFor(wanted[u]) = p
  BY DEF At
<1>5. u \in B <=> step'[u] \in S /\ PoolFor(wanted'[u]) = p
  BY DEF At
<1> HIDE DEF A, B
<1>6. /\ Cardinality(A) \in Nat /\ Cardinality(B) \in Nat
      /\ Cardinality(A \ {u}) = IF u \in A THEN Cardinality(A) - 1 ELSE Cardinality(A)
      /\ Cardinality(B \ {u}) = IF u \in B THEN Cardinality(B) - 1 ELSE Cardinality(B)
  BY <1>2, FS_CardinalityType, FS_RemoveElement
<1>7. Cardinality(B) = Cardinality(A)
                + (IF step'[u] \in S /\ PoolFor(wanted'[u]) = p THEN 1 ELSE 0)
                - (IF step[u] \in S /\ PoolFor(wanted[u]) = p THEN 1 ELSE 0)
  <2>1. CASE u \in A
    <3>1. CASE u \in B
      BY <1>3, <1>4, <1>5, <1>6, <2>1, <3>1
    <3>2. CASE u \notin B
      <4>1. Cardinality(B) = Cardinality(A) - 1
        BY <1>3, <1>6, <2>1, <3>2
      <4> QED
        BY <1>4, <1>5, <1>6, <2>1, <3>2, <4>1
    <3> QED
      BY <3>1, <3>2
  <2>2. CASE u \notin A
    <3>1. CASE u \in B
      <4>1. Cardinality(B) = Cardinality(A) + 1
        BY <1>3, <1>6, <2>2, <3>1
      <4> QED
        BY <1>4, <1>5, <1>6, <2>2, <3>1, <4>1
    <3>2. CASE u \notin B
      BY <1>3, <1>4, <1>5, <1>6, <2>2, <3>2
    <3> QED
      BY <3>1, <3>2
  <2> QED
    BY <2>1, <2>2
<1> QED
  BY <1>6, <1>7 DEF A, B

-----------------------------------------------------------------------------
(* The steps *)

LEMMA CountHome ==
  ASSUME HomeInv, NEW u \in Users, Count(u)
  PROVE  HomeInv'
<1>0. /\ PoolTypes /\ ThreadSteps /\ OwnedServe /\ BlockPlaces /\ Counters
      /\ ~poolAssert
  BY DEF HomeInv
<1>1. /\ UNCHANGED <<freeList, allocSize, capacity, owned, block, wanted, strayPool, poolAssert>>
      /\ step[u] \in {"unreserve", "use", "unuse", "reserve"}
  BY DEF Count
<1>2. PICK p \in Pools : p = PoolFor(wanted[u])
  BY <1>0, <1>1 DEF ThreadSteps
<1>3. wanted[u] \in AllocSizes /\ wanted[u] <= MaxAllocSize
  BY <1>0, <1>1 DEF ThreadSteps
<1>4. \/ /\ step[u] = "unreserve" /\ step' = [step EXCEPT ![u] = "use"]
         /\ reserveCount' = [reserveCount EXCEPT ![p] = @ - 1] /\ useCount' = useCount
      \/ /\ step[u] = "use" /\ step' = [step EXCEPT ![u] = "attach"]
         /\ useCount' = [useCount EXCEPT ![p] = @ + 1] /\ reserveCount' = reserveCount
      \/ /\ step[u] = "unuse" /\ step' = [step EXCEPT ![u] = "reserve"]
         /\ useCount' = [useCount EXCEPT ![p] = @ - 1] /\ reserveCount' = reserveCount
      \/ /\ step[u] = "reserve" /\ step' = [step EXCEPT ![u] = "idle"]
         /\ reserveCount' = [reserveCount EXCEPT ![p] = @ + 1] /\ useCount' = useCount
  <2>1. \A q \in Pools : reserveCount[q] \in Int /\ useCount[q] \in Int
    BY <1>0 DEF PoolTypes
  <2>2. /\ [reserveCount EXCEPT ![p] = @ + -1] = [reserveCount EXCEPT ![p] = @ - 1]
        /\ [useCount EXCEPT ![p] = @ + -1] = [useCount EXCEPT ![p] = @ - 1]
    BY <1>0, <2>1 DEF PoolTypes
  <2> QED
    BY <1>2, <2>2 DEF Count, Reserved, Used, StepTo
<1>5. PoolTypes'
  <2>1. step' \in [Users -> PoolSteps]
    BY <1>0, <1>4 DEF PoolTypes, PoolSteps
  <2>2. \A q \in Pools : /\ reserveCount[q] \in Int /\ reserveCount[q] - 1 \in Int
                         /\ reserveCount[q] + 1 \in Int
                         /\ useCount[q] \in Int /\ useCount[q] - 1 \in Int
                         /\ useCount[q] + 1 \in Int
    BY <1>0 DEF PoolTypes
  <2>3. reserveCount' \in [Pools -> Int]
    BY <1>0, <1>4, <2>2 DEF PoolTypes
  <2>4. useCount' \in [Pools -> Int]
    BY <1>0, <1>4, <2>2 DEF PoolTypes
  <2> QED
    BY <1>0, <1>1, <2>1, <2>3, <2>4 DEF PoolTypes
<1>6. \A v \in Users : v # u => step'[v] = step[v] /\ wanted'[v] = wanted[v]
  BY <1>0, <1>1, <1>4 DEF PoolTypes
<1>7. /\ step[u] = "unreserve" => step'[u] = "use"
      /\ step[u] = "use" => step'[u] = "attach"
      /\ step[u] = "unuse" => step'[u] = "reserve"
      /\ step[u] = "reserve" => step'[u] = "idle"
  BY <1>0, <1>4 DEF PoolTypes
<1>8. ThreadSteps'
  <2> SUFFICES ASSUME NEW v \in Users
               PROVE  /\ block[v] # NoBlock <=> step'[v] \in Holding
                      /\ step'[v] \in Holding => Served(wanted[v], capacity[block[v]])
                      /\ step'[v] \notin {"idle", "attach"} =>
                            /\ wanted[v] \in AllocSizes /\ wanted[v] <= MaxAllocSize
                            /\ PoolFor(wanted[v]) \in Pools
                      /\ step'[v] = "push" => allocSize[block[v]] = 0
    BY <1>1 DEF ThreadSteps
  <2> QED
    BY <1>0, <1>1, <1>6, <1>7 DEF ThreadSteps, Holding
<1>9. OwnedServe' /\ BlockPlaces' /\ ~poolAssert'
  BY <1>0, <1>1 DEF OwnedServe, BlockPlaces, InList
<1>10. Counters'
  <2> SUFFICES ASSUME NEW q \in Pools
               PROVE  /\ reserveCount'[q] = Len(freeList[q]) + Cardinality(At(q, {"unreserve"})')
                                              - Cardinality(At(q, {"unuse", "reserve"})')
                      /\ useCount'[q] = Cardinality(Out(q))
                                          + Cardinality(At(q, {"attach", "push", "unuse"})')
    BY <1>1 DEF Counters, Out
  <2> DEFINE a == At(q, {"unreserve"})
             r == At(q, {"unuse", "reserve"})
             c == At(q, {"attach", "push", "unuse"})
  <2>0. /\ Cardinality(a) \in Nat /\ Cardinality(r) \in Nat /\ Cardinality(c) \in Nat
        /\ Cardinality(a') \in Nat /\ Cardinality(r') \in Nat /\ Cardinality(c') \in Nat
    BY <1>6, AtMoves
  <2>1. /\ p # q => /\ Cardinality(a') = Cardinality(a) /\ Cardinality(r') = Cardinality(r)
                    /\ Cardinality(c') = Cardinality(c)
        /\ p = q =>
             /\ step[u] = "unreserve" => /\ Cardinality(a') = Cardinality(a) - 1
                                         /\ Cardinality(r') = Cardinality(r)
                                         /\ Cardinality(c') = Cardinality(c)
             /\ step[u] = "use" => /\ Cardinality(a') = Cardinality(a)
                                   /\ Cardinality(r') = Cardinality(r)
                                   /\ Cardinality(c') = Cardinality(c) + 1
             /\ step[u] = "unuse" => /\ Cardinality(a') = Cardinality(a)
                                     /\ Cardinality(r') = Cardinality(r)
                                     /\ Cardinality(c') = Cardinality(c) - 1
             /\ step[u] = "reserve" => /\ Cardinality(a') = Cardinality(a)
                                       /\ Cardinality(r') = Cardinality(r) - 1
                                       /\ Cardinality(c') = Cardinality(c)
    <3>1. PoolFor(wanted[u]) = p /\ PoolFor(wanted'[u]) = p
      BY <1>1, <1>2
    <3>2. Cardinality(a') = Cardinality(a)
                              + (IF step'[u] \in {"unreserve"} /\ PoolFor(wanted'[u]) = q THEN 1 ELSE 0)
                              - (IF step[u] \in {"unreserve"} /\ PoolFor(wanted[u]) = q THEN 1 ELSE 0)
      BY <1>6, AtMoves
    <3>3. Cardinality(r') =
             Cardinality(r)
               + (IF step'[u] \in {"unuse", "reserve"} /\ PoolFor(wanted'[u]) = q THEN 1 ELSE 0)
               - (IF step[u] \in {"unuse", "reserve"} /\ PoolFor(wanted[u]) = q THEN 1 ELSE 0)
      BY <1>6, AtMoves
    <3>4. Cardinality(c') =
             Cardinality(c)
               + (IF step'[u] \in {"attach", "push", "unuse"} /\ PoolFor(wanted'[u]) = q THEN 1 ELSE 0)
               - (IF step[u] \in {"attach", "push", "unuse"} /\ PoolFor(wanted[u]) = q THEN 1 ELSE 0)
      BY <1>6, AtMoves
    <3> HIDE DEF a, r, c
    <3>5. CASE p # q
      BY <2>0, <3>1, <3>2, <3>3, <3>4, <3>5
    <3>6. CASE p = q
      BY <1>7, <2>0, <3>1, <3>2, <3>3, <3>4, <3>6
    <3> QED
      BY <3>5, <3>6
  <2>2. /\ reserveCount[q] = Len(freeList[q]) + Cardinality(a) - Cardinality(r)
        /\ useCount[q] = Cardinality(Out(q)) + Cardinality(c)
        /\ reserveCount[q] \in Int /\ useCount[q] \in Int /\ Len(freeList[q]) \in Nat
    BY <1>0, LenProperties DEF Counters, PoolTypes
  <2>3. Cardinality(Out(q)) \in Nat
    BY <1>0, PoolsAssumption, FS_Subset, FS_CardinalityType DEF Out, PoolTypes
  <2> SUFFICES /\ reserveCount'[q] = Len(freeList[q]) + Cardinality(a') - Cardinality(r')
               /\ useCount'[q] = Cardinality(Out(q)) + Cardinality(c')
    OBVIOUS
  <2> HIDE DEF a, r, c
  <2>4. CASE p # q
    <3>1. reserveCount'[q] = reserveCount[q] /\ useCount'[q] = useCount[q]
      BY <1>0, <1>4, <2>4 DEF PoolTypes
    <3> QED
      BY <2>1, <2>2, <2>4, <3>1
  <2>5. CASE p = q
    <3>1. CASE step[u] = "unreserve"
      <4>1. reserveCount'[q] = reserveCount[q] - 1 /\ useCount'[q] = useCount[q]
        BY <1>0, <1>4, <2>5, <3>1 DEF PoolTypes
      <4>2. /\ Cardinality(a') = Cardinality(a) - 1 /\ Cardinality(r') = Cardinality(r)
            /\ Cardinality(c') = Cardinality(c)
        BY <2>1, <2>5, <3>1
      <4> QED
        BY <2>0, <2>2, <2>3, <4>1, <4>2
    <3>2. CASE step[u] = "use"
      <4>1. reserveCount'[q] = reserveCount[q] /\ useCount'[q] = useCount[q] + 1
        BY <1>0, <1>4, <2>5, <3>2 DEF PoolTypes
      <4> QED
        BY <2>0, <2>1, <2>2, <2>3, <2>5, <3>2, <4>1
    <3>3. CASE step[u] = "unuse"
      <4>1. reserveCount'[q] = reserveCount[q] /\ useCount'[q] = useCount[q] - 1
        BY <1>0, <1>4, <2>5, <3>3 DEF PoolTypes
      <4> QED
        BY <2>0, <2>1, <2>2, <2>3, <2>5, <3>3, <4>1
    <3>4. CASE step[u] = "reserve"
      <4>1. reserveCount'[q] = reserveCount[q] + 1 /\ useCount'[q] = useCount[q]
        BY <1>0, <1>4, <2>5, <3>4 DEF PoolTypes
      <4> QED
        BY <2>0, <2>1, <2>2, <2>3, <2>5, <3>4, <4>1
    <3> QED
      BY <1>1, <3>1, <3>2, <3>3, <3>4
  <2> QED
    BY <2>4, <2>5
<1> QED
  BY <1>5, <1>8, <1>9, <1>10 DEF HomeInv

LEMMA FreshBlock ==
  ASSUME HomeInv, NEW b \in Blocks, capacity[b] = 0
  PROVE  /\ b \notin owned
         /\ \A v \in Users : block[v] # b
         /\ \A p \in Pools : \A i \in 1..Len(freeList[p]) : freeList[p][i] # b
<1>0. PoolTypes /\ ThreadSteps /\ OwnedServe /\ BlockPlaces
  BY DEF HomeInv
<1>1. b \notin owned
  BY <1>0, ServedFacts DEF OwnedServe
<1>2. \A v \in Users : block[v] # b
  <2> SUFFICES ASSUME NEW v \in Users, block[v] = b PROVE FALSE
    OBVIOUS
  <2>1. block[v] # NoBlock
    BY PoolsAssumption
  <2>2. Served(wanted[v], capacity[b])
    BY <1>0, <2>1 DEF ThreadSteps
  <2> QED
    BY <2>2, ServedFacts
<1>3. \A p \in Pools : \A i \in 1..Len(freeList[p]) : freeList[p][i] # b
  BY <1>0, AllocFacts DEF BlockPlaces, InList
<1> QED
  BY <1>1, <1>2, <1>3

\* A thread that is in no counted step, before and after.
LEMMA SameCounts ==
  ASSUME Counters, NEW u \in Users,
         \A v \in Users : v # u => step'[v] = step[v] /\ wanted'[v] = wanted[v],
         step[u] = "idle",
         step'[u] \in {"idle", "use"} \/ PoolFor(wanted'[u]) \notin Pools,
         UNCHANGED <<freeList, useCount, reserveCount>>,
         \A p \in Pools : Out(p)' = Out(p)
  PROVE  Counters'
<1> SUFFICES ASSUME NEW q \in Pools
             PROVE  /\ reserveCount[q] = Len(freeList[q]) + Cardinality(At(q, {"unreserve"})')
                                           - Cardinality(At(q, {"unuse", "reserve"})')
                    /\ useCount[q] = Cardinality(Out(q))
                                       + Cardinality(At(q, {"attach", "push", "unuse"})')
  BY DEF Counters
<1>1. /\ At(q, {"unreserve"})' = At(q, {"unreserve"})
      /\ At(q, {"unuse", "reserve"})' = At(q, {"unuse", "reserve"})
      /\ At(q, {"attach", "push", "unuse"})' = At(q, {"attach", "push", "unuse"})
  BY DEF At
<1> QED
  BY <1>1 DEF Counters

LEMMA MallocHome ==
  ASSUME HomeInv, NEW u \in Users, NEW a \in AllocSizes, NEW n, Served(a, n),
         NEW s, s = IF a <= MaxAllocSize THEN "use" ELSE "attach",
         step[u] = "idle", wanted' = [wanted EXCEPT ![u] = a],
         Malloc(u, n), StepTo(u, s),
         UNCHANGED <<freeList, strayPool, poolAssert, useCount, reserveCount, allocSize, owned>>,
         ~strayPool
  PROVE  HomeInv'
<1>0. /\ PoolTypes /\ ThreadSteps /\ OwnedServe /\ BlockPlaces /\ Counters
      /\ ~poolAssert
  BY DEF HomeInv
<1>1. PICK b \in Blocks : /\ capacity[b] = 0 /\ capacity' = [capacity EXCEPT ![b] = n]
                          /\ block' = [block EXCEPT ![u] = b]
  BY DEF Malloc
<1>2. /\ b \notin owned /\ \A v \in Users : block[v] # b
      /\ \A p \in Pools : \A i \in 1..Len(freeList[p]) : freeList[p][i] # b
  BY <1>0, <1>1, FreshBlock
<1>3. /\ a \in Nat /\ n \in Nat
      /\ a <= MaxAllocSize => n \in Pools /\ n = PoolFor(a) /\ a <= LastSize
      /\ a > MaxAllocSize => PoolFor(a) \notin Pools
  BY ServedFacts
<1>4. /\ \A v \in Users : step'[v] = IF v = u THEN s ELSE step[v]
      /\ \A v \in Users : wanted'[v] = IF v = u THEN a ELSE wanted[v]
      /\ \A v \in Users : block'[v] = IF v = u THEN b ELSE block[v]
      /\ \A d \in Blocks : capacity'[d] = IF d = b THEN n ELSE capacity[d]
  BY <1>0, <1>1 DEF PoolTypes, StepTo
<1>5. s \in {"use", "attach"} /\ (s = "use" <=> a <= MaxAllocSize)
  OBVIOUS
<1>6. PoolTypes'
  <2>1. step' \in [Users -> PoolSteps]
    BY <1>0, <1>5 DEF PoolTypes, PoolSteps, StepTo
  <2>2. wanted' \in [Users -> Nat]
    BY <1>0, <1>3 DEF PoolTypes
  <2>3. capacity' \in [Blocks -> Nat] /\ block' \in [Users -> Blocks \cup {NoBlock}]
    BY <1>0, <1>1, <1>3 DEF PoolTypes
  <2> QED
    BY <1>0, <2>1, <2>2, <2>3 DEF PoolTypes
<1>7. ThreadSteps'
  <2> SUFFICES ASSUME NEW v \in Users
               PROVE  /\ block'[v] # NoBlock <=> step'[v] \in Holding
                      /\ step'[v] \in Holding => Served(wanted'[v], capacity'[block'[v]])
                      /\ step'[v] \notin {"idle", "attach"} =>
                            /\ wanted'[v] \in AllocSizes /\ wanted'[v] <= MaxAllocSize
                            /\ PoolFor(wanted'[v]) \in Pools
                      /\ step'[v] = "push" => allocSize[block'[v]] = 0
    BY DEF ThreadSteps
  <2>1. CASE v = u
    BY <1>3, <1>4, <1>5, <2>1, PoolsAssumption DEF Holding
  <2>2. CASE v # u
    <3>1. step'[v] = step[v] /\ wanted'[v] = wanted[v] /\ block'[v] = block[v]
      BY <1>4, <2>2
    <3>2. step[v] \in Holding => capacity'[block[v]] = capacity[block[v]]
      BY <1>0, <1>2, <1>4 DEF ThreadSteps, PoolTypes
    <3> QED
      BY <1>0, <3>1, <3>2 DEF ThreadSteps
  <2> QED
    BY <2>1, <2>2
<1>8. OwnedServe'
  <2>1. \A d \in owned : capacity'[d] = capacity[d]
    BY <1>0, <1>2, <1>4 DEF PoolTypes
  <2> QED
    BY <1>0, <2>1 DEF OwnedServe
<1>9. BlockPlaces'
  <2>1. \A p \in Pools : \A i \in 1..Len(freeList[p]) : freeList[p][i] \in Blocks
    BY <1>0, ElementOfSeq DEF PoolTypes
  <2>2. \A p \in Pools : \A i \in 1..Len(freeList[p]) :
           capacity'[freeList[p][i]] = capacity[freeList[p][i]]
    BY <1>2, <1>4, <2>1
  <2>3. \A v \in Users : block'[v] \notin owned
    BY <1>0, <1>2, <1>4 DEF BlockPlaces, InList
  <2>4. \A v, w \in Users : block'[v] # NoBlock /\ block'[v] = block'[w] => v = w
    BY <1>0, <1>2, <1>4 DEF BlockPlaces, InList
  <2>5. \A p \in Pools : \A i \in 1..Len(freeList[p]) : \A v \in Users : block'[v] # freeList[p][i]
    BY <1>0, <1>2, <1>4 DEF BlockPlaces, InList
  <2> QED
    BY <1>0, <2>2, <2>3, <2>4, <2>5 DEF BlockPlaces, InList
<1>10. Counters'
  <2>1. \A p \in Pools : Out(p)' = Out(p)
    BY <1>0, <1>2, <1>4 DEF Out, PoolTypes
  <2>2. step'[u] \in {"idle", "use"} \/ PoolFor(wanted'[u]) \notin Pools
    <3>1. step'[u] = s /\ wanted'[u] = a
      BY <1>4
    <3>2. a <= MaxAllocSize \/ a > MaxAllocSize
      BY <1>3, AllocFacts
    <3> QED
      BY <1>3, <1>5, <3>1, <3>2
  <2>3. \A v \in Users : v # u => step'[v] = step[v] /\ wanted'[v] = wanted[v]
    BY <1>4
  <2> QED
    BY <1>0, <2>1, <2>2, <2>3, SameCounts
<1> QED
  BY <1>0, <1>6, <1>7, <1>8, <1>9, <1>10 DEF HomeInv

\* A thread pops the first block of a list.
LEMMA PopHome ==
  ASSUME HomeInv, NEW u \in Users, NEW a \in AllocSizes, a <= MaxAllocSize,
         NEW p \in Pools, p = PoolFor(a), freeList[p] # <<>>,
         step[u] = "idle", wanted' = [wanted EXCEPT ![u] = a],
         block' = [block EXCEPT ![u] = Head(freeList[p])],
         freeList' = [freeList EXCEPT ![p] = Tail(@)],
         poolAssert' = (allocSize[Head(freeList[p])] # 0),
         StepTo(u, "unreserve"), ~strayPool,
         UNCHANGED <<capacity, strayPool, useCount, reserveCount, allocSize, owned>>
  PROVE  HomeInv'
<1>0. /\ PoolTypes /\ ThreadSteps /\ OwnedServe /\ BlockPlaces /\ Counters
      /\ ~poolAssert
  BY DEF HomeInv
<1>1. /\ freeList[p] \in Seq(Blocks) /\ Len(freeList[p]) \in Nat /\ Len(freeList[p]) >= 1
      /\ Head(freeList[p]) = freeList[p][1] /\ freeList[p][1] \in Blocks
      /\ Tail(freeList[p]) \in Seq(Blocks) /\ Len(Tail(freeList[p])) = Len(freeList[p]) - 1
      /\ \A i \in 1..Len(freeList[p]) - 1 : Tail(freeList[p])[i] = freeList[p][i + 1]
  <2>1. freeList[p] \in Seq(Blocks)
    BY <1>0 DEF PoolTypes
  <2> QED
    BY <2>1, PopList
<1>2. PICK b \in Blocks : b = freeList[p][1]
  BY <1>1
<1>3. /\ capacity[b] = p /\ allocSize[b] = 0 /\ b \notin owned
      /\ \A v \in Users : block[v] # b
      /\ \A i \in 2..Len(freeList[p]) : freeList[p][i] # b
  <2>1. 1 \in 1..Len(freeList[p])
    BY <1>1
  <2> QED
    BY <1>0, <1>1, <1>2, <2>1 DEF BlockPlaces, InList
<1>4. /\ \A v \in Users : step'[v] = IF v = u THEN "unreserve" ELSE step[v]
      /\ \A v \in Users : wanted'[v] = IF v = u THEN a ELSE wanted[v]
      /\ \A v \in Users : block'[v] = IF v = u THEN b ELSE block[v]
      /\ \A q \in Pools : freeList'[q] = IF q = p THEN Tail(freeList[p]) ELSE freeList[q]
  BY <1>0, <1>1, <1>2 DEF PoolTypes, StepTo
<1>5. a \in Nat /\ a <= LastSize /\ Served(a, capacity[b])
  BY <1>3, AllocFacts DEF Served
<1>6. PoolTypes'
  <2>1. step' \in [Users -> PoolSteps]
    BY <1>0 DEF PoolTypes, PoolSteps, StepTo
  <2>2. wanted' \in [Users -> Nat]
    BY <1>0, <1>5 DEF PoolTypes
  <2>3. block' \in [Users -> Blocks \cup {NoBlock}] /\ freeList' \in [Pools -> Seq(Blocks)]
    BY <1>0, <1>1, <1>2 DEF PoolTypes
  <2> QED
    BY <1>0, <2>1, <2>2, <2>3 DEF PoolTypes
<1>7. ThreadSteps'
  <2> SUFFICES ASSUME NEW v \in Users
               PROVE  /\ block'[v] # NoBlock <=> step'[v] \in Holding
                      /\ step'[v] \in Holding => Served(wanted'[v], capacity[block'[v]])
                      /\ step'[v] \notin {"idle", "attach"} =>
                            /\ wanted'[v] \in AllocSizes /\ wanted'[v] <= MaxAllocSize
                            /\ PoolFor(wanted'[v]) \in Pools
                      /\ step'[v] = "push" => allocSize[block'[v]] = 0
    BY DEF ThreadSteps
  <2>1. CASE v = u
    BY <1>4, <1>5, <2>1, PoolsAssumption DEF Holding
  <2>2. CASE v # u
    BY <1>0, <1>4, <2>2 DEF ThreadSteps
  <2> QED
    BY <2>1, <2>2
<1>8. OwnedServe'
  BY <1>0 DEF OwnedServe
<1>9. BlockPlaces'
  <2>1. \A v \in Users : block'[v] \notin owned
    BY <1>0, <1>3, <1>4 DEF BlockPlaces, InList
  <2>2. \A v, w \in Users : block'[v] # NoBlock /\ block'[v] = block'[w] => v = w
    BY <1>0, <1>3, <1>4 DEF BlockPlaces, InList
  <2>3. ASSUME NEW q \in Pools, NEW i \in 1..Len(freeList'[q])
        PROVE  InList(q, i)'
    <3> SUFFICES /\ capacity[freeList'[q][i]] = q /\ allocSize[freeList'[q][i]] = 0
                 /\ freeList'[q][i] \notin owned
                 /\ \A v \in Users : block'[v] # freeList'[q][i]
                 /\ \A j \in 1..Len(freeList'[q]) : freeList'[q][i] = freeList'[q][j] => i = j
      BY DEF InList
    <3>1. CASE q # p
      <4>1. freeList'[q] = freeList[q] /\ i \in 1..Len(freeList[q])
        BY <1>4, <2>3, <3>1
      <4>2. /\ capacity[freeList[q][i]] = q /\ allocSize[freeList[q][i]] = 0
            /\ freeList[q][i] \notin owned
            /\ \A v \in Users : block[v] # freeList[q][i]
            /\ \A j \in 1..Len(freeList[q]) : freeList[q][i] = freeList[q][j] => i = j
        BY <1>0, <4>1 DEF BlockPlaces, InList
      <4>3. freeList[q][i] # b
        BY <1>3, <3>1, <4>2
      <4> QED
        BY <1>4, <4>1, <4>2, <4>3
    <3>2. CASE q = p
      <4>1. /\ freeList'[q] = Tail(freeList[p]) /\ i \in 1..Len(freeList[p]) - 1
            /\ Len(freeList'[q]) = Len(freeList[p]) - 1
        BY <1>1, <1>4, <2>3, <3>2
      <4>2. i + 1 \in 1..Len(freeList[p]) /\ i + 1 \in 2..Len(freeList[p])
        BY <1>1, <4>1
      <4>3. /\ capacity[freeList[p][i + 1]] = p /\ allocSize[freeList[p][i + 1]] = 0
            /\ freeList[p][i + 1] \notin owned
            /\ \A v \in Users : block[v] # freeList[p][i + 1]
            /\ \A j \in 1..Len(freeList[p]) :
                  freeList[p][i + 1] = freeList[p][j] => i + 1 = j
        BY <1>0, <4>2 DEF BlockPlaces, InList
      <4>4. freeList[p][i + 1] # b
        BY <1>3, <4>2
      <4>5. freeList'[q][i] = freeList[p][i + 1]
        BY <1>1, <4>1
      <4>6. \A v \in Users : block'[v] # freeList'[q][i]
        BY <1>4, <4>3, <4>4, <4>5
      <4>7. ASSUME NEW j \in 1..Len(freeList'[q]), freeList'[q][i] = freeList'[q][j]
            PROVE  i = j
        <5>1. j + 1 \in 1..Len(freeList[p]) /\ freeList'[q][j] = freeList[p][j + 1]
          <6>1. j \in 1..Len(freeList[p]) - 1
            BY <4>1
          <6>2. Tail(freeList[p])[j] = freeList[p][j + 1]
            BY <1>1, <6>1
          <6>3. j + 1 \in 1..Len(freeList[p])
            BY <1>1, <6>1
          <6> QED
            BY <4>1, <6>2, <6>3
        <5>2. i + 1 = j + 1
          BY <4>3, <4>5, <4>7, <5>1
        <5> QED
          BY <4>1, <5>2, <1>1
      <4> QED
        BY <3>2, <4>3, <4>5, <4>6, <4>7
    <3> QED
      BY <3>1, <3>2
  <2> QED
    BY <2>1, <2>2, <2>3 DEF BlockPlaces
<1>10. Counters'
  <2> SUFFICES ASSUME NEW q \in Pools
               PROVE  /\ reserveCount[q] = Len(freeList'[q]) + Cardinality(At(q, {"unreserve"})')
                                             - Cardinality(At(q, {"unuse", "reserve"})')
                      /\ useCount[q] = Cardinality(Out(q)')
                                         + Cardinality(At(q, {"attach", "push", "unuse"})')
    BY DEF Counters
  <2>1. /\ At(q, {"unuse", "reserve"})' = At(q, {"unuse", "reserve"})
        /\ At(q, {"attach", "push", "unuse"})' = At(q, {"attach", "push", "unuse"})
        /\ Out(q)' = Out(q)
    BY <1>4 DEF At, Out
  <2>2. \A v \in Users : v # u => step'[v] = step[v] /\ wanted'[v] = wanted[v]
    BY <1>4
  <2>3. /\ Cardinality(At(q, {"unreserve"})) \in Nat
        /\ Cardinality(At(q, {"unreserve"})') =
              Cardinality(At(q, {"unreserve"}))
                + (IF step'[u] \in {"unreserve"} /\ PoolFor(wanted'[u]) = q THEN 1 ELSE 0)
                - (IF step[u] \in {"unreserve"} /\ PoolFor(wanted[u]) = q THEN 1 ELSE 0)
    BY <2>2, AtMoves
  <2>4. step'[u] = "unreserve" /\ PoolFor(wanted'[u]) = p
    BY <1>4
  <2>5. Cardinality(At(q, {"unreserve"})') =
          Cardinality(At(q, {"unreserve"})) + (IF p = q THEN 1 ELSE 0)
    BY <2>3, <2>4
  <2>6. Cardinality(At(q, {"unuse", "reserve"})) \in Nat
    BY <2>2, AtMoves
  <2>7. Len(freeList'[q]) = Len(freeList[q]) - (IF p = q THEN 1 ELSE 0) /\ Len(freeList[q]) \in Nat
    <3>1. Len(freeList[q]) \in Nat
      BY <1>0, LenProperties DEF PoolTypes
    <3>2. CASE p = q
      BY <1>1, <1>4, <3>1, <3>2
    <3>3. CASE p # q
      BY <1>4, <3>1, <3>3
    <3> QED
      BY <3>2, <3>3
  <2>8. /\ reserveCount[q] = Len(freeList[q]) + Cardinality(At(q, {"unreserve"}))
                                             - Cardinality(At(q, {"unuse", "reserve"}))
        /\ useCount[q] = Cardinality(Out(q)) + Cardinality(At(q, {"attach", "push", "unuse"}))
    BY <1>0 DEF Counters
  <2>9. reserveCount[q] = Len(freeList'[q]) + Cardinality(At(q, {"unreserve"})')
                            - Cardinality(At(q, {"unuse", "reserve"}))
    <3>1. CASE p = q
      BY <2>3, <2>5, <2>6, <2>7, <2>8, <3>1
    <3>2. CASE p # q
      BY <2>3, <2>5, <2>6, <2>7, <2>8, <3>2
    <3> QED
      BY <3>1, <3>2
  <2> QED
    BY <2>1, <2>8, <2>9
<1>11. ~poolAssert'
  BY <1>1, <1>2, <1>3
<1> QED
  BY <1>6, <1>7, <1>8, <1>9, <1>10, <1>11 DEF HomeInv

LEMMA AllocateHome ==
  ASSUME HomeInv, ~strayPool, NEW u \in Users, NEW a \in AllocSizes, Allocate(u, a)
  PROVE  HomeInv'
<1>0. /\ PoolTypes /\ ThreadSteps /\ OwnedServe /\ BlockPlaces /\ Counters
      /\ ~poolAssert
  BY DEF HomeInv
<1>1. /\ step[u] = "idle" /\ wanted' = [wanted EXCEPT ![u] = a]
      /\ UNCHANGED <<useCount, reserveCount, allocSize, owned>>
  BY DEF Allocate
<1>2. a \in Nat /\ (PoolFor(a) # NoPool => PoolFor(a) \in Pools)
  BY AllocFacts
<1>3. CASE /\ a > MaxAllocSize
           /\ Malloc(u, a) /\ StepTo(u, "attach")
           /\ UNCHANGED <<freeList, strayPool, poolAssert>>
  <2>1. ~(a <= MaxAllocSize) /\ Served(a, a)
    BY <1>2, <1>3, AllocFacts DEF Served
  <2> QED
    BY <1>1, <1>3, <2>1, MallocHome
<1>4. CASE /\ a <= MaxAllocSize /\ PoolFor(a) = NoPool
           /\ strayPool' = TRUE
           /\ UNCHANGED <<freeList, capacity, block, step, poolAssert>>
  <2>1. \A v \in Users : wanted'[v] = IF v = u THEN a ELSE wanted[v]
    BY <1>0, <1>1 DEF PoolTypes
  <2>2. PoolTypes'
    <3>1. wanted' \in [Users -> Nat]
      BY <1>0, <1>1, <1>2 DEF PoolTypes
    <3> QED
      BY <1>0, <1>1, <1>4, <3>1 DEF PoolTypes
  <2>3. ThreadSteps'
    <3>1. step[u] \notin Holding
      BY <1>1 DEF Holding
    <3> QED
      BY <1>0, <1>1, <1>4, <2>1, <3>1 DEF ThreadSteps
  <2>4. OwnedServe' /\ BlockPlaces'
    BY <1>0, <1>1, <1>4 DEF OwnedServe, BlockPlaces, InList
  <2>5. Counters'
    <3>1. \A p \in Pools : Out(p)' = Out(p)
      BY <1>1, <1>4 DEF Out
    <3> QED
      BY <1>0, <1>1, <1>4, <2>1, <3>1, SameCounts
  <2> QED
    BY <1>0, <1>4, <2>2, <2>3, <2>4, <2>5 DEF HomeInv
<1>5. CASE /\ a <= MaxAllocSize /\ PoolFor(a) # NoPool /\ freeList[PoolFor(a)] = <<>>
           /\ Malloc(u, PoolFor(a)) /\ StepTo(u, "use")
           /\ UNCHANGED <<freeList, strayPool, poolAssert>>
  <2>1. Served(a, PoolFor(a))
    BY <1>2, <1>5 DEF Served
  <2> QED
    BY <1>1, <1>5, <2>1, MallocHome
<1>6. CASE /\ a <= MaxAllocSize /\ PoolFor(a) # NoPool /\ freeList[PoolFor(a)] # <<>>
           /\ block' = [block EXCEPT ![u] = Head(freeList[PoolFor(a)])]
           /\ freeList' = [freeList EXCEPT ![PoolFor(a)] = Tail(@)]
           /\ poolAssert' = (allocSize[Head(freeList[PoolFor(a)])] # 0)
           /\ StepTo(u, "unreserve")
           /\ UNCHANGED <<capacity, strayPool>>
  BY <1>1, <1>2, <1>6, PopHome
<1> QED
  BY <1>3, <1>4, <1>5, <1>6 DEF Allocate

\* What is out of a pool, as blocks become owned and are released.
LEMMA OutGains ==
  ASSUME PoolTypes, NEW b \in Blocks, b \notin owned, owned' = owned \cup {b},
         UNCHANGED capacity, NEW p
  PROVE  /\ Cardinality(Out(p)) \in Nat
         /\ Cardinality(Out(p)') = Cardinality(Out(p)) + (IF capacity[b] = p THEN 1 ELSE 0)
<1>1. IsFiniteSet(Out(p))
  BY PoolsAssumption, FS_Subset DEF Out, PoolTypes
<1>2. b \notin Out(p)
  BY DEF Out
<1>3. /\ Cardinality(Out(p)) \in Nat
      /\ Cardinality(Out(p) \cup {b}) = Cardinality(Out(p)) + 1
  BY <1>1, <1>2, FS_CardinalityType, FS_AddElement
<1>4. CASE capacity[b] = p
  <2>1. Out(p)' = Out(p) \cup {b}
    BY <1>4 DEF Out
  <2> QED
    BY <1>3, <1>4, <2>1
<1>5. CASE capacity[b] # p
  <2>1. Out(p)' = Out(p)
    BY <1>5 DEF Out
  <2> QED
    BY <1>3, <1>5, <2>1
<1> QED
  BY <1>4, <1>5

LEMMA OutLoses ==
  ASSUME PoolTypes, NEW b \in owned, owned' = owned \ {b},
         \A d \in Blocks : d # b => capacity'[d] = capacity[d], NEW p
  PROVE  /\ Cardinality(Out(p)) \in Nat
         /\ Cardinality(Out(p)') = Cardinality(Out(p)) - (IF capacity[b] = p THEN 1 ELSE 0)
<1>1. IsFiniteSet(Out(p))
  BY PoolsAssumption, FS_Subset DEF Out, PoolTypes
<1>2. Out(p)' = Out(p) \ {b}
  BY DEF Out, PoolTypes
<1>3. b \in Out(p) <=> capacity[b] = p
  BY DEF Out
<1>4. /\ Cardinality(Out(p)) \in Nat
      /\ Cardinality(Out(p) \ {b}) = IF b \in Out(p) THEN Cardinality(Out(p)) - 1
                                     ELSE Cardinality(Out(p))
  BY <1>1, FS_CardinalityType, FS_RemoveElement
<1>5. CASE capacity[b] = p
  BY <1>2, <1>3, <1>4, <1>5
<1>6. CASE capacity[b] # p
  BY <1>2, <1>3, <1>4, <1>6
<1> QED
  BY <1>5, <1>6

LEMMA AttachHome ==
  ASSUME HomeInv, NEW u \in Users, AttachHeader(u)
  PROVE  HomeInv'
<1>0. /\ PoolTypes /\ ThreadSteps /\ OwnedServe /\ BlockPlaces /\ Counters
      /\ ~poolAssert
  BY DEF HomeInv
<1>1. step[u] = "attach" /\ block[u] # NoBlock /\ block[u] \in Blocks
  BY <1>0 DEF AttachHeader, ThreadSteps, Holding, PoolTypes
<1>2. PICK b \in Blocks : b = block[u]
  BY <1>1
<1>3. PICK a : a = wanted[u]
  OBVIOUS
<1>4. /\ b \notin owned /\ Served(a, capacity[b]) /\ b # NoBlock
      /\ \A v \in Users : v # u => block[v] # b
      /\ \A p \in Pools : \A i \in 1..Len(freeList[p]) : freeList[p][i] # b
  BY <1>0, <1>1, <1>2, <1>3 DEF BlockPlaces, InList, ThreadSteps, Holding
<1>5. /\ UNCHANGED <<freeList, useCount, reserveCount, capacity, wanted, strayPool, poolAssert>>
      /\ owned' = owned \cup {b}
      /\ \A v \in Users : step'[v] = IF v = u THEN "idle" ELSE step[v]
      /\ \A v \in Users : block'[v] = IF v = u THEN NoBlock ELSE block[v]
      /\ \A d \in Blocks : allocSize'[d] = IF d = b THEN a ELSE allocSize[d]
  BY <1>0, <1>2, <1>3 DEF PoolTypes, AttachHeader, StepTo
<1>6. PoolTypes'
  <2>1. step' \in [Users -> PoolSteps]
    BY <1>0 DEF PoolTypes, PoolSteps, StepTo, AttachHeader
  <2>2. block' \in [Users -> Blocks \cup {NoBlock}]
    BY <1>0 DEF PoolTypes, AttachHeader
  <2>3. wanted[u] \in Nat
    BY <1>0 DEF PoolTypes
  <2>4. allocSize' \in [Blocks -> Nat]
    BY <1>0, <2>3 DEF PoolTypes, AttachHeader
  <2> QED
    BY <1>0, <1>5, <2>1, <2>2, <2>4 DEF PoolTypes
<1>7. ThreadSteps'
  <2> SUFFICES ASSUME NEW v \in Users
               PROVE  /\ block'[v] # NoBlock <=> step'[v] \in Holding
                      /\ step'[v] \in Holding => Served(wanted[v], capacity[block'[v]])
                      /\ step'[v] \notin {"idle", "attach"} =>
                            /\ wanted[v] \in AllocSizes /\ wanted[v] <= MaxAllocSize
                            /\ PoolFor(wanted[v]) \in Pools
                      /\ step'[v] = "push" => allocSize'[block'[v]] = 0
    BY <1>5 DEF ThreadSteps
  <2>1. CASE v = u
    BY <1>5, <2>1 DEF Holding
  <2>2. CASE v # u
    <3>1. step'[v] = step[v] /\ block'[v] = block[v] /\ block[v] # b
      BY <1>4, <1>5, <2>2
    <3>2. step[v] = "push" => block[v] \in Blocks
      BY <1>0 DEF ThreadSteps, PoolTypes, Holding
    <3>3. step[v] = "push" => allocSize'[block[v]] = allocSize[block[v]]
      BY <1>5, <3>1, <3>2
    <3> QED
      BY <1>0, <3>1, <3>3 DEF ThreadSteps
  <2> QED
    BY <2>1, <2>2
<1>8. OwnedServe'
  <2> SUFFICES ASSUME NEW d \in owned \cup {b} PROVE Served(allocSize'[d], capacity[d])
    BY <1>5 DEF OwnedServe
  <2> QED
    BY <1>0, <1>4, <1>5 DEF OwnedServe, PoolTypes
<1>9. BlockPlaces'
  <2>1. \A v \in Users : block'[v] \notin owned'
    BY <1>0, <1>4, <1>5, PoolsAssumption DEF BlockPlaces, PoolTypes
  <2>2. \A v, w \in Users : block'[v] # NoBlock /\ block'[v] = block'[w] => v = w
    BY <1>0, <1>5 DEF BlockPlaces
  <2>3. ASSUME NEW p \in Pools, NEW i \in 1..Len(freeList[p]) PROVE InList(p, i)'
    <3>1. freeList[p][i] \in Blocks /\ freeList[p][i] # NoBlock /\ freeList[p][i] # b
      BY <1>0, <1>4, ElementOfSeq, PoolsAssumption DEF PoolTypes
    <3>2. InList(p, i)
      BY <1>0 DEF BlockPlaces
    <3> QED
      BY <1>5, <3>1, <3>2 DEF InList
  <2> QED
    BY <1>5, <2>1, <2>2, <2>3 DEF BlockPlaces
<1>10. Counters'
  <2> SUFFICES ASSUME NEW q \in Pools
               PROVE  /\ reserveCount[q] = Len(freeList[q]) + Cardinality(At(q, {"unreserve"})')
                                             - Cardinality(At(q, {"unuse", "reserve"})')
                      /\ useCount[q] = Cardinality(Out(q)')
                                         + Cardinality(At(q, {"attach", "push", "unuse"})')
    BY <1>5 DEF Counters
  <2>1. /\ At(q, {"unuse", "reserve"})' = At(q, {"unuse", "reserve"})
        /\ At(q, {"unreserve"})' = At(q, {"unreserve"})
    BY <1>1, <1>5 DEF At
  <2>2. \A v \in Users : v # u => step'[v] = step[v] /\ wanted'[v] = wanted[v]
    BY <1>5
  <2> DEFINE c == At(q, {"attach", "push", "unuse"})
  <2>3. /\ Cardinality(c) \in Nat
        /\ Cardinality(c') =
              Cardinality(c)
                + (IF step'[u] \in {"attach", "push", "unuse"} /\ PoolFor(wanted'[u]) = q THEN 1 ELSE 0)
                - (IF step[u] \in {"attach", "push", "unuse"} /\ PoolFor(wanted[u]) = q THEN 1 ELSE 0)
    BY <2>2, AtMoves
  <2>4. step'[u] = "idle" /\ PoolFor(wanted[u]) = PoolFor(a)
    BY <1>3, <1>5
  <2>5. /\ Cardinality(Out(q)) \in Nat
        /\ Cardinality(Out(q)') = Cardinality(Out(q)) + (IF capacity[b] = q THEN 1 ELSE 0)
    BY <1>0, <1>4, <1>5, OutGains
  <2>6. capacity[b] = q <=> PoolFor(a) = q
    <3>1. a \in Nat /\ (a <= MaxAllocSize \/ a > MaxAllocSize)
      BY <1>4, ServedFacts, AllocFacts
    <3> QED
      BY <1>4, <3>1, ServedFacts
  <2>7. /\ reserveCount[q] = Len(freeList[q]) + Cardinality(At(q, {"unreserve"}))
                                             - Cardinality(At(q, {"unuse", "reserve"}))
        /\ useCount[q] = Cardinality(Out(q)) + Cardinality(c)
    BY <1>0 DEF Counters
  <2> HIDE DEF c
  <2>8. useCount[q] = Cardinality(Out(q)') + Cardinality(c')
    <3>1. CASE PoolFor(a) = q
      BY <1>1, <2>3, <2>4, <2>5, <2>6, <2>7, <3>1
    <3>2. CASE PoolFor(a) # q
      BY <1>1, <2>3, <2>4, <2>5, <2>6, <2>7, <3>2
    <3> QED
      BY <3>1, <3>2
  <2> QED
    BY <2>1, <2>7, <2>8 DEF c
<1> QED
  BY <1>0, <1>5, <1>6, <1>7, <1>8, <1>9, <1>10 DEF HomeInv

LEMMA ReleaseHome ==
  ASSUME HomeInv, ~strayPool, NEW u \in Users, NEW b \in Blocks, Release(u, b)
  PROVE  HomeInv'
<1>0. /\ PoolTypes /\ ThreadSteps /\ OwnedServe /\ BlockPlaces /\ Counters
      /\ ~poolAssert
  BY DEF HomeInv
<1>1. PICK a : a = allocSize[b]
  OBVIOUS
<1>2. /\ step[u] = "idle" /\ b \in owned /\ owned' = owned \ {b}
      /\ wanted' = [wanted EXCEPT ![u] = a]
      /\ UNCHANGED <<freeList, useCount, reserveCount, strayPool, poolAssert>>
  BY <1>1 DEF Release
<1>3. /\ Served(a, capacity[b]) /\ a \in Nat /\ b # NoBlock
      /\ block[u] = NoBlock
      /\ \A v \in Users : block[v] # b
      /\ \A p \in Pools : \A i \in 1..Len(freeList[p]) : freeList[p][i] # b
  BY <1>0, <1>1, <1>2, ServedFacts, PoolsAssumption
     DEF OwnedServe, BlockPlaces, InList, ThreadSteps, Holding
<1>4. \A v \in Users : wanted'[v] = IF v = u THEN a ELSE wanted[v]
  BY <1>0, <1>2 DEF PoolTypes
<1>5. wanted' \in [Users -> Nat] /\ owned' \subseteq Blocks
  BY <1>0, <1>2, <1>3 DEF PoolTypes
<1>7. \A p \in Pools : \A i \in 1..Len(freeList[p]) :
         freeList[p][i] \in Blocks /\ freeList[p][i] # NoBlock
  BY <1>0, ElementOfSeq, PoolsAssumption DEF PoolTypes
\* Back to the C runtime.
<1>8. CASE /\ allocSize[b] > MaxAllocSize
           /\ capacity' = [capacity EXCEPT ![b] = 0]
           /\ UNCHANGED <<allocSize, block, step>>
  <2>1. \A d \in Blocks : capacity'[d] = IF d = b THEN 0 ELSE capacity[d]
    BY <1>0, <1>8 DEF PoolTypes
  <2>2. PoolTypes'
    <3>1. capacity' \in [Blocks -> Nat]
      BY <1>0, <1>8 DEF PoolTypes
    <3> QED
      BY <1>0, <1>2, <1>5, <1>8, <3>1 DEF PoolTypes
  <2>3. ThreadSteps'
    <3> SUFFICES ASSUME NEW v \in Users
                 PROVE  /\ block[v] # NoBlock <=> step[v] \in Holding
                        /\ step[v] \in Holding => Served(wanted'[v], capacity'[block[v]])
                        /\ step[v] \notin {"idle", "attach"} =>
                              /\ wanted'[v] \in AllocSizes /\ wanted'[v] <= MaxAllocSize
                              /\ PoolFor(wanted'[v]) \in Pools
                        /\ step[v] = "push" => allocSize[block[v]] = 0
      BY <1>8 DEF ThreadSteps
    <3>1. CASE v = u
      BY <1>2, <1>3, <3>1 DEF Holding
    <3>2. CASE v # u
      <4>1. step[v] \in Holding => capacity'[block[v]] = capacity[block[v]]
        BY <1>0, <1>3, <2>1 DEF ThreadSteps, PoolTypes
      <4> QED
        BY <1>0, <1>4, <3>2, <4>1 DEF ThreadSteps
    <3> QED
      BY <3>1, <3>2
  <2>4. OwnedServe'
    BY <1>0, <1>2, <1>8, <2>1 DEF OwnedServe, PoolTypes
  <2>5. BlockPlaces'
    <3>1. ASSUME NEW p \in Pools, NEW i \in 1..Len(freeList[p]) PROVE InList(p, i)'
      <4>1. InList(p, i) /\ freeList[p][i] \in Blocks /\ freeList[p][i] # b
        BY <1>0, <1>3, <1>7 DEF BlockPlaces
      <4> QED
        BY <1>2, <1>8, <2>1, <4>1 DEF InList
    <3> QED
      BY <1>0, <1>2, <1>8, <3>1 DEF BlockPlaces
  <2>6. Counters'
    <3>1. capacity[b] \notin Pools /\ PoolFor(a) \notin Pools
      BY <1>1, <1>3, <1>8, ServedFacts
    <3>2. \A p \in Pools : Out(p)' = Out(p)
      BY <1>0, <1>2, <2>1, <3>1 DEF Out, PoolTypes
    <3>3. step'[u] = "idle" /\ \A v \in Users : v # u => step'[v] = step[v] /\ wanted'[v] = wanted[v]
      BY <1>2, <1>4, <1>8
    <3> QED
      BY <1>0, <1>2, <3>2, <3>3, SameCounts
  <2> QED
    BY <1>0, <1>2, <2>2, <2>3, <2>4, <2>5, <2>6 DEF HomeInv
\* On its way to a pool.
<1>9. CASE /\ allocSize[b] <= MaxAllocSize
           /\ allocSize' = ResetSize(b)
           /\ block' = [block EXCEPT ![u] = b]
           /\ StepTo(u, "push")
           /\ UNCHANGED capacity
  <2>1. /\ \A d \in Blocks : allocSize'[d] = IF d = b THEN 0 ELSE allocSize[d]
        /\ \A v \in Users : step'[v] = IF v = u THEN "push" ELSE step[v]
        /\ \A v \in Users : block'[v] = IF v = u THEN b ELSE block[v]
    BY <1>0, <1>9 DEF PoolTypes, StepTo, ResetSize
  <2>2. PoolTypes'
    <3>1. step' \in [Users -> PoolSteps]
      BY <1>0, <1>9 DEF PoolTypes, PoolSteps, StepTo
    <3>2. block' \in [Users -> Blocks \cup {NoBlock}] /\ allocSize' \in [Blocks -> Nat]
      BY <1>0, <1>9 DEF PoolTypes, ResetSize
    <3> QED
      BY <1>0, <1>2, <1>5, <1>9, <3>1, <3>2 DEF PoolTypes
  <2>3. /\ a \in AllocSizes /\ a <= MaxAllocSize /\ PoolFor(a) \in Pools
        /\ capacity[b] = PoolFor(a)
    BY <1>1, <1>3, <1>9 DEF Served
  <2>4. ThreadSteps'
    <3> SUFFICES ASSUME NEW v \in Users
                 PROVE  /\ block'[v] # NoBlock <=> step'[v] \in Holding
                        /\ step'[v] \in Holding => Served(wanted'[v], capacity[block'[v]])
                        /\ step'[v] \notin {"idle", "attach"} =>
                              /\ wanted'[v] \in AllocSizes /\ wanted'[v] <= MaxAllocSize
                              /\ PoolFor(wanted'[v]) \in Pools
                        /\ step'[v] = "push" => allocSize'[block'[v]] = 0
      BY <1>9 DEF ThreadSteps
    <3>1. CASE v = u
      BY <1>3, <1>4, <2>1, <2>3, <3>1 DEF Holding
    <3>2. CASE v # u
      <4>1. step[v] = "push" => allocSize'[block[v]] = allocSize[block[v]]
        BY <1>0, <1>3, <2>1 DEF ThreadSteps, PoolTypes, Holding
      <4>2. step'[v] = step[v] /\ block'[v] = block[v] /\ wanted'[v] = wanted[v]
        BY <1>4, <2>1, <3>2
      <4> QED
        BY <1>0, <4>1, <4>2 DEF ThreadSteps
    <3> QED
      BY <3>1, <3>2
  <2>5. OwnedServe'
    <3>1. \A d \in owned' : d \in owned /\ allocSize'[d] = allocSize[d] /\ capacity'[d] = capacity[d]
      BY <1>0, <1>2, <1>9, <2>1 DEF PoolTypes
    <3> QED
      BY <1>0, <3>1 DEF OwnedServe
  <2>6. BlockPlaces'
    <3>1. ASSUME NEW p \in Pools, NEW i \in 1..Len(freeList[p]) PROVE InList(p, i)'
      <4>1. InList(p, i) /\ freeList[p][i] \in Blocks /\ freeList[p][i] # b
        BY <1>0, <1>3, <1>7 DEF BlockPlaces
      <4> QED
        BY <1>2, <1>9, <2>1, <4>1 DEF InList
    <3>2. \A v \in Users : block'[v] \notin owned'
      BY <1>0, <1>2, <2>1 DEF BlockPlaces
    <3>3. \A v, w \in Users : block'[v] # NoBlock /\ block'[v] = block'[w] => v = w
      BY <1>0, <1>3, <2>1 DEF BlockPlaces
    <3> QED
      BY <1>2, <3>1, <3>2, <3>3 DEF BlockPlaces
  <2>7. Counters'
    <3> SUFFICES ASSUME NEW q \in Pools
                 PROVE  /\ reserveCount[q] = Len(freeList[q]) + Cardinality(At(q, {"unreserve"})')
                                               - Cardinality(At(q, {"unuse", "reserve"})')
                        /\ useCount[q] = Cardinality(Out(q)')
                                           + Cardinality(At(q, {"attach", "push", "unuse"})')
      BY <1>2 DEF Counters
    <3>1. /\ At(q, {"unuse", "reserve"})' = At(q, {"unuse", "reserve"})
          /\ At(q, {"unreserve"})' = At(q, {"unreserve"})
      BY <1>2, <1>4, <2>1 DEF At
    <3>2. \A v \in Users : v # u => step'[v] = step[v] /\ wanted'[v] = wanted[v]
      BY <1>4, <2>1
    <3> DEFINE c == At(q, {"attach", "push", "unuse"})
    <3>3. /\ Cardinality(c) \in Nat
          /\ Cardinality(c') =
                Cardinality(c)
                  + (IF step'[u] \in {"attach", "push", "unuse"} /\ PoolFor(wanted'[u]) = q THEN 1 ELSE 0)
                  - (IF step[u] \in {"attach", "push", "unuse"} /\ PoolFor(wanted[u]) = q THEN 1 ELSE 0)
      BY <3>2, AtMoves
    <3>4. step'[u] = "push" /\ PoolFor(wanted'[u]) = PoolFor(a)
      BY <1>4, <2>1
    <3>5. /\ Cardinality(Out(q)) \in Nat
          /\ Cardinality(Out(q)') = Cardinality(Out(q)) - (IF capacity[b] = q THEN 1 ELSE 0)
      BY <1>0, <1>2, <1>9, OutLoses
    <3>6. /\ reserveCount[q] = Len(freeList[q]) + Cardinality(At(q, {"unreserve"}))
                                               - Cardinality(At(q, {"unuse", "reserve"}))
          /\ useCount[q] = Cardinality(Out(q)) + Cardinality(c)
      BY <1>0 DEF Counters
    <3> HIDE DEF c
    <3>7. useCount[q] = Cardinality(Out(q)') + Cardinality(c')
      <4>1. CASE PoolFor(a) = q
        BY <1>2, <2>3, <3>3, <3>4, <3>5, <3>6, <4>1
      <4>2. CASE PoolFor(a) # q
        BY <1>2, <2>3, <3>3, <3>4, <3>5, <3>6, <4>2
      <4> QED
        BY <4>1, <4>2
    <3> QED
      BY <3>1, <3>6, <3>7 DEF c
  <2> QED
    BY <1>0, <1>2, <2>2, <2>4, <2>5, <2>6, <2>7 DEF HomeInv
<1> QED
  BY <1>8, <1>9 DEF Release

LEMMA PushHome ==
  ASSUME HomeInv, NEW u \in Users, Push(u)
  PROVE  HomeInv'
<1>0. /\ PoolTypes /\ ThreadSteps /\ OwnedServe /\ BlockPlaces /\ Counters
      /\ ~poolAssert
  BY DEF HomeInv
<1>1. step[u] = "push" /\ block[u] # NoBlock /\ block[u] \in Blocks
  BY <1>0 DEF Push, ThreadSteps, Holding, PoolTypes
<1>2. PICK b \in Blocks : b = block[u]
  BY <1>1
<1>3. PICK p \in Pools : p = PoolFor(wanted[u])
  BY <1>0, <1>1 DEF ThreadSteps
<1>4. /\ wanted[u] \in AllocSizes /\ wanted[u] <= MaxAllocSize /\ capacity[b] = p
      /\ allocSize[b] = 0 /\ b \notin owned /\ b # NoBlock
      /\ \A v \in Users : v # u => block[v] # b
      /\ \A q \in Pools : \A i \in 1..Len(freeList[q]) : freeList[q][i] # b
  BY <1>0, <1>1, <1>2, <1>3 DEF BlockPlaces, InList, ThreadSteps, Holding, Served
<1>5. /\ UNCHANGED <<useCount, reserveCount, allocSize, capacity, owned, wanted, strayPool,
                     poolAssert>>
      /\ freeList' = [freeList EXCEPT ![p] = <<b>> \o @]
      /\ block' = [block EXCEPT ![u] = NoBlock] /\ step' = [step EXCEPT ![u] = "unuse"]
  BY <1>2, <1>3 DEF Push, StepTo
<1>6. freeList[p] \in Seq(Blocks)
  BY <1>0 DEF PoolTypes
<1>7. /\ Len(freeList[p]) \in Nat /\ <<b>> \o freeList[p] \in Seq(Blocks)
      /\ Len(<<b>> \o freeList[p]) = Len(freeList[p]) + 1
      /\ (<<b>> \o freeList[p])[1] = b
      /\ \A i \in 2..Len(freeList[p]) + 1 : (<<b>> \o freeList[p])[i] = freeList[p][i - 1]
  BY <1>6, PushList
<1>8. /\ \A v \in Users : step'[v] = IF v = u THEN "unuse" ELSE step[v]
      /\ \A v \in Users : block'[v] = IF v = u THEN NoBlock ELSE block[v]
      /\ \A q \in Pools : freeList'[q] = IF q = p THEN <<b>> \o freeList[p] ELSE freeList[q]
  BY <1>0, <1>5 DEF PoolTypes
<1>9. PoolTypes'
  <2>1. step' \in [Users -> PoolSteps]
    BY <1>0, <1>5 DEF PoolTypes, PoolSteps
  <2>2. block' \in [Users -> Blocks \cup {NoBlock}] /\ freeList' \in [Pools -> Seq(Blocks)]
    BY <1>0, <1>5, <1>7 DEF PoolTypes
  <2> QED
    BY <1>0, <1>5, <2>1, <2>2 DEF PoolTypes
<1>10. ThreadSteps'
  <2> SUFFICES ASSUME NEW v \in Users
               PROVE  /\ block'[v] # NoBlock <=> step'[v] \in Holding
                      /\ step'[v] \in Holding => Served(wanted[v], capacity[block'[v]])
                      /\ step'[v] \notin {"idle", "attach"} =>
                            /\ wanted[v] \in AllocSizes /\ wanted[v] <= MaxAllocSize
                            /\ PoolFor(wanted[v]) \in Pools
                      /\ step'[v] = "push" => allocSize[block'[v]] = 0
    BY <1>5 DEF ThreadSteps
  <2>1. CASE v = u
    BY <1>3, <1>4, <1>8, <2>1 DEF Holding
  <2>2. CASE v # u
    BY <1>0, <1>8, <2>2 DEF ThreadSteps
  <2> QED
    BY <2>1, <2>2
<1>11. OwnedServe'
  BY <1>0, <1>5 DEF OwnedServe
<1>12. BlockPlaces'
  <2>1. \A v \in Users : block'[v] \notin owned'
    BY <1>0, <1>5, <1>8, PoolsAssumption DEF BlockPlaces, PoolTypes
  <2>2. \A v, w \in Users : block'[v] # NoBlock /\ block'[v] = block'[w] => v = w
    BY <1>0, <1>8 DEF BlockPlaces
  <2>3. ASSUME NEW q \in Pools, NEW i \in 1..Len(freeList'[q])
        PROVE  InList(q, i)'
    <3> SUFFICES /\ capacity[freeList'[q][i]] = q /\ allocSize[freeList'[q][i]] = 0
                 /\ freeList'[q][i] \notin owned
                 /\ \A v \in Users : block'[v] # freeList'[q][i]
                 /\ \A j \in 1..Len(freeList'[q]) : freeList'[q][i] = freeList'[q][j] => i = j
      BY <1>5 DEF InList
    <3>1. CASE q # p
      <4>1. freeList'[q] = freeList[q] /\ i \in 1..Len(freeList[q])
        BY <1>8, <2>3, <3>1
      <4>2. InList(q, i) /\ freeList[q][i] \in Blocks /\ freeList[q][i] # NoBlock
        BY <1>0, <4>1, ElementOfSeq, PoolsAssumption DEF BlockPlaces, PoolTypes
      <4> QED
        BY <1>8, <4>1, <4>2 DEF InList
    <3>2. CASE q = p
      <4> DEFINE s == freeList[p]
                 n == Len(freeList[p])
      <4>1. freeList'[q] = <<b>> \o s /\ Len(freeList'[q]) = n + 1 /\ n \in Nat
        BY <1>7, <1>8, <3>2
      <4>2. freeList'[q][1] = b /\ \A j \in 2..n + 1 : freeList'[q][j] = s[j - 1]
        BY <1>7, <4>1
      <4>3. \A j \in 1..n : InList(p, j) /\ s[j] \in Blocks /\ s[j] # NoBlock /\ s[j] # b
        BY <1>0, <1>4, <1>6, ElementOfSeq, PoolsAssumption DEF BlockPlaces
      <4>4. \A j \in 2..n + 1 : j - 1 \in 1..n
        BY <4>1
      <4>5. CASE i = 1
        <5>1. \A v \in Users : block'[v] # b
          BY <1>4, <1>8
        <5>2. \A j \in 1..n + 1 : freeList'[q][j] = b => j = 1
          BY <4>1, <4>2, <4>3, <4>4
        <5> QED
          BY <1>4, <3>2, <4>1, <4>2, <4>5, <5>1, <5>2
      <4>6. CASE i # 1
        <5>1. i \in 2..n + 1
          BY <2>3, <4>1, <4>6
        <5>2. freeList'[q][i] = s[i - 1] /\ i - 1 \in 1..n
          BY <4>2, <4>4, <5>1
        <5>3. /\ capacity[s[i - 1]] = p /\ allocSize[s[i - 1]] = 0 /\ s[i - 1] \notin owned
              /\ \A v \in Users : block'[v] # s[i - 1]
          BY <1>8, <4>3, <5>2 DEF InList
        <5>4. ASSUME NEW j \in 1..n + 1, freeList'[q][i] = freeList'[q][j] PROVE i = j
          <6>1. j # 1
            BY <4>2, <4>3, <5>2, <5>4
          <6>2. j \in 2..n + 1
            BY <4>1, <6>1
          <6>3. freeList'[q][j] = s[j - 1] /\ j - 1 \in 1..n
            BY <4>2, <4>4, <6>2
          <6>4. i - 1 = j - 1
            BY <4>3, <5>2, <5>4, <6>3 DEF InList
          <6> QED
            BY <4>1, <5>1, <6>2, <6>4
        <5> QED
          BY <3>2, <4>1, <5>2, <5>3, <5>4
      <4> QED
        BY <4>5, <4>6
    <3> QED
      BY <3>1, <3>2
  <2> QED
    BY <2>1, <2>2, <2>3 DEF BlockPlaces
<1>13. Counters'
  <2> SUFFICES ASSUME NEW q \in Pools
               PROVE  /\ reserveCount[q] = Len(freeList'[q]) + Cardinality(At(q, {"unreserve"})')
                                             - Cardinality(At(q, {"unuse", "reserve"})')
                      /\ useCount[q] = Cardinality(Out(q)')
                                         + Cardinality(At(q, {"attach", "push", "unuse"})')
    BY <1>5 DEF Counters
  <2>1. /\ At(q, {"attach", "push", "unuse"})' = At(q, {"attach", "push", "unuse"})
        /\ At(q, {"unreserve"})' = At(q, {"unreserve"}) /\ Out(q)' = Out(q)
    BY <1>1, <1>5, <1>8 DEF At, Out
  <2>2. \A v \in Users : v # u => step'[v] = step[v] /\ wanted'[v] = wanted[v]
    BY <1>5, <1>8
  <2> DEFINE a == At(q, {"unreserve"})
             r == At(q, {"unuse", "reserve"})
  <2>3. /\ Cardinality(r) \in Nat
        /\ Cardinality(r') =
              Cardinality(r)
                + (IF step'[u] \in {"unuse", "reserve"} /\ PoolFor(wanted'[u]) = q THEN 1 ELSE 0)
                - (IF step[u] \in {"unuse", "reserve"} /\ PoolFor(wanted[u]) = q THEN 1 ELSE 0)
    BY <2>2, AtMoves
  <2>4. Cardinality(a) \in Nat
    BY <2>2, AtMoves
  <2>5. step'[u] = "unuse" /\ PoolFor(wanted'[u]) = p
    BY <1>3, <1>5, <1>8
  <2>6. /\ reserveCount[q] = Len(freeList[q]) + Cardinality(a) - Cardinality(r)
        /\ useCount[q] = Cardinality(Out(q)) + Cardinality(At(q, {"attach", "push", "unuse"}))
    BY <1>0 DEF Counters
  <2> HIDE DEF a, r
  <2>7. reserveCount[q] = Len(freeList'[q]) + Cardinality(a) - Cardinality(r')
    <3>1. CASE p = q
      <4>1. Cardinality(r') = Cardinality(r) + 1
        BY <1>1, <2>3, <2>5, <3>1
      <4>2. Len(freeList'[q]) = Len(freeList[q]) + 1 /\ Len(freeList[q]) \in Nat
        BY <1>7, <1>8, <3>1
      <4> QED
        BY <2>3, <2>4, <2>6, <4>1, <4>2
    <3>2. CASE p # q
      <4>1. Cardinality(r') = Cardinality(r)
        BY <1>1, <2>3, <2>5, <3>2
      <4>2. freeList'[q] = freeList[q]
        BY <1>8, <3>2
      <4> QED
        BY <2>6, <4>1, <4>2
    <3> QED
      BY <3>1, <3>2
  <2> QED
    BY <2>1, <2>6, <2>7 DEF a, r
<1> QED
  BY <1>0, <1>5, <1>9, <1>10, <1>11, <1>12, <1>13 DEF HomeInv

LEMMA HomeInit == PoolInit => HomeInv
<1> SUFFICES ASSUME PoolInit PROVE HomeInv
  OBVIOUS
<1>1. \A p \in Pools : freeList[p] = <<>> /\ Len(freeList[p]) = 0 /\ <<>> \in Seq(Blocks)
  BY EmptySeq DEF PoolInit
<1>2. PoolTypes
  <2>1. 0 \in Nat /\ 0 \in Int /\ <<>> \in Seq(Blocks)
    BY EmptySeq
  <2>2. freeList \in [Pools -> Seq(Blocks)]
    BY <2>1 DEF PoolInit
  <2> QED
    BY <2>1, <2>2 DEF PoolInit, PoolTypes, PoolSteps
<1>4. Counters
  <2>1. \A p \in Pools : /\ At(p, {"unreserve"}) = {} /\ At(p, {"unuse", "reserve"}) = {}
                         /\ At(p, {"attach", "push", "unuse"}) = {} /\ Out(p) = {}
    BY DEF PoolInit, At, Out
  <2> QED
    <3>1. Cardinality({}) = 0 /\ 0 = 0 + 0 - 0 /\ 0 = 0 + 0
      BY FS_EmptySet
    <3>2. \A p \in Pools : reserveCount[p] = 0 /\ useCount[p] = 0
      BY DEF PoolInit
    <3> QED
      BY <1>1, <2>1, <3>1, <3>2 DEF Counters
<1>5. ThreadSteps /\ OwnedServe
  BY DEF PoolInit, ThreadSteps, OwnedServe, Holding
<1>6. BlockPlaces
  BY <1>1 DEF PoolInit, BlockPlaces
<1> QED
  BY <1>2, <1>4, <1>5, <1>6 DEF PoolInit, HomeInv

LEMMA HomeStep == HomeInv /\ [PoolNext]_poolVars => HomeInv'
<1> SUFFICES ASSUME HomeInv, [PoolNext]_poolVars PROVE HomeInv'
  OBVIOUS
<1>1. CASE UNCHANGED poolVars
  <2>1. PoolTypes' /\ ThreadSteps' /\ OwnedServe' /\ ~poolAssert'
    BY <1>1 DEF poolVars, HomeInv, PoolTypes, ThreadSteps, OwnedServe
  <2>2. BlockPlaces'
    BY <1>1 DEF poolVars, HomeInv, BlockPlaces, InList
  <2>3. Counters'
    <3>1. \A p \in Pools :
             /\ At(p, {"unreserve"})' = At(p, {"unreserve"})
             /\ At(p, {"unuse", "reserve"})' = At(p, {"unuse", "reserve"})
             /\ At(p, {"attach", "push", "unuse"})' = At(p, {"attach", "push", "unuse"})
             /\ Out(p)' = Out(p)
      BY <1>1 DEF poolVars, At, Out
    <3> QED
      BY <1>1, <3>1 DEF poolVars, HomeInv, Counters
  <2> QED
    BY <2>1, <2>2, <2>3 DEF HomeInv
<1>2. CASE PoolNext
  BY <1>2, AllocateHome, ReleaseHome, CountHome, AttachHome, PushHome DEF PoolNext
<1> QED
  BY <1>1, <1>2

LEMMA HomeAlways == PoolSpec => []HomeInv
BY HomeInit, HomeStep, PTL DEF PoolSpec

\* Every list, counter, header and thread keeps its type.
THEOREM MemoryTypes == PoolSpec => []PoolTypes
<1>1. HomeInv => PoolTypes
  BY DEF HomeInv
<1> QED
  BY <1>1, HomeAlways, PTL

\* The table serves every size up to its last with less than a grain of waste, blocks
\* keep what they were served with (Memory::Memory, Allocate, Release).
THEOREM AlwaysServedTightly == PoolSpec => []ServedTightly
<1>1. HomeInv => ServedTightly
  <2> SUFFICES ASSUME HomeInv PROVE ServedTightly
    OBVIOUS
  <2>1. TableServesTightly
    <3> SUFFICES ASSUME NEW n \in 1..LastSize
                 PROVE  PoolFor(n) >= n /\ PoolFor(n) - n < Grain(n)
      BY LastPool DEF TableServesTightly, ServesTightly
    <3>1. n \in 0..LastSize /\ n >= 1
      BY AllocFacts
    <3> QED
      BY <3>1, TightFit
  <2>2. ASSUME NEW b \in owned
        PROVE  /\ capacity[b] >= allocSize[b]
               /\ allocSize[b] <= MaxAllocSize =>
                    capacity[b] - allocSize[b] < Grain(allocSize[b])
    <3>1. Served(allocSize[b], capacity[b])
      BY DEF HomeInv, OwnedServe
    <3> QED
      <4>1. /\ allocSize[b] \in Nat /\ allocSize[b] >= 1 /\ capacity[b] \in Nat
            /\ allocSize[b] <= MaxAllocSize =>
                  capacity[b] = PoolFor(allocSize[b]) /\ allocSize[b] <= LastSize
            /\ ~(allocSize[b] <= MaxAllocSize) => capacity[b] = allocSize[b]
        BY <3>1, ServedFacts DEF Served
      <4>2. CASE allocSize[b] <= MaxAllocSize
        <5>1. allocSize[b] \in 0..LastSize
          BY <4>1, <4>2, AllocFacts
        <5> QED
          BY <4>1, <4>2, <5>1, TightFit
      <4>3. CASE ~(allocSize[b] <= MaxAllocSize)
        BY <4>1, <4>3
      <4> QED
        BY <4>2, <4>3
  <2> QED
    BY <2>1, <2>2 DEF ServedTightly
<1> QED
  BY <1>1, HomeAlways, PTL

\* Blocks return to the pool they came from, marked unused, and are in one place; Pop's
\* assertion holds; when no thread is under way the counters count.
THEOREM AlwaysComeHome == PoolSpec => []BlocksComeHome
<1>1. HomeInv => BlocksComeHome
  <2> SUFFICES ASSUME HomeInv PROVE BlocksComeHome
    OBVIOUS
  <2>0. PoolTypes /\ ThreadSteps /\ BlockPlaces /\ Counters /\ ~poolAssert
    BY DEF HomeInv
  <2>1. ASSUME NEW p \in Pools
        PROVE  /\ Cardinality(InPool(p)) = Len(freeList[p])
               /\ InPool(p) \cap (owned \cup UNION {Held(u) : u \in Users}) = {}
               /\ \A b \in InPool(p) : capacity[b] = p /\ allocSize[b] = 0
    <3>1. freeList[p] \in Seq(Blocks) /\ Len(freeList[p]) \in Nat
          /\ DOMAIN freeList[p] = 1..Len(freeList[p])
      BY <2>0, LenProperties DEF PoolTypes
    <3>2. \A i \in 1..Len(freeList[p]) : InList(p, i)
      BY <2>0 DEF BlockPlaces
    <3>3. \A b \in InPool(p) : \E i \in 1..Len(freeList[p]) : b = freeList[p][i]
      BY <3>1 DEF InPool, ToSet
    <3>4. Cardinality(InPool(p)) = Len(freeList[p])
      <4>1. freeList[p] \in Bijection(1..Len(freeList[p]), InPool(p))
        BY <3>1, <3>2, <3>3 DEF Bijection, Injection, Surjection, IsInjective, InList, InPool, ToSet
      <4>2. IsFiniteSet(InPool(p)) /\ ExistsBijection(1..Len(freeList[p]), InPool(p))
        BY <3>1, <4>1, FS_Interval, FS_Bijection DEF ExistsBijection
      <4> QED
        BY <3>1, <4>2, FS_CountingElements
    <3>5. InPool(p) \cap (owned \cup UNION {Held(u) : u \in Users}) = {}
      BY <3>2, <3>3 DEF InList, Held
    <3>6. \A b \in InPool(p) : capacity[b] = p /\ allocSize[b] = 0
      BY <3>2, <3>3 DEF InList
    <3> QED
      BY <3>4, <3>5, <3>6
  <2>2. ASSUME \A u \in Users : step[u] = "idle", NEW p \in Pools
        PROVE  /\ reserveCount[p] = Len(freeList[p])
               /\ useCount[p] = Cardinality({b \in owned : capacity[b] = p})
    <3>1. /\ At(p, {"unreserve"}) = {} /\ At(p, {"unuse", "reserve"}) = {}
          /\ At(p, {"attach", "push", "unuse"}) = {}
      BY <2>2 DEF At
    <3>2. IsFiniteSet(Out(p)) /\ Cardinality(Out(p)) \in Nat
      BY <2>0, PoolsAssumption, FS_Subset, FS_CardinalityType DEF Out, PoolTypes
    <3>3. Len(freeList[p]) \in Nat
      BY <2>0, LenProperties DEF PoolTypes
    <3>4. Cardinality(At(p, {"unreserve"})) = 0 /\ Cardinality(At(p, {"unuse", "reserve"})) = 0
          /\ Cardinality(At(p, {"attach", "push", "unuse"})) = 0
      BY <3>1, FS_EmptySet
    <3>5. reserveCount[p] = Len(freeList[p]) /\ useCount[p] = Cardinality(Out(p))
      BY <2>0, <3>2, <3>3, <3>4 DEF Counters
    <3> QED
      BY <3>5 DEF Out
  <2> QED
    BY <2>0, <2>1, <2>2 DEF BlocksComeHome
<1> QED
  BY <1>1, HomeAlways, PTL
=============================================================================
