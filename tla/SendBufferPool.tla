--------------------------- MODULE SendBufferPool ---------------------------
(***************************************************************************)
(* SendBufferManager, SendBufferChunk and SendBuffer: each thread cuts the *)
(* buffers it fills from a chunk of its own (LSendBufferChunk); any thread *)
(* may drop the last reference to a buffer, after its WSASend completed;   *)
(* and a chunk nobody refers to any more goes back to the global pool.     *)
(*                                                                         *)
(* The shared_ptr counts are not kept as numbers: a chunk is referred to   *)
(* by the thread that has it as LSendBufferChunk, by the live buffers cut  *)
(* from it, by the pool, or it is on its way there in the deleter of the   *)
(* thread that dropped the last reference.  A buffer is live until the     *)
(* last session queue or send event lets go of it.                         *)
(***************************************************************************)
EXTENDS Integers, Sequences, FiniteSets, SequencesExt

CONSTANTS Threads,
          Chunks,       \* bound: the chunks Pop may have to create
          None,         \* LSendBufferChunk == nullptr
          ChunkSize,    \* SEND_BUFFER_CHUNK_SIZE
          Sizes,        \* the sizes asked of Open
          MaxLive       \* bound: live buffers

ASSUME PoolAssumption == /\ None \notin Chunks /\ IsFiniteSet(Chunks)
                         /\ ChunkSize \in Nat /\ Sizes \subseteq 0..ChunkSize
                         /\ MaxLive \in Nat

VARIABLES local,        \* LSendBufferChunk of each thread
          open,         \* _open of each chunk
          usedSize,     \* _usedSize of each chunk
          pool,         \* _sendBufferChunks, a stack
          fresh,        \* chunks not created yet
          returning,    \* chunks whose deleter is about to push them
          live,         \* the SendBuffers somebody refers to
          pc,           \* where each thread is
          size,         \* the size a thread asked for
          taken         \* the chunk Pop gave a thread, not yet Reset

vars == <<local, open, usedSize, pool, fresh, returning, live, pc, size, taken>>

Labels == {"idle",      \* outside MakeSendBuffer
           "pop",       \* Open: about to take another chunk
           "assign",    \* Open: popped, about to replace LSendBufferChunk
           "open",      \* Open: about to cut the buffer
           "fill",      \* serializing into an open buffer
           "nullptr"}   \* the chunk had no room: Open returned nullptr

Goto(t, label) == pc' = [pc EXCEPT ![t] = label]
FreeSize(c) == ChunkSize - usedSize[c]
InUse(c) == \E b \in live : b.chunk = c

Init == /\ local = [t \in Threads |-> None]
        /\ open = [c \in Chunks |-> FALSE] /\ usedSize = [c \in Chunks |-> 0]
        /\ pool = <<>> /\ fresh = Chunks /\ returning = {}
        /\ live = {}
        /\ pc = [t \in Threads |-> "idle"]
        /\ size = [t \in Threads |-> 0]
        /\ taken = [t \in Threads |-> None]

-----------------------------------------------------------------------------
(* Open *)

Fits_IfAnyRoom(t, n) == local[t] # None /\ FreeSize(local[t]) > 0
Fits(t, n) == local[t] # None /\ FreeSize(local[t]) >= n

Open(t, n) ==
    /\ pc[t] = "idle" /\ Cardinality(live) < MaxLive
    /\ size' = [size EXCEPT ![t] = n]
    /\ Goto(t, IF Fits(t, n) THEN "open" ELSE "pop")
    /\ UNCHANGED <<local, open, usedSize, pool, fresh, returning, live, taken>>

\* The back of the pool, or a new chunk when the pool is empty.
Pop(t) ==
    /\ pc[t] = "pop"
    /\ \/ /\ pool # <<>>
          /\ taken' = [taken EXCEPT ![t] = Last(pool)]
          /\ pool' = Front(pool)
          /\ UNCHANGED fresh
       \/ /\ pool = <<>>
          /\ \E c \in fresh : /\ taken' = [taken EXCEPT ![t] = c]
                              /\ fresh' = fresh \ {c}
          /\ UNCHANGED pool
    /\ Goto(t, "assign")
    /\ UNCHANGED <<local, open, usedSize, returning, live, size>>

UsedAfterReset_Kept(c) == usedSize[c]
UsedAfterReset(c) == 0

DropsOld_Never(t) == FALSE
\* The thread was the last to refer to its old chunk.
DropsOld(t) == local[t] # None /\ ~InUse(local[t])

\* The assignment lets go of the old chunk, which may end it;
\* then Reset.
Assign(t) ==
    /\ pc[t] = "assign"
    /\ local' = [local EXCEPT ![t] = taken[t]]
    /\ returning' = IF DropsOld(t)
                    THEN returning \cup {local[t]} ELSE returning
    /\ open' = [open EXCEPT ![taken[t]] = FALSE]
    /\ usedSize' = [usedSize EXCEPT ![taken[t]] = UsedAfterReset(taken[t])]
    /\ taken' = [taken EXCEPT ![t] = None]
    /\ Goto(t, "open")
    /\ UNCHANGED <<pool, fresh, live, size>>

Cut(t) ==
    /\ pc[t] = "open"
    /\ LET c == local[t] IN
       IF size[t] > FreeSize(c)
       THEN Goto(t, "nullptr") /\ UNCHANGED <<open, live>>
       ELSE /\ open' = [open EXCEPT ![c] = TRUE]
            /\ live' = live \cup {[chunk |-> c, start |-> usedSize[c], len |-> size[t]]}
            /\ Goto(t, "fill")
    /\ UNCHANGED <<local, usedSize, pool, fresh, returning, size, taken>>

\* The buffer a thread has open is the one at its chunk's used size.
OpenBuffer(t) == CHOOSE b \in live : /\ b.chunk = local[t]
                                     /\ b.start = usedSize[local[t]]

UsedAfterClose_NotCounted(c, n) == usedSize[c]
UsedAfterClose_OffByOne(c, n) == usedSize[c] + n + 1
UsedAfterClose(c, n) == usedSize[c] + n

\* SendBuffer::Close with the bytes really written.
Close(t) ==
    /\ pc[t] = "fill"
    /\ \E n \in 1..size[t] :
         /\ live' = (live \ {OpenBuffer(t)}) \cup {[OpenBuffer(t) EXCEPT !.len = n]}
         /\ usedSize' = [usedSize EXCEPT ![local[t]] = UsedAfterClose(local[t], n)]
    /\ open' = [open EXCEPT ![local[t]] = FALSE]
    /\ size' = [size EXCEPT ![t] = 0]
    /\ Goto(t, "idle")
    /\ UNCHANGED <<local, pool, fresh, returning, taken>>

-----------------------------------------------------------------------------
(* The end of a buffer *)

Filling(b) == \E t \in Threads : pc[t] = "fill" /\ b = OpenBuffer(t)
LastRef_LocalIgnored(b) == \A d \in live \ {b} : d.chunk # b.chunk
\* The chunk of b has no other reference.
LastRef(b) == /\ \A d \in live \ {b} : d.chunk # b.chunk
              /\ \A t \in Threads : local[t] # b.chunk

\* Some thread drops the last reference to a finished buffer.
ReleaseBuffer(b) ==
    /\ b \in live /\ ~Filling(b)
    /\ live' = live \ {b}
    /\ returning' = IF LastRef(b) THEN returning \cup {b.chunk} ELSE returning
    /\ UNCHANGED <<local, open, usedSize, pool, fresh, pc, size, taken>>

PushGlobal(c) ==
    /\ c \in returning
    /\ returning' = returning \ {c}
    /\ pool' = Append(pool, c)
    /\ UNCHANGED <<local, open, usedSize, fresh, live, pc, size, taken>>

-----------------------------------------------------------------------------
Next == \/ \E t \in Threads : \/ \E n \in Sizes : Open(t, n)
                              \/ Pop(t) \/ Assign(t) \/ Cut(t) \/ Close(t)
        \/ \E b \in live : ReleaseBuffer(b)
        \/ \E c \in Chunks : PushGlobal(c)

Spec == Init /\ [][Next]_vars
-----------------------------------------------------------------------------
(* Properties *)

Buffers == [chunk : Chunks, start : Nat, len : Nat]

\* Types; no chunk is used beyond its size.
TypeOK ==
    /\ local \in [Threads -> Chunks \cup {None}]
    /\ open \in [Chunks -> BOOLEAN]
    /\ usedSize \in [Chunks -> 0..ChunkSize]
    /\ pool \in Seq(Chunks) /\ fresh \subseteq Chunks /\ returning \subseteq Chunks
    /\ live \subseteq Buffers
    /\ pc \in [Threads -> Labels]
    /\ size \in [Threads -> Sizes \cup {0}]
    /\ taken \in [Threads -> Chunks \cup {None}]

\* Two live buffers never share a byte, whoever filled them and whenever the
\* chunk went round through the pool: a buffer the kernel is still reading is
\* never written again.
Overlap(b, d) == /\ b.chunk = d.chunk
                 /\ b.start < d.start + d.len /\ d.start < b.start + b.len
LiveDisjoint == /\ \A b, d \in live : b # d => ~Overlap(b, d)
                /\ \A b \in live : b.start + b.len <= ChunkSize

\* A chunk is always in one place, and in one only: not created, in the pool, on its way back
\* there, taken by a thread, or used; a chunk is cut by one thread at a time,
\* and nothing refers to what the pool holds.
Pooled == ToSet(pool) \cup returning \cup ({taken[t] : t \in Threads} \ {None})
OnePlace ==
    /\ \A t, u \in Threads : local[t] # None /\ local[t] = local[u] => t = u
    /\ \A t, u \in Threads : taken[t] # None /\ taken[t] = taken[u] => t = u
    /\ \A i, j \in DOMAIN pool : pool[i] = pool[j] => i = j
    /\ ToSet(pool) \cap returning = {}
    /\ \A t \in Threads : taken[t] \notin ToSet(pool) \cup returning
    /\ \A c \in Pooled \cup fresh : ~InUse(c) /\ \A t \in Threads : local[t] # c
    /\ fresh \cap Pooled = {}
    /\ \A c \in Chunks : \/ InUse(c) \/ c \in fresh \cup Pooled        \* none leaks
                        \/ \E t \in Threads : local[t] = c

\* Open never meets an open chunk (its ASSERT_CRASH) and never returns the
\* nullptr its callers do not test for.
OpenSucceeds == \A t \in Threads :
    /\ pc[t] # "nullptr"
    /\ pc[t] \in {"idle", "open"} /\ local[t] # None => ~open[local[t]]
=============================================================================
