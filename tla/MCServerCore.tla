---------------------------- MODULE MCServerCore ----------------------------
(***************************************************************************)
(* Instances of four parts of ServerCore that share no state: a session's  *)
(* receive buffer, the send buffers cut from the global chunk pool, the    *)
(* memory pools every allocation goes to, and the lock-order profiler.  A  *)
(* behaviour exercises one of them.                                        *)
(***************************************************************************)
EXTENDS RecvBuffer, SendBufferPool, MemoryPools, LockProfiler, TLC

CONSTANTS la, lb, lc, ld

\* Packets of 1 to 3 bytes, so that they straddle receives and compactions in every way.
MCPacketEnds == <<3, 4, 7, 9, 12, 15, 16, 19>>

\* With a header of 32: two sizes of the 64 pool, the last of the 1056 pool, the first
\* past the last pool, and one that is not pooled.
MCRequests == {20, 32, 1024, 3841, 4065}

\* la and lb are locks of two objects of one class.
MCNameOf == [l \in {la, lb, lc, ld} |-> IF l = lb THEN la ELSE l]

\* Threads are Users and Chunks are Blocks here.
Symmetry == Permutations(Users) \cup Permutations(Blocks) \cup Permutations(Takers)

VARIABLE part

\* Three threads that nest two locks, or two at a time that nest three.
Nesting == CASE part = "wide" -> \A t \in Takers : Len(lockStack'[t]) <= 2
             [] part = "deep" -> Cardinality({t \in Takers : lockStack'[t] # <<>>}) <= 2

CoreInit == /\ part \in {"receive", "send", "memory", "wide", "deep"}
            /\ RecvInit /\ Init /\ PoolInit /\ ProfilerInit

CoreNext ==
    /\ \/ part = "receive" /\ RecvNext /\ UNCHANGED <<vars, poolVars, profilerVars>>
       \/ part = "send" /\ Next /\ UNCHANGED <<recvVars, poolVars, profilerVars>>
       \/ part = "memory" /\ PoolNext /\ UNCHANGED <<recvVars, vars, profilerVars>>
       \/ /\ part \in {"wide", "deep"} /\ ProfilerNext /\ Nesting
          /\ UNCHANGED <<recvVars, vars, poolVars>>
    /\ UNCHANGED part

CoreSpec == CoreInit /\ [][CoreNext]_<<part, recvVars, vars, poolVars, profilerVars>>
=============================================================================
