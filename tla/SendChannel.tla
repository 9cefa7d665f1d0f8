----------------------------- MODULE SendChannel -----------------------------
(***************************************************************************)
(* What Session::Send promises its callers: the buffers it accepts leave   *)
(* on the wire in the order they were accepted, each at most once.  A      *)
(* buffer is lost only together with everything in front of it that is not *)
(* yet on the wire, never overtaken.                                       *)
(***************************************************************************)
EXTENDS Integers, Sequences

CONSTANT Msgs

VARIABLES pending,   \* accepted buffers that are not on the wire yet, oldest first
          wire       \* buffers handed to the kernel, oldest first

chanVars == <<pending, wire>>

ChanInit == pending = <<>> /\ wire = <<>>

Accept(m) == /\ pending' = Append(pending, m)
             /\ UNCHANGED wire

\* The first n pending buffers go out, in order.
Transmit(n) == /\ wire' = wire \o SubSeq(pending, 1, n)
               /\ pending' = SubSeq(pending, n + 1, Len(pending))

\* The connection fails under the first n pending buffers.
Lose(n) == /\ pending' = SubSeq(pending, n + 1, Len(pending))
           /\ UNCHANGED wire

ChanNext == \/ \E m \in Msgs : Accept(m)
            \/ \E n \in 1..Len(pending) : Transmit(n) \/ Lose(n)

ChanSpec == ChanInit /\ [][ChanNext]_chanVars
=============================================================================
