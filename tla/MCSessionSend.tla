---------------------------- MODULE MCSessionSend ----------------------------
(* TLC instance of SessionSend: four buffers of 1, 1, 2 and 3 bytes against   *)
(* limits scaled down so that every cap and every batch limit is met.         *)
EXTENDS SessionSend, TLC

CONSTANTS t1, t2, t3, m1, m2, m3, m4

MCWriteSize == m1 :> 1 @@ m2 :> 1 @@ m3 :> 2 @@ m4 :> 3
=============================================================================
