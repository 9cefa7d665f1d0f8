------------------------------ MODULE Presence ------------------------------
(***************************************************************************)
(* What the two-actor hand-over of the game server promises: a player is   *)
(* in one place at a time.  A player logs in to the lobby, is moved from   *)
(* the lobby to a room, goes back to the lobby for a map change, and may   *)
(* leave from either.                                                      *)
(***************************************************************************)
CONSTANTS Players,
          Rooms,
          Hall          \* owned by the lobby, or by an enter job on its way

VARIABLE where          \* the set of places each player is in

Init == where = [p \in Players |-> {}]

Move(p, from, to) == /\ where[p] = from
                     /\ where' = [where EXCEPT ![p] = to]

LogIn(p) == Move(p, {}, {Hall})
Enter(p, r) == Move(p, {Hall}, {r})
Refused(p) == Move(p, {Hall}, {})
Transfer(p, r) == Move(p, {r}, {Hall})
Leave(p, r) == Move(p, {r}, {})

Next == \E p \in Players :
            \/ LogIn(p) \/ Refused(p)
            \/ \E r \in Rooms : Enter(p, r) \/ Transfer(p, r) \/ Leave(p, r)

Spec == Init /\ [][Next]_where
=============================================================================
