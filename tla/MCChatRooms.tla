----------------------------- MODULE MCChatRooms -----------------------------
(***************************************************************************)
(* Instance of ChatRooms.  Sessions are small numbers, so that a session   *)
(* can stand for the id of the account it logs in with.                    *)
(***************************************************************************)
EXTENDS ChatRooms

MCSessions == 1..3

\* Three clients that follow the client's menu, in rooms for two.
CarefulCrowd == [present |-> MCSessions, ids |-> [s \in MCSessions |-> {s}],
                 careful |-> TRUE, capacity |-> 2, rooms |-> 1]

\* Two clients that send any request at any time, log in again, share an account
\* or have none, in rooms for one.
AnyCrowd == [present |-> {1, 2}, ids |-> [s \in MCSessions |-> {0, 1}],
             careful |-> FALSE, capacity |-> 1, rooms |-> 2]

MCCrowds == {CarefulCrowd, AnyCrowd}
=============================================================================
