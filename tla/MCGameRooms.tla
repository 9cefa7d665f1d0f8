----------------------------- MODULE MCGameRooms -----------------------------
(***************************************************************************)
(* Instance of GameRooms: a world room, two generations of a dungeon, and  *)
(* either one player who changes maps twice or two who change once.        *)
(* Nowhere is on a map that does not exist: the world stands in for it.    *)
(***************************************************************************)
EXTENDS GameRooms

CONSTANTS s1, s2, Dungeon, Nowhere, w1, i1, i2

MCValidKey == [k \in Keys |-> IF k = Nowhere THEN World ELSE k]

MCKeyOf == [r \in {w1, i1, i2} |-> IF r = w1 THEN World ELSE Dungeon]

Wanderer == {[s \in {s1} |-> trip] :
                trip \in {<<Dungeon, World>>, <<Dungeon, Dungeon>>, <<Nowhere, Dungeon>>}}
Companions == {[s \in {s1, s2} |-> <<Dungeon>>]}

MCPlans == Wanderer \cup Companions
=============================================================================
