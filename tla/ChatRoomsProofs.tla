--------------------------- MODULE ChatRoomsProofs ---------------------------
(***************************************************************************)
(* Proofs about ChatRooms for any sessions, any crowds of clients and any  *)
(* bounds on logins and rooms.                                             *)
(*                                                                         *)
(* The handlers of one session run one after the other, so what a handler  *)
(* found in its first locked block still holds in its later ones as far as *)
(* only this session can change it (Handlers).  That a registered room is  *)
(* never abandoned rests on who registered it: until SetId has run, its    *)
(* creator is still on its way, and RemoveRoom by anybody else finds no    *)
(* key (Keyed).  That nobody misses a member rests on the announcement:    *)
(* StillTelling also holds in a chat broadcast, which tells nothing, so    *)
(* the inductive form (Told) looks at the announcing broadcast only.       *)
(***************************************************************************)
EXTENDS ChatRooms, FiniteSetTheorems, TLAPS

\* Players are numbered by the logins so far and keep the id the login gave them.
LoggedIn ==
    /\ crowd.careful => \A s \in Sessions : logins[s] <= 1
    /\ \A s \in Sessions : \A n \in 1..logins[s] : playerId[<<s, n>>] \in crowd.ids[s]
    /\ \A r \in Rooms, i \in Ids, s \in Sessions, n \in 1..MaxLogins :
          members[r][i] = <<s, n>> => n <= logins[s]

InHand == {"cSetId", "cEnter", "jEnter", "jList", "jNotify", "lEmpty", "lRemove", "lNotify"}

\* What a handler in the middle of a request may rely on.
Handler(s) ==
    /\ pc[s] \notin {"ready", "closed"} => HasPlayer(s)
    /\ pc[s] \in InHand => room[s] \in Rooms
    /\ crowd.careful /\ pc[s] \in {"cSetId", "cEnter", "jEnter"} => RoomOf(s) = NoRoom
    /\ crowd.careful /\ pc[s] \in {"jList", "jNotify"} => RoomOf(s) = room[s]

Handlers == \A s \in Sessions : Handler(s)

\* A registered room without its id yet has its creator at SetId.
Keyed == \A r \in registered :
            roomId[r] = 0 => \E s \in Sessions : room[s] = r /\ pc[s] = "cSetId"

\* The announcement of t's join will still reach s.
Announcing(t, s) == \/ pc[t] \in {"jList", "jNotify"}
                    \/ pc[t] = "bSend" /\ room[t] # NoRoom /\ Player(s) \in targets[t]

\* Both are in one room, and nothing is under way that will tell s of t.
Mates(s, t) == /\ s # t /\ joiner[s] = "joined" /\ joiner[t] # "no" /\ connected[s]
               /\ RoomOf(s) # NoRoom /\ RoomOf(s) = RoomOf(t)
               /\ pc[s] # "jList" /\ ~Announcing(t, s)

Told == /\ \A s \in Sessions : joiner[s] # "no" => crowd.careful
        /\ \A s, t \in Sessions : Mates(s, t) => Id(t) \in known[s]

Types == TypeOK /\ LoggedIn /\ Handlers
-----------------------------------------------------------------------------
(* The clients and their players *)

LEMMA CrowdFacts ==
  ASSUME TypeOK
  PROVE  /\ crowd.capacity \in Nat \ {0} /\ crowd.careful \in BOOLEAN
         /\ crowd.rooms \in Nat /\ crowd.rooms <= MaxRooms
         /\ \A s \in Sessions : crowd.ids[s] \subseteq Ids
         /\ Ids \subseteq Nat
         /\ MaxRooms \in Nat \ {0} /\ MaxLogins \in Nat \ {0}
<1>1. crowd \in Crowds /\ crowd \in [present : SUBSET Sessions, ids : [Sessions -> SUBSET Nat],
                                    careful : BOOLEAN, capacity : Nat \ {0},
                                    rooms : 1..MaxRooms]
  BY RoomsAssumption DEF TypeOK
<1>2. \A s \in Sessions : crowd.ids[s] \subseteq Ids
  BY <1>1 DEF Ids
<1>3. ASSUME NEW i \in Ids PROVE i \in Nat
  <2>1. PICK c \in Crowds, s \in Sessions : i \in c.ids[s]
    BY <1>3 DEF Ids
  <2>2. c.ids \in [Sessions -> SUBSET Nat]
    BY RoomsAssumption
  <2> QED
    BY <2>1, <2>2
<1> QED
  BY <1>1, <1>2, <1>3, RoomsAssumption

\* Careful clients have an account each.
LEMMA CarefulFacts ==
  ASSUME TypeOK, crowd.careful
  PROVE  /\ \A s \in Sessions : \A i, j \in crowd.ids[s] : i = j
         /\ \A s, t \in Sessions : \A i \in crowd.ids[s] : i \in crowd.ids[t] => s = t
<1>1. crowd \in Crowds
  BY DEF TypeOK
<1>2. \A s \in Sessions : \E i \in Nat \ {0} : crowd.ids[s] = {i}
  BY <1>1, RoomsAssumption
<1>3. \A s, t \in Sessions : crowd.ids[s] = crowd.ids[t] => s = t
  BY <1>1, RoomsAssumption
<1>4. \A s \in Sessions : \A i, j \in crowd.ids[s] : i = j
  BY <1>2
<1>5. ASSUME NEW s \in Sessions, NEW t \in Sessions,
             NEW i \in crowd.ids[s], i \in crowd.ids[t]
      PROVE  s = t
  <2>1. crowd.ids[s] = {i} /\ crowd.ids[t] = {i}
    BY <1>2, <1>5
  <2> QED
    BY <1>3, <2>1
<1> QED
  BY <1>4, <1>5

LEMMA PlayerFacts ==
  ASSUME Types, NEW s \in Sessions, HasPlayer(s)
  PROVE  /\ Player(s) \in Players /\ Player(s) # NoPlayer
         /\ Id(s) \in crowd.ids[s] /\ Id(s) \in Ids
         /\ logins[s] \in 1..MaxLogins /\ logins[s] \in 1..logins[s]
         /\ RoomOf(s) = roomOf[Player(s)] /\ RoomOf(s) \in Rooms \cup {NoRoom}
<1>1. TypeOK /\ MaxLogins \in Nat
  BY CrowdFacts DEF Types
<1>2. logins[s] \in 1..MaxLogins /\ logins[s] \in 1..logins[s]
  BY <1>1 DEF TypeOK, HasPlayer
<1>3. Player(s) \in Players
  BY <1>2 DEF Player, Players
<1>4. Player(s) # NoPlayer
  BY <1>2, RoomsAssumption DEF Player
<1>5. Id(s) \in crowd.ids[s]
  BY <1>2 DEF Types, LoggedIn, Id, Player
<1>6. roomOf[Player(s)] \in Rooms \cup {NoRoom}
  BY <1>1, <1>3 DEF TypeOK
<1> QED
  BY <1>1, <1>2, <1>3, <1>4, <1>5, <1>6, CrowdFacts DEF RoomOf

\* Who is inside a room is one of the players.
LEMMA InsideFacts ==
  ASSUME TypeOK, NEW r \in Rooms
  PROVE  /\ \A i : i \in Inside(r) <=> i \in Ids /\ members[r][i] # NoPlayer
         /\ \A i \in Inside(r) : members[r][i] \in Players
         /\ \A X : Snapshot(r, X) \subseteq Players
  BY DEF TypeOK, Inside, Snapshot

LEMMA ReturnFacts ==
  ASSUME TypeOK, NEW s \in Sessions, Return(s)
  PROVE  /\ pc' \in [Sessions -> Labels] /\ pc'[s] \in {"ready", "closed"}
         /\ \A t \in Sessions : t # s => pc'[t] = pc[t]
  BY DEF TypeOK, Return, Goto, Labels

LEMMA BroadcastFacts ==
  ASSUME TypeOK, NEW s \in Sessions, NEW P, P \subseteq Players, Broadcast(s, P)
  PROVE  /\ targets' = [targets EXCEPT ![s] = P] /\ targets' \in [Sessions -> SUBSET Players]
         /\ pc' \in [Sessions -> Labels]
         /\ P # {} => pc'[s] = "bSend"
         /\ P = {} => pc'[s] \in {"ready", "closed"}
         /\ \A t \in Sessions : t # s => pc'[t] = pc[t]
<1>1. targets' = [targets EXCEPT ![s] = P] /\ targets' \in [Sessions -> SUBSET Players]
  BY DEF TypeOK, Broadcast
<1>2. CASE P = {}
  BY <1>1, <1>2, ReturnFacts DEF Broadcast
<1>3. CASE P # {}
  BY <1>1, <1>3 DEF Broadcast, Goto, TypeOK, Labels
<1> QED
  BY <1>2, <1>3

\* Room::Enter and Room::Leave write one entry of the room and one player's _room.
LEMMA EnterTypes ==
  ASSUME Types, NEW s \in Sessions, HasPlayer(s), NEW r \in Rooms, Enter(s, r)
  PROVE  /\ members' \in [Rooms -> [Ids -> Players \cup {NoPlayer}]]
         /\ roomOf' \in [Players -> Rooms \cup {NoRoom}]
         /\ \A q \in Rooms, i \in Ids :
               members'[q][i] = IF q = r /\ i = Id(s) THEN Player(s) ELSE members[q][i]
         /\ \A p \in Players : roomOf'[p] = IF p = Player(s) THEN r ELSE roomOf[p]
  BY PlayerFacts DEF Types, TypeOK, Enter

LEMMA LeaveTypes ==
  ASSUME Types, NEW s \in Sessions, HasPlayer(s), NEW r \in Rooms, Leave(s, r)
  PROVE  /\ members' \in [Rooms -> [Ids -> Players \cup {NoPlayer}]]
         /\ roomOf' \in [Players -> Rooms \cup {NoRoom}]
         /\ \A q \in Rooms, i \in Ids :
               members'[q][i] = IF q = r /\ i = Id(s) THEN NoPlayer ELSE members[q][i]
         /\ \A p \in Players : roomOf'[p] = IF p = Player(s) THEN NoRoom ELSE roomOf[p]
  BY PlayerFacts DEF Types, TypeOK, Leave

\* One send of a broadcast's loop.
LEMMA SendFacts ==
  ASSUME Types, NEW s \in Sessions, SendNext(s)
  PROVE  /\ HasPlayer(s) /\ pc[s] = "bSend"
         /\ \E p \in Players :
              /\ p \in targets[s] /\ p[1] \in Sessions
              /\ targets' = [targets EXCEPT ![s] = targets[s] \ {p}]
              /\ \/ /\ room[s] # NoRoom /\ connected[p[1]] /\ joiner[p[1]] # "no"
                    /\ known' = [known EXCEPT ![p[1]] = known[p[1]] \cup {Id(s)}]
                 \/ /\ ~(room[s] # NoRoom /\ connected[p[1]] /\ joiner[p[1]] # "no")
                    /\ known' = known
              /\ \/ /\ targets[s] = {p} /\ Return(s) /\ room' = [room EXCEPT ![s] = NoRoom]
                 \/ /\ targets[s] # {p} /\ UNCHANGED <<pc, room>>
<1>1. HasPlayer(s) /\ pc[s] = "bSend"
  BY DEF Types, Handlers, Handler, SendNext
<1>2. targets[s] \subseteq Players /\ \A p \in Players : p[1] \in Sessions
  BY DEF Types, TypeOK, Players
<1>3. PICK p \in targets[s] :
         /\ targets' = [targets EXCEPT ![s] = @ \ {p}]
         /\ known' = IF room[s] # NoRoom /\ connected[p[1]] /\ joiner[p[1]] # "no"
                     THEN [known EXCEPT ![p[1]] = @ \cup {Id(s)}] ELSE known
         /\ IF targets[s] = {p}
            THEN Return(s) /\ room' = [room EXCEPT ![s] = NoRoom]
            ELSE UNCHANGED <<pc, room>>
  BY DEF SendNext
<1>4. p \in Players /\ p[1] \in Sessions
  BY <1>2
<1> QED
  BY <1>1, <1>3, <1>4

-----------------------------------------------------------------------------
(* Types *)

LEMMA NextTypeOK == Types /\ [Next]_vars => TypeOK'
<1> SUFFICES ASSUME Types, [Next]_vars PROVE TypeOK'
  OBVIOUS
<1>0. TypeOK
  BY DEF Types
<1>c. crowd' = crowd
  BY DEF Next, vars
<1> USE DEF playerVars, managerVars, history
<1>1. ASSUME NEW s \in Sessions, Login(s) PROVE TypeOK'
  <2>1. /\ logins[s] \in 0..MaxLogins /\ logins[s] < MaxLogins /\ MaxLogins \in Nat
    BY <1>0, <1>1, CrowdFacts DEF Login, TypeOK
  <2>2. logins' \in [Sessions -> 0..MaxLogins]
    <3>1. logins' = [logins EXCEPT ![s] = logins[s] + 1]
      BY <1>1 DEF Login
    <3>2. logins[s] + 1 \in 0..MaxLogins
      BY <2>1
    <3> QED
      BY <1>0, <3>1, <3>2 DEF TypeOK
  <2>3. playerId' \in [Players -> Ids \cup {0}]
    BY <1>0, <1>1, CrowdFacts DEF Login, TypeOK
  <2> QED
    BY <1>0, <1>1, <1>c, <2>2, <2>3 DEF Login, TypeOK
<1>2. ASSUME NEW s \in Sessions, CreateWithoutPlayer(s) PROVE TypeOK'
  BY <1>0, <1>2, <1>c DEF CreateWithoutPlayer, TypeOK
<1>3. ASSUME NEW s \in Sessions, AddRoom(s) PROVE TypeOK'
  <2>1. nextRoomId \in Nat /\ nextRoomId \in Rooms /\ nextRoomId + 1 \in 1..MaxRooms + 1
    BY <1>0, <1>3, CrowdFacts DEF AddRoom, TypeOK, Rooms
  <2>2. registered' \subseteq 1..nextRoomId' - 1
    <3>1. registered \subseteq 1..nextRoomId - 1
      BY <1>0 DEF TypeOK
    <3> QED
      BY <1>3, <2>1, <3>1 DEF AddRoom, Rooms
  <2>3. pc' \in [Sessions -> Labels] /\ room' \in [Sessions -> Rooms \cup {NoRoom}]
    BY <1>0, <1>3, <2>1 DEF AddRoom, TypeOK, Goto, Labels
  <2>4. nextRoomId' \in 1..MaxRooms + 1
    BY <1>3, <2>1 DEF AddRoom
  <2> QED
    BY <1>0, <1>3, <1>c, <2>2, <2>3, <2>4 DEF AddRoom, TypeOK
<1>4. ASSUME NEW s \in Sessions, SetId(s) PROVE TypeOK'
  <2>1. room[s] \in Rooms
    BY <1>4 DEF Types, Handlers, Handler, SetId, InHand
  <2>2. pc' \in [Sessions -> Labels]
    BY <1>0, <1>4 DEF SetId, TypeOK, Goto, Labels
  <2>3. roomId' \in [Rooms -> Rooms \cup {0}] /\ \A r \in Rooms : roomId'[r] \in {0, r}
    BY <1>0, <1>4, <2>1 DEF SetId, TypeOK
  <2> QED
    BY <1>0, <1>4, <1>c, <2>2, <2>3 DEF SetId, TypeOK
<1>5. ASSUME NEW s \in Sessions, CreateEnter(s) PROVE TypeOK'
  <2>1. room[s] \in Rooms /\ HasPlayer(s)
    BY <1>5 DEF Types, Handlers, Handler, CreateEnter, InHand
  <2>2. /\ members' \in [Rooms -> [Ids -> Players \cup {NoPlayer}]]
        /\ roomOf' \in [Players -> Rooms \cup {NoRoom}]
    <3>1. CASE Full(room[s])
      BY <1>0, <1>5, <3>1 DEF CreateEnter, TypeOK
    <3>2. CASE ~Full(room[s])
      <4>1. Enter(s, room[s])
        BY <1>5, <3>2 DEF CreateEnter
      <4> QED
        BY <2>1, <4>1, EnterTypes
    <3> QED
      BY <3>1, <3>2
  <2>3. Return(s)
    BY <1>5 DEF CreateEnter
  <2>4. pc' \in [Sessions -> Labels]
    BY <1>0, <2>3, ReturnFacts
  <2>5. /\ joiner' \in [Sessions -> {"no", "joined", "torn"}]
        /\ room' \in [Sessions -> Rooms \cup {NoRoom}]
    BY <1>0, <1>5 DEF CreateEnter, TypeOK
  <2> QED
    BY <1>0, <1>5, <1>c, <2>2, <2>4, <2>5 DEF CreateEnter, TypeOK
<1>6. ASSUME NEW s \in Sessions, NEW r \in Rooms, FindRoom(s, r) PROVE TypeOK'
  BY <1>0, <1>6, <1>c DEF FindRoom, TypeOK, Goto, Labels
<1>7. ASSUME NEW s \in Sessions, JoinEnter(s) PROVE TypeOK'
  <2>1. room[s] \in Rooms /\ HasPlayer(s)
    BY <1>7 DEF Types, Handlers, Handler, JoinEnter, InHand
  <2>2. CASE Full(room[s])
    <3>1. Return(s)
      BY <1>7, <2>2 DEF JoinEnter
    <3>2. pc' \in [Sessions -> Labels]
      BY <1>0, <3>1, ReturnFacts
    <3> QED
      BY <1>0, <1>7, <1>c, <2>2, <3>2 DEF JoinEnter, TypeOK
  <2>3. CASE ~Full(room[s])
    <3>1. Enter(s, room[s])
      BY <1>7, <2>3 DEF JoinEnter
    <3>2. /\ members' \in [Rooms -> [Ids -> Players \cup {NoPlayer}]]
          /\ roomOf' \in [Players -> Rooms \cup {NoRoom}]
      BY <2>1, <3>1, EnterTypes
    <3>3. pc' \in [Sessions -> Labels] /\ joiner' \in [Sessions -> {"no", "joined", "torn"}]
      BY <1>0, <1>7, <2>3 DEF JoinEnter, TypeOK, Goto, Labels
    <3> QED
      BY <1>0, <1>7, <1>c, <2>3, <3>2, <3>3 DEF JoinEnter, TypeOK
  <2> QED
    BY <2>2, <2>3
<1>8. ASSUME NEW s \in Sessions, JoinList(s) PROVE TypeOK'
  <2>1. known' \in [Sessions -> SUBSET Ids]
    BY <1>0, <1>8 DEF JoinList, TypeOK, Listed, Inside
  <2> QED
    BY <1>0, <1>8, <1>c, <2>1 DEF JoinList, TypeOK, Goto, Labels
<1>9. ASSUME NEW s \in Sessions, JoinListTorn(s) PROVE TypeOK'
  <2>1. joiner' \in [Sessions -> {"no", "joined", "torn"}]
    BY <1>0, <1>9 DEF JoinListTorn, TypeOK
  <2> QED
    BY <1>0, <1>9, <1>c, <2>1 DEF JoinListTorn, TypeOK, Goto, Labels
<1>10. ASSUME NEW s \in Sessions, JoinNotify(s) PROVE TypeOK'
  <2> DEFINE snapshot == Snapshot(room[s], {Id(s)})
  <2>1. room[s] \in Rooms /\ Broadcast(s, snapshot)
    BY <1>10 DEF Types, Handlers, Handler, JoinNotify, InHand
  <2>2. snapshot \subseteq Players
    BY <1>0, <2>1, InsideFacts
  <2>3. room' \in [Sessions -> Rooms \cup {NoRoom}]
    BY <1>0, <1>10 DEF JoinNotify, TypeOK
  <2> HIDE DEF snapshot
  <2>4. targets' \in [Sessions -> SUBSET Players] /\ pc' \in [Sessions -> Labels]
    BY <1>0, <2>1, <2>2, BroadcastFacts
  <2> QED
    BY <1>0, <1>10, <1>c, <2>3, <2>4 DEF JoinNotify, TypeOK
<1>11. ASSUME NEW s \in Sessions, LeaveRoom(s) PROVE TypeOK'
  <2>1. RoomOf(s) \in Rooms /\ HasPlayer(s) /\ Leave(s, RoomOf(s))
    BY <1>11, PlayerFacts DEF LeaveRoom, RoomOf
  <2>2. /\ members' \in [Rooms -> [Ids -> Players \cup {NoPlayer}]]
        /\ roomOf' \in [Players -> Rooms \cup {NoRoom}]
    BY <2>1, LeaveTypes
  <2>3. known' \in [Sessions -> SUBSET Ids] /\ joiner' \in [Sessions -> {"no", "joined", "torn"}]
    BY <1>0, <1>11 DEF LeaveRoom, TypeOK
  <2>4. pc' \in [Sessions -> Labels] /\ room' \in [Sessions -> Rooms \cup {NoRoom}]
    BY <1>0, <1>11, <2>1 DEF LeaveRoom, TypeOK, Goto, Labels
  <2> QED
    BY <1>0, <1>11, <1>c, <2>2, <2>3, <2>4 DEF LeaveRoom, TypeOK
<1>12. ASSUME NEW s \in Sessions, LeaveEmpty(s) PROVE TypeOK'
  BY <1>0, <1>12, <1>c DEF LeaveEmpty, TypeOK, Goto, Labels
<1>13. ASSUME NEW s \in Sessions, RemoveRoom(s) PROVE TypeOK'
  BY <1>0, <1>13, <1>c DEF RemoveRoom, TypeOK, Goto, Labels
<1>14. ASSUME NEW s \in Sessions, LeaveNotify(s) PROVE TypeOK'
  <2> DEFINE snapshot == Snapshot(room[s], {Id(s)})
  <2>1. room[s] \in Rooms /\ Broadcast(s, snapshot)
    BY <1>14 DEF Types, Handlers, Handler, LeaveNotify, InHand
  <2>2. snapshot \subseteq Players
    BY <1>0, <2>1, InsideFacts
  <2>3. room' \in [Sessions -> Rooms \cup {NoRoom}]
    BY <1>0, <1>14 DEF LeaveNotify, TypeOK
  <2> HIDE DEF snapshot
  <2>4. targets' \in [Sessions -> SUBSET Players] /\ pc' \in [Sessions -> Labels]
    BY <1>0, <2>1, <2>2, BroadcastFacts
  <2> QED
    BY <1>0, <1>14, <1>c, <2>3, <2>4 DEF LeaveNotify, TypeOK
<1>15. ASSUME NEW s \in Sessions, RoomChat(s) PROVE TypeOK'
  <2> DEFINE snapshot == Snapshot(RoomOf(s), {})
  <2>1. RoomOf(s) \in Rooms /\ Broadcast(s, snapshot)
    BY <1>15, PlayerFacts DEF RoomChat, RoomOf
  <2>2. snapshot \subseteq Players
    BY <1>0, <2>1, InsideFacts
  <2> HIDE DEF snapshot
  <2>4. targets' \in [Sessions -> SUBSET Players] /\ pc' \in [Sessions -> Labels]
    BY <1>0, <2>1, <2>2, BroadcastFacts
  <2> QED
    BY <1>0, <1>15, <1>c, <2>4 DEF RoomChat, TypeOK
<1>16. ASSUME NEW s \in Sessions, SendNext(s) PROVE TypeOK'
  <2>1. PICK p \in Players :
           /\ p \in targets[s] /\ p[1] \in Sessions
           /\ targets' = [targets EXCEPT ![s] = targets[s] \ {p}]
           /\ \/ known' = [known EXCEPT ![p[1]] = known[p[1]] \cup {Id(s)}]
              \/ known' = known
    BY <1>16, SendFacts
  <2>2. Id(s) \in Ids
    BY <1>16, SendFacts, PlayerFacts
  <2>4. targets' \in [Sessions -> SUBSET Players]
    BY <1>0, <2>1 DEF TypeOK
  <2>5. known' \in [Sessions -> SUBSET Ids]
    BY <1>0, <2>1, <2>2 DEF TypeOK
  <2>3. pc' \in [Sessions -> Labels] /\ room' \in [Sessions -> Rooms \cup {NoRoom}]
    BY <1>0, <1>16, ReturnFacts DEF SendNext, TypeOK
  <2> QED
    BY <1>0, <1>16, <1>c, <2>3, <2>4, <2>5 DEF SendNext, TypeOK
<1>17. ASSUME NEW s \in Sessions, Disconnect(s) PROVE TypeOK'
  <2>1. pc' \in [Sessions -> Labels]
    BY <1>0, <1>17 DEF Disconnect, TypeOK, Goto, Labels
  <2> QED
    BY <1>0, <1>17, <1>c, <2>1 DEF Disconnect, TypeOK
<1>18. CASE UNCHANGED vars
  BY <1>0, <1>18 DEF vars, TypeOK
<1> QED
  BY <1>1, <1>2, <1>3, <1>4, <1>5, <1>6, <1>7, <1>8, <1>9, <1>10, <1>11, <1>12,
     <1>13, <1>14, <1>15, <1>16, <1>17, <1>18 DEF Next, Request, Continue

-----------------------------------------------------------------------------
(* Whose state a handler writes *)

\* What other sessions' handlers rely on.
Same(t) == /\ pc'[t] = pc[t] /\ room'[t] = room[t] /\ targets'[t] = targets[t]
           /\ logins'[t] = logins[t] /\ joiner'[t] = joiner[t] /\ connected'[t] = connected[t]
           /\ roomOf'[Player(t)] = roomOf[Player(t)]
           /\ playerId'[Player(t)] = playerId[Player(t)]

LEMMA SameFacts ==
  ASSUME NEW t \in Sessions, Same(t)
  PROVE  /\ HasPlayer(t)' <=> HasPlayer(t)
         /\ Player(t)' = Player(t) /\ Id(t)' = Id(t) /\ RoomOf(t)' = RoomOf(t)
  BY DEF Same, HasPlayer, Player, Id, RoomOf

\* Two sessions' players are different objects.
LEMMA PlayersDiffer == \A s, t : s # t => \A n : Player(t) # <<s, n>> /\ Player(t) # Player(s)
  BY DEF Player

LEMMA OthersSame ==
  ASSUME Types, NEW s \in Sessions, Request(s) \/ Continue(s) \/ Disconnect(s),
         NEW t \in Sessions, t # s
  PROVE  Same(t)
<1>0. TypeOK
  BY DEF Types
<1>1. /\ targets \in [Sessions -> SUBSET Players] /\ logins \in [Sessions -> 0..MaxLogins]
      /\ playerId \in [Players -> Ids \cup {0}] /\ roomOf \in [Players -> Rooms \cup {NoRoom}]
      /\ joiner \in [Sessions -> {"no", "joined", "torn"}] /\ connected \in [Sessions -> BOOLEAN]
      /\ pc \in [Sessions -> Labels] /\ room \in [Sessions -> Rooms \cup {NoRoom}]
  BY <1>0 DEF TypeOK
<1>2. ASSUME NEW p, NEW v, roomOf' = [roomOf EXCEPT ![p] = v], p = Player(s)
      PROVE  roomOf'[Player(t)] = roomOf[Player(t)]
  BY <1>1, <1>2, PlayersDiffer
<1>3. ASSUME NEW p, NEW v, playerId' = [playerId EXCEPT ![p] = v], p # Player(t)
      PROVE  playerId'[Player(t)] = playerId[Player(t)]
  BY <1>1, <1>3
<1> USE DEF playerVars, managerVars, history
<1>4. CASE Login(s)
  <2>1. playerId'[Player(t)] = playerId[Player(t)]
    <3>1. <<s, logins[s] + 1>> # Player(t)
      BY PlayersDiffer
    <3> QED
      BY <1>4, <1>3, <3>1 DEF Login
  <2> QED
    BY <1>1, <1>4, <2>1 DEF Same, Login
<1>5. CASE CreateWithoutPlayer(s)
  BY <1>1, <1>5 DEF Same, CreateWithoutPlayer, Goto
<1>6. CASE AddRoom(s)
  BY <1>1, <1>6 DEF Same, AddRoom, Goto
<1>7. CASE SetId(s)
  BY <1>1, <1>7 DEF Same, SetId, Goto
<1>8. CASE CreateEnter(s)
  <2>1. roomOf'[Player(t)] = roomOf[Player(t)]
    BY <1>8, <1>2 DEF CreateEnter, Enter
  <2>2. pc'[t] = pc[t]
    BY <1>1, <1>8 DEF CreateEnter, Return, Goto
  <2> QED
    BY <1>1, <1>8, <2>1, <2>2 DEF Same, CreateEnter
<1>9. ASSUME NEW r \in Rooms, FindRoom(s, r) PROVE Same(t)
  BY <1>1, <1>9 DEF Same, FindRoom, Goto
<1>10. CASE JoinEnter(s)
  <2>1. roomOf'[Player(t)] = roomOf[Player(t)]
    BY <1>10, <1>2 DEF JoinEnter, Enter
  <2>2. pc'[t] = pc[t]
    BY <1>1, <1>10 DEF JoinEnter, Return, Goto
  <2> QED
    BY <1>1, <1>10, <2>1, <2>2 DEF Same, JoinEnter
<1>11. CASE JoinList(s)
  BY <1>1, <1>11 DEF Same, JoinList, Goto
<1>12. CASE JoinListTorn(s)
  BY <1>1, <1>12 DEF Same, JoinListTorn, Goto
<1>13. CASE JoinNotify(s)
  BY <1>1, <1>13 DEF Same, JoinNotify, Broadcast, Return, Goto
<1>14. CASE LeaveRoom(s)
  <2>1. roomOf'[Player(t)] = roomOf[Player(t)]
    BY <1>14, <1>2 DEF LeaveRoom, Leave
  <2> QED
    BY <1>1, <1>14, <2>1 DEF Same, LeaveRoom, Goto
<1>15. CASE LeaveEmpty(s)
  BY <1>1, <1>15 DEF Same, LeaveEmpty, Goto
<1>16. CASE RemoveRoom(s)
  BY <1>1, <1>16 DEF Same, RemoveRoom, Goto
<1>17. CASE LeaveNotify(s)
  BY <1>1, <1>17 DEF Same, LeaveNotify, Broadcast, Return, Goto
<1>18. CASE RoomChat(s)
  BY <1>1, <1>18 DEF Same, RoomChat, Broadcast, Return, Goto
<1>19. CASE SendNext(s)
  BY <1>1, <1>19 DEF Same, SendNext, Return, Goto
<1>20. CASE Disconnect(s)
  BY <1>1, <1>20 DEF Same, Disconnect, Goto
<1> QED
  BY <1>4, <1>5, <1>6, <1>7, <1>8, <1>9, <1>10, <1>11, <1>12,
     <1>13, <1>14, <1>15, <1>16, <1>17, <1>18, <1>19, <1>20 DEF Request, Continue

LEMMA NextLoggedIn == Types /\ [Next]_vars => LoggedIn'
<1> SUFFICES ASSUME Types, [Next]_vars PROVE LoggedIn'
  OBVIOUS
<1>0. TypeOK /\ LoggedIn /\ crowd' = crowd
  BY DEF Types, Next, vars
<1> USE DEF playerVars, managerVars, history
<1>1. ASSUME NEW s \in Sessions, Login(s) PROVE LoggedIn'
  <2>1. PICK id \in crowd.ids[s] : playerId' = [playerId EXCEPT ![<<s, logins[s] + 1>>] = id]
    BY <1>1 DEF Login
  <2>2. /\ logins[s] \in Nat /\ logins[s] + 1 \in 1..MaxLogins /\ MaxLogins \in Nat
        /\ crowd.careful => logins[s] < 1
    BY <1>0, <1>1, CrowdFacts DEF Login, TypeOK
  <2>3. \A t \in Sessions : logins[t] \in Nat
                           /\ logins'[t] = IF t = s THEN logins[s] + 1 ELSE logins[t]
    BY <1>0, <1>1, CrowdFacts DEF Login, TypeOK
  <2>4. \A t \in Sessions : crowd.careful => logins'[t] <= 1
    BY <1>0, <2>2, <2>3 DEF LoggedIn
  <2>5. ASSUME NEW t \in Sessions, NEW n \in 1..logins'[t]
        PROVE  playerId'[<<t, n>>] \in crowd.ids[t]
    <3>1. <<s, logins[s] + 1>> \in Players /\ playerId \in [Players -> Ids \cup {0}]
      BY <1>0, <2>2 DEF Players, TypeOK
    <3>2. CASE t = s /\ n = logins[s] + 1
      BY <2>1, <3>1, <3>2
    <3>3. CASE t # s \/ n # logins[s] + 1
      <4>1. n \in 1..logins[t] /\ <<t, n>> # <<s, logins[s] + 1>>
        BY <2>2, <2>3, <3>3
      <4>2. playerId[<<t, n>>] \in crowd.ids[t]
        BY <1>0, <4>1 DEF LoggedIn
      <4>3. <<t, n>> \in Players
        <5>1. logins[t] \in 0..MaxLogins
          BY <1>0 DEF TypeOK
        <5> QED
          BY <2>2, <4>1, <5>1 DEF Players
      <4> QED
        BY <2>1, <3>1, <4>1, <4>2, <4>3
    <3> QED
      BY <3>2, <3>3
  <2>6. \A r \in Rooms, i \in Ids, t \in Sessions, n \in 1..MaxLogins :
           members'[r][i] = <<t, n>> => n <= logins'[t]
    <3>1. members' = members
      BY <1>1 DEF Login
    <3> QED
      BY <1>0, <2>3, <3>1 DEF LoggedIn
  <2> QED
    BY <1>0, <2>4, <2>5, <2>6 DEF LoggedIn
<1>2. ASSUME NEW s \in Sessions, NEW r \in Rooms, HasPlayer(s), Enter(s, r),
             UNCHANGED <<logins, playerId>>
      PROVE  LoggedIn'
  <2>1. \A q \in Rooms, i \in Ids :
          members'[q][i] = IF q = r /\ i = Id(s) THEN Player(s) ELSE members[q][i]
    BY <1>2, EnterTypes
  <2>2. \A t \in Sessions, n \in 1..MaxLogins : Player(s) = <<t, n>> => n <= logins[t]
    BY <1>0, CrowdFacts DEF Player, TypeOK
  <2>3. ASSUME NEW q \in Rooms, NEW i \in Ids, NEW t \in Sessions, NEW n \in 1..MaxLogins,
               members'[q][i] = <<t, n>>
        PROVE  n <= logins[t]
    <3>1. CASE q = r /\ i = Id(s)
      BY <2>1, <2>2, <2>3, <3>1
    <3>2. CASE ~(q = r /\ i = Id(s))
      BY <1>0, <2>1, <2>3, <3>2 DEF LoggedIn
    <3> QED
      BY <3>1, <3>2
  <2> QED
    BY <1>0, <1>2, <2>3 DEF LoggedIn
<1>3. ASSUME NEW s \in Sessions, LeaveRoom(s) PROVE LoggedIn'
  <2>1. RoomOf(s) \in Rooms /\ HasPlayer(s) /\ Leave(s, RoomOf(s))
    BY <1>3, PlayerFacts DEF LeaveRoom, RoomOf
  <2>2. \A q \in Rooms, i \in Ids : members'[q][i] = members[q][i] \/ members'[q][i] = NoPlayer
    BY <2>1, LeaveTypes
  <2>3. \A t \in Sessions, n \in 1..MaxLogins : <<t, n>> # NoPlayer
    BY RoomsAssumption
  <2>4. UNCHANGED <<logins, playerId>>
    BY <1>3 DEF LeaveRoom
  <2> QED
    BY <1>0, <2>2, <2>3, <2>4 DEF LoggedIn
<1>4. ASSUME UNCHANGED <<logins, playerId, members>> PROVE LoggedIn'
  BY <1>0, <1>4 DEF LoggedIn
<1>5. ASSUME NEW s \in Sessions, CreateEnter(s) \/ JoinEnter(s) PROVE LoggedIn'
  <2>1. room[s] \in Rooms /\ HasPlayer(s)
    BY <1>5 DEF Types, Handlers, Handler, CreateEnter, JoinEnter, InHand
  <2>2. (Enter(s, room[s]) \/ UNCHANGED members) /\ UNCHANGED <<logins, playerId>>
    BY <1>5 DEF CreateEnter, JoinEnter
  <2> QED
    BY <1>2, <1>4, <2>1, <2>2
<1>6. ASSUME NEW s \in Sessions, Request(s) \/ Continue(s) \/ Disconnect(s),
             ~Login(s), ~LeaveRoom(s), ~CreateEnter(s), ~JoinEnter(s)
      PROVE  UNCHANGED <<logins, playerId, members>>
  BY <1>6 DEF Request, Continue, CreateWithoutPlayer, AddRoom, SetId, FindRoom, JoinList,
              JoinListTorn, JoinNotify, LeaveEmpty, RemoveRoom, LeaveNotify, RoomChat, SendNext,
              Disconnect
<1>7. CASE UNCHANGED vars
  BY <1>4, <1>7 DEF vars
<1> QED
  BY <1>1, <1>3, <1>4, <1>5, <1>6, <1>7 DEF Next

LEMMA NextHandlers == Types /\ [Next]_vars => Handlers'
<1> SUFFICES ASSUME Types, [Next]_vars PROVE Handlers'
  OBVIOUS
<1>0. TypeOK /\ crowd' = crowd /\ \A s \in Sessions : Handler(s)
  BY DEF Types, Handlers, Next, vars
<1>1. ASSUME NEW t \in Sessions, Same(t) PROVE Handler(t)'
  <2>1. Handler(t) /\ pc'[t] = pc[t] /\ room'[t] = room[t]
    BY <1>0, <1>1 DEF Same
  <2>2. (HasPlayer(t)' <=> HasPlayer(t)) /\ RoomOf(t)' = RoomOf(t)
    BY <1>1, SameFacts
  <2> QED
    BY <1>0, <2>1, <2>2 DEF Handler
<1>2. ASSUME NEW s \in Sessions, Request(s) \/ Continue(s) \/ Disconnect(s) PROVE Handler(s)'
  <2> USE DEF playerVars, managerVars, history
  <2>h. Handler(s)
    BY <1>0
  <2>a. CASE pc'[s] \in {"ready", "closed"}
    BY <2>a DEF Handler, InHand
  <2>b. ASSUME UNCHANGED <<logins, roomOf>>
        PROVE  (HasPlayer(s)' <=> HasPlayer(s)) /\ RoomOf(s)' = RoomOf(s)
    BY <2>b DEF HasPlayer, RoomOf, Player
  <2>1. CASE Login(s)
    <3>1. pc'[s] = "ready"
      BY <2>1 DEF Login
    <3> QED
      BY <2>a, <3>1
  <2>2. CASE CreateWithoutPlayer(s)
    BY <2>a, <2>2 DEF CreateWithoutPlayer
  <2>3. CASE AddRoom(s)
    <3>1. pc'[s] = "cSetId" /\ room'[s] = nextRoomId /\ nextRoomId \in Rooms /\ HasPlayer(s)
          /\ (crowd.careful => RoomOf(s) = NoRoom)
      BY <1>0, <2>3, CrowdFacts DEF AddRoom, Goto, MayEnter, TypeOK, Rooms
    <3> QED
      BY <1>0, <2>b, <2>3, <3>1 DEF Handler, AddRoom
  <2>4. CASE SetId(s)
    <3>1. pc'[s] = "cEnter" /\ pc[s] = "cSetId" /\ room' = room /\ UNCHANGED <<logins, roomOf>>
      BY <1>0, <2>4 DEF SetId, Goto, TypeOK
    <3> QED
      BY <1>0, <2>b, <2>h, <3>1 DEF Handler, InHand
  <2>5. CASE CreateEnter(s)
    BY <1>0, <2>a, <2>5, ReturnFacts DEF CreateEnter
  <2>6. ASSUME NEW r \in Rooms, FindRoom(s, r) PROVE Handler(s)'
    <3>1. pc'[s] = "jEnter" /\ room'[s] = r /\ HasPlayer(s) /\ UNCHANGED <<logins, roomOf>>
          /\ (crowd.careful => RoomOf(s) = NoRoom)
      BY <1>0, <2>6 DEF FindRoom, Goto, TypeOK, MayEnter
    <3> QED
      BY <1>0, <2>b, <3>1 DEF Handler
  <2>7. CASE JoinEnter(s)
    <3>1. CASE Full(room[s])
      BY <1>0, <2>a, <2>7, <3>1, ReturnFacts DEF JoinEnter
    <3>2. CASE ~Full(room[s])
      <4>1. /\ pc'[s] = "jList" /\ room' = room /\ room[s] \in Rooms /\ HasPlayer(s)
            /\ logins' = logins /\ Enter(s, room[s])
        BY <1>0, <2>7, <2>h, <3>2 DEF JoinEnter, Goto, TypeOK, Handler, InHand
      <4>2. roomOf'[Player(s)] = room[s]
        BY <4>1, EnterTypes, PlayerFacts
      <4>3. HasPlayer(s)' /\ RoomOf(s)' = room[s]
        BY <4>1, <4>2 DEF HasPlayer, RoomOf, Player
      <4> QED
        BY <1>0, <4>1, <4>3 DEF Handler
    <3> QED
      BY <3>1, <3>2
  <2>8. CASE JoinList(s) \/ JoinListTorn(s)
    <3>1. pc'[s] = "jNotify" /\ pc[s] = "jList" /\ room' = room /\ UNCHANGED <<logins, roomOf>>
      BY <1>0, <2>8 DEF JoinList, JoinListTorn, Goto, TypeOK
    <3> QED
      BY <1>0, <2>b, <2>h, <3>1 DEF Handler, InHand
  <2>9. ASSUME NEW P, Broadcast(s, P), UNCHANGED logins, HasPlayer(s) PROVE Handler(s)'
    <3>1. pc'[s] \in {"ready", "closed", "bSend"}
      BY <1>0, <2>9 DEF Broadcast, Return, Goto, TypeOK
    <3>2. HasPlayer(s)'
      BY <2>9 DEF HasPlayer
    <3> QED
      BY <3>1, <3>2 DEF Handler, InHand
  <2>10. CASE JoinNotify(s)
    BY <2>h, <2>9, <2>10 DEF JoinNotify, Handler
  <2>11. CASE LeaveRoom(s)
    <3>1. RoomOf(s) \in Rooms /\ HasPlayer(s)
      BY <2>11, PlayerFacts DEF LeaveRoom, RoomOf
    <3>2. pc'[s] = "lEmpty" /\ room'[s] = RoomOf(s) /\ HasPlayer(s)'
      BY <1>0, <2>11, <3>1 DEF LeaveRoom, Goto, TypeOK, HasPlayer
    <3> QED
      BY <3>1, <3>2 DEF Handler
  <2>12. CASE LeaveEmpty(s) \/ RemoveRoom(s)
    <3>1. pc'[s] \in {"lRemove", "lNotify"} /\ pc[s] \in {"lEmpty", "lRemove"}
          /\ room' = room /\ UNCHANGED <<logins, roomOf>>
      BY <1>0, <2>12 DEF LeaveEmpty, RemoveRoom, Goto, TypeOK
    <3> QED
      BY <1>0, <2>b, <2>h, <3>1 DEF Handler, InHand
  <2>13. CASE LeaveNotify(s)
    BY <2>h, <2>9, <2>13 DEF LeaveNotify, Handler
  <2>14. CASE RoomChat(s)
    BY <2>9, <2>14 DEF RoomChat, RoomOf
  <2>15. CASE SendNext(s)
    <3>1. pc'[s] \in {"ready", "closed"} \/ pc'[s] = "bSend"
      BY <1>0, <2>15, SendFacts, ReturnFacts
    <3>2. HasPlayer(s)'
      BY <2>15, SendFacts DEF SendNext, HasPlayer
    <3> QED
      BY <2>a, <3>1, <3>2 DEF Handler, InHand
  <2>16. CASE Disconnect(s)
    <3>1. (pc' = pc \/ pc'[s] = "closed") /\ UNCHANGED <<room, logins, roomOf>>
      BY <1>0, <2>16 DEF Disconnect, Goto, TypeOK
    <3> QED
      BY <1>0, <2>a, <2>b, <2>h, <3>1 DEF Handler
  <2> QED
    BY <1>2, <2>1, <2>2, <2>3, <2>4, <2>5, <2>6, <2>7, <2>8, <2>10, <2>11, <2>12,
       <2>13, <2>14, <2>15, <2>16 DEF Request, Continue
<1>3. CASE UNCHANGED vars
  BY <1>0, <1>3 DEF vars, Handlers, Handler, HasPlayer, RoomOf, Player
<1> QED
  BY <1>1, <1>2, <1>3, OthersSame DEF Handlers, Next

LEMMA InitTypes == Init => Types
<1> SUFFICES ASSUME Init PROVE Types
  OBVIOUS
<1>1. TypeOK
  <2>1. 0 \in 0..MaxLogins /\ 1 \in 1..MaxRooms + 1
    BY RoomsAssumption
  <2>2. pc \in [Sessions -> Labels]
    BY DEF Init, Labels
  <2>3. connected \in [Sessions -> BOOLEAN]
    BY DEF Init
  <2>4. members \in [Rooms -> [Ids -> Players \cup {NoPlayer}]]
    BY DEF Init
  <2> QED
    BY <2>1, <2>2, <2>3, <2>4 DEF Init, TypeOK
<1>2. LoggedIn
  BY RoomsAssumption DEF Init, LoggedIn
<1>3. Handlers
  BY DEF Init, Handlers, Handler, InHand
<1> QED
  BY <1>1, <1>2, <1>3 DEF Types

LEMMA TypesHold == Spec => []Types
<1>1. Types /\ [Next]_vars => Types'
  BY NextTypeOK, NextLoggedIn, NextHandlers DEF Types
<1> QED
  BY InitTypes, <1>1, PTL DEF Spec

\* Every map and every local of the packet handlers keeps its type, for any clients.
THEOREM RoomTypes == Spec => []TypeOK
<1>1. Types => TypeOK
  BY DEF Types
<1> QED
  BY TypesHold, <1>1, PTL

-----------------------------------------------------------------------------
(* No room is abandoned *)

Charge == Keyed /\ NoAbandonedRoom

ChargeLabels == {"cSetId", "cEnter", "lEmpty", "lRemove"}

\* A step of s that takes nobody out of charge and empties no room.
LEMMA ChargeKept ==
  ASSUME Charge, NEW s \in Sessions, \A t \in Sessions \ {s} : Same(t),
         pc[s] \notin ChargeLabels, UNCHANGED <<registered, roomId>>,
         \A r \in Rooms : Inside(r)' = {} => Inside(r) = {},
         registered \subseteq Rooms
  PROVE  Charge'
<1>1. ASSUME NEW r \in registered, roomId[r] = 0
      PROVE  \E u \in Sessions : room'[u] = r /\ pc'[u] = "cSetId"
  <2>1. PICK u \in Sessions : room[u] = r /\ pc[u] = "cSetId"
    BY <1>1 DEF Charge, Keyed
  <2> QED
    BY <2>1 DEF Same, ChargeLabels
<1>2. ASSUME NEW r \in registered, Inside(r)' = {}
      PROVE  \E u \in Sessions : InCharge(u, r)'
  <2>1. PICK u \in Sessions : InCharge(u, r)
    BY <1>2 DEF Charge, NoAbandonedRoom
  <2> QED
    BY <2>1 DEF InCharge, Same, ChargeLabels
<1> QED
  BY <1>1, <1>2 DEF Charge, Keyed, NoAbandonedRoom

LEMMA RegisteredFacts ==
  ASSUME TypeOK
  PROVE  registered \subseteq Rooms /\ 0 \notin registered /\ nextRoomId \notin registered
<1>1. registered \subseteq 1..nextRoomId - 1 /\ nextRoomId \in 1..MaxRooms + 1 /\ MaxRooms \in Nat
  BY CrowdFacts DEF TypeOK
<1>2. ASSUME NEW r \in registered PROVE r \in Rooms /\ r # 0 /\ r # nextRoomId
  BY <1>1 DEF Rooms
<1> QED
  BY <1>2

\* The member list grows by the player that enters.
LEMMA EnterInside ==
  ASSUME Types, NEW s \in Sessions, HasPlayer(s), NEW r \in Rooms, Enter(s, r)
  PROVE  /\ Inside(r)' = Inside(r) \cup {Id(s)}
         /\ \A q \in Rooms : q # r => Inside(q)' = Inside(q)
<1>1. \A q \in Rooms, i \in Ids :
        members'[q][i] = IF q = r /\ i = Id(s) THEN Player(s) ELSE members[q][i]
  BY EnterTypes
<1>2. Id(s) \in Ids /\ Player(s) # NoPlayer
  BY PlayerFacts
<1> QED
  BY <1>1, <1>2 DEF Inside

LEMMA LeaveInside ==
  ASSUME Types, NEW s \in Sessions, HasPlayer(s), NEW r \in Rooms, Leave(s, r)
  PROVE  /\ Inside(r)' = Inside(r) \ {Id(s)}
         /\ \A q \in Rooms : q # r => Inside(q)' = Inside(q)
<1>1. \A q \in Rooms, i \in Ids :
        members'[q][i] = IF q = r /\ i = Id(s) THEN NoPlayer ELSE members[q][i]
  BY LeaveTypes
<1>2. Id(s) \in Ids
  BY PlayerFacts
<1> QED
  BY <1>1, <1>2 DEF Inside

LEMMA NextCharge == Types /\ Charge /\ [Next]_vars => Charge'
<1> SUFFICES ASSUME Types, Charge, [Next]_vars PROVE Charge'
  OBVIOUS
<1>0. TypeOK /\ Handlers /\ registered \subseteq Rooms
  BY RegisteredFacts DEF Types
<1> USE DEF playerVars, managerVars, history
<1>1. ASSUME NEW s \in Sessions, Request(s) \/ Continue(s) \/ Disconnect(s) PROVE Charge'
  <2>0. \A t \in Sessions \ {s} : Same(t)
    BY <1>1, OthersSame
  <2>a. ASSUME pc[s] \notin ChargeLabels, UNCHANGED <<registered, roomId, members>> PROVE Charge'
    <3>1. \A r \in Rooms : Inside(r)' = Inside(r)
      BY <2>a DEF Inside
    <3> QED
      BY <1>0, <2>0, <2>a, <3>1, ChargeKept
  <2>b. ASSUME NEW r \in registered, r # room[s], roomId[r] = 0
        PROVE  \E u \in Sessions : room'[u] = r /\ pc'[u] = "cSetId"
    <3>1. PICK u \in Sessions : room[u] = r /\ pc[u] = "cSetId"
      BY <2>b DEF Charge, Keyed
    <3> QED
      BY <2>0, <2>b, <3>1 DEF Same
  <2>c. ASSUME NEW r \in registered, r # room[s], Inside(r) = {}
        PROVE  \E u \in Sessions : InCharge(u, r)'
    <3>1. PICK u \in Sessions : InCharge(u, r)
      BY <2>c DEF Charge, NoAbandonedRoom
    <3> QED
      BY <2>0, <2>c, <3>1 DEF InCharge, Same
  <2>1. CASE AddRoom(s)
    <3>1. /\ pc[s] = "ready" /\ pc'[s] = "cSetId" /\ room'[s] = nextRoomId
          /\ registered' = registered \cup {nextRoomId} /\ UNCHANGED <<roomId, members>>
      BY <1>0, <2>1 DEF AddRoom, Goto, TypeOK
    <3>2. ASSUME NEW r \in registered, roomId[r] = 0
          PROVE  \E u \in Sessions : room'[u] = r /\ pc'[u] = "cSetId"
      <4>1. PICK u \in Sessions : room[u] = r /\ pc[u] = "cSetId"
        BY <3>2 DEF Charge, Keyed
      <4> QED
        BY <2>0, <3>1, <4>1 DEF Same
    <3>3. ASSUME NEW r \in registered, Inside(r)' = {}
          PROVE  \E u \in Sessions : InCharge(u, r)'
      <4>1. PICK u \in Sessions : InCharge(u, r)
        BY <3>1, <3>3 DEF Charge, NoAbandonedRoom, Inside
      <4> QED
        BY <2>0, <3>1, <4>1 DEF InCharge, Same
    <3> QED
      BY <3>1, <3>2, <3>3 DEF Charge, Keyed, NoAbandonedRoom, InCharge
  <2>2. CASE SetId(s)
    <3>1. /\ pc[s] = "cSetId" /\ pc'[s] = "cEnter" /\ room' = room /\ room[s] \in Rooms
          /\ roomId' = [roomId EXCEPT ![room[s]] = room[s]] /\ UNCHANGED <<registered, members>>
      BY <1>0, <2>2 DEF SetId, Goto, TypeOK, Handlers, Handler, InHand
    <3>2. room[s] # 0 /\ roomId'[room[s]] = room[s]
          /\ \A r \in Rooms : r # room[s] => roomId'[r] = roomId[r]
      BY <1>0, <3>1 DEF TypeOK, Rooms
    <3>3. Keyed'
      BY <1>0, <2>b, <3>1, <3>2 DEF Keyed
    <3>4. NoAbandonedRoom'
      <4>1. ASSUME NEW r \in registered, Inside(r) = {} PROVE \E u \in Sessions : InCharge(u, r)'
        <5>1. CASE r = room[s]
          BY <3>1, <5>1 DEF InCharge
        <5> QED
          BY <2>c, <4>1, <5>1
      <4> QED
        BY <3>1, <4>1 DEF NoAbandonedRoom, Inside
    <3> QED
      BY <3>3, <3>4 DEF Charge
  <2>3. CASE CreateEnter(s)
    <3>1. /\ pc[s] = "cEnter" /\ room[s] \in Rooms /\ HasPlayer(s)
          /\ UNCHANGED <<registered, roomId>>
      BY <1>0, <2>3 DEF CreateEnter, Handlers, Handler, InHand
    <3>0. PICK e \in Rooms : e = room[s]
      BY <3>1
    <3>2. /\ Inside(e)' # {}
          /\ \A r \in Rooms : r # e => Inside(r)' = Inside(r)
      <4>1. CASE Full(e)
        <5>0. crowd.capacity \in Nat \ {0} /\ Cardinality({}) = 0
          BY <1>0, CrowdFacts, FS_EmptySet
        <5>1. Inside(e) # {}
          BY <4>1, <5>0 DEF Full
        <5> QED
          BY <2>3, <3>0, <4>1, <5>1 DEF CreateEnter, Inside
      <4>2. CASE ~Full(e)
        <5>1. Enter(s, e)
          BY <2>3, <3>0, <4>2 DEF CreateEnter
        <5> QED
          BY <3>1, <5>1, EnterInside
      <4> QED
        BY <4>1, <4>2
    <3>3. ASSUME NEW r \in registered, roomId[r] = 0
          PROVE  \E u \in Sessions : room'[u] = r /\ pc'[u] = "cSetId"
      <4>1. PICK u \in Sessions : room[u] = r /\ pc[u] = "cSetId"
        BY <3>3 DEF Charge, Keyed
      <4> QED
        BY <2>0, <3>1, <4>1 DEF Same
    <3>4. ASSUME NEW r \in registered, Inside(r)' = {}
          PROVE  \E u \in Sessions : InCharge(u, r)'
      BY <1>0, <2>c, <3>0, <3>2, <3>4
    <3> QED
      BY <3>1, <3>3, <3>4 DEF Charge, Keyed, NoAbandonedRoom
  <2>4. CASE JoinEnter(s)
    <3>1. /\ pc[s] = "jEnter" /\ room[s] \in Rooms /\ HasPlayer(s)
          /\ UNCHANGED <<registered, roomId>> /\ (members' = members \/ Enter(s, room[s]))
      BY <1>0, <2>4 DEF JoinEnter, Handlers, Handler, InHand
    <3>2. \A r \in Rooms : Inside(r)' = {} => Inside(r) = {}
      <4>1. CASE members' = members
        BY <4>1 DEF Inside
      <4>2. CASE Enter(s, room[s])
        BY <3>1, <4>2, EnterInside
      <4> QED
        BY <3>1, <4>1, <4>2
    <3> QED
      BY <1>0, <2>0, <3>1, <3>2, ChargeKept DEF ChargeLabels
  <2>5. CASE LeaveRoom(s)
    <3>1. RoomOf(s) \in Rooms /\ HasPlayer(s) /\ Leave(s, RoomOf(s))
      BY <2>5, PlayerFacts DEF LeaveRoom, RoomOf
    <3>2. /\ pc[s] = "ready" /\ pc'[s] = "lEmpty" /\ room'[s] = RoomOf(s)
          /\ UNCHANGED <<registered, roomId>>
      BY <1>0, <2>5, <3>1 DEF LeaveRoom, Goto, TypeOK
    <3>3. \A q \in Rooms : q # RoomOf(s) => Inside(q)' = Inside(q)
      BY <3>1, LeaveInside
    <3>4. ASSUME NEW r \in registered, roomId[r] = 0
          PROVE  \E u \in Sessions : room'[u] = r /\ pc'[u] = "cSetId"
      <4>1. PICK u \in Sessions : room[u] = r /\ pc[u] = "cSetId"
        BY <3>4 DEF Charge, Keyed
      <4> QED
        BY <2>0, <3>2, <4>1 DEF Same
    <3>5. ASSUME NEW r \in registered, Inside(r)' = {}
          PROVE  \E u \in Sessions : InCharge(u, r)'
      <4>1. CASE r = RoomOf(s)
        BY <3>2, <4>1 DEF InCharge
      <4>2. CASE r # RoomOf(s)
        <5>1. PICK u \in Sessions : InCharge(u, r)
          BY <1>0, <3>3, <3>5, <4>2 DEF Charge, NoAbandonedRoom
        <5> QED
          BY <2>0, <3>2, <5>1 DEF InCharge, Same
      <4> QED
        BY <4>1, <4>2
    <3> QED
      BY <3>2, <3>4, <3>5 DEF Charge, Keyed, NoAbandonedRoom
  <2>6. CASE LeaveEmpty(s)
    <3>1. /\ pc[s] = "lEmpty" /\ room' = room /\ UNCHANGED <<registered, roomId, members>>
          /\ pc'[s] = IF Inside(room[s]) = {} THEN "lRemove" ELSE "lNotify"
      BY <1>0, <2>6 DEF LeaveEmpty, SeenEmpty, Goto, TypeOK
    <3>2. ASSUME NEW r \in registered, roomId[r] = 0
          PROVE  \E u \in Sessions : room'[u] = r /\ pc'[u] = "cSetId"
      <4>1. PICK u \in Sessions : room[u] = r /\ pc[u] = "cSetId"
        BY <3>2 DEF Charge, Keyed
      <4> QED
        BY <2>0, <3>1, <4>1 DEF Same
    <3>3. ASSUME NEW r \in registered, Inside(r) = {}
          PROVE  \E u \in Sessions : InCharge(u, r)'
      <4>1. CASE r = room[s]
        BY <3>1, <3>3, <4>1 DEF InCharge
      <4> QED
        BY <2>c, <3>3, <4>1
    <3> QED
      BY <3>1, <3>2, <3>3 DEF Charge, Keyed, NoAbandonedRoom, Inside
  <2>7. CASE RemoveRoom(s)
    <3>1. /\ pc[s] = "lRemove" /\ room' = room /\ room[s] \in Rooms
          /\ UNCHANGED <<roomId, members>> /\ registered' = registered \ {roomId[room[s]]}
      BY <1>0, <2>7 DEF RemoveRoom, RemovedKey, Handlers, Handler, InHand
    <3>2. roomId[room[s]] \in {0, room[s]}
      BY <1>0, <3>1 DEF TypeOK
    <3>3. ASSUME NEW r \in registered, roomId[r] = 0
          PROVE  \E u \in Sessions : room'[u] = r /\ pc'[u] = "cSetId"
      <4>1. PICK u \in Sessions : room[u] = r /\ pc[u] = "cSetId"
        BY <3>3 DEF Charge, Keyed
      <4> QED
        BY <2>0, <3>1, <4>1 DEF Same
    <3>4. ASSUME NEW r \in registered', Inside(r) = {}
          PROVE  \E u \in Sessions : InCharge(u, r)'
      <4>1. CASE r = room[s]
        <5>1. r \in registered /\ roomId[r] = 0
          BY <3>1, <3>2, <3>4, <4>1
        <5> QED
          BY <3>3, <5>1 DEF InCharge
      <4> QED
        BY <2>c, <3>1, <3>4, <4>1
    <3> QED
      BY <3>1, <3>3, <3>4 DEF Charge, Keyed, NoAbandonedRoom, Inside
  <2>8. CASE \/ Login(s) \/ CreateWithoutPlayer(s) \/ \E r \in Rooms : FindRoom(s, r)
             \/ RoomChat(s) \/ JoinList(s) \/ JoinListTorn(s) \/ JoinNotify(s)
             \/ LeaveNotify(s) \/ SendNext(s)
    <3>1. pc[s] \notin ChargeLabels /\ UNCHANGED <<registered, roomId, members>>
      BY <2>8 DEF Login, CreateWithoutPlayer, FindRoom, RoomChat, JoinList, JoinListTorn,
                  JoinNotify, LeaveNotify, SendNext, ChargeLabels
    <3> QED
      BY <2>a, <3>1
  <2>9. CASE Disconnect(s)
    <3>1. /\ UNCHANGED <<registered, roomId, members, room>>
          /\ pc' = pc \/ pc[s] \notin ChargeLabels
      BY <2>9 DEF Disconnect, ChargeLabels
    <3>2. CASE pc' = pc
      BY <3>1, <3>2 DEF Charge, Keyed, NoAbandonedRoom, InCharge, Inside
    <3> QED
      BY <2>a, <3>1, <3>2
  <2> QED
    BY <1>1, <2>1, <2>2, <2>3, <2>4, <2>5, <2>6, <2>7, <2>8, <2>9 DEF Request, Continue
<1>2. CASE UNCHANGED vars
  BY <1>2 DEF vars, Charge, Keyed, NoAbandonedRoom, InCharge, Inside
<1> QED
  BY <1>1, <1>2 DEF Next

\* However joins, leaves and creations of a room interleave, and even when players
\* collide on an id, a registered room that is empty has a handler on its way to
\* enter it or to remove it: for any number of clients and rooms.
THEOREM RoomsNotAbandoned == Spec => []NoAbandonedRoom
<1>1. Init => Charge
  BY DEF Init, Charge, Keyed, NoAbandonedRoom
<1>2. Charge => NoAbandonedRoom
  BY DEF Charge
<1> QED
  BY TypesHold, <1>1, <1>2, NextCharge, PTL DEF Spec

-----------------------------------------------------------------------------
(* Player::_room and Room::_players *)

WithinLimit == \A r \in Rooms : /\ IsFiniteSet(Inside(r))
                                /\ Cardinality(Inside(r)) <= crowd.capacity
UnderOwnId == \A r \in Rooms : \A i \in Inside(r) : playerId[members[r][i]] = i
OneStory == crowd.careful =>
               \A r \in Rooms, p \in Players :
                  (\E i \in Ids : members[r][i] = p) <=> roomOf[p] = r

Mutual == WithinLimit /\ UnderOwnId /\ OneStory

\* A careful client's account is used by no other player.
LEMMA OnePlayer ==
  ASSUME Types, crowd.careful, NEW s \in Sessions, HasPlayer(s),
         NEW r \in Rooms, NEW i \in Inside(r), playerId[members[r][i]] = Id(s)
  PROVE  members[r][i] = Player(s)
<1>0. TypeOK /\ LoggedIn
  BY DEF Types
<1>1. members[r][i] \in Players /\ i \in Ids
  BY <1>0, InsideFacts
<1>2. PICK t \in Sessions, n \in 1..MaxLogins : members[r][i] = <<t, n>>
  BY <1>1 DEF Players
<1>3. n <= logins[t] /\ logins[t] <= 1 /\ logins[s] <= 1
  BY <1>0, <1>1, <1>2 DEF LoggedIn
<1>4. n = 1 /\ logins[s] = 1 /\ n \in 1..logins[t]
  BY <1>0, <1>3, CrowdFacts DEF TypeOK, HasPlayer
<1>5. playerId[<<t, n>>] \in crowd.ids[t]
  BY <1>0, <1>4 DEF LoggedIn
<1>6. Id(s) \in crowd.ids[s] /\ Id(s) \in crowd.ids[t]
  BY <1>2, <1>5, PlayerFacts
<1>7. s = t
  BY <1>0, <1>6, CarefulFacts
<1> QED
  BY <1>2, <1>4, <1>7 DEF Player

LEMMA EnterMutual ==
  ASSUME Types, Mutual, NEW s \in Sessions, HasPlayer(s), NEW r \in Rooms, ~Full(r), Enter(s, r),
         crowd.careful => RoomOf(s) = NoRoom, UNCHANGED <<crowd, logins, playerId>>
  PROVE  Mutual'
<1>0. TypeOK
  BY DEF Types
<1>1. /\ Inside(r)' = Inside(r) \cup {Id(s)}
      /\ \A q \in Rooms : q # r => Inside(q)' = Inside(q)
  BY EnterInside
<1>2. /\ \A q \in Rooms, i \in Ids :
            members'[q][i] = IF q = r /\ i = Id(s) THEN Player(s) ELSE members[q][i]
      /\ \A p \in Players : roomOf'[p] = IF p = Player(s) THEN r ELSE roomOf[p]
  BY EnterTypes
<1>3. /\ Player(s) \in Players /\ Id(s) \in Ids /\ RoomOf(s) = roomOf[Player(s)]
      /\ Player(s) # NoPlayer
  BY PlayerFacts
<1>4. WithinLimit'
  <2>1. IsFiniteSet(Inside(r) \cup {Id(s)})
        /\ Cardinality(Inside(r) \cup {Id(s)}) <= crowd.capacity
    <3>1. IsFiniteSet(Inside(r)) /\ crowd.capacity \in Nat /\ Cardinality(Inside(r)) \in Nat
          /\ Cardinality(Inside(r)) <= crowd.capacity
      BY <1>0, CrowdFacts, FS_CardinalityType DEF Mutual, WithinLimit
    <3>2. /\ IsFiniteSet(Inside(r) \cup {Id(s)})
          /\ Cardinality(Inside(r) \cup {Id(s)}) = Cardinality(Inside(r))
             \/ Cardinality(Inside(r) \cup {Id(s)}) = Cardinality(Inside(r)) + 1
      BY <3>1, FS_AddElement
    <3>3. Cardinality(Inside(r)) < crowd.capacity
      BY <3>1 DEF Full
    <3> QED
      BY <3>1, <3>2, <3>3
  <2>2. ASSUME NEW q \in Rooms
        PROVE  IsFiniteSet(Inside(q)') /\ Cardinality(Inside(q)') <= crowd.capacity
    <3>1. CASE q = r
      BY <1>1, <2>1, <3>1
    <3>2. CASE q # r
      BY <1>1, <3>2 DEF Mutual, WithinLimit
    <3> QED
      BY <3>1, <3>2
  <2> QED
    BY <2>2 DEF WithinLimit
<1>5. UnderOwnId'
  <2>1. ASSUME NEW q \in Rooms, NEW i \in Inside(q)'
        PROVE  playerId[members'[q][i]] = i
    <3>0. i \in Ids
      BY <2>1 DEF Inside
    <3>1. CASE q = r /\ i = Id(s)
      BY <1>2, <3>0, <3>1 DEF Id
    <3>2. CASE ~(q = r /\ i = Id(s))
      <4>1. i \in Inside(q) /\ members'[q][i] = members[q][i]
        BY <1>1, <1>2, <2>1, <3>0, <3>2
      <4> QED
        BY <4>1 DEF Mutual, UnderOwnId
    <3> QED
      BY <3>1, <3>2
  <2> QED
    BY <2>1 DEF UnderOwnId
<1>6. OneStory'
  <2> SUFFICES ASSUME crowd.careful, NEW q \in Rooms, NEW p \in Players
               PROVE  (\E i \in Ids : members'[q][i] = p) <=> roomOf'[p] = q
    BY DEF OneStory
  <2>0. /\ (\E i \in Ids : members[q][i] = p) <=> roomOf[p] = q
        /\ roomOf[Player(s)] = NoRoom /\ q # NoRoom
    BY <1>3 DEF Mutual, OneStory, Rooms, NoRoom
  <2>1. CASE p = Player(s)
    BY <1>2, <1>3, <2>0, <2>1
  <2>2. CASE p # Player(s)
    <3>1. ASSUME NEW i \in Ids, members[q][i] = p PROVE members'[q][i] = p
      <4>1. CASE q = r /\ i = Id(s)
        <5>1. i \in Inside(q)
          BY <3>1, RoomsAssumption DEF Inside, Players
        <5>2. playerId[members[q][i]] = Id(s)
          BY <4>1, <5>1 DEF Mutual, UnderOwnId
        <5> QED
          BY <2>2, <3>1, <5>1, <5>2, OnePlayer
      <4> QED
        BY <1>2, <3>1, <4>1
    <3>2. ASSUME NEW i \in Ids, members'[q][i] = p PROVE members[q][i] = p
      BY <1>2, <2>2, <3>2
    <3> QED
      BY <1>2, <2>0, <2>2, <3>1, <3>2
  <2> QED
    BY <2>1, <2>2
<1> QED
  BY <1>4, <1>5, <1>6 DEF Mutual

LEMMA LeaveMutual ==
  ASSUME Types, Mutual, NEW s \in Sessions, HasPlayer(s), NEW r \in Rooms, r = RoomOf(s),
         Leave(s, r), UNCHANGED <<crowd, logins, playerId>>
  PROVE  Mutual'
<1>0. TypeOK
  BY DEF Types
<1>1. /\ Inside(r)' = Inside(r) \ {Id(s)}
      /\ \A q \in Rooms : q # r => Inside(q)' = Inside(q)
  BY LeaveInside
<1>2. /\ \A q \in Rooms, i \in Ids :
            members'[q][i] = IF q = r /\ i = Id(s) THEN NoPlayer ELSE members[q][i]
      /\ \A p \in Players : roomOf'[p] = IF p = Player(s) THEN NoRoom ELSE roomOf[p]
  BY LeaveTypes
<1>3. /\ Player(s) \in Players /\ Id(s) \in Ids /\ RoomOf(s) = roomOf[Player(s)]
      /\ Player(s) # NoPlayer
  BY PlayerFacts
<1>4. WithinLimit'
  <2>1. ASSUME NEW q \in Rooms
        PROVE  IsFiniteSet(Inside(q)') /\ Cardinality(Inside(q)') <= crowd.capacity
    <3>1. /\ IsFiniteSet(Inside(q)) /\ Cardinality(Inside(q)) <= crowd.capacity
          /\ crowd.capacity \in Nat /\ Inside(q)' \subseteq Inside(q)
      BY <1>0, <1>1, CrowdFacts DEF Mutual, WithinLimit
    <3>2. /\ IsFiniteSet(Inside(q)') /\ Cardinality(Inside(q)') <= Cardinality(Inside(q))
          /\ Cardinality(Inside(q)') \in Nat /\ Cardinality(Inside(q)) \in Nat
      BY <3>1, FS_Subset, FS_CardinalityType
    <3> QED
      BY <3>1, <3>2
  <2> QED
    BY <2>1 DEF WithinLimit
<1>5. UnderOwnId'
  <2>1. ASSUME NEW q \in Rooms, NEW i \in Inside(q)'
        PROVE  playerId[members'[q][i]] = i
    <3>1. i \in Ids /\ i \in Inside(q) /\ ~(q = r /\ i = Id(s))
      BY <1>1, <2>1 DEF Inside
    <3> QED
      BY <1>2, <3>1 DEF Mutual, UnderOwnId
  <2> QED
    BY <2>1 DEF UnderOwnId
<1>6. OneStory'
  <2> SUFFICES ASSUME crowd.careful, NEW q \in Rooms, NEW p \in Players
               PROVE  (\E i \in Ids : members'[q][i] = p) <=> roomOf'[p] = q
    BY DEF OneStory
  <2>0. /\ (\E i \in Ids : members[q][i] = p) <=> roomOf[p] = q
        /\ q # NoRoom /\ p # NoPlayer
        /\ \A i \in Ids : members[q][i] = p => i \in Inside(q) /\ playerId[p] = i
    BY RoomsAssumption DEF Mutual, OneStory, UnderOwnId, Rooms, NoRoom, Inside, Players
  <2>1. CASE p = Player(s)
    <3>1. ASSUME NEW i \in Ids, members'[q][i] = p PROVE FALSE
      <4>1. members[q][i] = p /\ ~(q = r /\ i = Id(s))
        BY <1>2, <2>0, <3>1
      <4>2. q = r /\ playerId[p] = i
        BY <1>3, <2>0, <2>1, <4>1
      <4> QED
        BY <2>1, <4>1, <4>2 DEF Id
    <3> QED
      BY <1>2, <2>0, <2>1, <3>1
  <2>2. CASE p # Player(s)
    <3>1. members[r][Id(s)] = Player(s)
      <4>1. PICK i \in Ids : members[r][i] = Player(s)
        BY <1>3 DEF Mutual, OneStory
      <4>2. i \in Inside(r)
        BY <1>3, <4>1 DEF Inside
      <4>3. playerId[Player(s)] = i
        BY <4>1, <4>2 DEF Mutual, UnderOwnId
      <4> QED
        BY <4>1, <4>3 DEF Id
    <3>2. ASSUME NEW i \in Ids PROVE members'[q][i] = p <=> members[q][i] = p
      BY <1>2, <2>0, <2>2, <3>1
    <3> QED
      BY <1>2, <2>0, <2>2, <3>2
  <2> QED
    BY <2>1, <2>2
<1> QED
  BY <1>4, <1>5, <1>6 DEF Mutual

LEMMA NextMutual == Types /\ Mutual /\ [Next]_vars => Mutual'
<1> SUFFICES ASSUME Types, Mutual, [Next]_vars PROVE Mutual'
  OBVIOUS
<1>0. TypeOK /\ Handlers /\ LoggedIn /\ crowd' = crowd
  BY DEF Types, Next, vars
<1> USE DEF playerVars, managerVars, history
<1>1. ASSUME UNCHANGED <<crowd, playerId, roomOf, members>> PROVE Mutual'
  BY <1>1 DEF Mutual, WithinLimit, UnderOwnId, OneStory, Inside
<1>2. ASSUME NEW s \in Sessions, Login(s) PROVE Mutual'
  <2>1. PICK id \in crowd.ids[s] : playerId' = [playerId EXCEPT ![<<s, logins[s] + 1>>] = id]
    BY <1>2 DEF Login
  <2>2. UNCHANGED <<members, roomOf>>
    BY <1>2 DEF Login
  <2>3. ASSUME NEW r \in Rooms, NEW i \in Inside(r)
        PROVE  playerId'[members[r][i]] = playerId[members[r][i]]
    <3>1. members[r][i] \in Players /\ i \in Ids
      BY <1>0, <2>3, InsideFacts
    <3>2. PICK t \in Sessions, n \in 1..MaxLogins : members[r][i] = <<t, n>>
      BY <3>1 DEF Players
    <3>3. n <= logins[t] /\ logins[t] \in Int
      BY <1>0, <3>1, <3>2, CrowdFacts DEF LoggedIn, TypeOK
    <3>4. <<t, n>> # <<s, logins[s] + 1>>
      BY <3>3
    <3>5. playerId \in [Players -> Ids \cup {0}]
      BY <1>0 DEF TypeOK
    <3> QED
      BY <2>1, <3>1, <3>2, <3>4, <3>5
  <2>4. UnderOwnId'
    BY <2>2, <2>3 DEF Mutual, UnderOwnId, Inside
  <2> QED
    BY <1>0, <2>2, <2>4 DEF Mutual, WithinLimit, OneStory, Inside
<1>3. ASSUME NEW s \in Sessions, CreateEnter(s) \/ JoinEnter(s) PROVE Mutual'
  <2>1. /\ HasPlayer(s) /\ room[s] \in Rooms /\ UNCHANGED <<crowd, logins, playerId>>
        /\ crowd.careful => RoomOf(s) = NoRoom
    BY <1>0, <1>3 DEF CreateEnter, JoinEnter, Handlers, Handler, InHand
  <2>2. PICK e \in Rooms : e = room[s]
    BY <2>1
  <2>3. CASE Full(e)
    BY <1>0, <1>1, <1>3, <2>1, <2>2, <2>3 DEF CreateEnter, JoinEnter
  <2>4. CASE ~Full(e)
    <3>1. Enter(s, e)
      BY <1>3, <2>2, <2>4 DEF CreateEnter, JoinEnter
    <3> QED
      BY <2>1, <2>4, <3>1, EnterMutual
  <2> QED
    BY <2>3, <2>4
<1>4. ASSUME NEW s \in Sessions, LeaveRoom(s) PROVE Mutual'
  <2>1. RoomOf(s) \in Rooms /\ HasPlayer(s)
    BY <1>4, PlayerFacts DEF LeaveRoom, RoomOf
  <2>2. PICK e \in Rooms : e = RoomOf(s)
    BY <2>1
  <2>3. Leave(s, e) /\ UNCHANGED <<logins, playerId>>
    BY <1>4, <2>2 DEF LeaveRoom
  <2> QED
    BY <1>0, <2>1, <2>2, <2>3, LeaveMutual
<1>5. ASSUME NEW s \in Sessions, Request(s), ~Login(s), ~LeaveRoom(s) PROVE Mutual'
  BY <1>0, <1>1, <1>5 DEF Request, CreateWithoutPlayer, AddRoom, FindRoom, RoomChat
<1>6. ASSUME NEW s \in Sessions, Continue(s), ~CreateEnter(s), ~JoinEnter(s) PROVE Mutual'
  BY <1>0, <1>1, <1>6 DEF Continue, SetId, JoinList, JoinListTorn, JoinNotify, LeaveEmpty,
                          RemoveRoom, LeaveNotify, SendNext
<1>7. ASSUME NEW s \in Sessions, Disconnect(s) PROVE Mutual'
  BY <1>0, <1>1, <1>7 DEF Disconnect
<1>8. CASE UNCHANGED vars
  BY <1>1, <1>8 DEF vars
<1> QED
  BY <1>2, <1>3, <1>4, <1>5, <1>6, <1>7, <1>8 DEF Next

LEMMA MutualHolds == Spec => []Mutual
<1>1. Init => Mutual
  <2> SUFFICES ASSUME Init PROVE Mutual
    OBVIOUS
  <2>1. \A r \in Rooms : Inside(r) = {}
    BY DEF Init, Inside
  <2>2. crowd.capacity \in Nat
    BY InitTypes, CrowdFacts DEF Types
  <2>3. WithinLimit
    BY <2>1, <2>2, FS_EmptySet DEF WithinLimit
  <2>4. \A p \in Players : p # NoPlayer
    BY RoomsAssumption DEF Players
  <2>5. OneStory
    BY <2>4 DEF Init, OneStory, Rooms, NoRoom
  <2> QED
    BY <2>1, <2>3, <2>5 DEF Mutual, UnderOwnId
<1> QED
  BY TypesHold, <1>1, NextMutual, PTL DEF Spec

\* However handlers of different clients interleave, Player::_room and Room::_players
\* never contradict each other, no room passes its limit, and everybody in a room is
\* there under the id of its account.
THEOREM MembershipAlwaysMutual == Spec => []MembershipMutual
<1>1. Mutual => MembershipMutual
  BY DEF Mutual, WithinLimit, UnderOwnId, OneStory, MembershipMutual
<1> QED
  BY MutualHolds, <1>1, PTL

-----------------------------------------------------------------------------
(* Nobody misses a member *)

\* With careful clients a player in a room is in its map, under an id nobody else has.
LEMMA InItsRoom ==
  ASSUME Types, Mutual, crowd.careful, NEW s \in Sessions, RoomOf(s) # NoRoom
  PROVE  /\ HasPlayer(s) /\ RoomOf(s) \in Rooms
         /\ Id(s) \in Inside(RoomOf(s)) /\ members[RoomOf(s)][Id(s)] = Player(s)
<1>1. HasPlayer(s) /\ RoomOf(s) = roomOf[Player(s)] /\ RoomOf(s) \in Rooms
  BY PlayerFacts DEF RoomOf
<1>2. Player(s) \in Players /\ Player(s) # NoPlayer
  BY <1>1, PlayerFacts
<1>3. PICK i \in Ids : members[RoomOf(s)][i] = Player(s)
  BY <1>1, <1>2 DEF Mutual, OneStory
<1>4. i \in Inside(RoomOf(s))
  BY <1>2, <1>3 DEF Inside
<1>5. playerId[Player(s)] = i
  BY <1>1, <1>3, <1>4 DEF Mutual, UnderOwnId
<1> QED
  BY <1>1, <1>3, <1>4, <1>5 DEF Id

LEMMA IdsDiffer ==
  ASSUME Types, crowd.careful, NEW s \in Sessions, NEW t \in Sessions, s # t,
         HasPlayer(s), HasPlayer(t)
  PROVE  Id(s) # Id(t)
<1>1. Id(s) \in crowd.ids[s] /\ Id(t) \in crowd.ids[t]
  BY PlayerFacts
<1> QED
  BY <1>1, CarefulFacts DEF Types

\* A careful client's player starts outside any room.
LEMMA NewOutside ==
  ASSUME Types, Mutual, crowd.careful, NEW s \in Sessions, Login(s)
  PROVE  RoomOf(s)' = NoRoom
<1>0. TypeOK /\ LoggedIn
  BY DEF Types
<1>1. logins[s] = 0 /\ logins'[s] = 1 /\ roomOf' = roomOf /\ 1 \in 1..MaxLogins
  BY <1>0, CrowdFacts DEF Login, TypeOK
<1>2. <<s, 1>> \in Players
  BY <1>1 DEF Players
<1>3. ASSUME roomOf[<<s, 1>>] # NoRoom PROVE FALSE
  <2>1. roomOf[<<s, 1>>] \in Rooms
    BY <1>0, <1>2, <1>3 DEF TypeOK
  <2>2. PICK i \in Ids : members[roomOf[<<s, 1>>]][i] = <<s, 1>>
    BY <1>2, <2>1 DEF Mutual, OneStory
  <2>3. 1 <= logins[s]
    BY <1>0, <1>1, <2>1, <2>2 DEF LoggedIn
  <2> QED
    BY <1>1, <2>3
<1> QED
  BY <1>1, <1>3 DEF RoomOf, HasPlayer, Player

\* Only careful clients are told of members.
LEMMA NextCareful ==
  ASSUME Types, Told, Next, NEW s \in Sessions, joiner'[s] # "no"
  PROVE  crowd.careful
<1>1. \A t \in Sessions : joiner[t] # "no" => crowd.careful
  BY DEF Told
<1>2. joiner \in [Sessions -> {"no", "joined", "torn"}]
  BY DEF Types, TypeOK
<1>3. PICK u \in Sessions : Request(u) \/ Continue(u) \/ Disconnect(u)
  BY DEF Next
<1> USE DEF history
<1>4. CASE joiner' = joiner
  BY <1>1, <1>4
<1>5. CASE CreateEnter(u) \/ LeaveRoom(u) \/ JoinListTorn(u)
  BY <1>1, <1>2, <1>5 DEF CreateEnter, LeaveRoom, JoinListTorn
<1>6. CASE JoinEnter(u)
  BY <1>1, <1>2, <1>6 DEF JoinEnter
<1> QED
  BY <1>3, <1>4, <1>5, <1>6
     DEF Request, Continue, Login, CreateWithoutPlayer, AddRoom, FindRoom, RoomChat, SetId,
         JoinList, JoinNotify, LeaveEmpty, RemoveRoom, LeaveNotify, SendNext, Disconnect

LEMMA NextMates ==
  ASSUME Types, Types', Mutual, Told, NEW u \in Sessions, crowd' = crowd,
         Request(u) \/ Continue(u) \/ Disconnect(u),
         NEW s \in Sessions, NEW t \in Sessions, Mates(s, t)', crowd.careful
  PROVE  Id(t)' \in known'[s]
<1>0. TypeOK /\ Handlers
  BY DEF Types
<1>m. /\ s # t /\ joiner'[s] = "joined" /\ joiner'[t] # "no" /\ connected'[s]
      /\ RoomOf(s)' # NoRoom /\ RoomOf(s)' = RoomOf(t)'
      /\ pc'[s] # "jList" /\ ~Announcing(t, s)'
  BY DEF Mates
<1>t. /\ joiner \in [Sessions -> {"no", "joined", "torn"}] /\ connected \in [Sessions -> BOOLEAN]
      /\ pc \in [Sessions -> Labels] /\ room \in [Sessions -> Rooms \cup {NoRoom}]
      /\ targets \in [Sessions -> SUBSET Players] /\ known \in [Sessions -> SUBSET Ids]
  BY <1>0 DEF TypeOK
<1>o. /\ s # u => Same(s)
      /\ t # u => Same(t)
  BY OthersSame
<1>f. /\ pc'[t] \notin {"jList", "jNotify"}
      /\ ~(pc'[t] = "bSend" /\ room'[t] # NoRoom /\ Player(s)' \in targets'[t])
  BY <1>m DEF Announcing
<1> USE DEF playerVars, managerVars, history
\* Nothing this pair depends on has changed, and nothing was forgotten.
<1>a. ASSUME joiner'[s] = joiner[s], joiner'[t] = joiner[t], connected[s],
             RoomOf(s)' = RoomOf(s), RoomOf(t)' = RoomOf(t), Id(t)' = Id(t),
             pc[s] # "jList", ~Announcing(t, s), known[s] \subseteq known'[s]
      PROVE  Id(t)' \in known'[s]
  <2>1. Mates(s, t)
    BY <1>m, <1>a DEF Mates
  <2> QED
    BY <1>a, <2>1 DEF Told
<1>b. ASSUME s # u, t # u, known[s] \subseteq known'[s] PROVE Id(t)' \in known'[s]
  <2>1. /\ Player(s)' = Player(s) /\ Id(t)' = Id(t)
        /\ RoomOf(s)' = RoomOf(s) /\ RoomOf(t)' = RoomOf(t)
    BY <1>b, <1>o, SameFacts
  <2>2. Same(s) /\ Same(t)
    BY <1>b, <1>o
  <2>3. ~Announcing(t, s)
    BY <1>f, <2>1, <2>2 DEF Announcing, Same
  <2> QED
    BY <1>a, <1>b, <1>m, <2>1, <2>2, <2>3 DEF Same
<1>c. ASSUME UNCHANGED <<connected, logins, playerId, roomOf, joiner>>,
             u = s => pc[s] # "jList", u = t => ~Announcing(t, s), known[s] \subseteq known'[s]
      PROVE  Id(t)' \in known'[s]
  <2>1. /\ Player(s)' = Player(s) /\ Id(t)' = Id(t)
        /\ RoomOf(s)' = RoomOf(s) /\ RoomOf(t)' = RoomOf(t)
    BY <1>c DEF Player, Id, RoomOf, HasPlayer
  <2>2. pc[s] # "jList"
    BY <1>c, <1>m, <1>o DEF Same
  <2>3. ~Announcing(t, s)
    BY <1>c, <1>f, <1>o, <2>1 DEF Announcing, Same
  <2> QED
    BY <1>a, <1>c, <1>m, <2>1, <2>2, <2>3
\* The player stays outside any room.
<1>d. ASSUME RoomOf(u) = NoRoom, UNCHANGED <<logins, roomOf, known>> PROVE Id(t)' \in known'[s]
  <2>1. RoomOf(u)' = NoRoom
    BY <1>d DEF RoomOf, HasPlayer, Player
  <2>2. u # s /\ u # t
    BY <1>m, <2>1
  <2> QED
    BY <1>b, <1>d, <2>2
<1>1. CASE Login(u)
  <2>1. RoomOf(u)' = NoRoom /\ known' = known
    BY <1>1, NewOutside DEF Login
  <2>2. u # s /\ u # t
    BY <1>m, <2>1
  <2> QED
    BY <1>b, <2>1, <2>2
<1>2. CASE CreateWithoutPlayer(u)
  <2>1. RoomOf(u) = NoRoom
    BY <1>2 DEF CreateWithoutPlayer, RoomOf
  <2> QED
    BY <1>2, <1>d, <2>1 DEF CreateWithoutPlayer
<1>3. CASE AddRoom(u) \/ \E r \in Rooms : FindRoom(u, r)
  BY <1>3, <1>d DEF AddRoom, FindRoom, MayEnter
<1>4. CASE SetId(u)
  <2>1. RoomOf(u) = NoRoom
    BY <1>0, <1>4 DEF SetId, Handlers, Handler
  <2> QED
    BY <1>4, <1>d, <2>1 DEF SetId
<1>5. CASE CreateEnter(u)
  <2>1. joiner'[u] = "no" /\ known' = known
    BY <1>5, <1>t DEF CreateEnter
  <2>2. u # s /\ u # t
    BY <1>m, <2>1
  <2> QED
    BY <1>b, <2>1, <2>2
<1>6. CASE JoinEnter(u)
  <2>1. CASE Full(room[u])
    <3>1. RoomOf(u) = NoRoom
      BY <1>0, <1>6 DEF JoinEnter, Handlers, Handler
    <3> QED
      BY <1>6, <1>d, <2>1, <3>1 DEF JoinEnter
  <2>2. CASE ~Full(room[u])
    <3>1. pc'[u] = "jList" /\ known' = known
      BY <1>6, <1>t, <2>2 DEF JoinEnter, Goto
    <3>2. u # s /\ u # t
      BY <1>f, <1>m, <3>1
    <3> QED
      BY <1>b, <3>1, <3>2
  <2> QED
    BY <2>1, <2>2
<1>7. CASE JoinList(u)
  <2>1. /\ pc[u] = "jList" /\ pc'[u] = "jNotify"
        /\ UNCHANGED <<logins, playerId, roomOf, joiner>>
        /\ known' = [known EXCEPT ![u] = IF joiner[u] = "joined"
                                         THEN known[u] \cup Inside(room[u]) ELSE known[u]]
    BY <1>7, <1>t DEF JoinList, Listed, Goto
  <2>2. u # t
    BY <1>f, <2>1
  <2>3. CASE u = s
    <3>1. RoomOf(s) = room[s]
      BY <1>0, <2>1, <2>3 DEF Handlers, Handler
    <3>2. /\ RoomOf(t) # NoRoom /\ RoomOf(t) = RoomOf(s) /\ joiner[s] = "joined"
          /\ Id(t)' = Id(t)
      BY <1>m, <2>1 DEF RoomOf, HasPlayer, Player, Id
    <3>3. Id(t) \in Inside(RoomOf(t))
      BY <3>2, InItsRoom
    <3> QED
      BY <1>t, <2>1, <2>3, <3>1, <3>2, <3>3
  <2>4. CASE u # s
    BY <1>b, <1>t, <2>1, <2>2, <2>4
  <2> QED
    BY <2>3, <2>4
<1>8. CASE JoinListTorn(u)
  <2>1. pc'[u] = "jNotify" /\ joiner'[u] # "joined" /\ known' = known
    BY <1>8, <1>t DEF JoinListTorn, Goto
  <2>2. u # s /\ u # t
    BY <1>f, <1>m, <2>1
  <2> QED
    BY <1>b, <2>1, <2>2
<1>9. CASE JoinNotify(u)
  <2>0. /\ pc[u] = "jNotify" /\ room[u] \in Rooms /\ RoomOf(u) = room[u]
        /\ UNCHANGED <<connected, logins, playerId, roomOf, joiner, known, members>>
        /\ Broadcast(u, Snapshot(room[u], {Id(u)}))
        /\ room' = IF Snapshot(room[u], {Id(u)}) = {}
                   THEN [room EXCEPT ![u] = NoRoom] ELSE room
    BY <1>0, <1>9 DEF JoinNotify, Handlers, Handler, InHand
  <2>1. CASE u = t
    <3>1. RoomOf(s) # NoRoom /\ RoomOf(s) = room[u] /\ Player(s)' = Player(s)
      BY <1>m, <2>0, <2>1 DEF RoomOf, HasPlayer, Player
    <3>2. /\ HasPlayer(s) /\ HasPlayer(u)
          /\ Id(s) \in Inside(room[u]) /\ members[room[u]][Id(s)] = Player(s)
      BY <2>0, <3>1, InItsRoom DEF RoomOf
    <3>3. Id(s) # Id(u)
      BY <1>m, <2>1, <3>2, IdsDiffer
    <3>4. Player(s) \in Snapshot(room[u], {Id(u)})
      BY <3>2, <3>3 DEF Snapshot
    <3>5. pc'[u] = "bSend" /\ targets'[u] = Snapshot(room[u], {Id(u)}) /\ room'[u] = room[u]
      BY <1>t, <2>0, <3>4 DEF Broadcast, Goto
    <3>6. room'[t] # NoRoom
      BY <2>0, <2>1, <3>5 DEF Rooms, NoRoom
    <3> QED
      BY <1>f, <2>1, <3>1, <3>4, <3>5, <3>6
  <2>2. CASE u # t
    BY <1>c, <2>0, <2>2
  <2> QED
    BY <2>1, <2>2
<1>10. CASE LeaveRoom(u)
  <2>1. /\ joiner'[u] = "no" /\ known' = [v \in Sessions |-> IF v = u THEN {}
                                                           ELSE known[v] \ {Id(u)}]
    BY <1>10, <1>t DEF LeaveRoom
  <2>2. u # s /\ u # t
    BY <1>m, <2>1
  <2>3. HasPlayer(u) /\ HasPlayer(t) /\ Id(t)' = Id(t)
    <3>1. RoomOf(t)' = RoomOf(t) /\ Id(t)' = Id(t)
      BY <1>o, <2>2, SameFacts
    <3> QED
      BY <1>10, <1>m, <3>1 DEF LeaveRoom, RoomOf
  <2>4. Id(t) # Id(u)
    BY <2>2, <2>3, IdsDiffer
  <2>5. Id(t) \in known[s]
    <3>1. Same(s) /\ Same(t)
      BY <1>o, <2>2
    <3>2. /\ Player(s)' = Player(s) /\ RoomOf(s)' = RoomOf(s) /\ RoomOf(t)' = RoomOf(t)
      BY <3>1, SameFacts
    <3>3. Mates(s, t)
      BY <1>f, <1>m, <3>1, <3>2 DEF Mates, Same, Announcing
    <3> QED
      BY <3>3 DEF Told
  <2> QED
    BY <2>1, <2>2, <2>3, <2>4, <2>5
<1>11. CASE LeaveEmpty(u) \/ RemoveRoom(u) \/ LeaveNotify(u) \/ RoomChat(u)
  <2>1. /\ pc[u] \in {"lEmpty", "lRemove", "lNotify", "ready"}
        /\ UNCHANGED <<connected, logins, playerId, roomOf, joiner, known>>
    BY <1>11 DEF LeaveEmpty, RemoveRoom, LeaveNotify, RoomChat
  <2> QED
    BY <1>c, <2>1 DEF Announcing
<1>12. CASE SendNext(u)
  <2>1. PICK p \in Players :
           /\ p \in targets[u] /\ p[1] \in Sessions
           /\ targets' = [targets EXCEPT ![u] = targets[u] \ {p}]
           /\ \/ /\ room[u] # NoRoom /\ connected[p[1]] /\ joiner[p[1]] # "no"
                 /\ known' = [known EXCEPT ![p[1]] = known[p[1]] \cup {Id(u)}]
              \/ /\ ~(room[u] # NoRoom /\ connected[p[1]] /\ joiner[p[1]] # "no")
                 /\ known' = known
           /\ \/ /\ targets[u] = {p} /\ Return(u) /\ room' = [room EXCEPT ![u] = NoRoom]
              \/ /\ targets[u] # {p} /\ UNCHANGED <<pc, room>>
    BY <1>12, SendFacts
  <2>2. /\ pc[u] = "bSend" /\ UNCHANGED <<connected, logins, playerId, roomOf, joiner>>
    BY <1>12 DEF SendNext
  <2>3. known[s] \subseteq known'[s]
    BY <1>t, <2>1
  <2>4. CASE u = t /\ Announcing(t, s)
    <3>1. /\ room[t] # NoRoom /\ Player(s) \in targets[t] /\ Player(s)' = Player(s)
          /\ Id(t)' = Id(t) /\ connected[s] /\ joiner[s] # "no"
      BY <1>m, <2>2, <2>4 DEF Announcing, Player, Id
    <3>2. CASE p = Player(s)
      <4>1. p[1] = s
        BY <3>2 DEF Player
      <4> QED
        BY <1>t, <2>1, <2>4, <3>1, <4>1
    <3>3. CASE p # Player(s)
      <4>1. UNCHANGED <<pc, room>> /\ Player(s) \in targets'[t]
        BY <1>t, <2>1, <2>4, <3>1, <3>3
      <4> QED
        BY <1>f, <2>2, <2>4, <3>1, <4>1
    <3> QED
      BY <3>2, <3>3
  <2> QED
    BY <1>c, <2>2, <2>3, <2>4
<1>13. CASE Disconnect(u)
  <2>1. /\ connected' = [connected EXCEPT ![u] = FALSE] /\ known' = [known EXCEPT ![u] = {}]
        /\ UNCHANGED <<logins, playerId, roomOf, joiner, room, targets>>
        /\ pc' = pc \/ pc[u] = "ready"
    BY <1>13 DEF Disconnect
  <2>2. u # s /\ known[s] \subseteq known'[s]
    BY <1>m, <1>t, <2>1
  <2>3. CASE u = t
    <3>1. /\ Player(s)' = Player(s) /\ Id(t)' = Id(t)
          /\ RoomOf(s)' = RoomOf(s) /\ RoomOf(t)' = RoomOf(t)
      BY <2>1 DEF Player, Id, RoomOf, HasPlayer
    <3>2. ~Announcing(t, s)
      BY <1>f, <2>1, <2>3, <3>1 DEF Announcing
    <3>3. pc[s] # "jList" /\ connected[s]
      BY <1>m, <1>o, <2>2 DEF Same
    <3> QED
      BY <1>a, <2>1, <2>2, <3>1, <3>2, <3>3
  <2> QED
    BY <1>b, <2>2, <2>3
<1> QED
  BY <1>1, <1>2, <1>3, <1>4, <1>5, <1>6, <1>7, <1>8, <1>9, <1>10, <1>11, <1>12, <1>13
     DEF Request, Continue

LEMMA NextTold == Types /\ Mutual /\ Told /\ [Next]_vars => Told'
<1> SUFFICES ASSUME Types, Mutual, Told, [Next]_vars PROVE Told'
  OBVIOUS
<1>1. CASE Next
  <2>1. Types' /\ crowd' = crowd
    BY <1>1, NextTypeOK, NextLoggedIn, NextHandlers DEF Types, Next
  <2>2. ASSUME NEW s \in Sessions, joiner'[s] # "no" PROVE crowd.careful
    BY <1>1, <2>2, NextCareful
  <2>3. ASSUME NEW s \in Sessions, NEW t \in Sessions, Mates(s, t)'
        PROVE  Id(t)' \in known'[s]
    <3>1. crowd.careful
      BY <2>2, <2>3 DEF Mates
    <3>2. PICK u \in Sessions : Request(u) \/ Continue(u) \/ Disconnect(u)
      BY <1>1 DEF Next
    <3> QED
      BY <2>1, <2>3, <3>1, <3>2, NextMates
  <2> QED
    BY <2>1, <2>2, <2>3 DEF Told
<1>2. CASE UNCHANGED vars
  BY <1>2 DEF vars, Told, Mates, Announcing, RoomOf, HasPlayer, Player, Id
<1> QED
  BY <1>1, <1>2

\* Two clients that joined the same room know of each other once their handlers are
\* done, however the two joins, the announcements, and other clients' comings and goings
\* interleave, unless a walk of the member list was disturbed.
THEOREM NobodyMissed == Spec => []NoMissedMember
<1>1. Init => Told
  BY DEF Init, Told, Mates
<1>2. Told => NoMissedMember
  BY DEF Told, Mates, Announcing, NoMissedMember, StillTelling
<1> QED
  BY TypesHold, MutualHolds, <1>1, <1>2, NextTold, PTL DEF Spec
=============================================================================
