------------------------------ MODULE ChatRooms ------------------------------
(***************************************************************************)
(* Players and rooms of the ChatServer: the packet handlers of             *)
(* ClientPacketHandler.cpp over Room and RoomManager.                      *)
(*                                                                         *)
(* A session posts its next WSARecv after OnRecvPacket has returned, so    *)
(* the handlers of one session run one after the other; those of different *)
(* sessions run on different workers at the same time.  RoomManager and    *)
(* every Room have a lock of their own (ReentrantRWLock), never held       *)
(* together, so a locked block is one step and what a handler does between *)
(* two blocks is interleaved with everybody else.                          *)
(*                                                                         *)
(* A room object is named by the id AddRoom gave it, a Player object by    *)
(* its session and the number of the login that made it.  Players keep     *)
(* their session and rooms their players alive (shared_ptr), so no object  *)
(* in a handler's hand is ever gone.  Whether Session::Send really puts a  *)
(* packet on the wire is SessionSend's subject.                            *)
(***************************************************************************)
EXTENDS Integers, Sequences, FiniteSets

CONSTANTS Sessions,
          Crowds,       \* the clients a run may have; a crowd c is a record with
                        \*   c.present   the sessions that are there,
                        \*   c.ids       the ids Handle_C_LOGIN_REQ can give each
                        \*     session's player: the account's, or 0 when the
                        \*     query finds nothing,
                        \*   c.careful   clients have accounts of their own, log
                        \*     in once and ask to enter a room only from outside
                        \*     any room, the only way DummyClient's menu offers,
                        \*   c.capacity  the room limit, 100 in Room::Enter,
                        \*   c.rooms     bound: rooms this crowd creates
          NoPlayer,     \* no Player under this key
          MaxLogins,    \* bound: logins of one session
          MaxRooms      \* bound: rooms ever created

ASSUME RoomsAssumption ==
    /\ IsFiniteSet(Sessions)
    /\ Crowds \subseteq [present : SUBSET Sessions, ids : [Sessions -> SUBSET Nat],
                         careful : BOOLEAN, capacity : Nat \ {0},
                         rooms : 1..MaxRooms]
    /\ \A c \in Crowds : c.careful =>
          /\ \A s \in Sessions : 0 \notin c.ids[s] /\ \E i \in c.ids[s] : c.ids[s] = {i}
          /\ \A s, t \in Sessions : c.ids[s] = c.ids[t] => s = t
    /\ NoPlayer \notin Sessions \X Nat
    /\ MaxLogins \in Nat \ {0} /\ MaxRooms \in Nat \ {0}

Ids == UNION {c.ids[s] : c \in Crowds, s \in Sessions}
Players == Sessions \X (1..MaxLogins)
Rooms == 1..MaxRooms
NoRoom == 0

VARIABLES crowd,        \* the clients of this run (never changes)
          connected,    \* the session's _connected
          logins,       \* logins so far; the last one made the session's _player
          playerId,     \* Player::playerId
          roomOf,       \* Player::_room
          nextRoomId,   \* RoomManager::_nextRoomId
          registered,   \* keys of RoomManager::_rooms
          roomId,       \* Room::_roomId
          members,      \* Room::_players, a map from id to Player
          pc,           \* where each session's handler is
          room,         \* the RoomRef in the handler's hand
          targets,      \* a broadcast's snapshot, less the sends done
          known,        \* history: room mates a client in a room was told of
          joiner,       \* history: "joined" the room it is in, "torn" if its walk
                        \*   of the member list was disturbed, or "no"
          crashed       \* a bad pointer was dereferenced

playerVars == <<logins, playerId>>
managerVars == <<nextRoomId, registered>>
history == <<known, joiner>>
vars == <<crowd, connected, logins, playerId, roomOf, nextRoomId, registered, roomId,
          members, pc, room, targets, known, joiner, crashed>>

Labels == {"ready",     \* between two packets
           "closed",    \* out of OnRecv for good
           "cSetId",    \* CREATE_ROOM: room added, about to call SetId
           "cEnter",    \* CREATE_ROOM: about to enter
           "jEnter",    \* JOIN_ROOM: room found, about to enter
           "jList",     \* JOIN_ROOM: reading the member list for the response
           "jNotify",   \* JOIN_ROOM: about to announce the player
           "lEmpty",    \* LEAVE_ROOM: left, about to test for an empty room
           "lRemove",   \* LEAVE_ROOM: about to call RemoveRoom
           "lNotify",   \* LEAVE_ROOM: about to announce it
           "bSend"}     \* in the send loop of a broadcast

HasPlayer(s) == logins[s] > 0
Player(s) == <<s, logins[s]>>
Id(s) == playerId[Player(s)]
RoomOf(s) == IF HasPlayer(s) THEN roomOf[Player(s)] ELSE NoRoom
Inside(r) == {i \in Ids : members[r][i] # NoPlayer}

Goto(s, label) == pc' = [pc EXCEPT ![s] = label]
\* A handler returns to the loop of OnRecv, which a closed session leaves when
\* its receive buffer holds no further packet.
Return(s) == Goto(s, "ready") \/ (~connected[s] /\ Goto(s, "closed"))

Init == /\ crowd \in Crowds
        /\ connected = [s \in Sessions |-> s \in crowd.present]
        /\ logins = [s \in Sessions |-> 0]
        /\ playerId = [p \in Players |-> 0]
        /\ roomOf = [p \in Players |-> NoRoom]
        /\ nextRoomId = 1 /\ registered = {}
        /\ roomId = [r \in Rooms |-> 0]
        /\ members = [r \in Rooms |-> [i \in Ids |-> NoPlayer]]
        /\ pc = [s \in Sessions |-> IF s \in crowd.present THEN "ready" ELSE "closed"]
        /\ room = [s \in Sessions |-> NoRoom]
        /\ targets = [s \in Sessions |-> {}]
        /\ known = [s \in Sessions |-> {}]
        /\ joiner = [s \in Sessions |-> "no"]
        /\ crashed = FALSE

-----------------------------------------------------------------------------
(* Room *)

Full(r) == Cardinality(Inside(r)) >= crowd.capacity

\* Room::Enter, for a room that is not full.
Enter(s, r) == /\ members' = [members EXCEPT ![r][Id(s)] = Player(s)]
               /\ roomOf' = [roomOf EXCEPT ![Player(s)] = r]

\* Room::Leave.
Leave_KeepsRoom(s, r) == /\ members' = [members EXCEPT ![r][Id(s)] = NoPlayer]
                         /\ UNCHANGED roomOf
Leave(s, r) == /\ members' = [members EXCEPT ![r][Id(s)] = NoPlayer]
               /\ roomOf' = [roomOf EXCEPT ![Player(s)] = NoRoom]

\* The snapshot Broadcast and BroadcastWithoutSelf take under the read lock.
Snapshot(r, excluded) == {members[r][i] : i \in Inside(r) \ excluded}

\* Start the send loop for a snapshot, or return at once from an empty one.
Broadcast(s, snapshot) ==
    /\ targets' = [targets EXCEPT ![s] = snapshot]
    /\ IF snapshot = {} THEN Return(s) ELSE Goto(s, "bSend")

-----------------------------------------------------------------------------
(* Handle_C_LOGIN_REQ.  Without a DB connection nothing changes; otherwise *)
(* playerId is never -1 and a Player is attached, whatever the query said. *)

Login(s) ==
    /\ pc[s] = "ready"
    /\ logins[s] < IF crowd.careful THEN 1 ELSE MaxLogins
    /\ logins' = [logins EXCEPT ![s] = @ + 1]
    /\ \E id \in crowd.ids[s] :
          playerId' = [playerId EXCEPT ![<<s, logins[s] + 1>>] = id]
    /\ UNCHANGED <<connected, roomOf, managerVars, roomId, members, pc, room,
                   targets, history, crashed>>

-----------------------------------------------------------------------------
(* Handle_C_CREATE_ROOM_REQ *)

MayEnter(s) == crowd.careful => RoomOf(s) = NoRoom

\* The request log reads player->playerId before the test for a null player.
CreateWithoutPlayer(s) ==
    /\ pc[s] = "ready" /\ ~HasPlayer(s) /\ ~crowd.careful
    /\ crashed' = TRUE
    /\ UNCHANGED <<connected, playerVars, roomOf, managerVars, roomId, members,
                   pc, room, targets, history>>

AddRoom(s) ==
    /\ pc[s] = "ready" /\ HasPlayer(s) /\ MayEnter(s)
    /\ nextRoomId <= crowd.rooms
    /\ registered' = registered \cup {nextRoomId}
    /\ nextRoomId' = nextRoomId + 1
    /\ room' = [room EXCEPT ![s] = nextRoomId]
    /\ Goto(s, "cSetId")
    /\ UNCHANGED <<connected, playerVars, roomOf, roomId, members, targets,
                   history, crashed>>

SetId(s) ==
    /\ pc[s] = "cSetId"
    /\ roomId' = [roomId EXCEPT ![room[s]] = room[s]]
    /\ Goto(s, "cEnter")
    /\ UNCHANGED <<connected, playerVars, roomOf, managerVars, members, room,
                   targets, history, crashed>>

\* The result of Enter is not looked at.
CreateEnter(s) ==
    /\ pc[s] = "cEnter"
    /\ IF Full(room[s]) THEN UNCHANGED <<members, roomOf>>
                        ELSE Enter(s, room[s])
    /\ joiner' = [joiner EXCEPT ![s] = "no"]
    /\ room' = [room EXCEPT ![s] = NoRoom]
    /\ Return(s)
    /\ UNCHANGED <<connected, playerVars, managerVars, roomId, targets,
                   known, crashed>>

-----------------------------------------------------------------------------
(* Handle_C_JOIN_ROOM_REQ; a request for an unknown room, or without a     *)
(* player, changes nothing.                                                *)

FindRoom(s, r) ==
    /\ pc[s] = "ready" /\ HasPlayer(s) /\ MayEnter(s)
    /\ r \in registered
    /\ room' = [room EXCEPT ![s] = r]
    /\ Goto(s, "jEnter")
    /\ UNCHANGED <<connected, playerVars, roomOf, managerVars, roomId, members,
                   targets, history, crashed>>

JoinEnter(s) ==
    /\ pc[s] = "jEnter"
    /\ IF Full(room[s])
       THEN /\ Return(s)
            /\ room' = [room EXCEPT ![s] = NoRoom]
            /\ UNCHANGED <<members, roomOf, joiner>>
       ELSE /\ Enter(s, room[s])
            /\ joiner' = [joiner EXCEPT ![s] = IF crowd.careful THEN "joined" ELSE "no"]
            /\ Goto(s, "jList")
            /\ UNCHANGED room
    /\ UNCHANGED <<connected, playerVars, managerVars, roomId, targets, known,
                   crashed>>

Listed_SelfOnly(s) == {Id(s)}
Listed(s) == Inside(room[s])

\* The member list is read from GetPlayers(), without the room's lock; then the
\* response is sent.
JoinList(s) ==
    /\ pc[s] = "jList"
    /\ known' = [known EXCEPT ![s] = IF joiner[s] = "joined" THEN @ \cup Listed(s) ELSE @]
    /\ Goto(s, "jNotify")
    /\ UNCHANGED <<connected, playerVars, roomOf, managerVars, roomId, members,
                   room, targets, joiner, crashed>>

\* The walk overlaps an insertion or erasure by another handler, which is
\* undefined: it may skip members or follow a dead pointer.
Overlapped(s) == \E t \in Sessions \ {s} :
    \/ pc[t] \in {"cEnter", "jEnter"} /\ room[t] = room[s]
    \/ pc[t] = "ready" /\ RoomOf(t) = room[s]

JoinListTorn(s) ==
    /\ pc[s] = "jList" /\ Overlapped(s)
    /\ joiner' = [joiner EXCEPT ![s] = IF @ = "joined" THEN "torn" ELSE @]
    /\ crashed' \in BOOLEAN
    /\ Goto(s, "jNotify")
    /\ UNCHANGED <<connected, playerVars, roomOf, managerVars, roomId, members,
                   room, targets, known>>

JoinNotify(s) ==
    /\ pc[s] = "jNotify"
    /\ LET snapshot == Snapshot(room[s], {Id(s)}) IN
          /\ Broadcast(s, snapshot)
          /\ room' = IF snapshot = {} THEN [room EXCEPT ![s] = NoRoom] ELSE room
    /\ UNCHANGED <<connected, playerVars, roomOf, managerVars, roomId, members,
                   history, crashed>>

-----------------------------------------------------------------------------
(* Handle_C_LEAVE_ROOM_REQ; outside any room it only acknowledges.         *)

LeaveRoom(s) ==
    /\ pc[s] = "ready" /\ RoomOf(s) # NoRoom
    /\ Leave(s, RoomOf(s))
    /\ joiner' = [joiner EXCEPT ![s] = "no"]
    /\ known' = [t \in Sessions |-> IF t = s THEN {} ELSE known[t] \ {Id(s)}]
    /\ room' = [room EXCEPT ![s] = RoomOf(s)]
    /\ Goto(s, "lEmpty")
    /\ UNCHANGED <<connected, playerVars, managerVars, roomId, targets, crashed>>

SeenEmpty_BeforeLeaving(r) == Cardinality(Inside(r)) = 1
\* GetPlayers().empty(), without the room's lock.
SeenEmpty(r) == Inside(r) = {}

LeaveEmpty(s) ==
    /\ pc[s] = "lEmpty"
    /\ Goto(s, IF SeenEmpty(room[s]) THEN "lRemove" ELSE "lNotify")
    /\ UNCHANGED <<connected, playerVars, roomOf, managerVars, roomId, members,
                   room, targets, history, crashed>>

RemovedKey_Latest(r) == nextRoomId - 1
RemovedKey(r) == roomId[r]

RemoveRoom(s) ==
    /\ pc[s] = "lRemove"
    /\ registered' = registered \ {RemovedKey(room[s])}
    /\ Goto(s, "lNotify")
    /\ UNCHANGED <<connected, playerVars, roomOf, nextRoomId, roomId, members,
                   room, targets, history, crashed>>

LeaveNotify(s) ==
    /\ pc[s] = "lNotify"
    /\ Broadcast(s, Snapshot(room[s], {Id(s)}))
    /\ room' = [room EXCEPT ![s] = NoRoom]
    /\ UNCHANGED <<connected, playerVars, roomOf, managerVars, roomId, members,
                   known, joiner, crashed>>

-----------------------------------------------------------------------------
(* Handle_C_ROOM_CHAT_REQ; outside any room it does nothing.  The message  *)
(* ids are not represented.                                                *)

RoomChat(s) ==
    /\ pc[s] = "ready" /\ RoomOf(s) # NoRoom
    /\ Broadcast(s, Snapshot(RoomOf(s), {}))
    /\ UNCHANGED <<connected, playerVars, roomOf, managerVars, roomId, members,
                   room, known, joiner, crashed>>

\* One Send of the loop, in the order of the map's keys; a closed session drops
\* it.  Only the announcement of a join (the RoomRef is still in hand then)
\* tells its receiver about a member.
SendNext(s) ==
    /\ pc[s] = "bSend"
    /\ \E p \in targets[s] :
         /\ \A q \in targets[s] : playerId[p] <= playerId[q]
         /\ targets' = [targets EXCEPT ![s] = @ \ {p}]
         /\ known' = IF room[s] # NoRoom /\ connected[p[1]] /\ joiner[p[1]] # "no"
                     THEN [known EXCEPT ![p[1]] = @ \cup {Id(s)}] ELSE known
         /\ IF targets[s] = {p}
            THEN Return(s) /\ room' = [room EXCEPT ![s] = NoRoom]
            ELSE UNCHANGED <<pc, room>>
    /\ UNCHANGED <<connected, playerVars, roomOf, managerVars, roomId, members,
                   joiner, crashed>>

\* OnDisconnected takes the session out of the session manager and does nothing
\* about its player; a handler that is running goes on.
Disconnect(s) ==
    /\ connected[s]
    /\ connected' = [connected EXCEPT ![s] = FALSE]
    /\ known' = [known EXCEPT ![s] = {}]
    /\ UNCHANGED pc \/ (pc[s] = "ready" /\ Goto(s, "closed"))
    /\ UNCHANGED <<playerVars, roomOf, managerVars, roomId, members, room,
                   targets, joiner, crashed>>

-----------------------------------------------------------------------------
Request(s) == \/ Login(s) \/ CreateWithoutPlayer(s) \/ AddRoom(s)
              \/ \E r \in Rooms : FindRoom(s, r)
              \/ LeaveRoom(s) \/ RoomChat(s)

Continue(s) == \/ SetId(s) \/ CreateEnter(s)
               \/ JoinEnter(s) \/ JoinList(s) \/ JoinListTorn(s) \/ JoinNotify(s)
               \/ LeaveEmpty(s) \/ RemoveRoom(s) \/ LeaveNotify(s)
               \/ SendNext(s)

Next == /\ ~crashed /\ UNCHANGED crowd
        /\ \E s \in Sessions : Request(s) \/ Continue(s) \/ Disconnect(s)

Spec == Init /\ [][Next]_vars
-----------------------------------------------------------------------------
(* Properties *)

\* Types of the maps and of the handlers' locals.
TypeOK ==
    /\ crowd \in Crowds
    /\ connected \in [Sessions -> BOOLEAN] /\ crashed \in BOOLEAN
    /\ logins \in [Sessions -> 0..MaxLogins]
    /\ playerId \in [Players -> Ids \cup {0}]
    /\ roomOf \in [Players -> Rooms \cup {NoRoom}]
    /\ nextRoomId \in 1..MaxRooms + 1 /\ registered \subseteq 1..nextRoomId - 1
    /\ roomId \in [Rooms -> Rooms \cup {0}] /\ \A r \in Rooms : roomId[r] \in {0, r}
    /\ members \in [Rooms -> [Ids -> Players \cup {NoPlayer}]]
    /\ pc \in [Sessions -> Labels]
    /\ room \in [Sessions -> Rooms \cup {NoRoom}]
    /\ targets \in [Sessions -> SUBSET Players]
    /\ known \in [Sessions -> SUBSET Ids]
    /\ joiner \in [Sessions -> {"no", "joined", "torn"}]

InCharge(s, r) == room[s] = r /\ pc[s] \in {"cSetId", "cEnter", "lEmpty", "lRemove"}

\* However joins, leaves and creations of the same room interleave, and even
\* when players collide on an id, a registered room that is empty has a handler
\* on its way to enter it or to remove it.
NoAbandonedRoom ==
    \A r \in registered : Inside(r) = {} => \E s \in Sessions : InCharge(s, r)

\* With careful clients, Player::_room and Room::_players tell the same story at
\* all times: a player is in the map of the room it points to and in no other,
\* although several handlers write them and rooms come and go.  Whoever plays, a
\* room holds at most its limit of players, each under its own id.
MembershipMutual ==
    /\ \A r \in Rooms : /\ Cardinality(Inside(r)) <= crowd.capacity
                        /\ \A i \in Inside(r) : playerId[members[r][i]] = i
    /\ crowd.careful =>
          \A r \in Rooms, p \in Players :
              (\E i \in Ids : members[r][i] = p) <=> roomOf[p] = r

\* Two players that joined the same room know of each other once their handlers
\* are done: whoever entered first is in the other's list or got the other's
\* announcement, however the two joins interleave, unless its walk of the list was
\* disturbed.
StillTelling(t, s) == pc[t] \in {"jList", "jNotify"}
                      \/ (pc[t] = "bSend" /\ Player(s) \in targets[t])
NoMissedMember ==
    \A s, t \in Sessions :
        /\ s # t /\ joiner[s] = "joined" /\ joiner[t] # "no" /\ connected[s]
        /\ RoomOf(s) # NoRoom /\ RoomOf(s) = RoomOf(t)
        /\ pc[s] # "jList" /\ ~StillTelling(t, s)
        => Id(t) \in known[s]

\* "all rooms that currently exist" are in the manager (RoomManager.h:33): a
\* room with players in it can be found.
OccupiedIsRegistered == \A r \in Rooms : Inside(r) # {} => r \in registered
=============================================================================
