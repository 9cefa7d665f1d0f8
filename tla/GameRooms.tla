------------------------------ MODULE GameRooms ------------------------------
(***************************************************************************)
(* The game server's players between session actors and room actors:      *)
(* entering the game, changing maps, disconnecting, and the room manager   *)
(* that creates and purges room objects meanwhile.                         *)
(*                                                                         *)
(* A session and a room each run their jobs one at a time, in the order    *)
(* they were posted (GameRoom.h, JobQueue).  A session finds its room in   *)
(* currentRoom, which only its own jobs touch; a room finds its players in *)
(* its own map, which only its jobs touch: the two are kept in step by     *)
(* jobs posted from one to the other, and between them is the lobby.       *)
(*                                                                         *)
(* Not in the repository, and modelled from what this code does with them: *)
(* LobbyRoom, InstanceManagerCore, the map-change packet handlers,         *)
(* TransferMapChangeById, ShouldPurge, SetCurrentRoom, ClearCurrentRoom.   *)
(* Positions, areas of interest, trades, saving and metrics are left out.  *)
(***************************************************************************)
EXTENDS Integers, Sequences, FiniteSets, SequencesExt

CONSTANTS Sessions,     \* bound: one session per player, each logs in once
          Keys, World,  \* RoomKeys; World has instance id 0
          ValidKey,     \* each key, or the default map's if its map is not valid
          Rooms, KeyOf, \* bound: the room objects ever made for each key
          NoRoom,       \* the null room
          Hall,         \* the lobby, as a place
          Plans         \* bound: who plays, and the map changes each is asked for

ASSUME RoomsAssumption ==
    /\ World \in Keys /\ ValidKey \in [Keys -> Keys] /\ KeyOf \in [Rooms -> Keys]
    /\ NoRoom \notin Rooms /\ Hall \notin Rooms
    /\ \A plan \in Plans : DOMAIN plan \subseteq Sessions
                             /\ \A s \in DOMAIN plan : plan[s] \in Seq(Keys)

VARIABLES plan,         \* the plan of this run
          link,         \* "new", "open", "closed" (OnDisconnected) or "cleaned"
          party,        \* players whose login the PartyActor has still to pass on
          bound,        \* sessions with a player id
          currentRoom,  \* PlayerSession's current room
          sessionJobs,  \* the jobs posted to each session
          mapChange,    \* _mapChangeState, _mapChangeToken and the pending target
          asked,        \* history: the targets of S_MAP_CHANGE_BEGIN; the index
                        \*   is the token
          ended,        \* history: the last S_MAP_CHANGE_END a connected client got
          lobby,        \* what the lobby does with a player it owns
          rooms,        \* RoomManager::_rooms
          fresh,        \* room objects not created yet
          players,      \* GameRoom::_players
          playerCount, emptySince, closing,
          roomJobs,     \* the jobs pushed to each room
          entering,     \* the enter job between the map insert and the count
          eraseKeys,    \* what PurgeInstanceRooms selected under the read lock
          offline,      \* players InstanceActor has still to see as offline
          late,         \* history: sessions cleaned up in the middle of a move
          raced         \* history: rooms purged in the middle of an entry

mapVars == <<mapChange, asked, ended>>
roomVars == <<players, playerCount, emptySince, closing, entering>>
managerVars == <<rooms, fresh, eraseKeys, raced>>
vars == <<plan, link, party, bound, currentRoom, sessionJobs, mapVars, lobby, managerVars,
          roomVars, roomJobs, offline, late>>

NoChange == [state |-> "none", token |-> 0, target |-> World]
Idle == [job |-> "none", key |-> World, step |-> "find"]

Init == /\ plan \in Plans
        /\ link = [s \in Sessions |-> "new"]
        /\ party = {} /\ bound = {} /\ offline = {} /\ late = {}
        /\ currentRoom = [s \in Sessions |-> NoRoom]
        /\ sessionJobs = [s \in Sessions |-> <<>>]
        /\ mapChange = [s \in Sessions |-> NoChange]
        /\ asked = [s \in Sessions |-> <<>>]
        /\ ended = [s \in Sessions |-> [token |-> -1, key |-> World]]
        /\ lobby = [s \in Sessions |-> Idle]
        /\ rooms = [k \in Keys |-> NoRoom]
        /\ fresh = Rooms /\ eraseKeys = {} /\ raced = {}
        /\ players = [r \in Rooms |-> {}]
        /\ playerCount = [r \in Rooms |-> 0]
        /\ emptySince = [r \in Rooms |-> FALSE]
        /\ closing = [r \in Rooms |-> FALSE]
        /\ roomJobs = [r \in Rooms |-> <<>>]
        /\ entering = [r \in Rooms |-> <<>>]

JobFor(op, s) == [op |-> op, who |-> s]
EnterJob == [login |-> "enter", change |-> "enterMap"]
QueuedFor(s, ops, r) == \E i \in DOMAIN roomJobs[r] :
                            roomJobs[r][i].who = s /\ roomJobs[r][i].op \in ops

-----------------------------------------------------------------------------
(* Entering the game *)

\* Handle_C_ENTER_GAME; a token Redis does not know ends in Disconnect.
EnterGame(s) ==
    /\ s \in DOMAIN plan /\ link[s] = "new"
    /\ link' = [link EXCEPT ![s] = "open"]
    /\ party' = party \cup {s}
    /\ UNCHANGED <<plan, bound, currentRoom, sessionJobs, mapVars, lobby, managerVars,
                   roomVars, roomJobs, offline, late>>

\* PartyActor: the force-return lookup, then on to the session.
PartyPasses(s) ==
    /\ s \in party
    /\ party' = party \ {s}
    /\ sessionJobs' = [sessionJobs EXCEPT ![s] = Append(@, [op |-> "login"])]
    /\ UNCHANGED <<plan, link, bound, currentRoom, mapVars, lobby, managerVars, roomVars,
                   roomJobs, offline, late>>

\* The connection ends: OnDisconnected posts the cleanup.
OnDisconnected(s) ==
    /\ link[s] = "open"
    /\ link' = [link EXCEPT ![s] = "closed"]
    /\ sessionJobs' = [sessionJobs EXCEPT ![s] = Append(@, [op |-> "cleanup"])]
    /\ UNCHANGED <<plan, party, bound, currentRoom, mapVars, lobby, managerVars, roomVars,
                   roomJobs, offline, late>>

-----------------------------------------------------------------------------
(* The map-change handshake *)

MayBegin_StateIgnored(s) == TRUE
MayBegin(s) == mapChange[s].state = "none"

\* A handler asks the client to change its map; a request that is turned down
\* changes nothing.
TryBeginMapChange(s) ==
    /\ link[s] \in {"open", "closed"} /\ s \in bound
    /\ Len(asked[s]) < Len(plan[s])
    /\ MayBegin(s)
    /\ LET token == Len(asked[s]) + 1 IN
       /\ asked' = [asked EXCEPT ![s] = Append(@, plan[s][token])]
       /\ mapChange' = [mapChange EXCEPT ![s] = [state |-> "waiting", token |-> token,
                                                 target |-> plan[s][token]]]
    /\ UNCHANGED <<plan, link, party, bound, currentRoom, sessionJobs, ended, lobby,
                   managerVars, roomVars, roomJobs, offline, late>>

\* C_MAP_CHANGE_ACK, with a token the client was sent, once or again.  Bounds: one
\* copy in the queue, and none that would find nothing to acknowledge.
AckArrives(s) ==
    /\ link[s] = "open" /\ mapChange[s].state = "waiting"
    /\ \E t \in DOMAIN asked[s] :
         LET ack == [op |-> "ack", token |-> t] IN
         /\ ~Contains(sessionJobs[s], ack)
         /\ sessionJobs' = [sessionJobs EXCEPT ![s] = Append(@, ack)]
    /\ UNCHANGED <<plan, link, party, bound, currentRoom, mapVars, lobby, managerVars,
                   roomVars, roomJobs, offline, late>>

\* The handler that closes the handshake, once the client has the end packet.
EndMapChange(s) ==
    /\ mapChange[s].state = "switching" /\ ended[s].token = mapChange[s].token
    /\ mapChange' = [mapChange EXCEPT ![s] = NoChange]
    /\ UNCHANGED <<plan, link, party, bound, currentRoom, sessionJobs, asked, ended, lobby,
                   managerVars, roomVars, roomJobs, offline, late>>

-----------------------------------------------------------------------------
(* Session jobs *)

Login(s) ==
    /\ bound' = bound \cup {s}
    /\ lobby' = [lobby EXCEPT ![s] = [job |-> "login", key |-> World, step |-> "find"]]
    /\ UNCHANGED <<link, currentRoom, mapVars, roomJobs, offline, late>>

\* Somebody is about to put the player somewhere else, or to tell the session so.
Underway(s) == \/ s \in party \/ lobby[s] # Idle
               \/ \E r \in Rooms : QueuedFor(s, {"enter", "enterMap", "transfer"}, r)
               \/ \E i \in DOMAIN Tail(sessionJobs[s]) :
                      sessionJobs[s][i + 1].op \in {"login", "set"}

RoomLeft_ReadTooLate(s) == NoRoom
\* The room the cleanup job tells that the player leaves.
RoomLeft(s) == currentRoom[s]

Cleanup(s) ==
    /\ mapChange' = [mapChange EXCEPT ![s] = NoChange]
    /\ currentRoom' = [currentRoom EXCEPT ![s] = NoRoom]
    /\ bound' = bound \ {s}
    /\ LET room == RoomLeft(s) IN
       roomJobs' = IF s \in bound /\ room # NoRoom
                   THEN [roomJobs EXCEPT ![room] = Append(@, JobFor("leave", s))]
                   ELSE roomJobs
    /\ offline' = IF s \in bound THEN offline \cup {s} ELSE offline
    /\ link' = [link EXCEPT ![s] = "cleaned"]
    /\ late' = IF Underway(s) THEN late \cup {s} ELSE late
    /\ UNCHANGED <<asked, ended, lobby>>

SetCurrentRoom(s, r) ==
    /\ currentRoom' = [currentRoom EXCEPT ![s] = r]
    /\ UNCHANGED <<link, bound, mapVars, lobby, roomJobs, offline, late>>

\* ClearCurrentRoom(room) lets go of that room only.
ClearCurrentRoom(s, r) ==
    /\ currentRoom' = [currentRoom EXCEPT ![s] = IF @ = r THEN NoRoom ELSE @]
    /\ UNCHANGED <<link, bound, mapVars, lobby, roomJobs, offline, late>>

CancelMapChange(s) ==
    /\ mapChange' = [mapChange EXCEPT ![s] = NoChange]
    /\ UNCHANGED <<link, bound, currentRoom, asked, ended, lobby, roomJobs, offline, late>>

\* TryConsumeMapChangeAck, by a handler that found a current room to leave.
Acknowledged(s, t) == /\ currentRoom[s] # NoRoom
                      /\ mapChange[s].state = "waiting"
                      /\ mapChange[s].token = t

Ack(s, t) ==
    /\ \/ /\ Acknowledged(s, t)
          /\ mapChange' = [mapChange EXCEPT ![s].state = "switching"]
          /\ roomJobs' = [roomJobs EXCEPT ![currentRoom[s]] = Append(@,
                  [op |-> "transfer", who |-> s, key |-> mapChange[s].target])]
       \/ /\ ~Acknowledged(s, t)
          /\ UNCHANGED <<mapChange, roomJobs>>
    /\ UNCHANGED <<link, bound, currentRoom, asked, ended, lobby, offline, late>>

SessionJob(s) ==
    /\ sessionJobs[s] # <<>>
    /\ sessionJobs' = [sessionJobs EXCEPT ![s] = Tail(@)]
    /\ LET job == Head(sessionJobs[s]) IN
       \/ job.op = "login" /\ Login(s)
       \/ job.op = "cleanup" /\ Cleanup(s)
       \/ job.op = "set" /\ SetCurrentRoom(s, job.room)
       \/ job.op = "clear" /\ ClearCurrentRoom(s, job.room)
       \/ job.op = "cancel" /\ CancelMapChange(s)
       \/ job.op = "ack" /\ Ack(s, job.token)
    /\ UNCHANGED <<plan, party, managerVars, roomVars>>

-----------------------------------------------------------------------------
(* The lobby: it owns the player, gets or creates the room and pushes the   *)
(* enter job to it.                                                         *)

PushEnter(s, r) ==
    /\ roomJobs' = [roomJobs EXCEPT ![r] = Append(@, JobFor(EnterJob[lobby[s].job], s))]
    /\ lobby' = [lobby EXCEPT ![s] = Idle]

\* The key GetOrCreateRoom looks for: an unknown map gives way to the default one.
RoomKey(s) == ValidKey[lobby[s].key]

\* TryEnterWorldIfReady returns early: the player is not ready, or its session is gone.
EnterDropped(s) ==
    /\ lobby[s].job = "login" /\ lobby[s].step = "find"
    /\ lobby' = [lobby EXCEPT ![s] = Idle]
    /\ UNCHANGED roomJobs

\* GetOrCreateRoom under the read lock.
FindRoom(s) ==
    /\ lobby[s].job # "none" /\ lobby[s].step = "find"
    /\ LET r == rooms[RoomKey(s)] IN
       \/ r # NoRoom /\ PushEnter(s, r)
       \/ /\ r = NoRoom
          /\ lobby' = [lobby EXCEPT ![s].step = "create"]
          /\ UNCHANGED roomJobs
       \/ EnterDropped(s)
    /\ UNCHANGED <<plan, link, party, bound, currentRoom, sessionJobs, mapVars, managerVars,
                   roomVars, offline, late>>

Recheck_Dropped(k) == NoRoom
Recheck(k) == rooms[k]

\* ... and under the write lock.
CreateRoom(s) ==
    /\ lobby[s].job # "none" /\ lobby[s].step = "create"
    /\ LET k == RoomKey(s) IN
       \/ /\ Recheck(k) # NoRoom
          /\ PushEnter(s, rooms[k])
          /\ UNCHANGED <<rooms, fresh>>
       \/ /\ Recheck(k) = NoRoom
          /\ \E r \in fresh : /\ KeyOf[r] = k
                              /\ fresh' = fresh \ {r}
                              /\ rooms' = [rooms EXCEPT ![k] = r]
                              /\ PushEnter(s, r)
    /\ UNCHANGED <<plan, link, party, bound, currentRoom, sessionJobs, mapVars, eraseKeys,
                   raced, roomVars, offline, late>>

-----------------------------------------------------------------------------
(* Room jobs *)

Post(s, job) == sessionJobs' = [sessionJobs EXCEPT ![s] = Append(@, job)]

Admits(r, s) == ~closing[r] /\ s \notin players[r]

\* EnterRegister up to the insert into _players.
EnterRegister(r, job) ==
    /\ Admits(r, job.who)
    /\ Post(job.who, [op |-> "set", room |-> r])
    /\ players' = [players EXCEPT ![r] = @ \cup {job.who}]
    /\ entering' = [entering EXCEPT ![r] = <<job>>]
    /\ UNCHANGED <<playerCount, emptySince, lobby>>

RefusedMapChange_StaysOn(s) == UNCHANGED sessionJobs
\* "If the registration fails the map-change state must be released."
RefusedMapChange(s) == Post(s, [op |-> "cancel"])

EnterRefused(r, job) ==
    /\ ~Admits(r, job.who)
    /\ \/ job.op = "enterMap" /\ RefusedMapChange(job.who)
       \/ job.op = "enter" /\ UNCHANGED sessionJobs
    /\ UNCHANGED <<players, entering, playerCount, emptySince, lobby>>

Erased_Kept(r, s) == players[r]
Erased(r, s) == players[r] \ {s}
Cleared_NotPosted(r, s) == UNCHANGED sessionJobs
Cleared(r, s) == Post(s, [op |-> "clear", room |-> r])

Leave(r, s) ==
    /\ players' = [players EXCEPT ![r] = Erased(r, s)]
    /\ Cleared(r, s)
    /\ playerCount' = [playerCount EXCEPT ![r] = @ - 1]
    /\ emptySince' = [emptySince EXCEPT ![r] = @ \/ playerCount[r] = 1]

LeaveById(r, s) ==
    /\ \/ s \in players[r] /\ Leave(r, s)
       \/ /\ s \notin players[r]
          /\ UNCHANGED <<players, sessionJobs, playerCount, emptySince>>
    /\ UNCHANGED <<entering, lobby>>

\* TransferMapChangeById: the player leaves and is the lobby's meanwhile.
Transfer(r, job) ==
    /\ \/ /\ job.who \in players[r] /\ Leave(r, job.who)
          /\ lobby' = [lobby EXCEPT ![job.who] =
                          [job |-> "change", key |-> job.key, step |-> "find"]]
       \/ /\ job.who \notin players[r]
          /\ Post(job.who, [op |-> "cancel"])
          /\ UNCHANGED <<players, playerCount, emptySince, lobby>>
    /\ UNCHANGED entering

RoomJob(r) ==
    /\ roomJobs[r] # <<>> /\ entering[r] = <<>>
    /\ roomJobs' = [roomJobs EXCEPT ![r] = Tail(@)]
    /\ LET job == Head(roomJobs[r]) IN
       \/ job.op \in {"enter", "enterMap"}
             /\ (EnterRegister(r, job) \/ EnterRefused(r, job))
       \/ job.op = "leave" /\ LeaveById(r, job.who)
       \/ job.op = "transfer" /\ Transfer(r, job)
    /\ UNCHANGED <<plan, link, party, bound, currentRoom, mapVars, managerVars, closing,
                   offline, late>>

\* The rest of EnterRegister, and S_MAP_CHANGE_END with the session's token.
EnterCounted(r) ==
    /\ entering[r] # <<>>
    /\ entering' = [entering EXCEPT ![r] = <<>>]
    /\ playerCount' = [playerCount EXCEPT ![r] = @ + 1]
    /\ emptySince' = [emptySince EXCEPT ![r] = FALSE]
    /\ LET job == Head(entering[r]) IN
       ended' = IF job.op = "enterMap" /\ link[job.who] = "open"
                THEN [ended EXCEPT ![job.who] = [token |-> mapChange[job.who].token,
                                                 key |-> KeyOf[r]]]
                ELSE ended
    /\ UNCHANGED <<plan, link, party, bound, currentRoom, sessionJobs, mapChange, asked,
                   lobby, managerVars, players, closing, roomJobs, offline, late>>

-----------------------------------------------------------------------------
(* The room manager's purge, and InstanceActor *)

\* The room says it has been empty for long.
ShouldPurge(r) == playerCount[r] = 0 /\ emptySince[r]

Purgeable == {k \in Keys \ {World} : rooms[k] # NoRoom /\ ShouldPurge(rooms[k])}

\* PurgeInstanceRooms selects under the read lock ...
SelectPurge ==
    /\ eraseKeys = {} /\ Purgeable # {}
    /\ eraseKeys' = Purgeable
    /\ UNCHANGED <<plan, link, party, bound, currentRoom, sessionJobs, mapVars, lobby, rooms,
                   fresh, raced, roomVars, roomJobs, offline, late>>

\* ... and looks again under the write lock.  Bound: a room object of the key is left.
Purge ==
    /\ eraseKeys # {}
    /\ LET gone == eraseKeys \cap Purgeable IN
       /\ \A k \in gone : \E r \in fresh : KeyOf[r] = k
       /\ rooms' = [k \in Keys |-> IF k \in gone THEN NoRoom ELSE rooms[k]]
       /\ raced' = raced \cup
             {r \in {rooms[k] : k \in gone} :
                 \/ entering[r] # <<>>
                 \/ \E s \in Sessions : QueuedFor(s, {"enter", "enterMap"}, r)}
    /\ eraseKeys' = {}
    /\ UNCHANGED <<plan, link, party, bound, currentRoom, sessionJobs, mapVars, lobby, fresh,
                   roomVars, roomJobs, offline, late>>

\* OnMemberOffline: it may close an instance, which then admits nobody.
MemberOffline(s) ==
    /\ s \in offline
    /\ offline' = offline \ {s}
    /\ \/ UNCHANGED closing
       \/ \E k \in Keys \ {World} : /\ rooms[k] # NoRoom
                                    /\ closing' = [closing EXCEPT ![rooms[k]] = TRUE]
    /\ UNCHANGED <<plan, link, party, bound, currentRoom, sessionJobs, mapVars, lobby,
                   managerVars, players, playerCount, emptySince, entering, roomJobs,
                   late>>

-----------------------------------------------------------------------------
SessionActs(s) == SessionJob(s) \/ PartyPasses(s) \/ FindRoom(s) \/ CreateRoom(s)
                  \/ MemberOffline(s)
RoomActs(r) == RoomJob(r) \/ EnterCounted(r)

Next == \/ \E s \in Sessions :
             \/ EnterGame(s) \/ OnDisconnected(s) \/ SessionActs(s)
             \/ TryBeginMapChange(s) \/ AckArrives(s) \/ EndMapChange(s)
        \/ \E r \in Rooms : RoomActs(r)
        \/ SelectPurge \/ Purge

Spec == Init /\ [][Next]_vars

\* A queue with a job in it is run; clients and the purge timer promise nothing.
FairSpec == /\ Spec
            /\ \A s \in Sessions : /\ WF_vars(SessionJob(s))
                                   /\ WF_vars(PartyPasses(s))
                                   /\ WF_vars(FindRoom(s) \/ CreateRoom(s))
            /\ \A r \in Rooms : WF_vars(RoomActs(r))
-----------------------------------------------------------------------------
(* Properties *)

\* Where each player's object is: in rooms, or with the lobby or an enter job.
Whereabouts(s) ==
    {r \in Rooms : s \in players[r]} \cup
    (IF lobby[s] # Idle \/ \E r \in Rooms : QueuedFor(s, {"enter", "enterMap"}, r)
     THEN {Hall} ELSE {})

\* Of all that the session has been told and will be told, r is what lasts: the room it
\* has, or one it is to be set to, that no later job replaces or clears.
Lasts(room, jobs, r) ==
    \E i \in 0..Len(jobs) :
        /\ \/ i = 0 /\ room = r
           \/ i > 0 /\ jobs[i].op = "set" /\ jobs[i].room = r
        /\ \A j \in (i + 1)..Len(jobs) :
              jobs[j].op # "set" /\ ~(jobs[j].op = "clear" /\ jobs[j].room = r)
\* currentRoom is r once the session has run the jobs it has.
Settles(s, r) == Lasts(currentRoom[s], sessionJobs[s], r)

\* Leaving is on its way: the cleanup job, or its LeaveById.
Departing(s) == \/ Contains(sessionJobs[s], [op |-> "cleanup"])
                \/ \E r \in Rooms : QueuedFor(s, {"leave"}, r)

\* The session and the rooms agree on where the player is, up to the jobs posted
\* (EnterRegister posts SetCurrentRoom, Leave posts ClearCurrentRoom): nobody stands
\* in a room its session does not know of, whatever disconnects and map changes
\* interleave.
SessionFollowsRoom ==
    \A s \in Sessions : ~Departing(s) =>
        \A r \in Rooms : s \in players[r] <=> Settles(s, r)

\* A room that has players, or an entry on its way, is the room its key finds
\* ("somebody may have entered since: look again", RoomManager.cpp:160), unless the
\* purge overtook an entry on its way.
StrandedOnlyByRace ==
    \A r \in Rooms \ raced :
        players[r] # {} \/ (\E s \in Sessions : QueuedFor(s, {"enter", "enterMap"}, r))
            => rooms[KeyOf[r]] = r

\* "Somebody may have come in while the lock was released, so look again"
\* (RoomManager.cpp:160): no room is erased with a player in it.
PurgeSparesPlayers ==
    [][\A k \in Keys : rooms[k] # NoRoom /\ rooms'[k] # rooms[k]
                           => players[rooms[k]] = {}]_vars

\* The end packet gives the client back the token of the change to this very map, or to
\* one the default map stands in for (EnterLeave.cpp:125), though the room reads it
\* while other threads may cancel and begin changes.
EndCarriesToken ==
    \A s \in Sessions : ended[s].token # -1 =>
        ended[s].token # 0 /\ ValidKey[asked[s][ended[s].token]] = ended[s].key

\* A change the client acknowledged ends while it stays connected: by the end packet
\* with its token, or by a cancel ("it must be released, or it stays locked",
\* EnterLeave.cpp:112).
MapChangeSettles ==
    \A s \in Sessions :
        mapChange[s].state = "switching"
            ~> \/ mapChange[s].state # "switching"
               \/ ended[s].token = mapChange[s].token
               \/ link[s] # "open"

\* A player whose connection ended leaves its room (OnDisconnected pushes LeaveById),
\* unless the cleanup job ran in the middle of a move of the player.
DisconnectRemoves ==
    \A s \in Sessions :
        link[s] \in {"closed", "cleaned"} /\ s \in UNION {players[r] : r \in Rooms}
            ~> s \notin UNION {players[r] : r \in Rooms} \/ s \in late

\* A player is in one room, with the lobby, or nowhere, and moves only in between.
Abstract == INSTANCE Presence WITH Players <- Sessions,
                where <- [s \in Sessions |-> Whereabouts(s)]
ImplementsPresence == Abstract!Spec
=============================================================================
