--------------------------- MODULE GameRoomsProofs ---------------------------
(***************************************************************************)
(* Proofs about GameRooms for any sessions, keys, room objects and plans.  *)
(*                                                                         *)
(* Session and room follow each other through jobs, so the invariant says  *)
(* what the queues hold.  OnePlace: a player is outside, or with the       *)
(* lobby, or has one enter job in one room's queue, or is in one room.     *)
(* InStep: run all the jobs of a session, and currentRoom is the room the  *)
(* player is in; the one exception is the player whose leave job waits in  *)
(* the room.  ChangeKept: an acknowledged map change is carried by exactly *)
(* one of a transfer job, the lobby, an enter job, an entry to be counted  *)
(* and a cancel, always for the map it was asked for; so the end packet,   *)
(* which reads the token in another thread, finds this change's.           *)
(* Stranding with Counted: a room whose entry is inserted but not counted  *)
(* is in raced when the purge takes it.                                    *)
(***************************************************************************)
EXTENDS GameRooms, FiniteSetTheorems, SequenceTheorems, TLAPS

SessionJobs == [op : {"login", "cleanup", "cancel"}]
               \cup [op : {"set", "clear"}, room : Rooms]
               \cup [op : {"ack"}, token : Nat]
RoomJobs == [op : {"enter", "enterMap", "leave"}, who : Sessions]
            \cup [op : {"transfer"}, who : Sessions, key : Keys]

Types ==
    /\ plan \in Plans
    /\ link \in [Sessions -> {"new", "open", "closed", "cleaned"}]
    /\ party \subseteq Sessions /\ bound \subseteq Sessions
    /\ currentRoom \in [Sessions -> Rooms \cup {NoRoom}]
    /\ sessionJobs \in [Sessions -> Seq(SessionJobs)]
    /\ mapChange \in [Sessions -> [state : {"none", "waiting", "switching"},
                                   token : Nat, target : Keys]]
    /\ asked \in [Sessions -> Seq(Keys)]
    /\ ended \in [Sessions -> [token : Nat \cup {-1}, key : Keys]]
    /\ lobby \in [Sessions -> {Idle} \cup [job : {"login", "change"}, key : Keys,
                                           step : {"find", "create"}]]
    /\ rooms \in [Keys -> Rooms \cup {NoRoom}] /\ fresh \subseteq Rooms
    /\ players \in [Rooms -> SUBSET Sessions]
    /\ playerCount \in [Rooms -> Int]
    /\ emptySince \in [Rooms -> BOOLEAN] /\ closing \in [Rooms -> BOOLEAN]
    /\ roomJobs \in [Rooms -> Seq(RoomJobs)]
    /\ entering \in [Rooms -> Seq(RoomJobs)]

\* Some job of q is in M; at most one is.
Amid(M, q) == \E i \in 1..Len(q) : q[i] \in M
OnceAmid(M, q) == \A i, j \in 1..Len(q) : q[i] \in M /\ q[j] \in M => i = j

Logins == {j \in SessionJobs : j.op = "login"}
Cleanups == {j \in SessionJobs : j.op = "cleanup"}
Cancels == {j \in SessionJobs : j.op = "cancel"}
Sets == {j \in SessionJobs : j.op = "set"}
Entries(s) == {j \in RoomJobs : j.who = s /\ j.op \in {"enter", "enterMap"}}
Leaves(s) == {j \in RoomJobs : j.who = s /\ j.op = "leave"}
\* The jobs that carry a map change of s on.
Carries(s) == {j \in RoomJobs : j.who = s /\ j.op \in {"enterMap", "transfer"}}

\* The player is not the lobby's yet; an enter job for it waits in room r.
Outside(s) == link[s] = "new" \/ s \in party \/ Amid(Logins, sessionJobs[s])
EnterAt(s, r) == Amid(Entries(s), roomJobs[r])

\* Who plays is in the plan, and a session is cleaned up once.
Planned ==
    /\ party \subseteq DOMAIN plan /\ bound \subseteq DOMAIN plan
    /\ \A s \in Sessions : Amid(Logins, sessionJobs[s]) => s \in DOMAIN plan
CleanedOnce ==
    \A s \in Sessions : /\ Amid(Cleanups, sessionJobs[s]) => link[s] = "closed"
                        /\ OnceAmid(Cleanups, sessionJobs[s])

\* A player is in one place.
OnePlace(s) ==
    /\ link[s] = "new" => s \notin party /\ ~Amid(Logins, sessionJobs[s])
    /\ s \in party => ~Amid(Logins, sessionJobs[s])
    /\ OnceAmid(Logins, sessionJobs[s])
    /\ Outside(s) => lobby[s] = Idle
    /\ \A r \in Rooms :
          /\ EnterAt(s, r) \/ s \in players[r] => ~Outside(s) /\ lobby[s] = Idle
          /\ OnceAmid(Entries(s), roomJobs[r])
          /\ \A q \in Rooms : /\ EnterAt(s, r) => s \notin players[q]
                              /\ EnterAt(s, r) /\ EnterAt(s, q) => r = q
                              /\ s \in players[r] /\ s \in players[q] => r = q

\* The count is the players', but for the one that has just been inserted.
Counted(r) ==
    /\ IsFiniteSet(players[r])
    /\ playerCount[r] + Len(entering[r]) = Cardinality(players[r])
    /\ Len(entering[r]) <= 1
    /\ entering[r] # <<>> => \E s \in players[r] : Head(entering[r]) \in Entries(s)
\* A key finds a room of that key.
Registered == \A k \in Keys : rooms[k] # NoRoom => KeyOf[rooms[k]] = k

\* Before the player is bound it is nowhere.
Unbound(s) == s \notin bound /\ link[s] # "cleaned" =>
    /\ currentRoom[s] = NoRoom /\ ~Amid(Sets, sessionJobs[s])
    /\ lobby[s] = Idle
    /\ \A r \in Rooms : ~EnterAt(s, r) /\ s \notin players[r]

\* The session settles in the room the player is in; or nowhere, and that room has still
\* to see the player leave.
LeaveAt(s, r) == Amid(Leaves(s), roomJobs[r])
InStep(s) ==
    \/ \A r \in Rooms : s \in players[r] <=> Settles(s, r)
    \/ /\ \A q \in Rooms : ~Settles(s, q)
       /\ \E r \in Rooms : s \in players[r] /\ LeaveAt(s, r)

\* Where a map change is: with an entry to be counted, with a job, with a cancel, or with
\* the lobby.
EndingAt(s, r) == entering[r] # <<>> /\ Head(entering[r]) \in Carries(s)
CarriedAt(s, r) == Amid(Carries(s), roomJobs[r])
Cancelled(s) == Amid(Cancels, sessionJobs[s])

Pending(s) == \/ lobby[s].job = "change" \/ Cancelled(s)
              \/ \E r \in Rooms : CarriedAt(s, r) \/ EndingAt(s, r)

\* The jobs that would carry s, from room r, elsewhere than k leads to.
Astray(s, r, k) ==
    {j \in Carries(s) : IF j.op = "transfer" THEN j.key # k ELSE KeyOf[r] # ValidKey[k]}

OneCarry(s, r) == OnceAmid(Carries(s), roomJobs[r])
OneCancel(s) == OnceAmid(Cancels, sessionJobs[s])

\* It is in one place only.
OneChange(s) ==
    /\ lobby[s].job = "change" => ~Cancelled(s)
    /\ OneCancel(s)
    /\ \A r \in Rooms :
         /\ CarriedAt(s, r) \/ EndingAt(s, r) => lobby[s].job # "change" /\ ~Cancelled(s)
         /\ OneCarry(s, r)
         /\ \A q \in Rooms : /\ EndingAt(s, r) => ~CarriedAt(s, q)
                             /\ CarriedAt(s, r) /\ CarriedAt(s, q) => r = q
                             /\ EndingAt(s, r) /\ EndingAt(s, q) => r = q

\* It is for the map the session was asked to go to.
ToTarget(s) ==
    /\ Pending(s) => /\ mapChange[s].state = "switching"
                     /\ ended[s].token # mapChange[s].token
    /\ lobby[s].job = "change" => lobby[s].key = mapChange[s].target
    /\ \A r \in Rooms : /\ ~Amid(Astray(s, r, mapChange[s].target), roomJobs[r])
                        /\ EndingAt(s, r) => KeyOf[r] = ValidKey[mapChange[s].target]

ChangeKept(s) == OneChange(s) /\ ToTarget(s)

\* The tokens index the changes asked for; no end packet is out for the one that waits.
Ended(s) ==
    /\ ended[s].token # -1 => /\ ended[s].token \in 1..Len(asked[s])
                              /\ ValidKey[asked[s][ended[s].token]] = ended[s].key
    /\ mapChange[s].state # "none" => /\ mapChange[s].token \in 1..Len(asked[s])
                                      /\ asked[s][mapChange[s].token] = mapChange[s].target
    /\ mapChange[s].state = "waiting" => ended[s].token # mapChange[s].token
-----------------------------------------------------------------------------
(* Queues *)

\* What pushing a job does to a queue.
LEMMA Pushed ==
  ASSUME NEW S, NEW q \in Seq(S), NEW e \in S, NEW M
  PROVE  /\ Append(q, e) \in Seq(S) /\ Append(q, e) # <<>>
         /\ Amid(M, Append(q, e)) <=> Amid(M, q) \/ e \in M
         /\ OnceAmid(M, Append(q, e)) <=> OnceAmid(M, q) /\ (e \in M => ~Amid(M, q))
<1> DEFINE l == Append(q, e)  n == Len(q)
<1>1. /\ l \in Seq(S) /\ Len(l) = n + 1 /\ n \in Nat /\ l[n + 1] = e
      /\ \A i \in 1..n : l[i] = q[i]
  OBVIOUS
<1>2. \A i \in 1..Len(l) : i \in 1..n \/ i = n + 1
  BY <1>1
<1>3. 1..n \subseteq 1..Len(l) /\ n + 1 \in 1..Len(l) /\ n + 1 \notin 1..n
  BY <1>1
<1> HIDE DEF l, n
<1>4. Amid(M, l) <=> Amid(M, q) \/ e \in M
  BY <1>1, <1>2, <1>3 DEF Amid, n
<1>5. OnceAmid(M, l) => OnceAmid(M, q) /\ (e \in M => ~Amid(M, q))
  BY <1>1, <1>3 DEF Amid, OnceAmid, n
<1>6. OnceAmid(M, q) /\ (e \in M => ~Amid(M, q)) => OnceAmid(M, l)
  BY <1>1, <1>2 DEF Amid, OnceAmid, n
<1>7. l # <<>>
  BY <1>1 DEF l
<1> QED
  BY <1>1, <1>4, <1>5, <1>6, <1>7 DEF l

\* What running the first job does to a queue.
LEMMA Popped ==
  ASSUME NEW S, NEW q \in Seq(S), q # <<>>, NEW M
  PROVE  /\ Tail(q) \in Seq(S) /\ Head(q) \in S
         /\ Amid(M, q) <=> Head(q) \in M \/ Amid(M, Tail(q))
         /\ OnceAmid(M, q) => OnceAmid(M, Tail(q)) /\ ~(Head(q) \in M /\ Amid(M, Tail(q)))
<1> DEFINE l == Tail(q)  n == Len(l)
<1>1. /\ l \in Seq(S) /\ Len(q) = n + 1 /\ n \in Nat /\ q[1] = Head(q) /\ q[1] \in S
      /\ \A i \in 1..n : l[i] = q[i + 1]
  BY HeadTailProperties
<1>2. ASSUME NEW i \in 1..Len(q) PROVE i = 1 \/ (i - 1 \in 1..n /\ q[i] = l[i - 1])
  BY <1>1
<1>3. \A i \in 1..n : i + 1 \in 1..Len(q) /\ i + 1 # 1
  BY <1>1
<1>4. 1 \in 1..Len(q)
  BY <1>1
<1> HIDE DEF l, n
<1>5. Amid(M, q) <=> Head(q) \in M \/ Amid(M, l)
  BY <1>1, <1>2, <1>3, <1>4 DEF Amid, n
<1>6. OnceAmid(M, q) => OnceAmid(M, l) /\ ~(Head(q) \in M /\ Amid(M, l))
  <2> SUFFICES ASSUME OnceAmid(M, q) PROVE OnceAmid(M, l) /\ ~(Head(q) \in M /\ Amid(M, l))
    OBVIOUS
  <2>1. ASSUME NEW i \in 1..n, NEW j \in 1..n, l[i] \in M, l[j] \in M PROVE i = j
    <3>1. i + 1 = j + 1
      BY <1>1, <1>3, <2>1 DEF OnceAmid
    <3> QED
      BY <3>1
  <2>2. ASSUME NEW i \in 1..n, l[i] \in M PROVE Head(q) \notin M
    BY <1>1, <1>3, <1>4, <2>2 DEF OnceAmid
  <2> QED
    BY <2>1, <2>2 DEF OnceAmid, Amid, n
<1> QED
  BY <1>1, <1>5, <1>6 DEF l

LEMMA NoJobs == \A M : ~Amid(M, <<>>) /\ OnceAmid(M, <<>>)
  BY DEF Amid, OnceAmid

\* What lasts after a push.
LEMMA LastsPushed ==
  ASSUME NEW q \in Seq(SessionJobs), NEW e \in SessionJobs, NEW room, NEW r \in Rooms
  PROVE  /\ e.op = "set" => (Lasts(room, Append(q, e), r) <=> r = e.room)
         /\ e.op = "clear" => (Lasts(room, Append(q, e), r)
                                 <=> Lasts(room, q, r) /\ r # e.room)
         /\ e.op \notin {"set", "clear"} => (Lasts(room, Append(q, e), r)
                                              <=> Lasts(room, q, r))
<1> DEFINE l == Append(q, e)  n == Len(q)
           Source(w, i) == \/ i = 0 /\ room = r
                           \/ i > 0 /\ w[i].op = "set" /\ w[i].room = r
           Keeps(j) == j.op # "set" /\ ~(j.op = "clear" /\ j.room = r)
<1>1. /\ Len(l) = n + 1 /\ n \in Nat /\ l[n + 1] = e
      /\ \A i \in 1..n : l[i] = q[i]
  OBVIOUS
<1>2. \A w : Lasts(room, w, r) <=> \E i \in 0..Len(w) :
                Source(w, i) /\ \A j \in (i + 1)..Len(w) : Keeps(w[j])
  BY DEF Lasts
<1>3. \A i \in 0..n : Source(l, i) <=> Source(q, i)
  BY <1>1
<1>4. Source(l, n + 1) <=> e.op = "set" /\ e.room = r
  BY <1>1
<1>5. ASSUME NEW i \in 0..n
      PROVE  (\A j \in (i + 1)..(n + 1) : Keeps(l[j]))
               <=> Keeps(e) /\ \A j \in (i + 1)..n : Keeps(q[j])
  <2>1. \A j \in (i + 1)..n : l[j] = q[j]
    BY <1>1
  <2>2. \A j \in (i + 1)..(n + 1) : j \in (i + 1)..n \/ j = n + 1
    BY <1>1
  <2>3. (i + 1)..n \subseteq (i + 1)..(n + 1) /\ n + 1 \in (i + 1)..(n + 1)
    BY <1>1
  <2> HIDE DEF l, n, Keeps
  <2> QED
    BY <2>1, <2>2, <2>3, <1>1
<1>6. \A i \in 0..(n + 1) : i \in 0..n \/ i = n + 1
  BY <1>1
<1>7. 0..n \subseteq 0..(n + 1) /\ n + 1 \in 0..(n + 1) /\ (n + 1 + 1)..(n + 1) = {}
  BY <1>1
<1>8. Keeps(e) <=> e.op # "set" /\ ~(e.op = "clear" /\ e.room = r)
  OBVIOUS
<1> HIDE DEF l, n, Source, Keeps
<1>9. Lasts(room, l, r) <=> (e.op = "set" /\ e.room = r) \/ (Keeps(e) /\ Lasts(room, q, r))
  <2>1. Lasts(room, l, r) <=> \E i \in 0..(n + 1) :
              Source(l, i) /\ \A j \in (i + 1)..(n + 1) : Keeps(l[j])
    BY <1>1, <1>2
  <2>2. Lasts(room, q, r) <=> \E i \in 0..n :
              Source(q, i) /\ \A j \in (i + 1)..n : Keeps(q[j])
    BY <1>2 DEF n
  <2>3. Lasts(room, l, r) <=>
             \/ Source(l, n + 1) /\ \A j \in (n + 1 + 1)..(n + 1) : Keeps(l[j])
             \/ \E i \in 0..n : Source(l, i) /\ \A j \in (i + 1)..(n + 1) : Keeps(l[j])
    BY <2>1, <1>6, <1>7
  <2>4. \A j \in (n + 1 + 1)..(n + 1) : Keeps(l[j])
    BY <1>7
  <2> QED
    BY <2>2, <2>3, <2>4, <1>3, <1>4, <1>5
<1> QED
  BY <1>8, <1>9 DEF l

\* What lasts is the same once the first job has run.
LEMMA LastsPopped ==
  ASSUME NEW q \in Seq(SessionJobs), q # <<>>, NEW room, NEW r \in Rooms
  PROVE  /\ Head(q).op = "set" =>
              (Lasts(room, q, r) <=> Lasts(Head(q).room, Tail(q), r))
         /\ Head(q).op = "clear" =>
              (Lasts(room, q, r)
                 <=> Lasts(IF room = Head(q).room THEN NoRoom ELSE room, Tail(q), r))
         /\ Head(q).op \notin {"set", "clear"} =>
              (Lasts(room, q, r) <=> Lasts(room, Tail(q), r))
<1> DEFINE l == Tail(q)  n == Len(l)  h == Head(q)
           Source(c, w, i) == \/ i = 0 /\ c = r
                              \/ i > 0 /\ w[i].op = "set" /\ w[i].room = r
           Keeps(j) == j.op # "set" /\ ~(j.op = "clear" /\ j.room = r)
           After(w, i, m) == \A j \in (i + 1)..m : Keeps(w[j])
<1>1. /\ Len(q) = n + 1 /\ n \in Nat /\ q[1] = h
      /\ \A i \in 1..n : l[i] = q[i + 1]
  BY HeadTailProperties
<1>2. \A c, w : Lasts(c, w, r) <=> \E i \in 0..Len(w) :
                                      Source(c, w, i) /\ After(w, i, Len(w))
  BY DEF Lasts
<1>3. \A c, d : \A i \in 1..n : Source(c, q, i + 1) <=> Source(d, l, i)
  BY <1>1
<1>4. ASSUME NEW i \in 0..n PROVE After(q, i + 1, n + 1) <=> After(l, i, n)
  <2>1. ASSUME NEW j \in (i + 1 + 1)..(n + 1) PROVE j - 1 \in (i + 1)..n /\ q[j] = l[j - 1]
    BY <1>1
  <2>2. ASSUME NEW j \in (i + 1)..n PROVE j + 1 \in (i + 1 + 1)..(n + 1) /\ q[j + 1] = l[j]
    BY <1>1
  <2> HIDE DEF l, n, Keeps
  <2>3. ASSUME After(q, i + 1, n + 1), NEW j \in (i + 1)..n PROVE Keeps(l[j])
    BY <2>2, <2>3
  <2>4. ASSUME After(l, i, n), NEW j \in (i + 1 + 1)..(n + 1) PROVE Keeps(q[j])
    BY <2>1, <2>4
  <2> QED
    BY <2>3, <2>4
<1>5. After(q, 0, n + 1) <=> Keeps(h) /\ After(q, 1, n + 1)
  <2>1. \A j \in 1..(n + 1) : j = 1 \/ j \in 2..(n + 1)
    BY <1>1
  <2>2. 1 \in 1..(n + 1) /\ 2..(n + 1) \subseteq 1..(n + 1)
    BY <1>1
  <2> HIDE DEF l, n, Keeps
  <2> QED
    BY <1>1, <2>1, <2>2
<1>6. /\ \A c : Source(c, q, 0) <=> c = r
      /\ \A c : Source(c, q, 1) <=> h.op = "set" /\ h.room = r
      /\ \A c : Source(c, l, 0) <=> c = r
  BY <1>1
<1>7. /\ \A i \in 0..(n + 1) : i = 0 \/ i = 1 \/ (i - 1 \in 1..n /\ i - 1 + 1 = i)
      /\ \A i \in 1..n : i + 1 \in 0..(n + 1)
      /\ \A i \in 0..n : i = 0 \/ i \in 1..n
      /\ 0 \in 0..(n + 1) /\ 1 \in 0..(n + 1) /\ 0 \in 0..n /\ 1..n \subseteq 0..n
      /\ 0 + 1 = 1
  BY <1>1
<1>8. Keeps(h) <=> h.op # "set" /\ ~(h.op = "clear" /\ h.room = r)
  OBVIOUS
<1> HIDE DEF l, n, h, Source, Keeps, After
<1>9. ASSUME NEW c
      PROVE  Lasts(c, l, r) <=> \/ c = r /\ After(l, 0, n)
                                \/ \E i \in 1..n : Source(c, l, i) /\ After(l, i, n)
  BY <1>2, <1>6, <1>7 DEF n
<1>10. Lasts(room, q, r) <=>
            \/ room = r /\ Keeps(h) /\ After(l, 0, n)
            \/ h.op = "set" /\ h.room = r /\ After(l, 0, n)
            \/ \E i \in 1..n : Source(room, l, i) /\ After(l, i, n)
  <2>1. Lasts(room, q, r) <=> \E i \in 0..(n + 1) : Source(room, q, i) /\ After(q, i, n + 1)
    BY <1>1, <1>2
  <2>2. Lasts(room, q, r) <=>
            \/ Source(room, q, 0) /\ After(q, 0, n + 1)
            \/ Source(room, q, 1) /\ After(q, 1, n + 1)
            \/ \E i \in 1..n : Source(room, q, i + 1) /\ After(q, i + 1, n + 1)
    BY <2>1, <1>7
  <2>3. After(q, 1, n + 1) <=> After(l, 0, n)
    BY <1>4, <1>7
  <2>4. \A i \in 1..n : After(q, i + 1, n + 1) <=> After(l, i, n)
    BY <1>4, <1>7
  <2> QED
    BY <2>2, <2>3, <2>4, <1>3, <1>5, <1>6
<1>11. \A c, d : \A i \in 1..n : Source(c, l, i) <=> Source(d, l, i)
  BY <1>3
<1>12. NoRoom # r
  BY RoomsAssumption
<1> QED
  BY <1>8, <1>9, <1>10, <1>11, <1>12 DEF l, h

\* What lasts of the room the session has, and of the rooms it is to be set to.
LEMMA LastsKept ==
  ASSUME NEW q \in Seq(SessionJobs), NEW room \in Rooms
  PROVE  /\ \A r \in Rooms : Lasts(NoRoom, q, r) => Lasts(room, q, r)
         /\ \A r \in Rooms : r # room /\ Lasts(room, q, r) => Lasts(NoRoom, q, r)
         /\ Lasts(room, q, room) /\ ~Lasts(NoRoom, q, room)
               => \A r \in Rooms : ~Lasts(NoRoom, q, r)
<1>1. NoRoom \notin Rooms
  BY RoomsAssumption
<1>2. ASSUME NEW r \in Rooms, Lasts(NoRoom, q, r) PROVE Lasts(room, q, r)
  BY <1>1, <1>2 DEF Lasts
<1>3. ASSUME NEW r \in Rooms, r # room, Lasts(room, q, r) PROVE Lasts(NoRoom, q, r)
  BY <1>3 DEF Lasts
<1>4. ASSUME Lasts(room, q, room), ~Lasts(NoRoom, q, room), NEW r \in Rooms
      PROVE  ~Lasts(NoRoom, q, r)
  <2>1. PICK i \in 0..Len(q) :
            /\ \/ i = 0
               \/ i > 0 /\ q[i].op = "set" /\ q[i].room = room
            /\ \A j \in (i + 1)..Len(q) : q[j].op # "set"
                                          /\ ~(q[j].op = "clear" /\ q[j].room = room)
    BY <1>4 DEF Lasts
  <2>2. i = 0
    BY <1>4, <2>1 DEF Lasts
  <2>3. \A j \in 1..Len(q) : q[j].op # "set"
    BY <2>1, <2>2
  <2>4. ASSUME NEW k \in 0..Len(q), k > 0 PROVE k \in 1..Len(q)
    BY <2>4, LenProperties
  <2> QED
    BY <1>1, <2>3, <2>4 DEF Lasts
<1> QED
  BY <1>2, <1>3, <1>4

\* Nothing lasts where there was nothing.
LEMMA NothingLasts ==
  ASSUME NEW q \in Seq(SessionJobs), ~Amid(Sets, q), NEW r \in Rooms
  PROVE  ~Lasts(NoRoom, q, r)
<1>1. \A i \in 1..Len(q) : q[i] \in SessionJobs
  OBVIOUS
<1>2. \A i \in 1..Len(q) : q[i].op # "set"
  BY <1>1 DEF Amid, Sets
<1>3. \A i \in 0..Len(q) : i > 0 => i \in 1..Len(q)
  BY LenProperties
<1> QED
  BY <1>2, <1>3, RoomsAssumption DEF Lasts
-----------------------------------------------------------------------------
(* Jobs and types *)

LEMMA SessionJobKinds ==
  /\ [op |-> "login"] \in Logins
  /\ [op |-> "cleanup"] \in Cleanups
  /\ [op |-> "cancel"] \in Cancels
  /\ \A r \in Rooms : /\ [op |-> "set", room |-> r] \in Sets
                      /\ [op |-> "clear", room |-> r] \in SessionJobs
  /\ \A n \in Nat : [op |-> "ack", token |-> n] \in SessionJobs
  /\ \A j \in SessionJobs : /\ j.op \in {"set", "clear"} => j.room \in Rooms
                            /\ j.op = "ack" => j.token \in Nat
  /\ Logins \subseteq SessionJobs /\ Cleanups \subseteq SessionJobs
  /\ Cancels \subseteq SessionJobs /\ Sets \subseteq SessionJobs
  BY DEF SessionJobs, Logins, Cleanups, Cancels, Sets

LEMMA RoomJobKinds ==
  /\ \A s \in Sessions : /\ JobFor("enter", s) \in RoomJobs
                         /\ JobFor("enterMap", s) \in RoomJobs
                         /\ JobFor("leave", s) \in RoomJobs
  /\ \A s \in Sessions, k \in Keys :
        [op |-> "transfer", who |-> s, key |-> k] \in RoomJobs
  /\ \A j \in RoomJobs : /\ j.who \in Sessions
                         /\ j.op \in {"enter", "enterMap", "leave", "transfer"}
                         /\ j.op = "transfer" => j.key \in Keys
  /\ \A n \in {"login", "change"}, s \in Sessions : JobFor(EnterJob[n], s) \in RoomJobs
  BY DEF RoomJobs, JobFor, EnterJob

\* The queues of a state.
LEMMA QueueTypes ==
  ASSUME Types
  PROVE  /\ \A s \in Sessions : sessionJobs[s] \in Seq(SessionJobs)
         /\ \A r \in Rooms : roomJobs[r] \in Seq(RoomJobs) /\ entering[r] \in Seq(RoomJobs)
  BY DEF Types

LEMMA PlanFacts ==
  ASSUME Types
  PROVE  /\ DOMAIN plan \subseteq Sessions
         /\ \A s \in DOMAIN plan : plan[s] \in Seq(Keys)
  BY RoomsAssumption DEF Types

\* A job pushed to one session or one room.
LEMMA SessionPush ==
  ASSUME Types, NEW s \in Sessions, NEW j \in SessionJobs,
         sessionJobs' = [sessionJobs EXCEPT ![s] = Append(@, j)]
  PROVE  sessionJobs' \in [Sessions -> Seq(SessionJobs)]
  BY Pushed DEF Types

LEMMA RoomPush ==
  ASSUME Types, NEW r \in Rooms, NEW j \in RoomJobs,
         roomJobs' = [roomJobs EXCEPT ![r] = Append(@, j)]
  PROVE  roomJobs' \in [Rooms -> Seq(RoomJobs)]
  BY Pushed DEF Types

\* The states are typed.
LEMMA TypesInit == Init => Types
<1> SUFFICES ASSUME Init PROVE Types
  OBVIOUS
<1>1. World \in Keys
  BY RoomsAssumption
<1>2. NoChange \in [state : {"none", "waiting", "switching"}, token : Nat, target : Keys]
  BY <1>1 DEF NoChange
<1>3. [token |-> -1, key |-> World] \in [token : Nat \cup {-1}, key : Keys]
  BY <1>1
<1> QED
  BY <1>1, <1>2, <1>3 DEF Init, Types

Changes == [state : {"none", "waiting", "switching"}, token : Nat, target : Keys]

LEMMA TypesSession ==
  ASSUME Types, Planned, NEW s \in Sessions,
         EnterGame(s) \/ PartyPasses(s) \/ OnDisconnected(s) \/ TryBeginMapChange(s)
           \/ AckArrives(s) \/ EndMapChange(s) \/ SessionJob(s)
  PROVE  Types'
<1>0. World \in Keys /\ NoRoom \notin Rooms /\ NoChange \in Changes
  BY RoomsAssumption DEF NoChange, Changes
<1>1. CASE EnterGame(s)
  BY <1>1 DEF EnterGame, Types, mapVars, managerVars, roomVars
<1>2. CASE PartyPasses(s)
  <2>1. sessionJobs' \in [Sessions -> Seq(SessionJobs)]
    BY <1>2, SessionPush, SessionJobKinds DEF PartyPasses
  <2> QED
    BY <1>2, <2>1 DEF PartyPasses, Types, mapVars, managerVars, roomVars
<1>3. CASE OnDisconnected(s)
  <2>1. sessionJobs' \in [Sessions -> Seq(SessionJobs)]
    BY <1>3, SessionPush, SessionJobKinds DEF OnDisconnected
  <2> QED
    BY <1>3, <2>1 DEF OnDisconnected, Types, mapVars, managerVars, roomVars
<1>4. CASE TryBeginMapChange(s)
  <2> DEFINE token == Len(asked[s]) + 1
  <2>1. asked[s] \in Seq(Keys) /\ s \in DOMAIN plan /\ plan[s] \in Seq(Keys)
    BY <1>4, PlanFacts DEF Types, Planned, TryBeginMapChange
  <2>2. token \in 1..Len(plan[s]) /\ token \in Nat
    BY <1>4, <2>1, LenProperties DEF TryBeginMapChange
  <2>3. plan[s][token] \in Keys
    BY <2>1, <2>2
  <2>4. Append(asked[s], plan[s][token]) \in Seq(Keys)
    BY <2>1, <2>3
  <2> HIDE DEF token
  <2>5. /\ asked' = [asked EXCEPT ![s] = Append(asked[s], plan[s][token])]
        /\ mapChange' = [mapChange EXCEPT ![s] = [state |-> "waiting", token |-> token,
                                                  target |-> plan[s][token]]]
    BY <1>4 DEF TryBeginMapChange, token
  <2>6. asked' \in [Sessions -> Seq(Keys)] /\ mapChange' \in [Sessions -> Changes]
    BY <2>2, <2>3, <2>4, <2>5 DEF Types, Changes
  <2> QED
    BY <1>4, <2>6 DEF TryBeginMapChange, Types, Changes, managerVars, roomVars
<1>5. CASE AckArrives(s)
  <2>1. PICK t \in DOMAIN asked[s] :
          sessionJobs' = [sessionJobs EXCEPT ![s] = Append(@, [op |-> "ack", token |-> t])]
    BY <1>5 DEF AckArrives
  <2>2. t \in Nat
    BY <2>1, LenProperties DEF Types
  <2>3. sessionJobs' \in [Sessions -> Seq(SessionJobs)]
    BY <2>1, <2>2, SessionPush, SessionJobKinds
  <2> QED
    BY <1>5, <2>3 DEF AckArrives, Types, mapVars, managerVars, roomVars
<1>6. CASE EndMapChange(s)
  BY <1>0, <1>6 DEF EndMapChange, Types, Changes, managerVars, roomVars
<1>7. CASE SessionJob(s)
  <2> DEFINE job == Head(sessionJobs[s])
  <2>1. job \in SessionJobs /\ sessionJobs' \in [Sessions -> Seq(SessionJobs)]
    BY <1>7, Popped, QueueTypes DEF SessionJob, Types
  <2>2. UNCHANGED <<plan, party, rooms, fresh, players, playerCount, emptySince, closing,
                    entering>>
    BY <1>7 DEF SessionJob, managerVars, roomVars
  <2>a. job.op \in {"set", "clear"} => job.room \in Rooms
    BY <2>1, SessionJobKinds
  <2>3. \/ job.op = "login" /\ Login(s)
        \/ job.op = "cleanup" /\ Cleanup(s)
        \/ job.op = "set" /\ SetCurrentRoom(s, job.room)
        \/ job.op = "clear" /\ ClearCurrentRoom(s, job.room)
        \/ job.op = "cancel" /\ CancelMapChange(s)
        \/ job.op = "ack" /\ Ack(s, job.token)
    BY <1>7 DEF SessionJob
  <2> HIDE DEF job
  <2>4. CASE job.op = "login" /\ Login(s)
    <3>1. bound' \subseteq Sessions
      BY <2>4 DEF Login, Types
    <3>2. lobby' = [lobby EXCEPT ![s] = [job |-> "login", key |-> World, step |-> "find"]]
      BY <2>4 DEF Login
    <3>3. [job |-> "login", key |-> World, step |-> "find"]
            \in [job : {"login", "change"}, key : Keys, step : {"find", "create"}]
      BY <1>0
    <3> QED
      BY <2>1, <2>2, <2>4, <3>1, <3>2, <3>3 DEF Login, Types, mapVars
  <2>5. CASE job.op = "cleanup" /\ Cleanup(s)
    <3>1. roomJobs' \in [Rooms -> Seq(RoomJobs)]
      <4>1. CASE s \in bound /\ RoomLeft(s) # NoRoom
        <5>1. RoomLeft(s) \in Rooms
          BY <4>1 DEF Types, RoomLeft
        <5>2. roomJobs' = [roomJobs EXCEPT ![RoomLeft(s)] = Append(@, JobFor("leave", s))]
          BY <2>5, <4>1 DEF Cleanup
        <5> QED
          BY <5>1, <5>2, RoomPush, RoomJobKinds
      <4>2. CASE ~(s \in bound /\ RoomLeft(s) # NoRoom)
        BY <2>5, <4>2 DEF Cleanup, Types
      <4> QED
        BY <4>1, <4>2
    <3>2. mapChange' \in [Sessions -> Changes]
      BY <1>0, <2>5 DEF Cleanup, Types, Changes
    <3> QED
      BY <2>1, <2>2, <2>5, <3>1, <3>2 DEF Cleanup, Types, Changes
  <2>6. CASE job.op = "set" /\ SetCurrentRoom(s, job.room)
    BY <2>1, <2>2, <2>a, <2>6 DEF SetCurrentRoom, Types, mapVars
  <2>7. CASE job.op = "clear" /\ ClearCurrentRoom(s, job.room)
    BY <2>1, <2>2, <2>a, <2>7 DEF ClearCurrentRoom, Types, mapVars
  <2>8. CASE job.op = "cancel" /\ CancelMapChange(s)
    BY <1>0, <2>1, <2>2, <2>8 DEF CancelMapChange, Types, Changes
  <2>9. CASE job.op = "ack" /\ Ack(s, job.token)
    <3>1. CASE Acknowledged(s, job.token)
      <4>1. currentRoom[s] \in Rooms /\ mapChange[s].target \in Keys
        BY <3>1 DEF Acknowledged, Types
      <4>2. /\ roomJobs' = [roomJobs EXCEPT ![currentRoom[s]] = Append(@,
                              [op |-> "transfer", who |-> s, key |-> mapChange[s].target])]
            /\ mapChange' = [mapChange EXCEPT ![s].state = "switching"]
        BY <2>9, <3>1 DEF Ack
      <4>3. roomJobs' \in [Rooms -> Seq(RoomJobs)]
        BY <4>1, <4>2, RoomPush, RoomJobKinds
      <4>4. mapChange' \in [Sessions -> Changes]
        <5>1. mapChange \in [Sessions -> Changes] /\ mapChange[s] \in Changes
          BY DEF Types, Changes
        <5>2. [mapChange[s] EXCEPT !.state = "switching"] \in Changes
          BY <5>1 DEF Changes
        <5> QED
          BY <4>2, <5>1, <5>2
      <4> QED
        BY <2>1, <2>2, <2>9, <4>3, <4>4 DEF Ack, Types, Changes
    <3>2. CASE ~Acknowledged(s, job.token)
      BY <2>1, <2>2, <2>9, <3>2 DEF Ack, Types
    <3> QED
      BY <3>1, <3>2
  <2> QED
    BY <2>3, <2>4, <2>5, <2>6, <2>7, <2>8, <2>9
<1> QED
  BY <1>1, <1>2, <1>3, <1>4, <1>5, <1>6, <1>7

LobbyJobs == [job : {"login", "change"}, key : Keys, step : {"find", "create"}]

\* The lobby pushes an enter job for s to room r.
Pushes(s, r) == /\ lobby[s] # Idle
                /\ roomJobs' = [roomJobs EXCEPT ![r] = Append(@, JobFor(EnterJob[lobby[s].job], s))]
                /\ lobby' = [lobby EXCEPT ![s] = Idle]

\* What the lobby does: it finds the room, makes it, or sees that it has to.
LEMMA LobbyActs ==
  ASSUME Types, NEW s \in Sessions, FindRoom(s) \/ CreateRoom(s)
  PROVE  /\ lobby[s] \in LobbyJobs /\ lobby[s] # Idle /\ RoomKey(s) \in Keys
         /\ \/ \E r \in Rooms : Pushes(s, r) /\ rooms[RoomKey(s)] = r
                                /\ UNCHANGED <<rooms, fresh>>
            \/ \E r \in fresh : /\ Pushes(s, r) /\ rooms[RoomKey(s)] = NoRoom
                                /\ KeyOf[r] = RoomKey(s)
                                /\ rooms' = [rooms EXCEPT ![RoomKey(s)] = r]
                                /\ fresh' = fresh \ {r}
            \/ /\ lobby' = [lobby EXCEPT ![s].step = "create"]
               /\ UNCHANGED <<roomJobs, rooms, fresh>>
            \/ /\ lobby[s].job = "login" /\ lobby' = [lobby EXCEPT ![s] = Idle]
               /\ UNCHANGED <<roomJobs, rooms, fresh>>
<1>1. lobby[s] # Idle /\ lobby[s] \in LobbyJobs
  <2>1. lobby[s].job # "none"
    BY DEF FindRoom, CreateRoom
  <2> QED
    BY <2>1 DEF Idle, Types, LobbyJobs
<1>2. RoomKey(s) \in Keys
  BY <1>1, RoomsAssumption DEF RoomKey, LobbyJobs
<1>3. rooms[RoomKey(s)] \in Rooms \cup {NoRoom}
  BY <1>2 DEF Types
<1>4. CASE FindRoom(s)
  BY <1>1, <1>2, <1>3, <1>4 DEF FindRoom, EnterDropped, PushEnter, Pushes, managerVars
<1>5. CASE CreateRoom(s)
  BY <1>1, <1>2, <1>3, <1>5 DEF CreateRoom, Recheck, PushEnter, Pushes
<1> QED
  BY <1>1, <1>4, <1>5

LEMMA TypesLobby ==
  ASSUME Types, NEW s \in Sessions, FindRoom(s) \/ CreateRoom(s)
  PROVE  Types'
<1>1. UNCHANGED <<plan, link, party, bound, currentRoom, sessionJobs, mapChange, asked, ended,
                  players, playerCount, emptySince, closing, entering>>
  BY DEF FindRoom, CreateRoom, mapVars, roomVars
<1>2. /\ lobby[s] \in LobbyJobs /\ lobby[s].job \in {"login", "change"} /\ lobby[s].key \in Keys
      /\ RoomKey(s) \in Keys
  BY LobbyActs DEF LobbyJobs
<1>3. \A r \in Rooms : Pushes(s, r) => /\ roomJobs' \in [Rooms -> Seq(RoomJobs)]
                                       /\ lobby' \in [Sessions -> {Idle} \cup LobbyJobs]
  <2> SUFFICES ASSUME NEW r \in Rooms, Pushes(s, r)
               PROVE  /\ roomJobs' \in [Rooms -> Seq(RoomJobs)]
                      /\ lobby' \in [Sessions -> {Idle} \cup LobbyJobs]
    OBVIOUS
  <2>1. JobFor(EnterJob[lobby[s].job], s) \in RoomJobs
    BY <1>2, RoomJobKinds
  <2>2. roomJobs' \in [Rooms -> Seq(RoomJobs)]
    BY <2>1, RoomPush DEF Pushes
  <2> QED
    BY <2>2 DEF Pushes, Types, LobbyJobs
<1>4. CASE \E r \in Rooms : Pushes(s, r) /\ UNCHANGED <<rooms, fresh>>
  BY <1>1, <1>3, <1>4 DEF Types, LobbyJobs
<1>5. CASE \E r \in fresh : /\ Pushes(s, r)
                            /\ rooms' = [rooms EXCEPT ![RoomKey(s)] = r]
                            /\ fresh' = fresh \ {r}
  <2>1. fresh \subseteq Rooms
    BY DEF Types
  <2>2. PICK r \in Rooms : /\ Pushes(s, r)
                           /\ rooms' = [rooms EXCEPT ![RoomKey(s)] = r]
                           /\ fresh' = fresh \ {r}
    BY <1>5, <2>1
  <2>3. rooms' \in [Keys -> Rooms \cup {NoRoom}]
    BY <1>2, <2>2 DEF Types
  <2>4. fresh' \subseteq Rooms
    BY <2>1, <2>2
  <2> QED
    BY <1>1, <1>3, <2>2, <2>3, <2>4 DEF Types, LobbyJobs
<1>6. CASE /\ lobby' = [lobby EXCEPT ![s].step = "create"]
           /\ UNCHANGED <<roomJobs, rooms, fresh>>
  <2>1. [lobby[s] EXCEPT !.step = "create"] \in LobbyJobs
    BY <1>2 DEF LobbyJobs
  <2>2. lobby' \in [Sessions -> {Idle} \cup LobbyJobs]
    BY <1>6, <2>1 DEF Types, LobbyJobs
  <2> QED
    BY <1>1, <1>6, <2>2 DEF Types, LobbyJobs
<1>7. CASE /\ lobby' = [lobby EXCEPT ![s] = Idle]
           /\ UNCHANGED <<roomJobs, rooms, fresh>>
  BY <1>1, <1>7 DEF Types, LobbyJobs
<1> QED
  BY <1>4, <1>5, <1>6, <1>7, LobbyActs

\* What a room does with the first of its jobs.
LEMMA RoomActions ==
  ASSUME Types, NEW r \in Rooms, RoomJob(r)
  PROVE  LET job == Head(roomJobs[r]) IN
         /\ job \in RoomJobs /\ roomJobs[r] # <<>> /\ entering[r] = <<>>
         /\ roomJobs' = [roomJobs EXCEPT ![r] = Tail(@)]
         /\ roomJobs' \in [Rooms -> Seq(RoomJobs)]
         /\ UNCHANGED <<plan, link, party, bound, currentRoom, mapChange, asked, ended, rooms,
                        fresh, eraseKeys, raced, closing, offline, late>>
         /\ \/ job.op \in {"enter", "enterMap"} /\ EnterRegister(r, job)
            \/ job.op \in {"enter", "enterMap"} /\ EnterRefused(r, job)
            \/ /\ job.op \in {"leave", "transfer"} /\ job.who \in players[r]
               /\ Leave(r, job.who) /\ UNCHANGED entering
               /\ \/ job.op = "leave" /\ UNCHANGED lobby
                  \/ /\ job.op = "transfer"
                     /\ lobby' = [lobby EXCEPT ![job.who] =
                                    [job |-> "change", key |-> job.key, step |-> "find"]]
            \/ /\ job.op = "leave" /\ job.who \notin players[r]
               /\ UNCHANGED <<players, sessionJobs, playerCount, emptySince, entering, lobby>>
            \/ /\ job.op = "transfer" /\ job.who \notin players[r]
               /\ Post(job.who, [op |-> "cancel"])
               /\ UNCHANGED <<players, playerCount, emptySince, entering, lobby>>
<1>1. roomJobs[r] \in Seq(RoomJobs) /\ roomJobs[r] # <<>>
  BY QueueTypes DEF RoomJob
<1>2. Head(roomJobs[r]) \in RoomJobs /\ Tail(roomJobs[r]) \in Seq(RoomJobs)
  BY <1>1, Popped
<1> QED
  BY <1>1, <1>2 DEF RoomJob, LeaveById, Transfer, mapVars, managerVars, Types

LEMMA TypesRoom ==
  ASSUME Types, NEW r \in Rooms, RoomJob(r) \/ EnterCounted(r)
  PROVE  Types'
<1>1. CASE RoomJob(r)
  <2> DEFINE job == Head(roomJobs[r])
  <2>1. /\ job \in RoomJobs /\ job.who \in Sessions
        /\ roomJobs' \in [Rooms -> Seq(RoomJobs)]
        /\ UNCHANGED <<plan, link, party, bound, currentRoom, mapChange, asked, ended, rooms,
                       fresh, closing>>
        /\ job.op = "transfer" => job.key \in Keys
    BY <1>1, RoomActions, RoomJobKinds
  <2>2. \A j \in SessionJobs :
            Post(job.who, j) => sessionJobs' \in [Sessions -> Seq(SessionJobs)]
    BY <2>1, SessionPush DEF Post
  <2>3. ASSUME Leave(r, job.who)
        PROVE  /\ players' \in [Rooms -> SUBSET Sessions]
               /\ sessionJobs' \in [Sessions -> Seq(SessionJobs)]
               /\ playerCount' \in [Rooms -> Int] /\ emptySince' \in [Rooms -> BOOLEAN]
    <3>1. sessionJobs' \in [Sessions -> Seq(SessionJobs)]
      BY <2>2, <2>3, SessionJobKinds DEF Leave, Cleared
    <3>2. emptySince' \in [Rooms -> BOOLEAN]
      BY <2>3 DEF Leave, Types
    <3> QED
      BY <2>3, <3>1, <3>2 DEF Leave, Erased, Types
  <2>4. CASE job.op \in {"enter", "enterMap"} /\ EnterRegister(r, job)
    <3>1. sessionJobs' \in [Sessions -> Seq(SessionJobs)]
      BY <2>2, <2>4, SessionJobKinds DEF EnterRegister
    <3>2. <<job>> \in Seq(RoomJobs)
      BY <2>1
    <3> HIDE DEF job
    <3>3. entering' \in [Rooms -> Seq(RoomJobs)] /\ players' \in [Rooms -> SUBSET Sessions]
      BY <2>1, <2>4, <3>2 DEF EnterRegister, Types
    <3> QED
      BY <2>1, <2>4, <3>1, <3>3 DEF EnterRegister, Types
  <2>5. CASE job.op \in {"enter", "enterMap"} /\ EnterRefused(r, job)
    <3>1. sessionJobs' \in [Sessions -> Seq(SessionJobs)]
      <4>1. CASE job.op = "enterMap" /\ RefusedMapChange(job.who)
        BY <2>2, <4>1, SessionJobKinds DEF RefusedMapChange
      <4>2. CASE UNCHANGED sessionJobs
        BY <4>2 DEF Types
      <4> QED
        BY <2>5, <4>1, <4>2 DEF EnterRefused
    <3> HIDE DEF job
    <3> QED
      BY <2>1, <2>5, <3>1 DEF EnterRefused, Types
  <2>6. CASE /\ Leave(r, job.who) /\ UNCHANGED entering
             /\ \/ job.op = "leave" /\ UNCHANGED lobby
                \/ /\ job.op = "transfer"
                   /\ lobby' = [lobby EXCEPT ![job.who] =
                                  [job |-> "change", key |-> job.key, step |-> "find"]]
    <3> HIDE DEF job
    <3>1. lobby' \in [Sessions -> {Idle} \cup LobbyJobs]
      <4>1. CASE UNCHANGED lobby
        BY <4>1 DEF Types, LobbyJobs
      <4>2. CASE /\ job.op = "transfer"
                 /\ lobby' = [lobby EXCEPT ![job.who] =
                                  [job |-> "change", key |-> job.key, step |-> "find"]]
        <5>1. [job |-> "change", key |-> job.key, step |-> "find"] \in LobbyJobs
          BY <2>1, <4>2 DEF LobbyJobs
        <5> QED
          BY <4>2, <5>1 DEF Types, LobbyJobs
      <4> QED
        BY <2>6, <4>1, <4>2
    <3> QED
      BY <2>1, <2>3, <2>6, <3>1 DEF Types, LobbyJobs
  <2>7. CASE UNCHANGED <<players, sessionJobs, playerCount, emptySince, entering, lobby>>
    <3> HIDE DEF job
    <3> QED
      BY <2>1, <2>7 DEF Types
  <2>8. CASE /\ Post(job.who, [op |-> "cancel"])
             /\ UNCHANGED <<players, playerCount, emptySince, entering, lobby>>
    <3>1. sessionJobs' \in [Sessions -> Seq(SessionJobs)]
      BY <2>2, <2>8, SessionJobKinds
    <3> HIDE DEF job
    <3> QED
      BY <2>1, <2>8, <3>1 DEF Types
  <2> QED
    BY <1>1, <2>4, <2>5, <2>6, <2>7, <2>8, RoomActions
<1>2. CASE EnterCounted(r)
  <2>1. ended' \in [Sessions -> [token : Nat \cup {-1}, key : Keys]]
    <3> DEFINE job == Head(entering[r])
    <3>1. job.who \in Sessions
      BY <1>2, QueueTypes, Popped, RoomJobKinds DEF EnterCounted
    <3>2. [token |-> mapChange[job.who].token, key |-> KeyOf[r]]
             \in [token : Nat \cup {-1}, key : Keys]
      BY <3>1, RoomsAssumption DEF Types
    <3>3. \/ ended' = ended
          \/ ended' = [ended EXCEPT ![job.who] =
                          [token |-> mapChange[job.who].token, key |-> KeyOf[r]]]
      BY <1>2 DEF EnterCounted
    <3> HIDE DEF job
    <3> QED
      BY <3>1, <3>2, <3>3 DEF Types
  <2>2. <<>> \in Seq(RoomJobs)
    OBVIOUS
  <2> QED
    BY <1>2, <2>1, <2>2 DEF EnterCounted, Types, managerVars
<1> QED
  BY <1>1, <1>2

LEMMA TypesManager ==
  ASSUME Types,
         SelectPurge \/ Purge \/ \E s \in Sessions : MemberOffline(s)
  PROVE  Types'
<1>1. CASE SelectPurge
  BY <1>1 DEF SelectPurge, Types, mapVars, roomVars
<1>2. CASE Purge
  <2>1. rooms' \in [Keys -> Rooms \cup {NoRoom}]
    BY <1>2 DEF Purge, Types
  <2> QED
    BY <1>2, <2>1 DEF Purge, Types, mapVars, roomVars
<1>3. CASE \E s \in Sessions : MemberOffline(s)
  <2>1. closing' \in [Rooms -> BOOLEAN]
    BY <1>3 DEF MemberOffline, Types
  <2> QED
    BY <1>3, <2>1 DEF MemberOffline, Types, mapVars, managerVars
<1> QED
  BY <1>1, <1>2, <1>3

LEMMA TypesStep ==
  ASSUME Types, Planned, [Next]_vars
  PROVE  Types'
<1>1. CASE UNCHANGED vars
  BY <1>1 DEF vars, Types, mapVars, roomVars, managerVars
<1>2. CASE Next
  BY <1>2, TypesSession, TypesLobby, TypesRoom, TypesManager
     DEF Next, SessionActs, RoomActs
<1> QED
  BY <1>1, <1>2
-----------------------------------------------------------------------------
(* Who plays, and what a session is told *)

\* What a step leaves alone of s: where it stands and its jobs.
Unmoved(s) == /\ link'[s] = link[s] /\ (s \in party' <=> s \in party)
              /\ (s \in bound' <=> s \in bound)

\* A step runs the next job of s, takes s one step into or out of the game, or leaves it
\* where it is and may push it a job, which is no login and no cleanup.
LEMMA SessionSteps ==
  ASSUME Types, [Next]_vars, NEW s \in Sessions
  PROVE  /\ plan' = plan
         /\ \/ EnterGame(s)
            \/ PartyPasses(s)
            \/ OnDisconnected(s)
            \/ SessionJob(s)
            \/ Unmoved(s) /\ sessionJobs'[s] = sessionJobs[s]
            \/ /\ Unmoved(s)
               /\ \E j \in SessionJobs \ (Logins \cup Cleanups) :
                     sessionJobs'[s] = Append(sessionJobs[s], j)
<1> USE DEF Unmoved
<1>1. CASE UNCHANGED vars
  BY <1>1 DEF vars
<1>2. ASSUME NEW u \in Sessions, EnterGame(u) \/ PartyPasses(u) \/ OnDisconnected(u)
      PROVE  /\ plan' = plan
             /\ u # s => Unmoved(s) /\ sessionJobs'[s] = sessionJobs[s]
  BY <1>2 DEF EnterGame, PartyPasses, OnDisconnected, Types
<1>3. ASSUME NEW u \in Sessions, SessionJob(u)
      PROVE  /\ plan' = plan
             /\ u # s => Unmoved(s) /\ sessionJobs'[s] = sessionJobs[s]
  <2>1. plan' = plan /\ party' = party
    BY <1>3 DEF SessionJob
  <2>2. u # s => sessionJobs'[s] = sessionJobs[s]
    BY <1>3 DEF SessionJob, Types
  <2>3. u # s => link'[s] = link[s] /\ (s \in bound' <=> s \in bound)
    BY <1>3 DEF SessionJob, Types, Login, Cleanup, SetCurrentRoom, ClearCurrentRoom,
                CancelMapChange, Ack
  <2> QED
    BY <2>1, <2>2, <2>3
<1>4. ASSUME NEW u \in Sessions,
             FindRoom(u) \/ CreateRoom(u) \/ MemberOffline(u) \/ TryBeginMapChange(u)
               \/ EndMapChange(u)
      PROVE  plan' = plan /\ Unmoved(s) /\ sessionJobs'[s] = sessionJobs[s]
  BY <1>4 DEF FindRoom, CreateRoom, MemberOffline, TryBeginMapChange, EndMapChange
<1>5. ASSUME NEW u \in Sessions, AckArrives(u)
      PROVE  /\ plan' = plan /\ Unmoved(s)
             /\ \/ sessionJobs'[s] = sessionJobs[s]
                \/ \E j \in SessionJobs \ (Logins \cup Cleanups) :
                      sessionJobs'[s] = Append(sessionJobs[s], j)
  <2>1. PICK t \in DOMAIN asked[u] :
          sessionJobs' = [sessionJobs EXCEPT ![u] = Append(@, [op |-> "ack", token |-> t])]
    BY <1>5 DEF AckArrives
  <2>2. t \in Nat
    BY <2>1, LenProperties DEF Types
  <2>3. [op |-> "ack", token |-> t] \in SessionJobs \ (Logins \cup Cleanups)
    BY <2>2, SessionJobKinds DEF Logins, Cleanups
  <2> QED
    BY <1>5, <2>1, <2>3 DEF AckArrives, Types
<1>6. ASSUME NEW r \in Rooms, RoomJob(r)
      PROVE  /\ plan' = plan /\ Unmoved(s)
             /\ \/ sessionJobs'[s] = sessionJobs[s]
                \/ \E j \in SessionJobs \ (Logins \cup Cleanups) :
                      sessionJobs'[s] = Append(sessionJobs[s], j)
  <2>1. UNCHANGED <<plan, link, party, bound>>
    BY <1>6 DEF RoomJob
  <2>2. [op |-> "cancel"] \in SessionJobs \ (Logins \cup Cleanups)
    BY SessionJobKinds DEF Logins, Cleanups, Cancels
  <2>3. /\ [op |-> "set", room |-> r] \in SessionJobs \ (Logins \cup Cleanups)
        /\ [op |-> "clear", room |-> r] \in SessionJobs \ (Logins \cup Cleanups)
    BY SessionJobKinds DEF Logins, Cleanups, Sets
  <2>4. PICK u \in Sessions :
          \/ UNCHANGED sessionJobs
          \/ Post(u, [op |-> "cancel"])
          \/ Post(u, [op |-> "set", room |-> r])
          \/ Post(u, [op |-> "clear", room |-> r])
    <3>1. Head(roomJobs[r]).who \in Sessions
      BY <1>6, RoomActions, RoomJobKinds
    <3> QED
      BY <1>6, <3>1, RoomActions DEF EnterRegister, EnterRefused, RefusedMapChange, Leave,
                                     Cleared
  <2>5. ASSUME NEW j \in SessionJobs \ (Logins \cup Cleanups), Post(u, j)
        PROVE  \/ sessionJobs'[s] = sessionJobs[s]
               \/ sessionJobs'[s] = Append(sessionJobs[s], j)
    BY <2>5 DEF Post, Types
  <2> QED
    BY <2>1, <2>2, <2>3, <2>4, <2>5
<1>7. ASSUME NEW r \in Rooms, EnterCounted(r)
      PROVE  plan' = plan /\ Unmoved(s) /\ sessionJobs'[s] = sessionJobs[s]
  BY <1>7 DEF EnterCounted
<1>8. ASSUME SelectPurge \/ Purge
      PROVE  plan' = plan /\ Unmoved(s) /\ sessionJobs'[s] = sessionJobs[s]
  BY <1>8 DEF SelectPurge, Purge
<1> HIDE DEF Unmoved
<1> QED
  BY <1>1, <1>2, <1>3, <1>4, <1>5, <1>6, <1>7, <1>8 DEF Next, SessionActs, RoomActs

\* What running a job of s does to where s stands.
LEMMA JobRun ==
  ASSUME Types, NEW s \in Sessions, SessionJob(s)
  PROVE  LET job == Head(sessionJobs[s]) IN
         /\ sessionJobs[s] # <<>> /\ job \in SessionJobs
         /\ sessionJobs' = [sessionJobs EXCEPT ![s] = Tail(@)]
         /\ sessionJobs'[s] = Tail(sessionJobs[s])
         /\ plan' = plan /\ party' = party
         /\ \/ job \in Logins /\ Login(s)
            \/ job \in Cleanups /\ Cleanup(s)
            \/ job \in Sets /\ SetCurrentRoom(s, job.room)
            \/ job.op = "clear" /\ ClearCurrentRoom(s, job.room)
            \/ job \in Cancels /\ CancelMapChange(s)
            \/ job.op = "ack" /\ Ack(s, job.token)
         /\ UNCHANGED <<rooms, fresh, eraseKeys, raced, players, playerCount, emptySince,
                        closing, entering>>
<1>1. sessionJobs[s] \in Seq(SessionJobs) /\ sessionJobs[s] # <<>>
  BY QueueTypes DEF SessionJob
<1>2. Head(sessionJobs[s]) \in SessionJobs
  BY <1>1, Popped
<1> QED
  BY <1>1, <1>2 DEF SessionJob, Logins, Cleanups, Sets, Cancels, managerVars, roomVars, Types

LEMMA PlannedStep ==
  ASSUME Types, Planned, CleanedOnce, [Next]_vars
  PROVE  Planned' /\ CleanedOnce'
<1> DEFINE Ready(s) == /\ s \in party \/ s \in bound => s \in DOMAIN plan
                       /\ Amid(Logins, sessionJobs[s]) => s \in DOMAIN plan
                       /\ Amid(Cleanups, sessionJobs[s]) => link[s] = "closed"
                       /\ OnceAmid(Cleanups, sessionJobs[s])
<1>0. \A s \in Sessions : Ready(s)
  BY DEF Planned, CleanedOnce
<1>t. Types'
  BY TypesStep
<1>1. ASSUME NEW s \in Sessions PROVE Ready(s)'
  <2>0. sessionJobs[s] \in Seq(SessionJobs) /\ Ready(s)
    BY <1>0, QueueTypes
  <2>1. CASE EnterGame(s)
    BY <2>0, <2>1, <1>t DEF EnterGame, Types
  <2>2. CASE PartyPasses(s)
    <3>1. sessionJobs'[s] = Append(sessionJobs[s], [op |-> "login"])
      BY <2>2 DEF PartyPasses, Types
    <3>2. [op |-> "login"] \in SessionJobs /\ [op |-> "login"] \notin Cleanups
      BY SessionJobKinds DEF Cleanups
    <3> QED
      BY <2>0, <2>2, <3>1, <3>2, Pushed DEF PartyPasses
  <2>3. CASE OnDisconnected(s)
    <3>1. /\ sessionJobs'[s] = Append(sessionJobs[s], [op |-> "cleanup"])
          /\ link[s] = "open" /\ link'[s] = "closed"
      BY <2>3 DEF OnDisconnected, Types
    <3>2. [op |-> "cleanup"] \in SessionJobs /\ [op |-> "cleanup"] \notin Logins
      BY SessionJobKinds DEF Logins
    <3>3. /\ Amid(Logins, sessionJobs'[s]) => Amid(Logins, sessionJobs[s])
          /\ OnceAmid(Cleanups, sessionJobs'[s])
      BY <2>0, <3>1, <3>2, Pushed
    <3> QED
      BY <2>0, <2>3, <3>1, <3>3 DEF OnDisconnected
  <2>4. CASE SessionJob(s)
    <3> DEFINE q == sessionJobs[s]  job == Head(sessionJobs[s])
    <3>1. /\ q # <<>> /\ sessionJobs'[s] = Tail(q) /\ plan' = plan /\ party' = party
          /\ \/ job \in Logins /\ Login(s)
             \/ job \in Cleanups /\ Cleanup(s)
             \/ bound' = bound /\ link' = link
      BY <2>4, JobRun DEF SetCurrentRoom, ClearCurrentRoom, CancelMapChange, Ack
    <3>2. /\ Amid(Logins, q) <=> job \in Logins \/ Amid(Logins, Tail(q))
          /\ Amid(Cleanups, q) <=> job \in Cleanups \/ Amid(Cleanups, Tail(q))
          /\ OnceAmid(Cleanups, Tail(q)) /\ ~(job \in Cleanups /\ Amid(Cleanups, Tail(q)))
      BY <2>0, <3>1, Popped
    <3> HIDE DEF q, job
    <3> QED
      BY <2>0, <3>1, <3>2 DEF q, Login, Cleanup
  <2>5. CASE Unmoved(s) /\ sessionJobs'[s] = sessionJobs[s]
    BY <2>0, <2>5, SessionSteps DEF Unmoved
  <2>6. CASE /\ Unmoved(s)
             /\ \E j \in SessionJobs \ (Logins \cup Cleanups) :
                   sessionJobs'[s] = Append(sessionJobs[s], j)
    <3>1. PICK j \in SessionJobs \ (Logins \cup Cleanups) :
                   sessionJobs'[s] = Append(sessionJobs[s], j)
      BY <2>6
    <3>2. /\ Amid(Logins, sessionJobs'[s]) <=> Amid(Logins, sessionJobs[s])
          /\ Amid(Cleanups, sessionJobs'[s]) <=> Amid(Cleanups, sessionJobs[s])
          /\ OnceAmid(Cleanups, sessionJobs'[s])
      BY <2>0, <3>1, Pushed
    <3>3. plan' = plan
      BY SessionSteps
    <3> QED
      BY <2>0, <2>6, <3>2, <3>3 DEF Unmoved
  <2> QED
    BY <2>1, <2>2, <2>3, <2>4, <2>5, <2>6, SessionSteps
<1> QED
  BY <1>1, <1>t DEF Planned, CleanedOnce, Types
-----------------------------------------------------------------------------
(* A player is in one place *)

LEMMA RoomPushed ==
  ASSUME Types, NEW r \in Rooms, NEW j \in RoomJobs,
         roomJobs' = [roomJobs EXCEPT ![r] = Append(@, j)],
         NEW M, NEW q \in Rooms
  PROVE  /\ Amid(M, roomJobs'[q]) <=> Amid(M, roomJobs[q]) \/ (q = r /\ j \in M)
         /\ OnceAmid(M, roomJobs'[q])
              <=> /\ OnceAmid(M, roomJobs[q])
                  /\ q = r /\ j \in M => ~Amid(M, roomJobs[q])
<1>1. roomJobs[r] \in Seq(RoomJobs)
  BY QueueTypes
<1>2. roomJobs'[q] = IF q = r THEN Append(roomJobs[r], j) ELSE roomJobs[q]
  BY DEF Types
<1> QED
  BY <1>1, <1>2, Pushed

LEMMA RoomPopped ==
  ASSUME Types, NEW r \in Rooms, roomJobs[r] # <<>>,
         roomJobs' = [roomJobs EXCEPT ![r] = Tail(@)],
         NEW M, NEW q \in Rooms
  PROVE  /\ Amid(M, roomJobs[q])
              <=> Amid(M, roomJobs'[q]) \/ (q = r /\ Head(roomJobs[r]) \in M)
         /\ OnceAmid(M, roomJobs[q])
              => /\ OnceAmid(M, roomJobs'[q])
                 /\ ~(q = r /\ Head(roomJobs[r]) \in M /\ Amid(M, roomJobs'[q]))
<1>1. roomJobs[r] \in Seq(RoomJobs)
  BY QueueTypes
<1>2. roomJobs'[q] = IF q = r THEN Tail(roomJobs[r]) ELSE roomJobs[q]
  BY DEF Types
<1> QED
  BY <1>1, <1>2, Popped

LoggingIn(s) == Amid(Logins, sessionJobs[s])
OneLogin(s) == OnceAmid(Logins, sessionJobs[s])
OneEntry(s, r) == OnceAmid(Entries(s), roomJobs[r])

OutKept(s) == /\ (link'[s] = "new" <=> link[s] = "new")
              /\ (s \in party' <=> s \in party)
              /\ (LoggingIn(s)' <=> LoggingIn(s)) /\ (OneLogin(s) => OneLogin(s)')
EntryKept(s, r) == /\ EnterAt(s, r)' <=> EnterAt(s, r)
                   /\ OneEntry(s, r) => OneEntry(s, r)'
EntryGone(s, r) == EnterAt(s, r) /\ (OneEntry(s, r) => OneEntry(s, r)' /\ ~EnterAt(s, r)')
LobbyKept(s) == lobby'[s] = Idle <=> lobby[s] = Idle
InKept(s, r) == s \in players'[r] <=> s \in players[r]

Stays(s) == /\ OutKept(s) /\ LobbyKept(s)
            /\ \A r \in Rooms : EntryKept(s, r) /\ InKept(s, r)
\* From outside to the lobby.
Comes(s) ==
    /\ Outside(s)
    /\ \A r \in Rooms : EntryKept(s, r) /\ InKept(s, r)
    /\ \/ /\ LobbyKept(s)
          /\ \/ /\ link[s] = "new" /\ link'[s] # "new" /\ s \in party'
                /\ (LoggingIn(s)' <=> LoggingIn(s)) /\ (OneLogin(s) => OneLogin(s)')
             \/ /\ s \in party /\ s \notin party' /\ (link'[s] = "new" <=> link[s] = "new")
                /\ LoggingIn(s)' /\ (~LoggingIn(s) => OneLogin(s)')
       \/ /\ LoggingIn(s) /\ (OneLogin(s) => OneLogin(s)' /\ ~LoggingIn(s)')
          /\ (link'[s] = "new" <=> link[s] = "new") /\ (s \in party' <=> s \in party)
          /\ lobby'[s] # Idle
\* From the lobby to an enter job.
Leads(s, r) ==
    /\ OutKept(s) /\ lobby[s] # Idle /\ lobby'[s] = Idle
    /\ EnterAt(s, r)' /\ (OneEntry(s, r) /\ ~EnterAt(s, r) => OneEntry(s, r)')
    /\ \A q \in Rooms : InKept(s, q) /\ (q # r => EntryKept(s, q))
\* From the lobby back outside: the login is dropped.
Drops(s) ==
    /\ OutKept(s) /\ lobby[s] # Idle /\ lobby'[s] = Idle
    /\ \A r \in Rooms : EntryKept(s, r) /\ InKept(s, r)
\* From the enter job to the room.
Enters(s, r) ==
    /\ OutKept(s) /\ LobbyKept(s) /\ EntryGone(s, r)
    /\ s \in players'[r]
    /\ \A q \in Rooms \ {r} : EntryKept(s, q) /\ InKept(s, q)
Refused(s, r) ==
    /\ OutKept(s) /\ LobbyKept(s) /\ EntryGone(s, r)
    /\ \A q \in Rooms : InKept(s, q) /\ (q # r => EntryKept(s, q))
\* Out of the room, to the lobby or away.
Goes(s, r) ==
    /\ OutKept(s) /\ s \in players[r] /\ s \notin players'[r]
    /\ \A q \in Rooms : EntryKept(s, q) /\ (q # r => InKept(s, q))

Moved(s) == \/ Comes(s) \/ Drops(s)
            \/ \E r \in Rooms : Leads(s, r) \/ Enters(s, r) \/ Refused(s, r) \/ Goes(s, r)
OneMoves == \/ \A s \in Sessions : Stays(s)
            \/ \E u \in Sessions : Moved(u) /\ \A s \in Sessions \ {u} : Stays(s)

\* No job with one of these operations is pushed or run.
QuietRooms(ops) ==
    \/ UNCHANGED roomJobs
    \/ \E r \in Rooms, j \in RoomJobs :
          j.op \notin ops /\ roomJobs' = [roomJobs EXCEPT ![r] = Append(@, j)]
    \/ \E r \in Rooms :
          /\ Head(roomJobs[r]).op \notin ops /\ roomJobs[r] # <<>>
          /\ roomJobs' = [roomJobs EXCEPT ![r] = Tail(@)]
\* No job in M is pushed to s or run by it.
QuietSession(s, M) ==
    \/ sessionJobs'[s] = sessionJobs[s]
    \/ \E j \in SessionJobs \ M : sessionJobs'[s] = Append(sessionJobs[s], j)
    \/ /\ sessionJobs[s] # <<>> /\ Head(sessionJobs[s]) \notin M
       /\ sessionJobs'[s] = Tail(sessionJobs[s])

\* The queues that jobs of no interest here were pushed to.
LEMMA EntriesKept ==
  ASSUME Types,
         QuietRooms({"enter", "enterMap"}),
         NEW s \in Sessions, NEW q \in Rooms
  PROVE  EntryKept(s, q)
<1>1. CASE UNCHANGED roomJobs
  BY <1>1 DEF EntryKept, EnterAt, OneEntry
<1>2. ASSUME NEW r \in Rooms, NEW j \in RoomJobs, j.op \notin {"enter", "enterMap"},
             roomJobs' = [roomJobs EXCEPT ![r] = Append(@, j)]
      PROVE  EntryKept(s, q)
  <2>1. j \notin Entries(s)
    BY <1>2 DEF Entries
  <2>2. \A M : /\ Amid(M, roomJobs'[q]) <=> Amid(M, roomJobs[q]) \/ (q = r /\ j \in M)
               /\ OnceAmid(M, roomJobs'[q])
                    <=> /\ OnceAmid(M, roomJobs[q])
                        /\ q = r /\ j \in M => ~Amid(M, roomJobs[q])
    BY <1>2, RoomPushed
  <2> QED
    BY <2>1, <2>2 DEF EntryKept, EnterAt, OneEntry
<1>3. ASSUME NEW r \in Rooms, Head(roomJobs[r]).op \notin {"enter", "enterMap"},
             roomJobs[r] # <<>>, roomJobs' = [roomJobs EXCEPT ![r] = Tail(@)]
      PROVE  EntryKept(s, q)
  <2>1. Head(roomJobs[r]) \notin Entries(s)
    BY <1>3 DEF Entries
  <2> QED
    BY <1>3, <2>1, RoomPopped DEF EntryKept, EnterAt, OneEntry
<1> QED
  BY <1>1, <1>2, <1>3 DEF QuietRooms

LEMMA LoginsKept ==
  ASSUME Types, NEW s \in Sessions, QuietSession(s, Logins)
  PROVE  (LoggingIn(s)' <=> LoggingIn(s)) /\ (OneLogin(s) => OneLogin(s)')
<1>1. sessionJobs[s] \in Seq(SessionJobs)
  BY QueueTypes
<1>2. ASSUME NEW j \in SessionJobs \ Logins, sessionJobs'[s] = Append(sessionJobs[s], j)
      PROVE  (LoggingIn(s)' <=> LoggingIn(s)) /\ (OneLogin(s) => OneLogin(s)')
  BY <1>1, <1>2, Pushed DEF LoggingIn, OneLogin
<1>3. ASSUME sessionJobs[s] # <<>>, Head(sessionJobs[s]) \notin Logins,
             sessionJobs'[s] = Tail(sessionJobs[s])
      PROVE  (LoggingIn(s)' <=> LoggingIn(s)) /\ (OneLogin(s) => OneLogin(s)')
  BY <1>1, <1>3, Popped DEF LoggingIn, OneLogin
<1>4. CASE sessionJobs'[s] = sessionJobs[s]
  BY <1>4 DEF LoggingIn, OneLogin
<1> QED
  BY <1>2, <1>3, <1>4 DEF QuietSession

LEMMA Still ==
  ASSUME Types, NEW s \in Sessions, link'[s] = "new" <=> link[s] = "new",
         s \in party' <=> s \in party, LobbyKept(s), UNCHANGED players,
         QuietRooms({"enter", "enterMap"}), QuietSession(s, Logins)
  PROVE  Stays(s)
  BY EntriesKept, LoginsKept DEF Stays, OutKept, InKept

\* The steps of the connection, the party and the map-change handlers.
LEMMA ClientMoves ==
  ASSUME Types, NEW u \in Sessions,
         \/ EnterGame(u) \/ PartyPasses(u) \/ OnDisconnected(u) \/ TryBeginMapChange(u)
         \/ AckArrives(u) \/ EndMapChange(u) \/ MemberOffline(u)
  PROVE  /\ \A s \in Sessions \ {u} : Stays(s)
         /\ Stays(u) \/ Comes(u)
<1>1. /\ UNCHANGED <<players, lobby, roomJobs>>
      /\ QuietRooms({"enter", "enterMap"}) /\ \A s \in Sessions : LobbyKept(s)
      /\ \A s \in Sessions, r \in Rooms : EntryKept(s, r) /\ InKept(s, r)
  BY DEF EnterGame, PartyPasses, OnDisconnected, TryBeginMapChange, AckArrives, EndMapChange,
         MemberOffline, QuietRooms, LobbyKept, roomVars, EntryKept, EnterAt, OneEntry, InKept
<1>2. \A s \in Sessions \ {u} : /\ link'[s] = link[s] /\ (s \in party' <=> s \in party)
                                /\ sessionJobs'[s] = sessionJobs[s]
  BY DEF EnterGame, PartyPasses, OnDisconnected, TryBeginMapChange, AckArrives, EndMapChange,
         MemberOffline, Types
<1>3. \A s \in Sessions \ {u} : Stays(s)
  BY <1>1, <1>2, Still DEF QuietSession
<1>4. CASE EnterGame(u)
  <2>1. /\ link[u] = "new" /\ link'[u] # "new" /\ u \in party'
        /\ sessionJobs'[u] = sessionJobs[u]
    BY <1>4 DEF EnterGame, Types
  <2> QED
    BY <1>1, <1>3, <2>1, LoginsKept DEF Comes, Outside, QuietSession
<1>5. CASE PartyPasses(u)
  <2>1. /\ u \in party /\ u \notin party' /\ link' = link
        /\ sessionJobs'[u] = Append(sessionJobs[u], [op |-> "login"])
    BY <1>5 DEF PartyPasses, Types
  <2>2. [op |-> "login"] \in SessionJobs /\ [op |-> "login"] \in Logins
        /\ sessionJobs[u] \in Seq(SessionJobs)
    BY SessionJobKinds, QueueTypes
  <2>3. LoggingIn(u)' /\ (OneLogin(u) /\ ~LoggingIn(u) => OneLogin(u)')
    BY <2>1, <2>2, Pushed DEF LoggingIn, OneLogin
  <2>4. ~LoggingIn(u) => OneLogin(u)
    BY DEF LoggingIn, OneLogin, Amid, OnceAmid
  <2> QED
    BY <1>1, <1>3, <2>1, <2>3, <2>4 DEF Comes, Outside
<1>6. CASE OnDisconnected(u)
  <2>1. /\ link[u] # "new" /\ link'[u] # "new" /\ party' = party
        /\ sessionJobs'[u] = Append(sessionJobs[u], [op |-> "cleanup"])
    BY <1>6 DEF OnDisconnected, Types
  <2>2. [op |-> "cleanup"] \in SessionJobs \ Logins
    BY SessionJobKinds DEF Logins
  <2> QED
    BY <1>1, <1>3, <2>1, <2>2, Still DEF QuietSession
<1>7. CASE AckArrives(u)
  <2>1. PICK t \in DOMAIN asked[u] :
          sessionJobs' = [sessionJobs EXCEPT ![u] = Append(@, [op |-> "ack", token |-> t])]
    BY <1>7 DEF AckArrives
  <2>2. t \in Nat
    BY <2>1, LenProperties DEF Types
  <2>3. [op |-> "ack", token |-> t] \in SessionJobs \ Logins
    BY <2>2, SessionJobKinds DEF Logins
  <2>4. sessionJobs'[u] = Append(sessionJobs[u], [op |-> "ack", token |-> t])
    BY <2>1 DEF Types
  <2> QED
    BY <1>1, <1>3, <1>7, <2>3, <2>4, Still DEF QuietSession, AckArrives
<1>8. CASE TryBeginMapChange(u) \/ EndMapChange(u) \/ MemberOffline(u)
  <2>1. UNCHANGED <<link, party, sessionJobs>>
    BY <1>8 DEF TryBeginMapChange, EndMapChange, MemberOffline
  <2> QED
    BY <1>1, <1>3, <2>1, Still DEF QuietSession
<1> QED
  BY <1>3, <1>4, <1>5, <1>6, <1>7, <1>8

LEMMA JobMoves ==
  ASSUME Types, CleanedOnce, NEW u \in Sessions, SessionJob(u)
  PROVE  /\ \A s \in Sessions \ {u} : Stays(s)
         /\ Stays(u) \/ Comes(u)
<1> DEFINE job == Head(sessionJobs[u])
<1>1. /\ sessionJobs[u] # <<>> /\ job \in SessionJobs
      /\ sessionJobs' = [sessionJobs EXCEPT ![u] = Tail(@)]
      /\ sessionJobs'[u] = Tail(sessionJobs[u])
      /\ plan' = plan /\ party' = party /\ UNCHANGED players
      /\ \/ job \in Logins /\ Login(u)
         \/ job \in Cleanups /\ Cleanup(u)
         \/ job \in Sets /\ SetCurrentRoom(u, job.room)
         \/ job.op = "clear" /\ ClearCurrentRoom(u, job.room)
         \/ job \in Cancels /\ CancelMapChange(u)
         \/ job.op = "ack" /\ Ack(u, job.token)
  BY JobRun
<1>2. \A s \in Sessions \ {u} : sessionJobs'[s] = sessionJobs[s]
  BY <1>1 DEF Types
<1>3. sessionJobs[u] \in Seq(SessionJobs)
  BY QueueTypes
<1> HIDE DEF job
<1>4. \A s \in Sessions, r \in Rooms : InKept(s, r)
  BY <1>1 DEF InKept
<1>5. ASSUME UNCHANGED <<link, lobby>>, QuietRooms({"enter", "enterMap"}), job \notin Logins
      PROVE  /\ \A s \in Sessions \ {u} : Stays(s)
             /\ Stays(u)
  BY <1>1, <1>2, <1>5, Still DEF QuietSession, LobbyKept, job
<1>6. CASE job \in Logins /\ Login(u)
  <2>1. /\ lobby' = [lobby EXCEPT ![u] = [job |-> "login", key |-> World, step |-> "find"]]
        /\ UNCHANGED <<link, roomJobs>>
    BY <1>6 DEF Login
  <2>2. lobby'[u] # Idle /\ \A s \in Sessions \ {u} : lobby'[s] = lobby[s]
    BY <2>1 DEF Types, Idle
  <2>3. \A s \in Sessions \ {u} : Stays(s)
    BY <1>1, <1>2, <2>1, <2>2, Still DEF QuietRooms, QuietSession, LobbyKept
  <2>4. /\ LoggingIn(u) /\ (OneLogin(u) => OneLogin(u)' /\ ~LoggingIn(u)')
        /\ \A r \in Rooms : EntryKept(u, r)
    BY <1>1, <1>3, <1>6, <2>1, Popped
       DEF LoggingIn, OneLogin, EntryKept, EnterAt, OneEntry, job
  <2> QED
    BY <1>1, <1>4, <2>1, <2>2, <2>3, <2>4 DEF Comes, Outside, LoggingIn
<1>7. CASE job \in Cleanups /\ Cleanup(u)
  <2>1. lobby' = lobby /\ link' = [link EXCEPT ![u] = "cleaned"] /\ job \notin Logins
    BY <1>7 DEF Cleanup, Logins, Cleanups
  <2>2. link[u] = "closed"
    <3>1. Amid(Cleanups, sessionJobs[u])
      BY <1>1, <1>3, <1>7, Popped DEF job
    <3> QED
      BY <3>1 DEF CleanedOnce
  <2>3. \A s \in Sessions : link'[s] = "new" <=> link[s] = "new"
    BY <2>1, <2>2 DEF Types
  <2>4. QuietRooms({"enter", "enterMap"})
    <3>1. CASE u \in bound /\ RoomLeft(u) # NoRoom
      <4>1. RoomLeft(u) \in Rooms
        BY <3>1 DEF Types, RoomLeft
      <4>2. roomJobs' = [roomJobs EXCEPT ![RoomLeft(u)] = Append(@, JobFor("leave", u))]
        BY <1>7, <3>1 DEF Cleanup
      <4>3. JobFor("leave", u) \in RoomJobs /\ JobFor("leave", u).op \notin {"enter", "enterMap"}
        BY RoomJobKinds DEF JobFor
      <4> QED
        BY <4>1, <4>2, <4>3 DEF QuietRooms
    <3>2. CASE ~(u \in bound /\ RoomLeft(u) # NoRoom)
      BY <1>7, <3>2 DEF Cleanup, QuietRooms
    <3> QED
      BY <3>1, <3>2
  <2> QED
    BY <1>1, <1>2, <2>1, <2>3, <2>4, Still DEF QuietSession, LobbyKept, job
<1>8. CASE /\ job.op # "login"
           /\ \/ SetCurrentRoom(u, job.room) \/ ClearCurrentRoom(u, job.room)
              \/ CancelMapChange(u)
  <2>1. UNCHANGED <<link, lobby, roomJobs>> /\ job \notin Logins
    BY <1>8 DEF SetCurrentRoom, ClearCurrentRoom, CancelMapChange, Logins
  <2> QED
    BY <1>5, <2>1 DEF QuietRooms
<1>9. CASE job.op = "ack" /\ Ack(u, job.token)
  <2>1. UNCHANGED <<link, lobby>> /\ job \notin Logins
    BY <1>9 DEF Ack, Logins
  <2>2. QuietRooms({"enter", "enterMap"})
    <3>1. CASE Acknowledged(u, job.token)
      <4>1. currentRoom[u] \in Rooms /\ mapChange[u].target \in Keys
        BY <3>1 DEF Acknowledged, Types
      <4>2. roomJobs' = [roomJobs EXCEPT ![currentRoom[u]] = Append(@,
                              [op |-> "transfer", who |-> u, key |-> mapChange[u].target])]
        BY <1>9, <3>1 DEF Ack
      <4>3. [op |-> "transfer", who |-> u, key |-> mapChange[u].target] \in RoomJobs
        BY <4>1, RoomJobKinds
      <4> QED
        BY <4>1, <4>2, <4>3 DEF QuietRooms
    <3>2. CASE ~Acknowledged(u, job.token)
      BY <1>9, <3>2 DEF Ack, QuietRooms
    <3> QED
      BY <3>1, <3>2
  <2> QED
    BY <1>5, <2>1, <2>2
<1> QED
  BY <1>1, <1>6, <1>7, <1>8, <1>9 DEF Sets, Cancels

LEMMA LobbyMoves ==
  ASSUME Types, NEW u \in Sessions, FindRoom(u) \/ CreateRoom(u)
  PROVE  /\ \A s \in Sessions \ {u} : Stays(s)
         /\ Stays(u) \/ Drops(u) \/ \E r \in Rooms : Leads(u, r)
<1>1. /\ UNCHANGED <<link, party, sessionJobs, players>>
      /\ \A s \in Sessions, r \in Rooms : InKept(s, r)
      /\ \A s \in Sessions : QuietSession(s, Logins)
  BY DEF FindRoom, CreateRoom, mapVars, roomVars, InKept, QuietSession
<1>2. \A s \in Sessions : OutKept(s)
  BY <1>1, LoginsKept DEF OutKept
<1>3. lobby[u] \in LobbyJobs /\ fresh \subseteq Rooms
  BY LobbyActs DEF Types
<1>4. ASSUME NEW r \in Rooms, Pushes(u, r)
      PROVE  Leads(u, r) /\ \A s \in Sessions \ {u} : Stays(s)
  <2> DEFINE j == JobFor(EnterJob[lobby[u].job], u)
  <2>1. j \in RoomJobs /\ j \in Entries(u) /\ \A s \in Sessions \ {u} : j \notin Entries(s)
    BY <1>3, RoomJobKinds DEF LobbyJobs, Entries, JobFor, EnterJob
  <2>2. \A M : \A q \in Rooms :
           /\ Amid(M, roomJobs'[q]) <=> Amid(M, roomJobs[q]) \/ (q = r /\ j \in M)
           /\ OnceAmid(M, roomJobs'[q])
                <=> /\ OnceAmid(M, roomJobs[q])
                    /\ q = r /\ j \in M => ~Amid(M, roomJobs[q])
    <3>1. roomJobs' = [roomJobs EXCEPT ![r] = Append(@, j)]
      BY <1>4 DEF Pushes
    <3> HIDE DEF j
    <3> QED
      BY <2>1, <3>1, RoomPushed
  <2>3. /\ lobby[u] # Idle /\ lobby'[u] = Idle
        /\ \A s \in Sessions \ {u} : lobby'[s] = lobby[s]
    BY <1>4 DEF Pushes, Types
  <2> HIDE DEF j
  <2>4. \A s \in Sessions \ {u}, q \in Rooms : EntryKept(s, q)
    BY <2>1, <2>2 DEF EntryKept, EnterAt, OneEntry
  <2>5. \A q \in Rooms \ {r} : EntryKept(u, q)
    BY <2>2 DEF EntryKept, EnterAt, OneEntry
  <2>6. EnterAt(u, r)' /\ (OneEntry(u, r) /\ ~EnterAt(u, r) => OneEntry(u, r)')
    BY <2>1, <2>2 DEF EnterAt, OneEntry
  <2> QED
    BY <1>1, <1>2, <2>3, <2>4, <2>5, <2>6 DEF Leads, Stays, LobbyKept
<1>5. CASE /\ lobby' = [lobby EXCEPT ![u].step = "create"]
           /\ UNCHANGED <<roomJobs, rooms, fresh>>
  <2>1. lobby'[u] = [lobby[u] EXCEPT !.step = "create"]
        /\ \A s \in Sessions \ {u} : lobby'[s] = lobby[s]
    BY <1>5 DEF Types
  <2>2. lobby'[u] # Idle /\ lobby[u] # Idle
    BY <1>3, <2>1 DEF LobbyJobs, Idle
  <2> QED
    BY <1>1, <1>5, <2>1, <2>2, Still DEF LobbyKept, QuietRooms
<1>6. CASE /\ lobby' = [lobby EXCEPT ![u] = Idle]
           /\ UNCHANGED <<roomJobs, rooms, fresh>>
  <2>1. lobby[u] # Idle /\ lobby'[u] = Idle /\ \A s \in Sessions \ {u} : lobby'[s] = lobby[s]
    BY <1>6, LobbyActs DEF Types
  <2>2. \A s \in Sessions, q \in Rooms : EntryKept(s, q)
    BY <1>6 DEF EntryKept, EnterAt, OneEntry
  <2> QED
    BY <1>1, <1>2, <2>1, <2>2 DEF Drops, Stays, LobbyKept
<1> QED
  BY <1>3, <1>4, <1>5, <1>6, LobbyActs

LEMMA RoomMoves ==
  ASSUME Types, NEW r \in Rooms, RoomJob(r)
  PROVE  \E u \in Sessions :
            /\ \A s \in Sessions \ {u} : Stays(s)
            /\ Stays(u) \/ Enters(u, r) \/ Refused(u, r) \/ Goes(u, r)
<1> DEFINE job == Head(roomJobs[r])
<1>0. PICK u \in Sessions : u = job.who
  BY RoomActions, RoomJobKinds
<1>1. /\ job \in RoomJobs /\ roomJobs[r] # <<>>
      /\ roomJobs' = [roomJobs EXCEPT ![r] = Tail(@)]
      /\ UNCHANGED <<link, party>>
      /\ \/ job.op \in {"enter", "enterMap"} /\ EnterRegister(r, job)
         \/ job.op \in {"enter", "enterMap"} /\ EnterRefused(r, job)
         \/ /\ job.op \in {"leave", "transfer"} /\ u \in players[r] /\ Leave(r, u)
            /\ \/ UNCHANGED lobby
               \/ lobby' = [lobby EXCEPT ![u] =
                               [job |-> "change", key |-> job.key, step |-> "find"]]
         \/ /\ job.op \in {"leave", "transfer"} /\ UNCHANGED <<players, lobby>>
            /\ UNCHANGED sessionJobs \/ Post(u, [op |-> "cancel"])
  BY <1>0, RoomActions
<1> HIDE DEF job
<1>2. /\ [op |-> "cancel"] \in SessionJobs \ Logins
      /\ [op |-> "set", room |-> r] \in SessionJobs \ Logins
      /\ [op |-> "clear", room |-> r] \in SessionJobs \ Logins
  BY SessionJobKinds DEF Logins, Cancels, Sets
<1>3. ASSUME NEW j \in SessionJobs \ Logins, Post(u, j)
      PROVE  \A s \in Sessions : QuietSession(s, Logins)
  BY <1>1, <1>3 DEF Post, Types, QuietSession
<1>4. ASSUME UNCHANGED sessionJobs PROVE \A s \in Sessions : QuietSession(s, Logins)
  BY <1>4 DEF QuietSession
<1>5. \A M : \A q \in Rooms :
         /\ Amid(M, roomJobs[q])
              <=> Amid(M, roomJobs'[q]) \/ (q = r /\ Head(roomJobs[r]) \in M)
         /\ OnceAmid(M, roomJobs[q])
              => /\ OnceAmid(M, roomJobs'[q])
                 /\ ~(q = r /\ Head(roomJobs[r]) \in M /\ Amid(M, roomJobs'[q]))
  BY <1>1, RoomPopped
<1>6. ASSUME job.op \in {"enter", "enterMap"}
      PROVE  /\ \A s \in Sessions \ {u}, q \in Rooms : EntryKept(s, q)
             /\ EntryGone(u, r) /\ \A q \in Rooms \ {r} : EntryKept(u, q)
  <2>1. /\ Head(roomJobs[r]) \in Entries(u)
        /\ \A s \in Sessions \ {u} : Head(roomJobs[r]) \notin Entries(s)
    BY <1>0, <1>1, <1>6 DEF Entries, job
  <2>2. \A s \in Sessions \ {u}, q \in Rooms : EntryKept(s, q)
    BY <1>5, <2>1 DEF EntryKept, EnterAt, OneEntry
  <2>a. \A q \in Rooms :
           /\ EnterAt(u, q) <=> EnterAt(u, q)' \/ q = r
           /\ OneEntry(u, q) => OneEntry(u, q)' /\ ~(q = r /\ EnterAt(u, q)')
    BY <1>5, <2>1 DEF EnterAt, OneEntry
  <2>3. \A q \in Rooms \ {r} : EntryKept(u, q)
    BY <2>a DEF EntryKept
  <2>4. EntryGone(u, r)
    BY <2>a DEF EntryGone
  <2> QED
    BY <2>2, <2>3, <2>4
<1>7. CASE job.op \in {"enter", "enterMap"} /\ EnterRegister(r, job)
  <2>1. \A s \in Sessions : QuietSession(s, Logins) /\ lobby' = lobby
    BY <1>0, <1>2, <1>3, <1>7 DEF EnterRegister
  <2>2. \A s \in Sessions : OutKept(s) /\ LobbyKept(s)
    BY <1>1, <2>1, LoginsKept DEF OutKept, LobbyKept
  <2>3. players' = [players EXCEPT ![r] = @ \cup {u}]
    BY <1>0, <1>7 DEF EnterRegister
  <2>4. /\ u \in players'[r] /\ \A q \in Rooms \ {r} : InKept(u, q)
        /\ \A s \in Sessions \ {u}, q \in Rooms : InKept(s, q)
    BY <1>1, <2>3 DEF InKept, Types
  <2>5. Enters(u, r) /\ \A s \in Sessions \ {u} : Stays(s)
    BY <1>1, <1>6, <1>7, <2>2, <2>4 DEF Enters, Stays
  <2> QED
    BY <1>1, <2>5
<1>8. CASE job.op \in {"enter", "enterMap"} /\ EnterRefused(r, job)
  <2>1. \A s \in Sessions : QuietSession(s, Logins) /\ lobby' = lobby /\ players' = players
    BY <1>0, <1>2, <1>3, <1>4, <1>8 DEF EnterRefused, RefusedMapChange
  <2>2. \A s \in Sessions : OutKept(s) /\ LobbyKept(s) /\ \A q \in Rooms : InKept(s, q)
    BY <1>1, <2>1, LoginsKept DEF OutKept, LobbyKept, InKept
  <2>3. Refused(u, r) /\ \A s \in Sessions \ {u} : Stays(s)
    BY <1>1, <1>6, <1>8, <2>2 DEF Refused, Stays
  <2> QED
    BY <1>1, <2>3
<1>9. CASE /\ job.op \in {"leave", "transfer"} /\ u \in players[r] /\ Leave(r, u)
           /\ \/ UNCHANGED lobby
              \/ lobby' = [lobby EXCEPT ![u] =
                              [job |-> "change", key |-> job.key, step |-> "find"]]
  <2>1. \A s \in Sessions : QuietSession(s, Logins)
    BY <1>2, <1>3, <1>9 DEF Leave, Cleared
  <2>2. \A s \in Sessions : OutKept(s)
    BY <1>1, <2>1, LoginsKept DEF OutKept
  <2>3. players' = [players EXCEPT ![r] = @ \ {u}]
    BY <1>9 DEF Leave, Erased
  <2>4. /\ u \notin players'[r] /\ \A q \in Rooms \ {r} : InKept(u, q)
        /\ \A s \in Sessions \ {u}, q \in Rooms : InKept(s, q)
    BY <1>1, <2>3 DEF InKept, Types
  <2>5. QuietRooms({"enter", "enterMap"})
    BY <1>1, <1>9 DEF QuietRooms, job
  <2>6. \A s \in Sessions, q \in Rooms : EntryKept(s, q)
    BY <2>5, EntriesKept
  <2>7. \A s \in Sessions \ {u} : LobbyKept(s)
    BY <1>9 DEF LobbyKept, Types
  <2>8. Goes(u, r) /\ \A s \in Sessions \ {u} : Stays(s)
    BY <1>1, <1>9, <2>2, <2>4, <2>6, <2>7 DEF Goes, Stays
  <2> QED
    BY <1>1, <2>8
<1>10. CASE /\ job.op \in {"leave", "transfer"} /\ UNCHANGED <<players, lobby>>
            /\ UNCHANGED sessionJobs \/ Post(u, [op |-> "cancel"])
  <2>1. \A s \in Sessions : QuietSession(s, Logins)
    BY <1>2, <1>3, <1>4, <1>10
  <2>2. QuietRooms({"enter", "enterMap"})
    BY <1>1, <1>10 DEF QuietRooms, job
  <2>3. \A s \in Sessions : Stays(s)
    BY <1>1, <1>10, <2>1, <2>2, Still DEF LobbyKept
  <2> QED
    BY <1>1, <2>3
<1> QED
  BY <1>1, <1>7, <1>8, <1>9, <1>10

\* At most one player moves in a step.
LEMMA PlaceSteps ==
  ASSUME Types, CleanedOnce, [Next]_vars
  PROVE  OneMoves
<1>1. ASSUME UNCHANGED <<link, party, lobby, players, roomJobs, sessionJobs>> PROVE OneMoves
  BY <1>1, Still DEF OneMoves, LobbyKept, QuietRooms, QuietSession
<1>2. ASSUME NEW r \in Rooms, EnterCounted(r) PROVE OneMoves
  BY <1>1, <1>2 DEF EnterCounted
<1>3. CASE SelectPurge \/ Purge \/ UNCHANGED vars
  BY <1>1, <1>3 DEF SelectPurge, Purge, vars, roomVars
<1>4. ASSUME NEW u \in Sessions,
             /\ \A s \in Sessions \ {u} : Stays(s)
             /\ Stays(u) \/ Moved(u)
      PROVE  OneMoves
  BY <1>4 DEF OneMoves
<1>5. ASSUME NEW u \in Sessions,
             \/ EnterGame(u) \/ PartyPasses(u) \/ OnDisconnected(u) \/ TryBeginMapChange(u)
             \/ AckArrives(u) \/ EndMapChange(u) \/ MemberOffline(u)
      PROVE  OneMoves
  BY <1>4, <1>5, ClientMoves DEF Moved
<1>6. ASSUME NEW u \in Sessions, SessionJob(u) PROVE OneMoves
  BY <1>4, <1>6, JobMoves DEF Moved
<1>7. ASSUME NEW u \in Sessions, FindRoom(u) \/ CreateRoom(u) PROVE OneMoves
  BY <1>4, <1>7, LobbyMoves DEF Moved
<1>8. ASSUME NEW r \in Rooms, RoomJob(r) PROVE OneMoves
  BY <1>4, <1>8, RoomMoves DEF Moved
<1> QED
  BY <1>2, <1>3, <1>5, <1>6, <1>7, <1>8 DEF Next, SessionActs, RoomActs

LEMMA OnePlaceStep ==
  ASSUME OneMoves, NEW s \in Sessions, OnePlace(s)
  PROVE  OnePlace(s)'
<1> USE DEF OnePlace, Outside
<1>0. Stays(s) \/ Moved(s)
  BY DEF OneMoves
<1>1. CASE Stays(s)
  BY <1>1 DEF Stays, OutKept, LobbyKept, EntryKept, InKept, EnterAt, OneEntry, LoggingIn,
              OneLogin
<1>2. CASE Comes(s)
  BY <1>2 DEF Comes, LobbyKept, EntryKept, InKept, EnterAt, OneEntry, LoggingIn, OneLogin
<1>3. ASSUME NEW r \in Rooms, Leads(s, r) PROVE OnePlace(s)'
  BY <1>3 DEF Leads, OutKept, EntryKept, InKept, EnterAt, OneEntry, LoggingIn, OneLogin
<1>4. ASSUME NEW r \in Rooms, Enters(s, r) PROVE OnePlace(s)'
  BY <1>4 DEF Enters, OutKept, LobbyKept, EntryKept, EntryGone, InKept, EnterAt, OneEntry,
              LoggingIn, OneLogin
<1>5. ASSUME NEW r \in Rooms, Refused(s, r) PROVE OnePlace(s)'
  BY <1>5 DEF Refused, OutKept, LobbyKept, EntryKept, EntryGone, InKept, EnterAt, OneEntry,
              LoggingIn, OneLogin
<1>6. ASSUME NEW r \in Rooms, Goes(s, r) PROVE OnePlace(s)'
  BY <1>6 DEF Goes, OutKept, EntryKept, InKept, EnterAt, OneEntry, LoggingIn, OneLogin
<1>7. CASE Drops(s)
  BY <1>7 DEF Drops, OutKept, EntryKept, InKept, EnterAt, OneEntry, LoggingIn, OneLogin
<1> QED
  BY <1>0, <1>1, <1>2, <1>3, <1>4, <1>5, <1>6, <1>7 DEF Moved
-----------------------------------------------------------------------------
(* A room with players is not purged, but by the race *)

LEMMA CountedRoomStep ==
  ASSUME Types, NEW r \in Rooms, RoomJob(r), Counted(r)
  PROVE  Counted(r)'
<1> DEFINE job == Head(roomJobs[r])
<1>0. PICK u \in Sessions : u = job.who
  BY RoomActions, RoomJobKinds
<1>1. /\ job \in RoomJobs /\ entering[r] = <<>>
      /\ \/ job.op \in {"enter", "enterMap"} /\ EnterRegister(r, job)
         \/ u \in players[r] /\ Leave(r, u) /\ UNCHANGED entering
         \/ UNCHANGED <<players, playerCount, entering>>
  BY <1>0, RoomActions DEF EnterRefused
<1> HIDE DEF job
<1>2. /\ IsFiniteSet(players[r]) /\ playerCount[r] \in Int
      /\ playerCount[r] = Cardinality(players[r]) /\ Cardinality(players[r]) \in Nat
  <2>1. Len(entering[r]) = 0 /\ playerCount[r] \in Int
    BY <1>1 DEF Types
  <2> QED
    BY <2>1, FS_CardinalityType DEF Counted
<1>3. CASE job.op \in {"enter", "enterMap"} /\ EnterRegister(r, job)
  <2>1. /\ u \notin players[r] /\ players'[r] = players[r] \cup {u}
        /\ playerCount'[r] = playerCount[r] /\ entering'[r] = <<job>>
    BY <1>0, <1>3 DEF EnterRegister, Admits, Types
  <2>2. /\ IsFiniteSet(players[r] \cup {u})
        /\ Cardinality(players[r] \cup {u}) = Cardinality(players[r]) + 1
    BY <1>2, <2>1, FS_AddElement
  <2>3. Len(<<job>>) = 1 /\ Head(<<job>>) = job
    OBVIOUS
  <2>4. job \in Entries(u)
    BY <1>0, <1>1, <1>3 DEF Entries
  <2>5. playerCount'[r] + Len(entering'[r]) = Cardinality(players'[r])
    BY <1>2, <2>1, <2>2, <2>3
  <2> QED
    BY <2>1, <2>2, <2>3, <2>4, <2>5 DEF Counted
<1>4. CASE u \in players[r] /\ Leave(r, u) /\ UNCHANGED entering
  <2>1. /\ players'[r] = players[r] \ {u} /\ playerCount'[r] = playerCount[r] - 1
        /\ entering'[r] = <<>>
    BY <1>1, <1>4 DEF Leave, Erased, Types
  <2>2. /\ IsFiniteSet(players[r] \ {u})
        /\ Cardinality(players[r] \ {u}) = Cardinality(players[r]) - 1
    BY <1>2, <1>4, FS_RemoveElement
  <2>3. Len(entering'[r]) = 0
    BY <2>1
  <2>4. playerCount'[r] + Len(entering'[r]) = Cardinality(players'[r])
    BY <1>2, <2>1, <2>2, <2>3
  <2> QED
    BY <2>1, <2>2, <2>3, <2>4 DEF Counted
<1>5. CASE UNCHANGED <<players, playerCount, entering>>
  BY <1>5 DEF Counted
<1> QED
  BY <1>1, <1>3, <1>4, <1>5

LEMMA CountedStep ==
  ASSUME Types, [Next]_vars, \A q \in Rooms : Counted(q), NEW q \in Rooms
  PROVE  Counted(q)'
<1>1. ASSUME UNCHANGED <<players, playerCount, entering>> PROVE Counted(q)'
  BY <1>1 DEF Counted
<1>2. ASSUME NEW r \in Rooms, RoomJob(r) PROVE Counted(q)'
  <2>1. CASE q = r
    BY <1>2, <2>1, CountedRoomStep
  <2>2. CASE q # r
    <3>1. /\ players'[q] = players[q] /\ playerCount'[q] = playerCount[q]
          /\ entering'[q] = entering[q]
      <4> DEFINE job == Head(roomJobs[r])
      <4>1. \/ EnterRegister(r, job)
            \/ Leave(r, job.who) /\ UNCHANGED entering
            \/ UNCHANGED <<players, playerCount, entering>>
        BY <1>2, RoomActions DEF EnterRefused
      <4> HIDE DEF job
      <4> QED
        BY <2>2, <4>1 DEF EnterRegister, Leave, Erased, Types
    <3> QED
      BY <3>1 DEF Counted
  <2> QED
    BY <2>1, <2>2
<1>3. ASSUME NEW r \in Rooms, EnterCounted(r) PROVE Counted(q)'
  <2>1. CASE q = r
    <3>1. /\ entering[r] # <<>> /\ entering'[r] = <<>> /\ players'[r] = players[r]
          /\ playerCount'[r] = playerCount[r] + 1
      BY <1>3 DEF EnterCounted, Types
    <3>2. Len(entering[r]) = 1 /\ Len(entering'[r]) = 0
      <4>1. entering[r] \in Seq(RoomJobs) /\ Len(entering[r]) <= 1
        BY QueueTypes DEF Counted
      <4>2. Len(entering[r]) \in Nat /\ Len(entering[r]) > 0
        BY <3>1, <4>1
      <4>3. Len(entering'[r]) = 0
        BY <3>1
      <4>4. \A n \in Nat : n > 0 /\ n <= 1 => n = 1
        OBVIOUS
      <4>5. Len(entering[r]) = 1
        BY <4>1, <4>2, <4>4
      <4> QED
        BY <4>3, <4>5
    <3>3. /\ playerCount[r] \in Int /\ IsFiniteSet(players[r])
          /\ playerCount[r] + Len(entering[r]) = Cardinality(players[r])
      BY DEF Counted, Types
    <3>4. playerCount'[r] + Len(entering'[r]) = Cardinality(players'[r])
      BY <3>1, <3>2, <3>3
    <3> QED
      BY <2>1, <3>1, <3>2, <3>3, <3>4 DEF Counted
  <2>2. CASE q # r
    <3>1. /\ players'[q] = players[q] /\ playerCount'[q] = playerCount[q]
          /\ entering'[q] = entering[q]
      BY <1>3, <2>2 DEF EnterCounted, Types
    <3> QED
      BY <3>1 DEF Counted
  <2> QED
    BY <2>1, <2>2
<1>4. ASSUME NEW s \in Sessions,
             \/ EnterGame(s) \/ OnDisconnected(s) \/ SessionActs(s)
             \/ TryBeginMapChange(s) \/ AckArrives(s) \/ EndMapChange(s)
      PROVE  Counted(q)'
  BY <1>1, <1>4 DEF EnterGame, OnDisconnected, SessionActs, SessionJob, PartyPasses, FindRoom,
        CreateRoom, MemberOffline, TryBeginMapChange, AckArrives, EndMapChange, roomVars
<1>5. CASE SelectPurge \/ Purge \/ UNCHANGED vars
  BY <1>1, <1>5 DEF SelectPurge, Purge, vars, roomVars
<1> QED
  BY <1>2, <1>3, <1>4, <1>5 DEF Next, RoomActs

LEMMA QueuedIsEnterAt ==
  ASSUME Types, NEW s \in Sessions, NEW r \in Rooms
  PROVE  QueuedFor(s, {"enter", "enterMap"}, r) <=> EnterAt(s, r)
<1>1. roomJobs[r] \in Seq(RoomJobs) /\ DOMAIN roomJobs[r] = 1..Len(roomJobs[r])
  BY QueueTypes
<1>2. \A i \in 1..Len(roomJobs[r]) : roomJobs[r][i] \in RoomJobs
  BY <1>1
<1> QED
  BY <1>1, <1>2 DEF QueuedFor, EnterAt, Amid, Entries

\* Room r has players, or an entry on its way.
Occupied(r) == \E s \in Sessions : s \in players[r] \/ EnterAt(s, r)

LEMMA StrandedMeans ==
  ASSUME Types
  PROVE  StrandedOnlyByRace
           <=> \A r \in Rooms \ raced : Occupied(r) => rooms[KeyOf[r]] = r
<1>1. ASSUME NEW r \in Rooms
      PROVE  players[r] # {} \/ (\E s \in Sessions : QueuedFor(s, {"enter", "enterMap"}, r))
                <=> Occupied(r)
  <2>1. players[r] \subseteq Sessions
    BY DEF Types
  <2> QED
    BY <2>1, QueuedIsEnterAt DEF Occupied
<1> QED
  BY <1>1 DEF StrandedOnlyByRace

\* Only the lobby brings a room its first entry.
LEMMA OccupiedBefore ==
  ASSUME NEW u \in Sessions, \A s \in Sessions \ {u} : Stays(s),
         Stays(u) \/ Comes(u) \/ \E r \in Rooms : Enters(u, r) \/ Refused(u, r) \/ Goes(u, r),
         NEW q \in Rooms, Occupied(q)'
  PROVE  Occupied(q)
<1>1. PICK s \in Sessions : s \in players'[q] \/ EnterAt(s, q)'
  BY DEF Occupied
<1>2. CASE Stays(s) \/ Comes(s)
  BY <1>1, <1>2 DEF Stays, Comes, EntryKept, InKept, Occupied
<1>3. ASSUME NEW r \in Rooms, Enters(s, r) \/ Refused(s, r) \/ Goes(s, r)
      PROVE  Occupied(q)
  BY <1>1, <1>3 DEF Enters, Refused, Goes, EntryKept, EntryGone, InKept, Occupied
<1> QED
  BY <1>2, <1>3

Stranding == Registered /\ \A r \in Rooms \ raced : Occupied(r) => rooms[KeyOf[r]] = r

LEMMA StrandedStep ==
  ASSUME Types, CleanedOnce, \A r \in Rooms : Counted(r), Stranding, [Next]_vars
  PROVE  Stranding'
<1>0. KeyOf \in [Rooms -> Keys] /\ NoRoom \notin Rooms
  BY RoomsAssumption
<1>1. ASSUME UNCHANGED <<rooms, raced>>, \A q \in Rooms : Occupied(q)' => Occupied(q)
      PROVE  Stranding'
  BY <1>1 DEF Stranding, Registered
<1>2. ASSUME UNCHANGED <<rooms, raced>>, NEW u \in Sessions,
             \A s \in Sessions \ {u} : Stays(s),
             Stays(u) \/ Comes(u)
               \/ \E r \in Rooms : Enters(u, r) \/ Refused(u, r) \/ Goes(u, r)
      PROVE  Stranding'
  BY <1>1, <1>2, OccupiedBefore
<1>3. ASSUME NEW u \in Sessions,
             \/ EnterGame(u) \/ PartyPasses(u) \/ OnDisconnected(u) \/ TryBeginMapChange(u)
             \/ AckArrives(u) \/ EndMapChange(u) \/ MemberOffline(u)
      PROVE  Stranding'
  <2>1. UNCHANGED <<rooms, raced>>
    BY <1>3 DEF EnterGame, OnDisconnected, PartyPasses, MemberOffline, TryBeginMapChange,
                AckArrives, EndMapChange, managerVars
  <2> QED
    BY <1>2, <1>3, <2>1, ClientMoves
<1>4. ASSUME NEW u \in Sessions, SessionJob(u) PROVE Stranding'
  BY <1>2, <1>4, JobMoves, JobRun
<1>5. ASSUME NEW r \in Rooms, RoomJob(r) PROVE Stranding'
  BY <1>2, <1>5, RoomMoves, RoomActions
<1>6. ASSUME UNCHANGED <<rooms, raced, players, roomJobs>> PROVE Stranding'
  BY <1>1, <1>6 DEF Occupied, EnterAt
<1>7. ASSUME NEW r \in Rooms, EnterCounted(r) PROVE Stranding'
  BY <1>6, <1>7 DEF EnterCounted, managerVars
<1>8. CASE SelectPurge \/ UNCHANGED vars
  BY <1>6, <1>8 DEF SelectPurge, vars, managerVars, roomVars
<1>9. ASSUME NEW u \in Sessions, FindRoom(u) \/ CreateRoom(u) PROVE Stranding'
  <2>1. raced' = raced /\ RoomKey(u) \in Keys /\ players' = players /\ fresh \subseteq Rooms
    BY <1>9, LobbyActs DEF FindRoom, CreateRoom, managerVars, roomVars, Types
  <2>2. ASSUME NEW r \in Rooms, Pushes(u, r), NEW q \in Rooms, q # r, Occupied(q)'
        PROVE  Occupied(q)
    <3>1. roomJobs'[q] = roomJobs[q]
      BY <2>2 DEF Pushes, Types
    <3> QED
      BY <2>1, <2>2, <3>1 DEF Occupied, EnterAt
  <2>3. ASSUME NEW r \in Rooms, Pushes(u, r), rooms[RoomKey(u)] = r,
               UNCHANGED <<rooms, fresh>>
        PROVE  Stranding'
    <3>1. KeyOf[r] = RoomKey(u)
      BY <1>0, <2>1, <2>3 DEF Stranding, Registered
    <3> QED
      BY <2>1, <2>2, <2>3, <3>1 DEF Stranding, Registered
  <2>4. ASSUME NEW r \in fresh, Pushes(u, r), rooms[RoomKey(u)] = NoRoom,
               KeyOf[r] = RoomKey(u), rooms' = [rooms EXCEPT ![RoomKey(u)] = r]
        PROVE  Stranding'
    <3>1. /\ rooms'[KeyOf[r]] = r /\ r \in Rooms
          /\ \A k \in Keys \ {KeyOf[r]} : rooms'[k] = rooms[k]
      BY <2>1, <2>4 DEF Types
    <3>2. Registered'
      BY <3>1 DEF Stranding, Registered
    <3>3. ASSUME NEW q \in Rooms \ raced, Occupied(q)' PROVE rooms'[KeyOf[q]] = q
      <4>1. CASE q = r
        BY <3>1, <4>1
      <4>2. CASE q # r
        <5>1. rooms[KeyOf[q]] = q /\ q # NoRoom
          BY <1>0, <2>2, <2>4, <3>1, <3>3, <4>2 DEF Stranding
        <5>2. KeyOf[q] # KeyOf[r]
          BY <2>4, <5>1
        <5> QED
          BY <1>0, <3>1, <5>1, <5>2
      <4> QED
        BY <4>1, <4>2
    <3> QED
      BY <2>1, <3>2, <3>3 DEF Stranding
  <2>5. CASE UNCHANGED <<roomJobs, rooms>>
    BY <1>6, <2>1, <2>5
  <2> QED
    BY <1>9, <2>1, <2>3, <2>4, <2>5, LobbyActs
<1>10. CASE Purge
  <2> DEFINE gone == eraseKeys \cap Purgeable
  <2>1. /\ rooms' = [k \in Keys |-> IF k \in gone THEN NoRoom ELSE rooms[k]]
        /\ raced' = raced \cup
             {r \in {rooms[k] : k \in gone} :
                 \/ entering[r] # <<>>
                 \/ \E s \in Sessions : QueuedFor(s, {"enter", "enterMap"}, r)}
        /\ UNCHANGED <<players, roomJobs>>
    BY <1>10 DEF Purge, roomVars
  <2> HIDE DEF gone
  <2>2. Registered'
    BY <2>1 DEF Stranding, Registered
  <2>3. ASSUME NEW q \in Rooms \ raced', Occupied(q) PROVE KeyOf[q] \notin gone
    <3> SUFFICES ASSUME KeyOf[q] \in gone PROVE FALSE
      OBVIOUS
    <3>1. rooms[KeyOf[q]] = q
      BY <2>1, <2>3 DEF Stranding
    <3>2. playerCount[q] = 0
      BY <3>1 DEF gone, Purgeable, ShouldPurge
    <3>3. entering[q] = <<>> /\ ~\E s \in Sessions : EnterAt(s, q)
      BY <2>1, <2>3, <3>1, QueuedIsEnterAt
    <3>4. IsFiniteSet(players[q]) /\ Cardinality(players[q]) = 0
      <4>1. Len(entering[q]) = 0
        BY <3>3
      <4> QED
        BY <3>2, <4>1 DEF Counted
    <3>5. players[q] = {}
      BY <3>4, FS_EmptySet
    <3> QED
      BY <2>3, <3>3, <3>5 DEF Occupied
  <2>4. ASSUME NEW q \in Rooms \ raced', Occupied(q)' PROVE rooms'[KeyOf[q]] = q
    <3>1. Occupied(q) /\ q \in Rooms \ raced
      BY <2>1, <2>4 DEF Occupied, EnterAt
    <3>2. rooms[KeyOf[q]] = q
      BY <3>1 DEF Stranding
    <3> QED
      BY <1>0, <2>1, <2>3, <2>4, <3>1, <3>2
  <2> QED
    BY <2>2, <2>4 DEF Stranding
<1> QED
  BY <1>3, <1>4, <1>5, <1>7, <1>8, <1>9, <1>10 DEF Next, SessionActs, RoomActs
-----------------------------------------------------------------------------
(* Session and rooms stay in step *)

\* Before it logs in, and unless it is cleaned up, a session has no player anywhere.
LEMMA UnboundStep ==
  ASSUME Types, CleanedOnce, [Next]_vars, NEW s \in Sessions, Unbound(s)
  PROVE  Unbound(s)'
<1> DEFINE Nowhere == /\ currentRoom[s] = NoRoom /\ ~Amid(Sets, sessionJobs[s])
                      /\ lobby[s] = Idle
                      /\ \A r \in Rooms : ~EnterAt(s, r) /\ s \notin players[r]
<1>0. sessionJobs[s] \in Seq(SessionJobs)
  BY QueueTypes
<1>1. SUFFICES ASSUME s \notin bound', link'[s] # "cleaned" PROVE Nowhere'
  BY DEF Unbound
<1>2. Nowhere
  <2>1. s \notin bound /\ link[s] # "cleaned"
    <3>1. CASE EnterGame(s) \/ PartyPasses(s) \/ OnDisconnected(s)
      BY <1>1, <3>1 DEF EnterGame, PartyPasses, OnDisconnected
    <3>2. CASE SessionJob(s)
      <4>1. \/ bound' = bound \cup {s} /\ link' = link
            \/ link' = [link EXCEPT ![s] = "cleaned"]
            \/ UNCHANGED <<bound, link>>
        BY <3>2, JobRun DEF Login, Cleanup, SetCurrentRoom, ClearCurrentRoom,
                            CancelMapChange, Ack
      <4> QED
        BY <1>1, <4>1 DEF Types
    <3>3. CASE Unmoved(s)
      BY <1>1, <3>3 DEF Unmoved
    <3> QED
      BY <3>1, <3>2, <3>3, SessionSteps
  <2> QED
    BY <2>1 DEF Unbound
<1>3. ASSUME Stays(s), currentRoom'[s] = NoRoom, ~Amid(Sets, sessionJobs'[s])
      PROVE  Nowhere'
  BY <1>2, <1>3 DEF Stays, LobbyKept, EntryKept, InKept
<1>4. ASSUME NEW j \in SessionJobs \ Sets, sessionJobs'[s] = Append(sessionJobs[s], j)
      PROVE  ~Amid(Sets, sessionJobs'[s])
  BY <1>0, <1>2, <1>4, Pushed
<1>5. ASSUME UNCHANGED <<currentRoom, lobby, players, roomJobs>>,
             ~Amid(Sets, sessionJobs'[s])
      PROVE  Nowhere'
  BY <1>2, <1>5 DEF EnterAt
<1> HIDE DEF Nowhere
<1>6. ASSUME NEW u \in Sessions,
             \/ EnterGame(u) \/ PartyPasses(u) \/ OnDisconnected(u) \/ TryBeginMapChange(u)
             \/ AckArrives(u) \/ EndMapChange(u) \/ MemberOffline(u)
      PROVE  Nowhere'
  <2>1. UNCHANGED <<currentRoom, lobby, players, roomJobs>>
    BY <1>6 DEF EnterGame, PartyPasses, OnDisconnected, TryBeginMapChange, AckArrives,
                EndMapChange, MemberOffline, roomVars
  <2>2. \/ sessionJobs'[s] = sessionJobs[s]
        \/ sessionJobs'[s] = Append(sessionJobs[s], [op |-> "login"])
        \/ sessionJobs'[s] = Append(sessionJobs[s], [op |-> "cleanup"])
        \/ \E t \in DOMAIN asked[u] :
              sessionJobs'[s] = Append(sessionJobs[s], [op |-> "ack", token |-> t])
    <3>1. CASE AckArrives(u)
      <4>1. PICK t \in DOMAIN asked[u] :
              sessionJobs' = [sessionJobs EXCEPT ![u] = Append(@, [op |-> "ack", token |-> t])]
        BY <3>1 DEF AckArrives
      <4> QED
        BY <4>1 DEF Types
    <3>2. CASE PartyPasses(u) \/ OnDisconnected(u)
      BY <3>2 DEF PartyPasses, OnDisconnected, Types
    <3>3. CASE EnterGame(u) \/ TryBeginMapChange(u) \/ EndMapChange(u) \/ MemberOffline(u)
      BY <3>3 DEF EnterGame, TryBeginMapChange, EndMapChange, MemberOffline
    <3> QED
      BY <1>6, <3>1, <3>2, <3>3
  <2>3. /\ [op |-> "login"] \in SessionJobs \ Sets
        /\ [op |-> "cleanup"] \in SessionJobs \ Sets
        /\ \A t \in DOMAIN asked[u] : [op |-> "ack", token |-> t] \in SessionJobs \ Sets
    <3>1. DOMAIN asked[u] \subseteq Nat
      BY LenProperties DEF Types
    <3> QED
      BY <3>1, SessionJobKinds DEF Sets
  <2>4. ~Amid(Sets, sessionJobs'[s])
    BY <1>2, <1>4, <2>2, <2>3 DEF Nowhere
  <2> QED
    BY <1>5, <2>1, <2>4
<1>7. ASSUME NEW u \in Sessions, SessionJob(u), u # s PROVE Nowhere'
  <2>1. Stays(s)
    BY <1>7, JobMoves
  <2>2. currentRoom'[s] = currentRoom[s] /\ sessionJobs'[s] = sessionJobs[s]
    <3>1. /\ sessionJobs' = [sessionJobs EXCEPT ![u] = Tail(@)]
          /\ \/ Login(u) \/ Cleanup(u) \/ CancelMapChange(u)
             \/ \E r \in Rooms : SetCurrentRoom(u, r) \/ ClearCurrentRoom(u, r)
             \/ \E n \in Nat : Ack(u, n)
      BY <1>7, JobRun, SessionJobKinds DEF Sets
    <3>2. currentRoom'[s] = currentRoom[s]
      BY <1>7, <3>1 DEF Login, Cleanup, SetCurrentRoom, ClearCurrentRoom, CancelMapChange,
                        Ack, Types
    <3> QED
      BY <1>7, <3>1, <3>2 DEF Types
  <2> QED
    BY <1>2, <1>3, <2>1, <2>2 DEF Nowhere
<1>8. CASE SessionJob(s)
  <2> DEFINE job == Head(sessionJobs[s])
  <2>1. /\ sessionJobs[s] # <<>> /\ sessionJobs'[s] = Tail(sessionJobs[s])
        /\ players' = players
        /\ \/ job \in Logins /\ Login(s)
           \/ job \in Cleanups /\ Cleanup(s)
           \/ job \in Sets /\ SetCurrentRoom(s, job.room)
           \/ job.op = "clear" /\ ClearCurrentRoom(s, job.room)
           \/ job \in Cancels /\ CancelMapChange(s)
           \/ job.op = "ack" /\ Ack(s, job.token)
    BY <1>8, JobRun
  <2>2. job \notin Sets /\ ~Amid(Sets, sessionJobs'[s])
    BY <1>0, <1>2, <2>1, Popped DEF Nowhere
  <2> HIDE DEF job
  <2>3. ~Login(s) /\ ~Cleanup(s)
    BY <1>1 DEF Login, Cleanup, Types
  <2>4. UNCHANGED <<lobby, players>> /\ currentRoom'[s] = NoRoom
    BY <1>2, <2>1, <2>2, <2>3
       DEF ClearCurrentRoom, CancelMapChange, Ack, Nowhere, Types
  <2>5. \A r \in Rooms : EnterAt(s, r)' <=> EnterAt(s, r)
    BY <1>8, JobMoves DEF Stays, Comes, EntryKept
  <2> QED
    BY <1>2, <2>2, <2>4, <2>5 DEF Nowhere
<1>9. ASSUME NEW u \in Sessions, FindRoom(u) \/ CreateRoom(u) PROVE Nowhere'
  <2>1. UNCHANGED <<currentRoom, sessionJobs>>
    BY <1>9 DEF FindRoom, CreateRoom
  <2>2. Stays(s)
    BY <1>2, <1>9, LobbyMoves DEF Drops, Leads, Nowhere
  <2> QED
    BY <1>2, <1>3, <2>1, <2>2 DEF Nowhere
<1>10. ASSUME NEW r \in Rooms, RoomJob(r) PROVE Nowhere'
  <2>1. Stays(s)
    BY <1>2, <1>10, RoomMoves DEF Enters, Refused, Goes, EntryGone, Nowhere
  <2>2. /\ Head(roomJobs[r]) \in RoomJobs /\ roomJobs[r] # <<>>
        /\ roomJobs[r] \in Seq(RoomJobs)
    BY <1>10, RoomActions, QueueTypes
  <2>3. Head(roomJobs[r]) \notin Entries(s)
    BY <1>2, <2>2, Popped DEF Nowhere, EnterAt
  <2> DEFINE job == Head(roomJobs[r])
  <2>4. \/ job.op \in {"enter", "enterMap"} /\ EnterRegister(r, job)
        \/ UNCHANGED sessionJobs \/ Post(job.who, [op |-> "cancel"])
             \/ Post(job.who, [op |-> "clear", room |-> r])
    BY <1>10, RoomActions DEF EnterRefused, RefusedMapChange, Leave, Cleared
  <2> HIDE DEF job
  <2>5. \/ sessionJobs'[s] = sessionJobs[s]
        \/ sessionJobs'[s] = Append(sessionJobs[s], [op |-> "cancel"])
        \/ sessionJobs'[s] = Append(sessionJobs[s], [op |-> "clear", room |-> r])
    <3>1. CASE job.op \in {"enter", "enterMap"} /\ EnterRegister(r, job)
      <4>1. job.who # s
        BY <2>2, <2>3, <3>1 DEF Entries, job
      <4> QED
        BY <3>1, <4>1 DEF EnterRegister, Post, Types
    <3>2. CASE \/ UNCHANGED sessionJobs \/ Post(job.who, [op |-> "cancel"])
               \/ Post(job.who, [op |-> "clear", room |-> r])
      BY <3>2 DEF Post, Types
    <3> QED
      BY <2>4, <3>1, <3>2
  <2>6. /\ [op |-> "cancel"] \in SessionJobs \ Sets
        /\ [op |-> "clear", room |-> r] \in SessionJobs \ Sets
    BY SessionJobKinds DEF Sets, Cancels
  <2>7. currentRoom' = currentRoom
    BY <1>10, RoomActions
  <2> QED
    BY <1>2, <1>3, <1>4, <2>1, <2>5, <2>6, <2>7 DEF Nowhere
<1>11. CASE SelectPurge \/ Purge \/ UNCHANGED vars \/ \E r \in Rooms : EnterCounted(r)
  <2>1. UNCHANGED <<currentRoom, lobby, players, roomJobs, sessionJobs>>
    BY <1>11 DEF SelectPurge, Purge, vars, EnterCounted, roomVars
  <2> QED
    BY <1>2, <1>5, <2>1 DEF Nowhere
<1> QED
  BY <1>6, <1>7, <1>8, <1>9, <1>10, <1>11 DEF Next, SessionActs, RoomActs

\* A session's jobs settle in the same room while none that counts is pushed.
LEMMA SettlesSame ==
  ASSUME Types, NEW s \in Sessions, currentRoom'[s] = currentRoom[s],
         \/ sessionJobs'[s] = sessionJobs[s]
         \/ \E j \in SessionJobs : /\ j.op \notin {"set", "clear"}
                                   /\ sessionJobs'[s] = Append(sessionJobs[s], j)
  PROVE  \A r \in Rooms : Settles(s, r)' <=> Settles(s, r)
<1>1. sessionJobs[s] \in Seq(SessionJobs)
  BY QueueTypes
<1>2. ASSUME NEW j \in SessionJobs, j.op \notin {"set", "clear"},
             sessionJobs'[s] = Append(sessionJobs[s], j), NEW r \in Rooms
      PROVE  Settles(s, r)' <=> Settles(s, r)
  BY <1>1, <1>2, LastsPushed DEF Settles
<1>3. CASE sessionJobs'[s] = sessionJobs[s]
  BY <1>3 DEF Settles
<1> QED
  BY <1>2, <1>3

\* A leave job of s goes only by being run.
LEMMA LeavesKept ==
  ASSUME Types, NEW s \in Sessions,
         \/ UNCHANGED roomJobs
         \/ \E r \in Rooms, j \in RoomJobs :
               roomJobs' = [roomJobs EXCEPT ![r] = Append(@, j)]
         \/ \E r \in Rooms :
               /\ roomJobs[r] # <<>> /\ Head(roomJobs[r]) \notin Leaves(s)
               /\ roomJobs' = [roomJobs EXCEPT ![r] = Tail(@)]
  PROVE  \A q \in Rooms : LeaveAt(s, q) => LeaveAt(s, q)'
<1>1. ASSUME NEW r \in Rooms, NEW j \in RoomJobs, NEW q \in Rooms,
             roomJobs' = [roomJobs EXCEPT ![r] = Append(@, j)], LeaveAt(s, q)
      PROVE  LeaveAt(s, q)'
  BY <1>1, RoomPushed DEF LeaveAt
<1>2. ASSUME NEW r \in Rooms, roomJobs[r] # <<>>, Head(roomJobs[r]) \notin Leaves(s),
             NEW q \in Rooms, roomJobs' = [roomJobs EXCEPT ![r] = Tail(@)], LeaveAt(s, q)
      PROVE  LeaveAt(s, q)'
  BY <1>2, RoomPopped DEF LeaveAt
<1>3. CASE UNCHANGED roomJobs
  BY <1>3 DEF LeaveAt
<1> QED
  BY <1>1, <1>2, <1>3

LEMMA InStepKept ==
  ASSUME NEW s \in Sessions, InStep(s),
         \A r \in Rooms : /\ s \in players'[r] <=> s \in players[r]
                          /\ Settles(s, r)' <=> Settles(s, r)
                          /\ s \in players[r] /\ LeaveAt(s, r) => LeaveAt(s, r)'
  PROVE  InStep(s)'
<1> HIDE DEF Settles, LeaveAt
<1> QED
  BY DEF InStep

\* The room jobs that session jobs push.
LEMMA JobPushes ==
  ASSUME Types, NEW u \in Sessions, SessionJob(u)
  PROVE  \/ UNCHANGED roomJobs
         \/ \E r \in Rooms, j \in RoomJobs :
               /\ roomJobs' = [roomJobs EXCEPT ![r] = Append(@, j)]
               /\ j.op \in {"leave", "transfer"} /\ j.who = u
<1> DEFINE job == Head(sessionJobs[u])
<1>1. \/ Cleanup(u) \/ Ack(u, job.token) \/ UNCHANGED roomJobs
  BY JobRun DEF Login, SetCurrentRoom, ClearCurrentRoom, CancelMapChange
<1> HIDE DEF job
<1>2. CASE Cleanup(u) /\ ~UNCHANGED roomJobs
  <2>1. /\ RoomLeft(u) \in Rooms
        /\ roomJobs' = [roomJobs EXCEPT ![RoomLeft(u)] = Append(@, JobFor("leave", u))]
    BY <1>2 DEF Cleanup, Types, RoomLeft
  <2> QED
    BY <2>1, RoomJobKinds DEF JobFor
<1>3. CASE Ack(u, job.token) /\ ~UNCHANGED roomJobs
  <2>1. Acknowledged(u, job.token)
    BY <1>3 DEF Ack
  <2>2. currentRoom[u] \in Rooms /\ mapChange[u].target \in Keys
    BY <2>1 DEF Acknowledged, Types
  <2>3. roomJobs' = [roomJobs EXCEPT ![currentRoom[u]] = Append(@,
                              [op |-> "transfer", who |-> u, key |-> mapChange[u].target])]
    BY <1>3, <2>1 DEF Ack
  <2>4. [op |-> "transfer", who |-> u, key |-> mapChange[u].target] \in RoomJobs
    BY <2>2, RoomJobKinds
  <2> QED
    BY <2>2, <2>3, <2>4
<1> QED
  BY <1>1, <1>2, <1>3

\* Jobs of others do not touch what s has.
LEMMA OtherJob ==
  ASSUME Types, NEW u \in Sessions, SessionJob(u), NEW s \in Sessions \ {u}
  PROVE  /\ currentRoom'[s] = currentRoom[s] /\ sessionJobs'[s] = sessionJobs[s]
         /\ lobby'[s] = lobby[s] /\ mapChange'[s] = mapChange[s] /\ link'[s] = link[s]
         /\ UNCHANGED <<players, entering, rooms, asked, ended>>
<1>1. /\ sessionJobs' = [sessionJobs EXCEPT ![u] = Tail(@)]
      /\ UNCHANGED <<players, entering, rooms>>
      /\ \/ Login(u) \/ Cleanup(u) \/ CancelMapChange(u)
         \/ \E r \in Rooms : SetCurrentRoom(u, r) \/ ClearCurrentRoom(u, r)
         \/ \E n \in Nat : Ack(u, n)
  BY JobRun, SessionJobKinds DEF Sets
<1>2. /\ currentRoom'[s] = currentRoom[s] /\ lobby'[s] = lobby[s]
      /\ mapChange'[s] = mapChange[s] /\ link'[s] = link[s] /\ UNCHANGED <<asked, ended>>
  <2>1. CASE Login(u)
    BY <2>1 DEF Login, Types, mapVars
  <2>2. CASE Cleanup(u)
    BY <2>2 DEF Cleanup, Types
  <2>3. CASE CancelMapChange(u)
    BY <2>3 DEF CancelMapChange, Types
  <2>4. CASE \E r \in Rooms : SetCurrentRoom(u, r) \/ ClearCurrentRoom(u, r)
    BY <2>4 DEF SetCurrentRoom, ClearCurrentRoom, Types, mapVars
  <2>5. CASE \E n \in Nat : Ack(u, n)
    BY <2>5 DEF Ack, Types
  <2> QED
    BY <1>1, <2>1, <2>2, <2>3, <2>4, <2>5
<1> QED
  BY <1>1, <1>2 DEF Types

\* The cleanup job takes the session's room away and pushes the leave job to it.
LEMMA CleanupInStep ==
  ASSUME Types, CleanedOnce, NEW s \in Sessions, SessionJob(s), Cleanup(s),
         Head(sessionJobs[s]) \in Cleanups, Unbound(s), InStep(s)
  PROVE  InStep(s)'
<1> DEFINE q == sessionJobs[s]  c == currentRoom[s]
<1>1. /\ q \in Seq(SessionJobs) /\ q # <<>> /\ sessionJobs'[s] = Tail(q)
      /\ players' = players /\ Tail(q) \in Seq(SessionJobs)
  BY QueueTypes, JobRun, Popped
<1>2. currentRoom'[s] = NoRoom /\ c \in Rooms \cup {NoRoom}
  BY DEF Cleanup, Types
<1>3. \A r \in Rooms : Settles(s, r) <=> Lasts(c, Tail(q), r)
  <2>1. Head(q).op = "cleanup"
    BY DEF Cleanups
  <2> QED
    BY <1>1, <2>1, LastsPopped DEF Settles
<1>4. \A r \in Rooms : Settles(s, r)' <=> Lasts(NoRoom, Tail(q), r)
  <2>1. \A r : Settles(s, r)' <=> Lasts(currentRoom'[s], sessionJobs'[s], r)
    BY DEF Settles
  <2> QED
    BY <1>1, <1>2, <2>1
<1>5. \A r \in Rooms : LeaveAt(s, r) => LeaveAt(s, r)'
  BY JobPushes, LeavesKept
<1>6. CASE c = NoRoom
  BY <1>1, <1>3, <1>4, <1>5, <1>6, InStepKept
<1>7. CASE c # NoRoom
  <2>1. PICK e \in Rooms : e = c
    BY <1>2, <1>7
  <2>2. s \in bound
    <3>1. link[s] = "closed"
      BY <1>1, Popped DEF CleanedOnce
    <3> QED
      BY <1>7, <3>1 DEF Unbound
  <2>3. LeaveAt(s, e)'
    <3>1. roomJobs' = [roomJobs EXCEPT ![e] = Append(@, JobFor("leave", s))]
      BY <1>7, <2>1, <2>2 DEF Cleanup, RoomLeft
    <3>2. JobFor("leave", s) \in RoomJobs /\ JobFor("leave", s) \in Leaves(s)
      BY RoomJobKinds DEF JobFor, Leaves
    <3>3. roomJobs'[e] = Append(roomJobs[e], JobFor("leave", s))
      BY <2>1, <3>1 DEF Types
    <3>4. Amid(Leaves(s), roomJobs'[e])
      BY <2>1, <3>2, <3>3, Pushed, QueueTypes
    <3> QED
      BY <3>4 DEF LeaveAt
  <2>4. CASE Lasts(e, Tail(q), e) /\ ~Lasts(NoRoom, Tail(q), e)
    <3>1. \A r \in Rooms : ~Settles(s, r)'
      BY <1>1, <1>4, <2>4, LastsKept
    <3>2. Settles(s, e)
      BY <1>3, <2>1, <2>4
    <3>3. s \in players[e]
      BY <3>2 DEF InStep
    <3> QED
      BY <1>1, <2>3, <3>1, <3>3 DEF InStep
  <2>5. CASE ~(Lasts(e, Tail(q), e) /\ ~Lasts(NoRoom, Tail(q), e))
    <3>1. \A r \in Rooms : Lasts(e, Tail(q), r) <=> Lasts(NoRoom, Tail(q), r)
      BY <1>1, <2>5, LastsKept
    <3> QED
      BY <1>1, <1>3, <1>4, <1>5, <2>1, <3>1, InStepKept
  <2> QED
    BY <2>4, <2>5
<1> QED
  BY <1>6, <1>7

\* A room job for s moves it and tells its session so.
LEMMA RoomJobInStep ==
  ASSUME Types, NEW r \in Rooms, RoomJob(r), NEW s \in Sessions, OnePlace(s), InStep(s)
  PROVE  InStep(s)'
<1> DEFINE job == Head(roomJobs[r])
<1>1. /\ job \in RoomJobs /\ roomJobs[r] # <<>> /\ job.who \in Sessions
      /\ roomJobs' = [roomJobs EXCEPT ![r] = Tail(@)] /\ currentRoom' = currentRoom
      /\ \/ job.op \in {"enter", "enterMap"} /\ EnterRegister(r, job)
         \/ job.who \in players[r] /\ Leave(r, job.who)
         \/ /\ job.op # "leave" /\ UNCHANGED players
            /\ UNCHANGED sessionJobs \/ Post(job.who, [op |-> "cancel"])
         \/ /\ job.op = "leave" /\ job.who \notin players[r]
            /\ UNCHANGED <<players, sessionJobs>>
  BY RoomActions, RoomJobKinds DEF EnterRefused, RefusedMapChange
<1>2. /\ sessionJobs[s] \in Seq(SessionJobs) /\ roomJobs[r] \in Seq(RoomJobs)
      /\ [op |-> "cancel"] \in SessionJobs
      /\ [op |-> "set", room |-> r] \in SessionJobs
      /\ [op |-> "clear", room |-> r] \in SessionJobs
  BY QueueTypes, SessionJobKinds
<1> HIDE DEF job
<1>3. job.who # s \/ job.op # "leave" =>
         \A q \in Rooms : LeaveAt(s, q) => LeaveAt(s, q)'
  <2> SUFFICES ASSUME job.who # s \/ job.op # "leave"
               PROVE  \A q \in Rooms : LeaveAt(s, q) => LeaveAt(s, q)'
    OBVIOUS
  <2>1. Head(roomJobs[r]) \notin Leaves(s)
    BY DEF Leaves, job
  <2> QED
    BY <1>1, <2>1, LeavesKept
<1>4. CASE job.who # s
  <2>1. sessionJobs'[s] = sessionJobs[s]
    BY <1>1, <1>4 DEF EnterRegister, Leave, Cleared, Post, Types
  <2>2. \A q \in Rooms : s \in players'[q] <=> s \in players[q]
    <3>1. \/ UNCHANGED players
          \/ players' = [players EXCEPT ![r] = @ \cup {job.who}]
          \/ players' = [players EXCEPT ![r] = @ \ {job.who}]
      BY <1>1 DEF EnterRegister, Leave, Erased
    <3>2. \A w : w # s => (s \in players[r] \cup {w} <=> s \in players[r])
                          /\ (s \in players[r] \ {w} <=> s \in players[r])
      OBVIOUS
    <3>3. /\ players'[r] \in {players[r], players[r] \cup {job.who}, players[r] \ {job.who}}
          /\ \A q \in Rooms \ {r} : players'[q] = players[q]
      BY <3>1 DEF Types
    <3> QED
      BY <1>4, <3>2, <3>3
  <2>3. \A q \in Rooms : Settles(s, q)' <=> Settles(s, q)
    BY <1>1, <2>1, SettlesSame
  <2> QED
    BY <1>3, <1>4, <2>2, <2>3, InStepKept
<1>5. CASE job.who = s /\ job.op \in {"enter", "enterMap"} /\ EnterRegister(r, job)
  <2>1. EnterAt(s, r)
    <3>1. Head(roomJobs[r]) \in Entries(s)
      BY <1>1, <1>5 DEF Entries, job
    <3> QED
      BY <1>1, <1>2, <3>1, Popped DEF EnterAt
  <2>2. \A q \in Rooms : s \notin players[q] /\ ~Settles(s, q)
    <3>1. \A q \in Rooms : s \notin players[q]
      BY <2>1 DEF OnePlace
    <3> QED
      BY <3>1 DEF InStep
  <2>3. /\ sessionJobs'[s] = Append(sessionJobs[s], [op |-> "set", room |-> r])
        /\ players' = [players EXCEPT ![r] = @ \cup {s}]
    BY <1>5 DEF EnterRegister, Post, Types
  <2>4. \A q \in Rooms : Settles(s, q)' <=> q = r
    BY <1>2, <2>3, LastsPushed DEF Settles
  <2>5. \A q \in Rooms : s \in players'[q] <=> q = r
    BY <2>2, <2>3 DEF Types
  <2> QED
    BY <2>4, <2>5 DEF InStep
<1>6. CASE job.who = s /\ s \in players[r] /\ Leave(r, s)
  <2>1. \A q \in Rooms \ {r} : s \notin players[q] /\ ~Settles(s, q)
    <3>1. \A q \in Rooms \ {r} : s \notin players[q]
      BY <1>6 DEF OnePlace
    <3> QED
      BY <3>1 DEF InStep
  <2>2. /\ sessionJobs'[s] = Append(sessionJobs[s], [op |-> "clear", room |-> r])
        /\ players' = [players EXCEPT ![r] = @ \ {s}]
    BY <1>6 DEF Leave, Cleared, Erased, Post, Types
  <2>3. \A q \in Rooms : Settles(s, q)' <=> Settles(s, q) /\ q # r
    BY <1>1, <1>2, <2>2, LastsPushed DEF Settles
  <2>4. \A q \in Rooms : s \notin players'[q]
    BY <2>1, <2>2 DEF Types
  <2> QED
    BY <2>1, <2>3, <2>4 DEF InStep
<1>7. CASE /\ job.who = s /\ job.op # "leave" /\ UNCHANGED players
           /\ UNCHANGED sessionJobs \/ Post(job.who, [op |-> "cancel"])
  <2>1. \/ sessionJobs'[s] = sessionJobs[s]
        \/ sessionJobs'[s] = Append(sessionJobs[s], [op |-> "cancel"])
    BY <1>7 DEF Post, Types
  <2>2. \A q \in Rooms : Settles(s, q)' <=> Settles(s, q)
    BY <1>1, <1>2, <2>1, SettlesSame
  <2> QED
    BY <1>3, <1>7, <2>2, InStepKept
<1>8. CASE /\ job.who = s /\ job.op = "leave" /\ s \notin players[r]
           /\ UNCHANGED <<players, sessionJobs>>
  <2>1. \A q \in Rooms : Settles(s, q)' <=> Settles(s, q)
    BY <1>1, <1>8, SettlesSame
  <2>2. \A q \in Rooms \ {r} : LeaveAt(s, q) => LeaveAt(s, q)'
    BY <1>1, RoomPopped DEF LeaveAt
  <2> QED
    BY <1>8, <2>1, <2>2, InStepKept
<1> QED
  BY <1>1, <1>4, <1>5, <1>6, <1>7, <1>8

LEMMA InStepStep ==
  ASSUME Types, CleanedOnce, [Next]_vars,
         NEW s \in Sessions, Unbound(s), OnePlace(s), InStep(s)
  PROVE  InStep(s)'
<1>0. sessionJobs[s] \in Seq(SessionJobs)
  BY QueueTypes
<1>1. ASSUME UNCHANGED <<players, currentRoom, roomJobs>>,
             \/ sessionJobs'[s] = sessionJobs[s]
             \/ \E j \in SessionJobs : /\ j.op \notin {"set", "clear"}
                                       /\ sessionJobs'[s] = Append(sessionJobs[s], j)
      PROVE  InStep(s)'
  BY <1>1, SettlesSame, LeavesKept, InStepKept
<1>2. ASSUME NEW u \in Sessions,
             \/ EnterGame(u) \/ PartyPasses(u) \/ OnDisconnected(u) \/ TryBeginMapChange(u)
             \/ AckArrives(u) \/ EndMapChange(u) \/ MemberOffline(u)
      PROVE  InStep(s)'
  <2>1. UNCHANGED <<players, currentRoom, roomJobs>>
    BY <1>2 DEF EnterGame, PartyPasses, OnDisconnected, TryBeginMapChange, AckArrives,
                EndMapChange, MemberOffline, roomVars
  <2>2. CASE AckArrives(u)
    <3>1. PICK t \in DOMAIN asked[u] :
            sessionJobs' = [sessionJobs EXCEPT ![u] = Append(@, [op |-> "ack", token |-> t])]
      BY <2>2 DEF AckArrives
    <3>2. t \in Nat
      BY <3>1, LenProperties DEF Types
    <3>3. [op |-> "ack", token |-> t] \in SessionJobs
      BY <3>2, SessionJobKinds
    <3>4. \/ sessionJobs'[s] = sessionJobs[s]
          \/ sessionJobs'[s] = Append(sessionJobs[s], [op |-> "ack", token |-> t])
      BY <3>1 DEF Types
    <3> QED
      BY <1>1, <2>1, <3>3, <3>4
  <2>3. CASE PartyPasses(u) \/ OnDisconnected(u)
    <3>1. \/ sessionJobs'[s] = sessionJobs[s]
          \/ sessionJobs'[s] = Append(sessionJobs[s], [op |-> "login"])
          \/ sessionJobs'[s] = Append(sessionJobs[s], [op |-> "cleanup"])
      BY <2>3 DEF PartyPasses, OnDisconnected, Types
    <3>2. [op |-> "login"] \in SessionJobs /\ [op |-> "cleanup"] \in SessionJobs
      BY SessionJobKinds
    <3> QED
      BY <1>1, <2>1, <3>1, <3>2
  <2>4. CASE EnterGame(u) \/ TryBeginMapChange(u) \/ EndMapChange(u) \/ MemberOffline(u)
    <3>1. sessionJobs' = sessionJobs
      BY <2>4 DEF EnterGame, TryBeginMapChange, EndMapChange, MemberOffline
    <3> QED
      BY <1>1, <2>1, <3>1
  <2> QED
    BY <1>2, <2>2, <2>3, <2>4
<1>3. ASSUME NEW u \in Sessions, SessionJob(u), u # s PROVE InStep(s)'
  <2>1. /\ currentRoom'[s] = currentRoom[s] /\ sessionJobs'[s] = sessionJobs[s]
        /\ players' = players
    BY <1>3, OtherJob
  <2>2. \A r \in Rooms : Settles(s, r)' <=> Settles(s, r)
    BY <2>1, SettlesSame
  <2>3. \A r \in Rooms : LeaveAt(s, r) => LeaveAt(s, r)'
    BY <1>3, JobPushes, LeavesKept
  <2> QED
    BY <2>1, <2>2, <2>3, InStepKept
<1>4. CASE SessionJob(s)
  <2> DEFINE q == sessionJobs[s]  job == Head(sessionJobs[s])
  <2>1. /\ q # <<>> /\ sessionJobs'[s] = Tail(q) /\ players' = players
        /\ \/ job \in Cleanups /\ Cleanup(s)
           \/ job.op = "set" /\ job.room \in Rooms /\ SetCurrentRoom(s, job.room)
           \/ job.op = "clear" /\ job.room \in Rooms /\ ClearCurrentRoom(s, job.room)
           \/ job.op \notin {"set", "clear"} /\ currentRoom' = currentRoom
    BY <1>4, JobRun, SessionJobKinds
       DEF Login, CancelMapChange, Ack, Logins, Cancels, Sets
  <2>2. \A r \in Rooms : LeaveAt(s, r) => LeaveAt(s, r)'
    BY <1>4, JobPushes, LeavesKept
  <2>3. \A r \in Rooms :
           Settles(s, r)' <=> Lasts(currentRoom'[s], Tail(q), r)
    <3>1. \A r : Settles(s, r)' <=> Lasts(currentRoom'[s], sessionJobs'[s], r)
      BY DEF Settles
    <3> QED
      BY <2>1, <3>1
  <2> HIDE DEF q, job
  <2>4. CASE job \in Cleanups /\ Cleanup(s)
    BY <1>4, <2>4, CleanupInStep DEF job
  <2>5. ASSUME \A r \in Rooms : Settles(s, r)' <=> Settles(s, r) PROVE InStep(s)'
    BY <2>1, <2>2, <2>5, InStepKept
  <2>6. CASE job.op = "set" /\ job.room \in Rooms /\ SetCurrentRoom(s, job.room)
    <3>1. currentRoom'[s] = job.room
      BY <2>6 DEF SetCurrentRoom, Types
    <3>2. \A r \in Rooms : Settles(s, r)' <=> Settles(s, r)
      BY <1>0, <2>1, <2>3, <2>6, <3>1, LastsPopped DEF Settles, q, job
    <3> QED
      BY <2>5, <3>2
  <2>7. CASE job.op = "clear" /\ job.room \in Rooms /\ ClearCurrentRoom(s, job.room)
    <3>1. currentRoom'[s] = IF currentRoom[s] = job.room THEN NoRoom ELSE currentRoom[s]
      BY <2>7 DEF ClearCurrentRoom, Types
    <3>2. \A r \in Rooms : Settles(s, r)' <=> Settles(s, r)
      BY <1>0, <2>1, <2>3, <2>7, <3>1, LastsPopped DEF Settles, q, job
    <3> QED
      BY <2>5, <3>2
  <2>8. CASE job.op \notin {"set", "clear"} /\ currentRoom' = currentRoom
    <3>1. \A r \in Rooms : Settles(s, r)' <=> Settles(s, r)
      BY <1>0, <2>1, <2>3, <2>8, LastsPopped DEF Settles, q, job
    <3> QED
      BY <2>5, <3>1
  <2> QED
    BY <2>1, <2>4, <2>6, <2>7, <2>8
<1>5. ASSUME NEW u \in Sessions, FindRoom(u) \/ CreateRoom(u) PROVE InStep(s)'
  <2>1. UNCHANGED <<currentRoom, sessionJobs, players>>
    BY <1>5 DEF FindRoom, CreateRoom, roomVars
  <2>2. \A r \in Rooms : Settles(s, r)' <=> Settles(s, r)
    BY <2>1, SettlesSame
  <2>3. \/ UNCHANGED roomJobs
        \/ \E r \in Rooms, j \in RoomJobs :
              roomJobs' = [roomJobs EXCEPT ![r] = Append(@, j)]
    <3>1. JobFor(EnterJob[lobby[u].job], u) \in RoomJobs /\ fresh \subseteq Rooms
      BY <1>5, LobbyActs, RoomJobKinds DEF LobbyJobs, Types
    <3> QED
      BY <1>5, <3>1, LobbyActs DEF Pushes
  <2>4. \A r \in Rooms : LeaveAt(s, r) => LeaveAt(s, r)'
    BY <2>3, LeavesKept
  <2> QED
    BY <2>1, <2>2, <2>4, InStepKept
<1>6. ASSUME NEW r \in Rooms, RoomJob(r) PROVE InStep(s)'
  BY <1>6, RoomJobInStep
<1>7. CASE SelectPurge \/ Purge \/ UNCHANGED vars \/ \E r \in Rooms : EnterCounted(r)
  <2>1. UNCHANGED <<currentRoom, players, roomJobs, sessionJobs>>
    BY <1>7 DEF SelectPurge, Purge, vars, EnterCounted, roomVars
  <2> QED
    BY <1>1, <2>1
<1> QED
  BY <1>2, <1>3, <1>4, <1>5, <1>6, <1>7 DEF Next, SessionActs, RoomActs

LEMMA InStepMeans ==
  ASSUME Types, \A s \in Sessions : InStep(s)
  PROVE  SessionFollowsRoom
<1> SUFFICES ASSUME NEW s \in Sessions, ~Departing(s), NEW r \in Rooms
             PROVE  s \in players[r] <=> Settles(s, r)
  BY DEF SessionFollowsRoom
<1>1. ASSUME NEW q \in Rooms PROVE ~LeaveAt(s, q)
  <2>1. roomJobs[q] \in Seq(RoomJobs) /\ DOMAIN roomJobs[q] = 1..Len(roomJobs[q])
    BY QueueTypes
  <2> QED
    BY <2>1 DEF LeaveAt, Amid, Leaves, Departing, QueuedFor
<1> QED
  BY <1>1 DEF InStep
-----------------------------------------------------------------------------
(* The hand-over implements Presence *)

InHall(s) == lobby[s] # Idle \/ \E r \in Rooms : EnterAt(s, r)
RoomsOf(s) == {r \in Rooms : s \in players[r]}

LEMMA WhereaboutsAre ==
  Types => \A s \in Sessions :
              Whereabouts(s) = RoomsOf(s) \cup (IF InHall(s) THEN {Hall} ELSE {})
  BY QueuedIsEnterAt DEF Whereabouts, RoomsOf, InHall

\* Where a step brings a player.
LEMMA PlayerMoves ==
  ASSUME NEW s \in Sessions, OnePlace(s), Moved(s) \/ Stays(s)
  PROVE  \/ RoomsOf(s)' = RoomsOf(s) /\ (InHall(s)' <=> InHall(s))
         \/ RoomsOf(s) = {} /\ ~InHall(s) /\ RoomsOf(s)' = {} /\ InHall(s)'
         \/ \E r \in Rooms : RoomsOf(s) = {} /\ InHall(s) /\ RoomsOf(s)' = {r} /\ ~InHall(s)'
         \/ RoomsOf(s) = {} /\ InHall(s) /\ RoomsOf(s)' = {} /\ ~InHall(s)'
         \/ \E r \in Rooms : RoomsOf(s) = {r} /\ ~InHall(s) /\ RoomsOf(s)' = {}
<1> USE DEF OnePlace
<1>1. CASE Stays(s)
  BY <1>1 DEF Stays, LobbyKept, EntryKept, InKept, RoomsOf, InHall
<1>2. CASE Comes(s)
  <2>1. RoomsOf(s) = {} /\ ~InHall(s)
    BY <1>2 DEF Comes, RoomsOf, InHall
  <2>2. RoomsOf(s)' = {} /\ \A r \in Rooms : ~EnterAt(s, r)'
    BY <1>2, <2>1 DEF Comes, EntryKept, InKept, RoomsOf, InHall
  <2> QED
    BY <2>1, <2>2 DEF InHall
<1>3. ASSUME NEW r \in Rooms, Leads(s, r)
      PROVE  RoomsOf(s)' = RoomsOf(s) /\ InHall(s)' /\ InHall(s)
  BY <1>3 DEF Leads, InKept, RoomsOf, InHall
<1>4. ASSUME NEW r \in Rooms, Enters(s, r)
      PROVE  RoomsOf(s) = {} /\ InHall(s) /\ RoomsOf(s)' = {r} /\ ~InHall(s)'
  <2>1. /\ EnterAt(s, r) /\ lobby[s] = Idle /\ lobby'[s] = Idle
        /\ \A q \in Rooms : s \notin players[q] /\ (s \in players'[q] <=> q = r)
    BY <1>4 DEF Enters, EntryGone, LobbyKept, InKept
  <2>2. \A q \in Rooms : ~EnterAt(s, q)'
    BY <1>4 DEF Enters, EntryGone, EntryKept, OneEntry
  <2> QED
    BY <2>1, <2>2 DEF RoomsOf, InHall
<1>5. ASSUME NEW r \in Rooms, Refused(s, r)
      PROVE  RoomsOf(s) = {} /\ InHall(s) /\ RoomsOf(s)' = {} /\ ~InHall(s)'
  <2>1. /\ EnterAt(s, r) /\ lobby[s] = Idle /\ lobby'[s] = Idle
        /\ \A q \in Rooms : s \notin players[q] /\ s \notin players'[q]
    BY <1>5 DEF Refused, EntryGone, LobbyKept, InKept
  <2>2. \A q \in Rooms : ~EnterAt(s, q)'
    BY <1>5 DEF Refused, EntryGone, EntryKept, OneEntry
  <2> QED
    BY <2>1, <2>2 DEF RoomsOf, InHall
<1>6. ASSUME NEW r \in Rooms, Goes(s, r)
      PROVE  RoomsOf(s) = {r} /\ ~InHall(s) /\ RoomsOf(s)' = {}
  BY <1>6 DEF Goes, InKept, RoomsOf, InHall
<1>7. CASE Drops(s)
  <2>1. /\ lobby[s] # Idle /\ lobby'[s] = Idle
        /\ \A q \in Rooms : /\ s \notin players[q] /\ s \notin players'[q]
                           /\ ~EnterAt(s, q) /\ ~EnterAt(s, q)'
    BY <1>7 DEF Drops, EntryKept, InKept
  <2> QED
    BY <2>1 DEF RoomsOf, InHall
<1> QED
  BY <1>1, <1>2, <1>3, <1>4, <1>5, <1>6, <1>7 DEF Moved

LEMMA RefinementStep ==
  ASSUME Types, Types', OneMoves, \A s \in Sessions : OnePlace(s)
  PROVE  Abstract!Next \/ UNCHANGED [s \in Sessions |-> Whereabouts(s)]
<1> DEFINE where == [s \in Sessions |-> Whereabouts(s)]
<1>1. \A s \in Sessions :
         Whereabouts(s) = RoomsOf(s) \cup (IF InHall(s) THEN {Hall} ELSE {})
  BY WhereaboutsAre
<1>2. \A s \in Sessions :
         Whereabouts(s)' = RoomsOf(s)' \cup (IF InHall(s)' THEN {Hall} ELSE {})
  <2>1. (\A s \in Sessions :
           Whereabouts(s) = RoomsOf(s) \cup (IF InHall(s) THEN {Hall} ELSE {}))'
    BY WhereaboutsAre, PTL
  <2> QED
    BY <2>1
<1>3. ASSUME NEW s \in Sessions, Stays(s) PROVE Whereabouts(s)' = Whereabouts(s)
  <2>1. RoomsOf(s)' = RoomsOf(s) /\ (InHall(s)' <=> InHall(s))
    BY <1>3 DEF Stays, LobbyKept, EntryKept, InKept, RoomsOf, InHall
  <2> QED
    BY <1>1, <1>2, <2>1
<1>4. CASE \A s \in Sessions : Stays(s)
  BY <1>3, <1>4
<1>5. ASSUME NEW u \in Sessions, Moved(u), \A s \in Sessions \ {u} : Stays(s)
      PROVE  Abstract!Next \/ UNCHANGED where
  <2>1. \A to : Whereabouts(u)' = to => where' = [where EXCEPT ![u] = to]
    BY <1>3, <1>5
  <2>2. ASSUME NEW from, NEW to, Whereabouts(u) = from, Whereabouts(u)' = to
        PROVE  Abstract!Move(u, from, to)
    BY <2>1, <2>2 DEF Abstract!Move
  <2>3. CASE RoomsOf(u)' = RoomsOf(u) /\ (InHall(u)' <=> InHall(u))
    <3>1. Whereabouts(u)' = Whereabouts(u)
      BY <1>1, <1>2, <2>3
    <3> QED
      BY <1>3, <1>5, <3>1
  <2>4. CASE RoomsOf(u) = {} /\ ~InHall(u) /\ RoomsOf(u)' = {} /\ InHall(u)'
    <3>1. Whereabouts(u) = {} /\ Whereabouts(u)' = {Hall}
      BY <1>1, <1>2, <2>4
    <3> QED
      BY <2>2, <3>1 DEF Abstract!Next, Abstract!LogIn
  <2>5. ASSUME NEW r \in Rooms,
               RoomsOf(u) = {} /\ InHall(u) /\ RoomsOf(u)' = {r} /\ ~InHall(u)'
        PROVE  Abstract!Next
    <3>1. Whereabouts(u) = {Hall} /\ Whereabouts(u)' = {r}
      BY <1>1, <1>2, <2>5
    <3> QED
      BY <2>2, <3>1 DEF Abstract!Next, Abstract!Enter
  <2>6. CASE RoomsOf(u) = {} /\ InHall(u) /\ RoomsOf(u)' = {} /\ ~InHall(u)'
    <3>1. Whereabouts(u) = {Hall} /\ Whereabouts(u)' = {}
      BY <1>1, <1>2, <2>6
    <3> QED
      BY <2>2, <3>1 DEF Abstract!Next, Abstract!Refused
  <2>7. ASSUME NEW r \in Rooms, RoomsOf(u) = {r} /\ ~InHall(u) /\ RoomsOf(u)' = {}
        PROVE  Abstract!Next
    <3>1. Whereabouts(u) = {r} /\ Whereabouts(u)' \in {{}, {Hall}}
      BY <1>1, <1>2, <2>7
    <3> QED
      BY <2>2, <3>1 DEF Abstract!Next, Abstract!Leave, Abstract!Transfer
  <2> QED
    BY <1>5, <2>3, <2>4, <2>5, <2>6, <2>7, PlayerMoves
<1> QED
  BY <1>4, <1>5 DEF OneMoves
-----------------------------------------------------------------------------
(* A map change is in one place, and ends with its own token *)

CarryKept(s, r) ==
    /\ CarriedAt(s, r)' <=> CarriedAt(s, r)
    /\ OneCarry(s, r) => OneCarry(s, r)'
    /\ \A k : Amid(Astray(s, r, k), roomJobs'[r]) => Amid(Astray(s, r, k), roomJobs[r])
EndingKept(s) == \A r \in Rooms : EndingAt(s, r)' <=> EndingAt(s, r)
CancelKept(s) == (Cancelled(s)' <=> Cancelled(s)) /\ (OneCancel(s) => OneCancel(s)')
LobbyChangeKept(s) == /\ lobby'[s].job = "change" <=> lobby[s].job = "change"
                      /\ lobby[s].job = "change" => lobby'[s].key = lobby[s].key

LEMMA CarriesKept ==
  ASSUME Types, NEW s \in Sessions,
         \/ UNCHANGED roomJobs
         \/ \E r \in Rooms, j \in RoomJobs \ Carries(s) :
               roomJobs' = [roomJobs EXCEPT ![r] = Append(@, j)]
         \/ \E r \in Rooms :
               /\ roomJobs[r] # <<>> /\ Head(roomJobs[r]) \notin Carries(s)
               /\ roomJobs' = [roomJobs EXCEPT ![r] = Tail(@)]
  PROVE  \A q \in Rooms : CarryKept(s, q)
<1> USE DEF CarriedAt, OneCarry
<1>0. \A q, k : Astray(s, q, k) \subseteq Carries(s)
  BY DEF Astray
<1>1. ASSUME NEW r \in Rooms, NEW j \in RoomJobs \ Carries(s), NEW q \in Rooms,
             roomJobs' = [roomJobs EXCEPT ![r] = Append(@, j)]
      PROVE  CarryKept(s, q)
  <2>1. \A M : /\ Amid(M, roomJobs'[q]) <=> Amid(M, roomJobs[q]) \/ (q = r /\ j \in M)
               /\ OnceAmid(M, roomJobs'[q])
                    <=> /\ OnceAmid(M, roomJobs[q])
                        /\ q = r /\ j \in M => ~Amid(M, roomJobs[q])
    BY <1>1, RoomPushed
  <2> QED
    BY <1>0, <1>1, <2>1 DEF CarryKept
<1>2. ASSUME NEW r \in Rooms, roomJobs[r] # <<>>, Head(roomJobs[r]) \notin Carries(s),
             NEW q \in Rooms, roomJobs' = [roomJobs EXCEPT ![r] = Tail(@)]
      PROVE  CarryKept(s, q)
  <2>1. \A M :
         /\ Amid(M, roomJobs[q])
              <=> Amid(M, roomJobs'[q]) \/ (q = r /\ Head(roomJobs[r]) \in M)
         /\ OnceAmid(M, roomJobs[q])
              => /\ OnceAmid(M, roomJobs'[q])
                 /\ ~(q = r /\ Head(roomJobs[r]) \in M /\ Amid(M, roomJobs'[q]))
    BY <1>2, RoomPopped
  <2> QED
    BY <1>2, <2>1 DEF CarryKept
<1>3. CASE UNCHANGED roomJobs
  BY <1>3 DEF CarryKept
<1> QED
  BY <1>1, <1>2, <1>3

LEMMA CancelsKept ==
  ASSUME Types, NEW s \in Sessions, QuietSession(s, Cancels)
  PROVE  CancelKept(s)
<1>1. sessionJobs[s] \in Seq(SessionJobs)
  BY QueueTypes
<1>2. ASSUME NEW j \in SessionJobs \ Cancels, sessionJobs'[s] = Append(sessionJobs[s], j)
      PROVE  CancelKept(s)
  BY <1>1, <1>2, Pushed DEF CancelKept, Cancelled, OneCancel
<1>3. ASSUME sessionJobs[s] # <<>>, Head(sessionJobs[s]) \notin Cancels,
             sessionJobs'[s] = Tail(sessionJobs[s])
      PROVE  CancelKept(s)
  BY <1>1, <1>3, Popped DEF CancelKept, Cancelled, OneCancel
<1>4. CASE sessionJobs'[s] = sessionJobs[s]
  BY <1>4 DEF CancelKept, Cancelled, OneCancel
<1> QED
  BY <1>2, <1>3, <1>4 DEF QuietSession

\* A step that leaves the change of s where it is.
LEMMA ChangeStays ==
  ASSUME NEW s \in Sessions, ChangeKept(s), mapChange'[s] = mapChange[s],
         ended'[s] = ended[s], LobbyChangeKept(s), CancelKept(s), EndingKept(s),
         \A r \in Rooms : CarryKept(s, r)
  PROVE  ChangeKept(s)'
<1> USE DEF LobbyChangeKept, CancelKept, EndingKept, CarryKept
<1>1. OneChange(s)'
  BY DEF ChangeKept, OneChange
<1>2. Pending(s)' => Pending(s)
  BY DEF Pending
<1>3. \A r \in Rooms : ~Amid(Astray(s, r, mapChange[s].target), roomJobs'[r])
  BY DEF ChangeKept, ToTarget
<1>4. \A r \in Rooms : ~Amid(Astray(s, r, mapChange[s].target), roomJobs[r])'
  BY <1>3
<1>5. ToTarget(s)'
  BY <1>2, <1>4 DEF ChangeKept, ToTarget
<1> QED
  BY <1>1, <1>5 DEF ChangeKept

\* There is nothing to keep when no change is under way.
LEMMA NoChangePending == \A t \in Sessions : ~Pending(t) => ChangeKept(t)
<1> SUFFICES ASSUME NEW s \in Sessions, ~Pending(s) PROVE ChangeKept(s)
  OBVIOUS
<1>1. /\ lobby[s].job # "change" /\ ~Cancelled(s)
      /\ \A r \in Rooms : ~CarriedAt(s, r) /\ ~EndingAt(s, r)
  BY DEF Pending
<1>2. OneCancel(s) /\ \A r \in Rooms : OneCarry(s, r)
  BY <1>1 DEF OneCancel, OneCarry, Cancelled, CarriedAt, Amid, OnceAmid
<1>3. \A r \in Rooms : ~Amid(Astray(s, r, mapChange[s].target), roomJobs[r])
  BY <1>1 DEF Astray, CarriedAt, Amid
<1> QED
  BY <1>1, <1>2, <1>3 DEF ChangeKept, OneChange, ToTarget, Pending

LEMMA NoChangePendingNext == (\A t \in Sessions : ~Pending(t) => ChangeKept(t))'
BY NoChangePending, PTL

\* The job that carried the change has been run.
LEMMA CarryGone ==
  ASSUME Types, NEW s \in Sessions, OneChange(s), NEW r \in Rooms, roomJobs[r] # <<>>,
         Head(roomJobs[r]) \in Carries(s),
         roomJobs' = [roomJobs EXCEPT ![r] = Tail(@)]
  PROVE  /\ CarriedAt(s, r) /\ lobby[s].job # "change" /\ ~Cancelled(s)
         /\ \A q \in Rooms : ~CarriedAt(s, q)' /\ ~EndingAt(s, q)
<1>1. CarriedAt(s, r)
  BY RoomPopped DEF CarriedAt
<1>2. \A q \in Rooms : ~CarriedAt(s, q)'
  BY <1>1, RoomPopped DEF OneChange, OneCarry, CarriedAt
<1> QED
  BY <1>1, <1>2 DEF OneChange

\* A job that carries the change has been pushed to a room, for the map it is for.
LEMMA CarryPushed ==
  ASSUME Types, NEW s \in Sessions, NEW k, NEW c \in Rooms,
         NEW j \in Carries(s) \ Astray(s, c, k),
         roomJobs' = [roomJobs EXCEPT ![c] = Append(@, j)],
         \A r \in Rooms : ~CarriedAt(s, r)
  PROVE  \A r \in Rooms : /\ CarriedAt(s, r)' <=> r = c
                          /\ OneCarry(s, r)'
                          /\ ~Amid(Astray(s, r, k), roomJobs'[r])
<1>1. \A M : \A q \in Rooms :
         /\ Amid(M, roomJobs'[q]) <=> Amid(M, roomJobs[q]) \/ (q = c /\ j \in M)
         /\ OnceAmid(M, roomJobs'[q]) <=> /\ OnceAmid(M, roomJobs[q])
                                          /\ q = c /\ j \in M => ~Amid(M, roomJobs[q])
  <2>1. j \in RoomJobs
    BY DEF Carries
  <2> QED
    BY <2>1, RoomPushed
<1>2. \A r \in Rooms : /\ OnceAmid(Carries(s), roomJobs[r])
                       /\ ~Amid(Astray(s, r, k), roomJobs[r])
  BY DEF CarriedAt, Amid, OnceAmid, Astray
<1> QED
  BY <1>1, <1>2 DEF CarriedAt, OneCarry

LEMMA ClientChange ==
  ASSUME Types, NEW s \in Sessions, ChangeKept(s), NEW u \in Sessions,
         \/ EnterGame(u) \/ PartyPasses(u) \/ OnDisconnected(u) \/ TryBeginMapChange(u)
         \/ AckArrives(u) \/ EndMapChange(u) \/ MemberOffline(u)
  PROVE  ChangeKept(s)'
<1>1. /\ UNCHANGED <<lobby, roomJobs, entering, ended>>
      /\ LobbyChangeKept(s) /\ EndingKept(s) /\ \A r \in Rooms : CarryKept(s, r)
  <2>1. UNCHANGED <<lobby, roomJobs, entering, ended>>
    BY DEF EnterGame, PartyPasses, OnDisconnected, TryBeginMapChange, AckArrives,
           EndMapChange, MemberOffline, roomVars, mapVars
  <2> QED
    BY <2>1, CarriesKept DEF LobbyChangeKept, EndingKept, EndingAt
<1>2. QuietSession(s, Cancels)
  <2>1. CASE AckArrives(u)
    <3>1. PICK t \in DOMAIN asked[u] :
            sessionJobs' = [sessionJobs EXCEPT ![u] = Append(@, [op |-> "ack", token |-> t])]
      BY <2>1 DEF AckArrives
    <3>2. t \in Nat
      BY <3>1, LenProperties DEF Types
    <3>3. [op |-> "ack", token |-> t] \in SessionJobs \ Cancels
      BY <3>2, SessionJobKinds DEF Cancels
    <3>4. \/ sessionJobs'[s] = sessionJobs[s]
          \/ sessionJobs'[s] = Append(sessionJobs[s], [op |-> "ack", token |-> t])
      BY <3>1 DEF Types
    <3> QED
      BY <3>3, <3>4 DEF QuietSession
  <2>2. CASE PartyPasses(u) \/ OnDisconnected(u)
    <3>1. \/ sessionJobs'[s] = sessionJobs[s]
          \/ sessionJobs'[s] = Append(sessionJobs[s], [op |-> "login"])
          \/ sessionJobs'[s] = Append(sessionJobs[s], [op |-> "cleanup"])
      BY <2>2 DEF PartyPasses, OnDisconnected, Types
    <3>2. /\ [op |-> "login"] \in SessionJobs \ Cancels
          /\ [op |-> "cleanup"] \in SessionJobs \ Cancels
      BY SessionJobKinds DEF Cancels
    <3> QED
      BY <3>1, <3>2 DEF QuietSession
  <2>3. CASE EnterGame(u) \/ TryBeginMapChange(u) \/ EndMapChange(u) \/ MemberOffline(u)
    BY <2>3 DEF EnterGame, TryBeginMapChange, EndMapChange, MemberOffline, QuietSession
  <2> QED
    BY <2>1, <2>2, <2>3
<1>3. CancelKept(s)
  BY <1>2, CancelsKept
<1>4. CASE mapChange'[s] = mapChange[s]
  BY <1>1, <1>3, <1>4, ChangeStays
<1>5. CASE (TryBeginMapChange(u) \/ EndMapChange(u)) /\ u = s
  <2>1. ~Pending(s)
    BY <1>5 DEF TryBeginMapChange, MayBegin, EndMapChange, ChangeKept, ToTarget
  <2>2. ~Pending(s)'
    BY <1>1, <1>3, <2>1 DEF Pending, CancelKept, EndingKept, CarryKept
  <2> QED
    BY <2>2, NoChangePendingNext
<1>6. mapChange'[s] = mapChange[s] \/ ((TryBeginMapChange(u) \/ EndMapChange(u)) /\ u = s)
  <2>1. CASE TryBeginMapChange(u)
    BY <2>1 DEF TryBeginMapChange, Types
  <2>2. CASE EndMapChange(u)
    BY <2>2 DEF EndMapChange, Types
  <2>3. CASE ~TryBeginMapChange(u) /\ ~EndMapChange(u)
    BY <2>3 DEF EnterGame, PartyPasses, OnDisconnected, AckArrives, MemberOffline, mapVars
  <2> QED
    BY <2>1, <2>2, <2>3
<1> QED
  BY <1>4, <1>5, <1>6

LEMMA JobChange ==
  ASSUME Types, NEW s \in Sessions, OnePlace(s), ChangeKept(s), Ended(s), link'[s] # "cleaned",
         NEW u \in Sessions, SessionJob(u)
  PROVE  ChangeKept(s)'
<1>1. UNCHANGED <<entering, ended>> /\ EndingKept(s)
  <2>1. entering' = entering /\ \/ Login(u) \/ Cleanup(u) \/ CancelMapChange(u)
                                \/ \E r \in Rooms : SetCurrentRoom(u, r) \/ ClearCurrentRoom(u, r)
                                \/ \E n \in Nat : Ack(u, n)
    BY JobRun, SessionJobKinds DEF Sets
  <2>2. ended' = ended
    BY <2>1 DEF Login, Cleanup, SetCurrentRoom, ClearCurrentRoom, CancelMapChange, Ack, mapVars
  <2> QED
    BY <2>1, <2>2 DEF EndingKept, EndingAt
<1>2. CASE u # s
  <2>1. /\ sessionJobs'[s] = sessionJobs[s] /\ lobby'[s] = lobby[s]
        /\ mapChange'[s] = mapChange[s]
    BY <1>2, OtherJob
  <2>2. LobbyChangeKept(s) /\ CancelKept(s)
    BY <2>1, CancelsKept DEF LobbyChangeKept, QuietSession
  <2>3. \A r \in Rooms : CarryKept(s, r)
    <3>1. \A j \in RoomJobs : j.who = u => j \notin Carries(s)
      BY <1>2 DEF Carries
    <3> QED
      BY <3>1, JobPushes, CarriesKept
  <2> QED
    BY <1>1, <2>1, <2>2, <2>3, ChangeStays
<1>3. CASE u = s
  <2> DEFINE job == Head(sessionJobs[s])
  <2>1. /\ sessionJobs[s] # <<>> /\ sessionJobs'[s] = Tail(sessionJobs[s])
        /\ sessionJobs[s] \in Seq(SessionJobs) /\ job \in SessionJobs
        /\ \/ job \in Logins /\ Login(s)
           \/ job \in Cleanups /\ Cleanup(s)
           \/ job \in Sets /\ SetCurrentRoom(s, job.room)
           \/ job.op = "clear" /\ ClearCurrentRoom(s, job.room)
           \/ job \in Cancels /\ CancelMapChange(s)
           \/ job.op = "ack" /\ Ack(s, job.token)
    BY <1>3, JobRun, QueueTypes
  <2>2. job \notin Cancels => CancelKept(s)
    BY <2>1, CancelsKept DEF QuietSession
  <2> HIDE DEF job
  <2>3. CASE job \in Logins /\ Login(s)
    <3>1. job \notin Cancels
      BY <2>3 DEF Logins, Cancels
    <3>2. lobby[s] = Idle /\ lobby'[s].job = "login"
      <4>1. Outside(s)
        BY <2>1, <2>3, Popped DEF Outside, job
      <4> QED
        BY <2>3, <4>1 DEF OnePlace, Login, Types
    <3>3. mapChange' = mapChange /\ \A r \in Rooms : CarryKept(s, r)
      BY <2>3, CarriesKept DEF Login, mapVars
    <3>4. LobbyChangeKept(s)
      BY <3>2 DEF LobbyChangeKept, Idle
    <3> QED
      BY <1>1, <2>2, <3>1, <3>3, <3>4, ChangeStays
  <2>4. CASE job \in Cleanups /\ Cleanup(s)
    BY <2>4 DEF Cleanup, Types
  <2>5. CASE /\ job \notin Cancels
             /\ SetCurrentRoom(s, job.room) \/ ClearCurrentRoom(s, job.room)
    <3>1. /\ UNCHANGED <<mapChange, lobby, roomJobs>> /\ LobbyChangeKept(s)
          /\ \A r \in Rooms : CarryKept(s, r)
      BY <2>5, CarriesKept
         DEF SetCurrentRoom, ClearCurrentRoom, mapVars, LobbyChangeKept
    <3> QED
      BY <1>1, <2>2, <2>5, <3>1, ChangeStays
  <2>6. CASE job \in Cancels /\ CancelMapChange(s)
    <3>1. Cancelled(s) /\ ~Cancelled(s)'
      BY <2>1, <2>6, Popped DEF Cancelled, ChangeKept, OneChange, OneCancel, job
    <3>2. UNCHANGED <<lobby, roomJobs>>
      BY <2>6 DEF CancelMapChange
    <3>3. ~Pending(s)'
      BY <1>1, <3>1, <3>2 DEF Pending, EndingKept, CarriedAt, ChangeKept, OneChange
    <3> QED
      BY <3>3, NoChangePendingNext
  <2>7. CASE job.op = "ack" /\ Ack(s, job.token) /\ ~Acknowledged(s, job.token)
    <3>1. /\ UNCHANGED <<mapChange, lobby, roomJobs>> /\ LobbyChangeKept(s)
          /\ job \notin Cancels
      BY <2>7 DEF Ack, LobbyChangeKept, Cancels
    <3>2. \A r \in Rooms : CarryKept(s, r)
      BY <3>1, CarriesKept
    <3> QED
      BY <1>1, <2>2, <3>1, <3>2, ChangeStays
  <2>8. CASE job.op = "ack" /\ Ack(s, job.token) /\ Acknowledged(s, job.token)
    <3>1. /\ ~Pending(s) /\ mapChange[s].state = "waiting"
          /\ ended[s].token # mapChange[s].token
      BY <2>8 DEF Acknowledged, ChangeKept, ToTarget, Ended
    <3>2. PICK c \in Rooms, k \in Keys : c = currentRoom[s] /\ k = mapChange[s].target
      BY <2>8 DEF Acknowledged, Types
    <3>3. PICK j \in RoomJobs : j = [op |-> "transfer", who |-> s, key |-> k]
      BY RoomJobKinds
    <3>4. /\ roomJobs' = [roomJobs EXCEPT ![c] = Append(@, j)] /\ lobby' = lobby
          /\ mapChange' = [mapChange EXCEPT ![s].state = "switching"]
      BY <2>8, <3>2, <3>3 DEF Ack
    <3>5. /\ mapChange'[s].state = "switching" /\ mapChange'[s].token = mapChange[s].token
          /\ mapChange'[s].target = k
      BY <3>2, <3>4 DEF Types
    <3>6. CancelKept(s)
      BY <2>2, <2>8 DEF Cancels
    <3>7. /\ lobby'[s].job # "change" /\ ~Cancelled(s)' /\ OneCancel(s)'
          /\ \A r \in Rooms : ~CarriedAt(s, r) /\ ~EndingAt(s, r)'
      BY <1>1, <3>1, <3>4, <3>6
         DEF Pending, CancelKept, EndingKept, ChangeKept, OneChange
    <3>8. j \in Carries(s) /\ \A r \in Rooms : j \notin Astray(s, r, k)
      BY <3>3 DEF Carries, Astray
    <3>9. \A r \in Rooms : /\ CarriedAt(s, r)' <=> r = c
                           /\ OneCarry(s, r)'
                           /\ ~Amid(Astray(s, r, k), roomJobs'[r])
      BY <3>4, <3>7, <3>8, CarryPushed
    <3>10. OneChange(s)'
      BY <3>7, <3>9 DEF OneChange
    <3>11. ToTarget(s)'
      BY <1>1, <3>1, <3>5, <3>7, <3>9 DEF ToTarget
    <3> QED
      BY <3>10, <3>11 DEF ChangeKept
  <2> QED
    BY <2>1, <2>3, <2>4, <2>5, <2>6, <2>7, <2>8 DEF Sets, Cancels
<1> QED
  BY <1>2, <1>3

LEMMA LobbyChange ==
  ASSUME Types, Registered, NEW s \in Sessions, ChangeKept(s),
         NEW u \in Sessions, FindRoom(u) \/ CreateRoom(u)
  PROVE  ChangeKept(s)'
<1>1. UNCHANGED <<entering, sessionJobs, mapChange, ended>> /\ EndingKept(s) /\ CancelKept(s)
  <2>1. UNCHANGED <<entering, sessionJobs, mapChange, ended>>
    BY DEF FindRoom, CreateRoom, mapVars, roomVars
  <2> QED
    BY <2>1, CancelsKept DEF EndingKept, EndingAt, QuietSession
<1>2. lobby[u] \in LobbyJobs
  BY LobbyActs
<1>3. ASSUME lobby' = [lobby EXCEPT ![u].step = "create"], UNCHANGED roomJobs
      PROVE  ChangeKept(s)'
  <2>1. lobby'[s].job = lobby[s].job /\ lobby'[s].key = lobby[s].key
    BY <1>2, <1>3 DEF Types, LobbyJobs
  <2>2. \A r \in Rooms : CarryKept(s, r)
    BY <1>3, CarriesKept
  <2> QED
    BY <1>1, <2>1, <2>2, ChangeStays DEF LobbyChangeKept
<1>4. ASSUME NEW r \in Rooms, Pushes(u, r), KeyOf[r] = RoomKey(u)
      PROVE  ChangeKept(s)'
  <2>1. PICK j \in RoomJobs : j = JobFor(EnterJob[lobby[u].job], u)
    BY <1>2, RoomJobKinds DEF LobbyJobs
  <2>2. /\ roomJobs' = [roomJobs EXCEPT ![r] = Append(@, j)]
        /\ lobby'[s] = IF s = u THEN Idle ELSE lobby[s]
    BY <1>4, <2>1 DEF Pushes, Types
  <2>3. CASE u = s /\ lobby[s].job = "change"
    <3>1. j \in Carries(s) /\ j \notin Astray(s, r, mapChange[s].target)
      BY <1>4, <2>1, <2>3 DEF Carries, Astray, JobFor, EnterJob, RoomKey, ChangeKept, ToTarget
    <3>2. /\ ~Cancelled(s) /\ OneCancel(s)
          /\ \A q \in Rooms : ~CarriedAt(s, q) /\ ~EndingAt(s, q)
      BY <2>3 DEF ChangeKept, OneChange
    <3>3. PICK k \in Keys : k = mapChange[s].target
      BY DEF Types
    <3>4. \A q \in Rooms : /\ CarriedAt(s, q)' <=> q = r
                           /\ OneCarry(s, q)'
                           /\ ~Amid(Astray(s, q, k), roomJobs'[q])
      BY <2>2, <3>1, <3>2, <3>3, CarryPushed
    <3>5. lobby'[s].job # "change" /\ ~Cancelled(s)' /\ OneCancel(s)'
      BY <1>1, <2>2, <2>3, <3>2 DEF Idle, CancelKept
    <3>6. OneChange(s)'
      BY <1>1, <3>2, <3>4, <3>5 DEF OneChange, EndingKept
    <3>7. Pending(s)
      BY <2>3 DEF Pending
    <3>8. ToTarget(s)'
      BY <1>1, <3>2, <3>3, <3>4, <3>5, <3>7 DEF ChangeKept, ToTarget, EndingKept
    <3> QED
      BY <3>6, <3>8 DEF ChangeKept
  <2>4. CASE ~(u = s /\ lobby[s].job = "change")
    <3>1. j \notin Carries(s)
      BY <1>2, <2>1, <2>4 DEF Carries, JobFor, EnterJob, LobbyJobs
    <3>2. LobbyChangeKept(s)
      BY <2>2, <2>4 DEF LobbyChangeKept, Idle
    <3>3. \A q \in Rooms : CarryKept(s, q)
      BY <2>2, <3>1, CarriesKept
    <3> QED
      BY <1>1, <3>2, <3>3, ChangeStays
  <2> QED
    BY <2>3, <2>4
<1>5. PICK k \in Keys : k = RoomKey(u)
  BY LobbyActs
<1>6. \A r \in Rooms : rooms[k] = r => KeyOf[r] = k
  BY RoomsAssumption DEF Registered
<1>7. fresh \subseteq Rooms
  BY DEF Types
<1>8. \/ \E r \in Rooms : Pushes(u, r) /\ KeyOf[r] = RoomKey(u)
      \/ lobby' = [lobby EXCEPT ![u].step = "create"] /\ UNCHANGED roomJobs
      \/ /\ lobby[u].job = "login" /\ lobby' = [lobby EXCEPT ![u] = Idle]
         /\ UNCHANGED roomJobs
  BY <1>5, <1>6, <1>7, LobbyActs
<1>9. ASSUME lobby[u].job = "login", lobby' = [lobby EXCEPT ![u] = Idle], UNCHANGED roomJobs
      PROVE  ChangeKept(s)'
  <2>1. LobbyChangeKept(s)
    BY <1>9 DEF LobbyChangeKept, Idle, Types
  <2>2. \A r \in Rooms : CarryKept(s, r)
    BY <1>9, CarriesKept
  <2> QED
    BY <1>1, <2>1, <2>2, ChangeStays
<1> QED
  BY <1>3, <1>4, <1>8, <1>9

\* What a room's job does to the change of another player, or of one it does not change.
LEMMA RoomJobElse ==
  ASSUME Types, NEW s \in Sessions, ChangeKept(s), NEW r \in Rooms, RoomJob(r),
         Head(roomJobs[r]) \notin Carries(s)
  PROVE  ChangeKept(s)'
<1> DEFINE job == Head(roomJobs[r])
<1>1. /\ job \in RoomJobs /\ roomJobs[r] # <<>> /\ entering[r] = <<>>
      /\ roomJobs' = [roomJobs EXCEPT ![r] = Tail(@)] /\ UNCHANGED <<mapChange, ended>>
  BY RoomActions
<1>2. \A q \in Rooms : CarryKept(s, q)
  BY <1>1, CarriesKept
<1>3. entering' = entering \/ entering' = [entering EXCEPT ![r] = <<job>>]
  BY RoomActions DEF EnterRegister, EnterRefused
<1>4. job.who = s => job.op \in {"enter", "leave"}
  BY <1>1, RoomJobKinds DEF Carries
<1>5. lobby'[s] = lobby[s]
  <2>1. UNCHANGED lobby \/ \E x : job.op = "transfer" /\ lobby' = [lobby EXCEPT ![job.who] = x]
    BY RoomActions DEF EnterRegister, EnterRefused
  <2> QED
    BY <1>4, <2>1 DEF Types
<1>6. \/ UNCHANGED sessionJobs
      \/ job.who # s /\ Post(job.who, [op |-> "cancel"])
      \/ Post(job.who, [op |-> "set", room |-> r])
      \/ Post(job.who, [op |-> "clear", room |-> r])
  BY <1>4, RoomActions DEF EnterRegister, EnterRefused, RefusedMapChange, Leave, Cleared
<1> HIDE DEF job
<1>7. EndingKept(s)
  <2>1. CASE entering' = entering
    BY <2>1 DEF EndingKept, EndingAt
  <2>2. CASE entering' = [entering EXCEPT ![r] = <<job>>]
    <3>1. /\ entering'[r] = <<job>> /\ Head(<<job>>) = job
          /\ \A q \in Rooms \ {r} : entering'[q] = entering[q]
      BY <2>2 DEF Types
    <3>2. job \notin Carries(s)
      BY DEF job
    <3> QED
      BY <1>1, <3>1, <3>2 DEF EndingKept, EndingAt
  <2> QED
    BY <1>3, <2>1, <2>2
<1>8. CancelKept(s)
  <2>1. \/ sessionJobs'[s] = sessionJobs[s]
        \/ sessionJobs'[s] = Append(sessionJobs[s], [op |-> "set", room |-> r])
        \/ sessionJobs'[s] = Append(sessionJobs[s], [op |-> "clear", room |-> r])
    <3>1. \A w, j : Post(w, j) => sessionJobs'[s] = IF w = s THEN Append(sessionJobs[s], j)
                                                           ELSE sessionJobs[s]
      BY DEF Post, Types
    <3> QED
      BY <1>6, <3>1
  <2>2. /\ [op |-> "set", room |-> r] \in SessionJobs \ Cancels
        /\ [op |-> "clear", room |-> r] \in SessionJobs \ Cancels
    BY SessionJobKinds DEF Cancels
  <2> QED
    BY <2>1, <2>2, CancelsKept DEF QuietSession
<1> QED
  BY <1>1, <1>2, <1>5, <1>7, <1>8, ChangeStays DEF LobbyChangeKept

\* The job that carries the change: the player enters, or leaves for the lobby, or the
\* change is cancelled.
LEMMA RoomJobCarries ==
  ASSUME Types, NEW s \in Sessions, ChangeKept(s), NEW r \in Rooms, RoomJob(r),
         Head(roomJobs[r]) \in Carries(s)
  PROVE  ChangeKept(s)'
<1> DEFINE job == Head(roomJobs[r])
<1>1. /\ job \in RoomJobs /\ roomJobs[r] # <<>> /\ entering[r] = <<>>
      /\ roomJobs' = [roomJobs EXCEPT ![r] = Tail(@)] /\ UNCHANGED <<mapChange, ended>>
      /\ job.who = s /\ job.op \in {"enterMap", "transfer"}
  BY RoomActions DEF Carries
<1>2. PICK k \in Keys : k = mapChange[s].target
  BY DEF Types
<1>3. /\ CarriedAt(s, r) /\ lobby[s].job # "change" /\ ~Cancelled(s)
      /\ \A q \in Rooms : ~CarriedAt(s, q)' /\ ~EndingAt(s, q)
  BY <1>1, CarryGone DEF ChangeKept
<1>4. \A q \in Rooms : OneCarry(s, q)' /\ ~Amid(Astray(s, q, k), roomJobs'[q])
  BY <1>3 DEF OneCarry, CarriedAt, Amid, OnceAmid, Astray
<1>5. /\ mapChange'[s].state = "switching" /\ ended'[s].token # mapChange'[s].token
      /\ mapChange'[s].target = k
  BY <1>1, <1>2, <1>3 DEF ChangeKept, ToTarget, Pending
<1>6. /\ job.op = "enterMap" => KeyOf[r] = ValidKey[k]
      /\ job.op = "transfer" => job.key = k
  <2>1. job \notin Astray(s, r, k)
    <3>1. \A M : Amid(M, roomJobs[r]) <=> Amid(M, roomJobs'[r]) \/ job \in M
      BY <1>1, RoomPopped
    <3> QED
      BY <1>2, <3>1 DEF ChangeKept, ToTarget
  <2> QED
    BY <1>1, <2>1 DEF Astray
<1>7. sessionJobs[s] \in Seq(SessionJobs) /\ OneCancel(s)
  BY QueueTypes DEF ChangeKept, OneChange
<1>8. ASSUME NEW j \in SessionJobs, Post(s, j)
      PROVE  /\ j \notin Cancels => ~Cancelled(s)' /\ OneCancel(s)'
             /\ j \in Cancels => Cancelled(s)' /\ OneCancel(s)'
  <2>1. sessionJobs'[s] = Append(sessionJobs[s], j)
    BY <1>8 DEF Post, Types
  <2> QED
    BY <1>3, <1>7, <2>1, Pushed DEF Cancelled, OneCancel
<1>9. CASE Post(s, [op |-> "cancel"]) /\ UNCHANGED <<entering, lobby>>
  <2>1. Cancelled(s)' /\ OneCancel(s)'
    BY <1>8, <1>9, SessionJobKinds
  <2>2. lobby'[s].job # "change" /\ \A q \in Rooms : ~EndingAt(s, q)'
    BY <1>3, <1>9 DEF EndingAt
  <2> QED
    BY <1>3, <1>4, <1>5, <2>1, <2>2 DEF ChangeKept, OneChange, ToTarget
<1>10. CASE job.op = "enterMap" /\ EnterRegister(r, job)
  <2>1. ~Cancelled(s)' /\ OneCancel(s)'
    <3>1. [op |-> "set", room |-> r] \in SessionJobs \ Cancels
      BY SessionJobKinds DEF Cancels
    <3> QED
      BY <1>1, <1>8, <1>10, <3>1 DEF EnterRegister
  <2>2. lobby' = lobby /\ entering' = [entering EXCEPT ![r] = <<job>>]
    BY <1>10 DEF EnterRegister
  <2>3. job \in Carries(s)
    OBVIOUS
  <2> HIDE DEF job
  <2>4. \A q \in Rooms : EndingAt(s, q)' <=> q = r
    <3>1. /\ entering'[r] = <<job>> /\ Head(<<job>>) = job
          /\ \A q \in Rooms \ {r} : entering'[q] = entering[q]
      BY <2>2 DEF Types
    <3> QED
      BY <1>3, <2>3, <3>1 DEF EndingAt
  <2> QED
    BY <1>3, <1>4, <1>5, <1>6, <1>10, <2>1, <2>2, <2>4 DEF ChangeKept, OneChange, ToTarget
<1>11. CASE /\ job.op = "transfer" /\ Leave(r, job.who) /\ UNCHANGED entering
            /\ lobby' = [lobby EXCEPT ![job.who] =
                            [job |-> "change", key |-> job.key, step |-> "find"]]
  <2>1. ~Cancelled(s)' /\ OneCancel(s)'
    <3>1. [op |-> "clear", room |-> r] \in SessionJobs \ Cancels
      BY SessionJobKinds DEF Cancels
    <3> QED
      BY <1>1, <1>8, <1>11, <3>1 DEF Leave, Cleared
  <2>2. lobby'[s].key = k /\ \A q \in Rooms : ~EndingAt(s, q)'
    BY <1>1, <1>3, <1>6, <1>11 DEF EndingAt, Types
  <2> QED
    BY <1>3, <1>4, <1>5, <2>1, <2>2 DEF ChangeKept, OneChange, ToTarget
<1> QED
  BY <1>1, <1>9, <1>10, <1>11, RoomActions DEF EnterRefused, RefusedMapChange

\* The end packet is on its way to the client: the change is over.
LEMMA CountedChange ==
  ASSUME Types, NEW s \in Sessions, ChangeKept(s), NEW r \in Rooms, EnterCounted(r)
  PROVE  ChangeKept(s)'
<1>1. /\ UNCHANGED <<lobby, roomJobs, sessionJobs, mapChange>> /\ entering[r] # <<>>
      /\ entering'[r] = <<>> /\ \A q \in Rooms \ {r} : entering'[q] = entering[q]
  BY DEF EnterCounted, Types
<1>2. CancelKept(s) /\ \A q \in Rooms : CarryKept(s, q)
  BY <1>1, CancelsKept, CarriesKept DEF QuietSession
<1>3. CASE EndingAt(s, r)
  <2>1. /\ ~Cancelled(s)' /\ lobby'[s].job # "change"
        /\ \A q \in Rooms : ~CarriedAt(s, q)' /\ ~EndingAt(s, q)'
    BY <1>1, <1>2, <1>3
       DEF ChangeKept, OneChange, CancelKept, CarryKept, EndingAt
  <2> QED
    BY <2>1, NoChangePendingNext DEF Pending
<1>4. CASE ~EndingAt(s, r)
  <2>1. ended'[s] = ended[s]
    <3> DEFINE job == Head(entering[r])
    <3>1. job \in RoomJobs /\ job \notin Carries(s)
      BY <1>1, <1>4, QueueTypes, Popped DEF EndingAt
    <3>2. ~(job.who = s /\ job.op = "enterMap")
      BY <3>1 DEF Carries
    <3>3. \/ ended' = ended
          \/ \E x : job.op = "enterMap" /\ ended' = [ended EXCEPT ![job.who] = x]
      BY DEF EnterCounted
    <3> HIDE DEF job
    <3> QED
      BY <3>2, <3>3 DEF Types
  <2>2. EndingKept(s)
    BY <1>1, <1>4 DEF EndingKept, EndingAt
  <2> QED
    BY <1>1, <1>2, <2>1, <2>2, ChangeStays DEF LobbyChangeKept
<1> QED
  BY <1>3, <1>4

\* Nobody but the cleanup job lets go of a change that is under way.
LEMMA ChangeStep ==
  ASSUME Types, Registered, NEW s \in Sessions, OnePlace(s), Ended(s),
         link[s] # "cleaned" => ChangeKept(s), [Next]_vars, link'[s] # "cleaned"
  PROVE  ChangeKept(s)'
<1>1. ChangeKept(s)
  <2>1. link[s] # "cleaned"
    <3>1. ASSUME SessionJob(s), link[s] = "cleaned" PROVE link'[s] = "cleaned"
      BY <3>1, JobRun DEF Login, Cleanup, SetCurrentRoom, ClearCurrentRoom,
                          CancelMapChange, Ack, Types
    <3> QED
      BY <3>1, SessionSteps DEF EnterGame, PartyPasses, OnDisconnected, Unmoved
  <2> QED
    BY <2>1
<1>2. CASE SelectPurge \/ Purge \/ UNCHANGED vars
  <2>1. UNCHANGED <<lobby, roomJobs, sessionJobs, mapChange, ended, entering>>
    BY <1>2 DEF SelectPurge, Purge, vars, mapVars, roomVars
  <2>2. CancelKept(s) /\ \A q \in Rooms : CarryKept(s, q)
    BY <2>1, CancelsKept, CarriesKept DEF QuietSession
  <2> QED
    BY <1>1, <2>1, <2>2, ChangeStays DEF LobbyChangeKept, EndingKept, EndingAt
<1> QED
  BY <1>1, <1>2, ClientChange, JobChange, LobbyChange, RoomJobElse, RoomJobCarries,
     CountedChange DEF Next, SessionActs, RoomActs

\* What a step does to the handshake of s: nothing, a release, an acknowledgement, a new
\* change, or the end packet.
LEMMA HandshakeSteps ==
  ASSUME Types, NEW s \in Sessions, [Next]_vars
  PROVE  \/ /\ asked'[s] = asked[s] /\ ended'[s] = ended[s]
            /\ \/ mapChange'[s] = mapChange[s] \/ mapChange'[s] = NoChange
               \/ /\ mapChange[s].state = "waiting"
                  /\ mapChange'[s] = [mapChange[s] EXCEPT !.state = "switching"]
         \/ TryBeginMapChange(s)
         \/ \E r \in Rooms :
               /\ EndingAt(s, r) /\ link[s] = "open" /\ UNCHANGED <<asked, mapChange>>
               /\ ended'[s] = [token |-> mapChange[s].token, key |-> KeyOf[r]]
<1>1. CASE UNCHANGED mapVars
  BY <1>1 DEF mapVars
<1>2. ASSUME NEW u \in Sessions,
             EnterGame(u) \/ PartyPasses(u) \/ OnDisconnected(u) \/ AckArrives(u)
               \/ FindRoom(u) \/ CreateRoom(u) \/ MemberOffline(u)
      PROVE  UNCHANGED mapVars
  BY <1>2 DEF EnterGame, PartyPasses, OnDisconnected, AckArrives, FindRoom, CreateRoom,
              MemberOffline
<1>3. ASSUME NEW u \in Sessions, TryBeginMapChange(u), u # s
      PROVE  asked'[s] = asked[s] /\ ended'[s] = ended[s] /\ mapChange'[s] = mapChange[s]
  BY <1>3 DEF TryBeginMapChange, Types
<1>4. ASSUME NEW u \in Sessions, EndMapChange(u)
      PROVE  /\ asked'[s] = asked[s] /\ ended'[s] = ended[s]
             /\ mapChange'[s] = mapChange[s] \/ mapChange'[s] = NoChange
  BY <1>4 DEF EndMapChange, Types
<1>5. ASSUME NEW u \in Sessions, SessionJob(u)
      PROVE  /\ asked'[s] = asked[s] /\ ended'[s] = ended[s]
             /\ \/ mapChange'[s] = mapChange[s] \/ mapChange'[s] = NoChange
                \/ /\ mapChange[s].state = "waiting"
                   /\ mapChange'[s] = [mapChange[s] EXCEPT !.state = "switching"]
  <2>1. CASE Login(u) \/ \E r \in Rooms : SetCurrentRoom(u, r) \/ ClearCurrentRoom(u, r)
    BY <2>1 DEF Login, SetCurrentRoom, ClearCurrentRoom, mapVars
  <2>2. CASE Cleanup(u) \/ CancelMapChange(u)
    BY <2>2 DEF Cleanup, CancelMapChange, Types
  <2>3. CASE \E n \in Nat : Ack(u, n)
    BY <2>3 DEF Ack, Acknowledged, Types
  <2> QED
    BY <1>5, <2>1, <2>2, <2>3, JobRun, SessionJobKinds DEF Sets
<1>6. ASSUME NEW r \in Rooms, RoomJob(r) PROVE UNCHANGED mapVars
  BY <1>6 DEF RoomJob
<1>7. ASSUME NEW r \in Rooms, EnterCounted(r)
      PROVE  /\ asked'[s] = asked[s] /\ mapChange'[s] = mapChange[s]
             /\ UNCHANGED <<asked, mapChange>>
             /\ \/ ended'[s] = ended[s]
                \/ /\ EndingAt(s, r) /\ link[s] = "open"
                   /\ ended'[s] = [token |-> mapChange[s].token, key |-> KeyOf[r]]
  <2> DEFINE job == Head(entering[r])
  <2>1. job \in RoomJobs /\ entering[r] # <<>>
    BY <1>7, QueueTypes, Popped DEF EnterCounted
  <2>2. \/ ended' = ended
        \/ /\ job.op = "enterMap" /\ link[job.who] = "open"
           /\ ended' = [ended EXCEPT ![job.who] =
                          [token |-> mapChange[job.who].token, key |-> KeyOf[r]]]
    BY <1>7 DEF EnterCounted
  <2>3. job.op = "enterMap" /\ job.who = s => EndingAt(s, r)
    BY <2>1 DEF EndingAt, Carries
  <2>4. UNCHANGED <<asked, mapChange>>
    BY <1>7 DEF EnterCounted
  <2> HIDE DEF job
  <2> QED
    BY <2>2, <2>3, <2>4 DEF Types
<1>8. ASSUME SelectPurge \/ Purge PROVE UNCHANGED mapVars
  BY <1>8 DEF SelectPurge, Purge
<1>9. ASSUME UNCHANGED vars PROVE UNCHANGED mapVars
  BY <1>9 DEF vars, mapVars
<1> QED
  BY <1>1, <1>2, <1>3, <1>4, <1>5, <1>6, <1>7, <1>8, <1>9 DEF Next, SessionActs, RoomActs

\* Tokens are given out in turn, and the end packet has the token of the change it ends.
LEMMA EndedStep ==
  ASSUME Types, NEW s \in Sessions, Ended(s), link[s] # "cleaned" => ChangeKept(s),
         [Next]_vars
  PROVE  Ended(s)'
<1> USE DEF Ended
<1>1. asked[s] \in Seq(Keys) /\ ended[s].token \in Nat \cup {-1}
  BY DEF Types
<1>2. CASE /\ asked'[s] = asked[s] /\ ended'[s] = ended[s]
           /\ \/ mapChange'[s] = mapChange[s] \/ mapChange'[s] = NoChange
              \/ /\ mapChange[s].state = "waiting"
                 /\ mapChange'[s] = [mapChange[s] EXCEPT !.state = "switching"]
  <2>1. CASE mapChange'[s] = mapChange[s]
    BY <1>2, <2>1
  <2>2. CASE mapChange'[s] = NoChange
    BY <1>2, <2>2 DEF NoChange
  <2>3. CASE /\ mapChange[s].state = "waiting"
             /\ mapChange'[s] = [mapChange[s] EXCEPT !.state = "switching"]
    <3>1. /\ mapChange'[s].state = "switching" /\ mapChange'[s].token = mapChange[s].token
          /\ mapChange'[s].target = mapChange[s].target
      BY <2>3 DEF Types
    <3> QED
      BY <1>2, <2>3, <3>1
  <2> QED
    BY <1>2, <2>1, <2>2, <2>3
<1>3. CASE TryBeginMapChange(s)
  <2> DEFINE n == Len(asked[s]) + 1
  <2>1. s \in DOMAIN plan => plan[s] \in Seq(Keys)
    BY PlanFacts
  <2>2. PICK k : /\ asked'[s] = Append(asked[s], k) /\ ended' = ended
                 /\ mapChange'[s] = [state |-> "waiting", token |-> n, target |-> k]
    BY <1>3 DEF TryBeginMapChange, Types
  <2>3. /\ Len(asked'[s]) = n /\ asked'[s][n] = k
        /\ \A i \in 1..Len(asked[s]) : asked'[s][i] = asked[s][i]
    BY <1>1, <2>2
  <2>4. Len(asked[s]) \in Nat
    BY <1>1
  <2> QED
    BY <1>1, <2>2, <2>3, <2>4
<1>4. ASSUME NEW r \in Rooms, EndingAt(s, r), link[s] = "open", UNCHANGED <<asked, mapChange>>,
             ended'[s] = [token |-> mapChange[s].token, key |-> KeyOf[r]]
      PROVE  Ended(s)'
  <2>1. mapChange[s].state = "switching" /\ KeyOf[r] = ValidKey[mapChange[s].target]
    BY <1>4 DEF ChangeKept, ToTarget, Pending
  <2> QED
    BY <1>4, <2>1
<1> QED
  BY <1>2, <1>3, <1>4, HandshakeSteps
-----------------------------------------------------------------------------
(* The invariant, and what it shows *)

IInv == /\ Types /\ Planned /\ CleanedOnce /\ Stranding
        /\ \A r \in Rooms : Counted(r)
        /\ \A s \in Sessions : OnePlace(s) /\ Unbound(s) /\ InStep(s) /\ Ended(s)
        /\ \A s \in Sessions : link[s] # "cleaned" => ChangeKept(s)

LEMMA IInvInit == Init => IInv
<1> SUFFICES ASSUME Init PROVE IInv
  OBVIOUS
<1>1. Types
  BY TypesInit
<1>2. \A s \in Sessions : sessionJobs[s] = <<>> /\ lobby[s] = Idle
  BY DEF Init
<1>3. \A M : /\ \A s \in Sessions : ~Amid(M, sessionJobs[s]) /\ OnceAmid(M, sessionJobs[s])
             /\ \A r \in Rooms : ~Amid(M, roomJobs[r]) /\ OnceAmid(M, roomJobs[r])
  BY NoJobs DEF Init
<1>4. Planned /\ CleanedOnce
  BY <1>3 DEF Init, Planned, CleanedOnce
<1>5. Stranding
  BY <1>3 DEF Init, Stranding, Registered, Occupied, EnterAt
<1>6. ASSUME NEW r \in Rooms PROVE Counted(r)
  BY FS_EmptySet DEF Init, Counted
<1>7. ASSUME NEW s \in Sessions
      PROVE  OnePlace(s) /\ Unbound(s) /\ InStep(s) /\ Ended(s) /\ ChangeKept(s)
  <2>1. OnePlace(s)
    BY <1>2, <1>3 DEF Init, OnePlace, EnterAt
  <2>2. Unbound(s)
    BY <1>2, <1>3 DEF Init, Unbound, EnterAt
  <2>3. InStep(s)
    <3>1. sessionJobs[s] \in Seq(SessionJobs) /\ ~Amid(Sets, sessionJobs[s])
      BY <1>1, <1>3, QueueTypes
    <3>2. currentRoom[s] = NoRoom /\ \A r \in Rooms : s \notin players[r]
      BY DEF Init
    <3>3. \A r \in Rooms : ~Settles(s, r)
      BY <3>1, <3>2, NothingLasts DEF Settles
    <3> QED
      BY <3>2, <3>3 DEF InStep
  <2>4. Ended(s)
    BY DEF Init, Ended, NoChange
  <2>5. ChangeKept(s)
    BY <1>2, <1>3, NoChangePending
       DEF Init, Pending, Idle, Cancelled, CarriedAt, EndingAt
  <2> QED
    BY <2>1, <2>2, <2>3, <2>4, <2>5
<1> QED
  BY <1>1, <1>4, <1>5, <1>6, <1>7 DEF IInv

LEMMA IInvStep == IInv /\ [Next]_vars => IInv'
<1> SUFFICES ASSUME IInv, [Next]_vars PROVE IInv'
  OBVIOUS
<1> USE DEF IInv
<1>1. Types' /\ Planned' /\ CleanedOnce'
  BY TypesStep, PlannedStep
<1>2. Stranding'
  BY StrandedStep
<1>3. \A r \in Rooms : Counted(r)'
  BY CountedStep
<1>4. ASSUME NEW s \in Sessions PROVE OnePlace(s)' /\ Unbound(s)' /\ InStep(s)' /\ Ended(s)'
  <2>1. OnePlace(s)'
    BY PlaceSteps, OnePlaceStep
  <2>2. Unbound(s)'
    BY UnboundStep
  <2>3. InStep(s)'
    BY InStepStep
  <2>4. Ended(s)'
    BY EndedStep
  <2> QED
    BY <2>1, <2>2, <2>3, <2>4
<1>5. \A s \in Sessions : link'[s] # "cleaned" => ChangeKept(s)'
  BY ChangeStep DEF Stranding
<1> QED
  BY <1>1, <1>2, <1>3, <1>4, <1>5

\* The invariant above holds throughout.
THEOREM Invariant == Spec => []IInv
BY IInvInit, IInvStep, PTL DEF Spec

\* Sessions, rooms, the lobby and the queues between them hold what the code puts there,
\* and no job that neither side knows.
THEOREM GameTypes == Spec => []Types
<1>1. IInv => Types
  BY DEF IInv
<1> QED
  BY <1>1, Invariant, PTL

\* Session and room agree on where a player is, up to the jobs posted, whatever
\* disconnects and map changes interleave (EnterRegister, Leave, OnDisconnected).
THEOREM SessionsFollowRooms == Spec => []SessionFollowsRoom
<1>1. IInv => SessionFollowsRoom
  BY InStepMeans DEF IInv
<1> QED
  BY <1>1, Invariant, PTL

\* A room with players or an entry on its way is the one its key finds, unless the purge
\* overtook an entry (GetOrCreateRoom, PurgeInstanceRooms).
THEOREM NobodyStranded == Spec => []StrandedOnlyByRace
<1>1. IInv => StrandedOnlyByRace
  BY StrandedMeans DEF IInv, Stranding
<1> QED
  BY <1>1, Invariant, PTL

\* An end packet has the token of a change that was asked for, and to that very map,
\* though the room reads the session's token in a thread of its own (EnterMapChange).
THEOREM EndsCarryToken == Spec => []EndCarriesToken
<1>1. IInv => EndCarriesToken
  <2>1. \A s \in Sessions : Ended(s) => (ended[s].token # -1 =>
             ended[s].token # 0 /\ ValidKey[asked[s][ended[s].token]] = ended[s].key)
    BY DEF Ended
  <2> QED
    BY <2>1 DEF EndCarriesToken, IInv
<1> QED
  BY <1>1, Invariant, PTL

\* The hand-over between session, lobby and room implements Presence: a player is in one
\* place at a time and moves only between the lobby and a room, or away.
THEOREM RoomsImplementPresence == Spec => ImplementsPresence
<1> DEFINE where == [s \in Sessions |-> Whereabouts(s)]
<1>1. Init => Abstract!Init
  <2> SUFFICES ASSUME Init PROVE Abstract!Init
    OBVIOUS
  <2>1. \A s \in Sessions : Whereabouts(s) = {}
    BY NoJobs DEF Init, Whereabouts, QueuedFor
  <2> QED
    BY <2>1 DEF Abstract!Init
<1>2. IInv /\ IInv' /\ [Next]_vars => [Abstract!Next]_where
  BY PlaceSteps, RefinementStep DEF IInv
<1> QED
  BY <1>1, <1>2, Invariant, PTL DEF Spec, ImplementsPresence, Abstract!Spec
=============================================================================
