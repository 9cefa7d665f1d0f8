# Formal models of the IOCP chat server

TLA+ modules, TLC configurations and TLAPS proofs for the programs of this
repository. The subject is the C++ chat server in
`IocpChatServer/IocpChatServer` (paths below are relative to it): its network
core `ServerCore` and the `ChatServer` on top of it; and, of the samples, the
session and room actors of the MMO server in `MmoProject/CodeSample`.

Run a model with `tlc -config X.cfg M`, check proofs with `tlapm M.tla`.

## 1. The system

| Component | State | Operations | Module |
|---|---|---|---|
| Session send pipeline (`ServerCore/Session.cpp`) | `_sendQueue`, backlog counters, `_sendRegistered`, `_sendEvent.sendBuffers`, the session lock | `Send`, `RegisterSend`, `ProcessSend`, `HandleError`, `Disconnect` | `SessionSend` |
| Reader-writer spin lock (`ServerCore/Lock.*`) | `_lockFlag` (owner and reader halves), `_writeCount` | `WriteLock`, `WriteUnlock`, `ReadLock`, `ReadUnlock` | `RwSpinLock` |
| Rooms and packet handlers (`ChatServer/Room*`, `ClientPacketHandler.cpp`, `Player.h`) | `RoomManager::_rooms`, `_nextRoomId`, `Room::_players`, `Player::_room`, `ChatSession::_player` | login, create, join, leave, chat, disconnect | `ChatRooms` |
| Job queue (`ChatServer/JobQueue.h`) | deque, `stop_`, two condition variables, workers | `Start`, `Stop`, `Enqueue`, `TryEnqueue`, `WorkerLoop` | `JobQueue` |
| DB connection pool (`ServerCore/DBConnectionPool.*`) | queue of connections, `_shutdown` | `Connect`, `Pop`, `Push`, `Clear` | `DBConnectionPool` |
| Room chat log (`ChatServer/Room.cpp`) | one job queue per room, its worker | `LogChat`, `LogChatToDB`, `~Room` | `RoomLog` (composes the two above) |
| Receive buffer and framing (`ServerCore/RecvBuffer.*`, `PacketSession::OnRecv`) | cursors, bytes | `RegisterRecv`, `ProcessRecv`, `OnWrite`, `OnRead`, `Clean`, `OnRecv` | `RecvBuffer` |
| Send buffers (`ServerCore/SendBuffer.*`) | thread-local chunk, global chunk pool, live buffers | `Open`, `Close`, `Pop`, `Push`, `PushGlobal`, destruction | `SendBufferPool` |
| Session lifecycle (`ServerCore/Listener.*`, `Service.*`, `Session.cpp`, `ChatServer/ChatSessionManager.cpp`) | accept events, `_connected`, three registries, outstanding operations | accept, connect, receive loop, disconnect | `SessionLifecycle` |
| Memory pools (`ServerCore/Memory.*`, `MemoryPool.*`) | pool table, lock-free lists, headers, counters | `Allocate`, `Release`, `Pop`, `Push` | `MemoryPools` |
| Lock-order profiler (`ServerCore/DeadLockProfiler.*`) | names, recorded orders, each thread's lock stack | `PushLock`, `PopLock`, `CheckCycle` | `LockProfiler` |
| MMO sessions and rooms (`MmoProject/CodeSample`: `PlayerSession.cpp`, `GameRoom.EnterLeave.cpp`, `RoomManager.cpp`, `ClientPacketHandler.EnterGame.cpp`) | current room, handshake state and token, job queues, player maps, room map | enter game, map change, leave, disconnect, find or create, purge | `GameRooms` (partly) |
| MMO movement, combat, main loop | | | not modelled |
| Start-up, object pools, ODBC wrappers, buffer readers and writers, sockets | | | not modelled |
| Dummy client, load-test copy, two Unity samples, generated protobuf code | | | not modelled |

**How they interact.** N worker threads loop on `IocpCore::Dispatch`. A
completion is handled by whichever worker dequeues it. It runs the session's
`ProcessConnect`, `ProcessRecv`, `ProcessSend` or `ProcessDisconnect`, or the
listener's `ProcessAccept`. `ProcessRecv` feeds the framing loop, which calls a
packet handler; the handler locks the `RoomManager` or a `Room`, fills a
`SendBuffer` from the thread's chunk and calls `Send` on other sessions, which
may post a `WSASend` whose completion arrives on yet another worker. The login
handler blocks on the connection pool; a room's own worker uses the same pool.
All of them allocate from `GMemory` and, in a debug build, announce every lock to
`GDeadLockProfiler`.

**What is hard.** One WSARecv at a time makes the receive side of a session
sequential; everything else is concurrent:
- `Send` on a session races with that session's send completion and with
  `Disconnect`;
- handlers of different sessions interleave between two locked blocks, with
  `RoomRef`s and `PlayerRef`s found earlier still in hand, and the join handler
  walks the member map with no lock at all;
- every Winsock call can fail, at once or in its completion, and
  `IocpCore::Dispatch` hands a failed completion on like a successful one;
- condition variables are notified after the unlock; queues and pools are
  stopped while others use them;
- nothing is persisted by the core, so there is no crash recovery.

The MMO server puts actors on the same core: a session, a room, the lobby, the
party and the instance manager each run their jobs one at a time, in the order
posted. A player's session and its room learn of each other only by jobs posted
across, while disconnects, map changes and the purge of instance rooms go on.

The complete list of hazards, each at its line, is in `PROJECT.json`.

## 2. Modules and the code

Grain of atomicity: a block under a lock is one step, and so is a single atomic
access outside one; each Winsock call is a step that succeeds or fails. The
`\* history` variables of a module record what a property needs and are read by
no action.

**SessionSend** (`Session.cpp:31-97, 214-272, 347-385`). A thread's program
counter walks through `Send`, `RegisterSend` and `ProcessSend`. `ProcessSend`
calls `RegisterSend` with the session lock held (line 365) and `Send` calls it
with the lock free, so the owner of the lock is a variable and re-entrance is
`lock \in {NoThread, t}`. `posted` are the overlapped sends the kernel has not
completed, `wire` the order in which it took the buffers, `ignored` that a
WSASend failed with an error `HandleError` only prints. **SendChannel** is the
promise: an ordered channel that may drop what was not sent yet and never
duplicates or reorders.

**RwSpinLock** (`Lock.cpp`). Each load, store, CAS and fetch_add of `_lockFlag`
is a step. Threads use the lock through the guards: holds nest, and no thread
takes the write lock inside its own read hold (it would spin on itself; no code
of the server does it). The ten-second timeout may strike any spinning thread
and ends the run. Thread ids start at 1, as `ThreadManager` gives them; a thread
with `LThreadId` 0 (a `std::thread` of `JobQueue`) must not use the lock, and
none of the jobs does. **ReentrantRWLock** is what users of the lock rely on,
including the users modelled in the other modules.

**ChatRooms** (`ClientPacketHandler.cpp`, `Room.cpp`, `RoomManager.cpp`). A
program counter per session, because a session's next WSARecv is posted after
its handler returned. Broadcasts are the snapshot and then one `Send` at a time.
`JoinListTorn` is the data race of line 234: when an insertion or erasure may
overlap the unlocked walk of the member map the walk may miss members or crash.
A *crowd* says which clients take part: careful ones follow the client's menu
with an account of their own; the others send anything at any time.
`known` and `joiner` record what clients were told.

**JobQueue** (`JobQueue.h`). From `Start` to the end of `Stop`, any number of
producers and workers, bounded or not; a worker on a condition variable may wake
for no reason. **DBConnectionPool** is written the same way; its `Clear` may come at any
time and the pool be used afterwards, more than the one call in its destructor. **RoomLog** extends
it and instantiates JobQueue with one worker, which is one of the pool's
threads: a database job is Pop, query and Push on that worker. In the chat server
itself nobody calls `LogChat` and `LogChatToDB`; the room-chat handler of the
load-test copy (`IocpChatServer_LoadTest/ChatServer/ClientPacketHandler.cpp:323`)
calls both.

**RecvBuffer** (`RecvBuffer.cpp`, `Session.cpp:184-207, 311-340, 404-429`).
Sequential: a completion is one step. A byte is its offset in the stream, so the
buffer shows whether it still holds the right bytes.

**SendBufferPool** (`SendBuffer.cpp`). The shared_ptr counts are represented by
who refers to a chunk: a thread, live buffers, the pool, or the deleter on its
way to the pool.

**SessionLifecycle** (`Listener.cpp`, `Service.cpp`, `Session.cpp`,
`ChatSessionManager.cpp`, `ChatSession.cpp`). One receive loop, one thread in
`ProcessConnect` and one disconnect operation per session, any number of
sessions at once; faults are a constant of the run. `Disconnect` joins the exchange of
`_connected` with the DisconnectEx call that follows it on the same thread: the
exchange alone decides who makes the call. `Service::Broadcast` and
`ChatSessionManager::Broadcast` have no caller and are left out.

**MemoryPools** (`Memory.cpp`, `MemoryPool.cpp`). The constructor's three loops
give `PoolSizes` and `PoolTable` at their real sizes: `Turn` is the pool whose turn of the
loop fills an entry. A thread's `step` walks
through `Pop` or `Push` one shared access at a time: list, header, each counter.

**LockProfiler** (`DeadLockProfiler.cpp`, called from `Lock.cpp`). A thread
announces a lock (`PushLock`, one step under `_lock`), then waits for it
(`Obtain`). The recursion of `Dfs` is written as the stack of its calls (`path`),
next to the arrays, in one record: a `SearchStep` is the entry of a call
(`Discover`), one round of its loop (`Look`) or its return (`Finish`), in the
code's order. All of it is one step of the thread, since the lock `_lock` is held
for it; `SearchLength` is how many steps there can be. `Reaches` is the
reference. **MCServerCore** instantiates these two, `RecvBuffer` and
`SendBufferPool` side by side: they share no state, and a behaviour exercises one.

**GameRooms** (`MmoProject/CodeSample`). One job is one step, except where the
code touches what other threads read meanwhile: the insert into `_players` and
the player count are two steps, the two lock blocks of `GetOrCreateRoom` and of
`PurgeInstanceRooms` are two each, and the handshake functions, which lock a
mutex of their own, are called from any thread. What a handler does that the
repository does not contain (lobby, instance manager, the two map-change packet
handlers) is modelled from the calls this code makes and from the flow charts of
`MmoProject/README.md:78` and `:89`, and is marked external. A login need not end in
an entry: the lobby's ready gate (`MmoProject/README.md:287-310`) may give it up
(`EnterDropped`; that the last of its early returns comes after the world room was
looked up, or made, is left out). A map that is not valid gives way to the default one
(`ValidKey`, `RoomManager.cpp:13`). The cleanup job is one step, although it cancels the
map change under the handshake's own mutex first: everything else in it touches state
of the session's actor only, or posts a job. **Presence** is the
promise: a player is in one room, or with the lobby, or nowhere, and moves from
room to room only through the lobby.

`PROJECT.json` ("map") gives the lines of every definition.

## 3. What is checked

| Run | Shows |
|---|---|
| `session_send` | `_sendRegistered` is a token (`OneOutstandingSend`); the buffers the kernel reads stay referenced (`BuffersPinned`); the backlog counters equal the queue, the hard caps and batch limits hold (`BacklogExact`); queued data has somebody in charge (`QueueServed`) and leaves (`Drains`), unless the session closes or an error was ignored; the pipeline implements `SendChannel`. |
| `rw_lock` | the flag accounts for every hold (`FlagFaithful`), the two unlock-order checks never kill a program that uses the guards (`NoOrderCrash`), the lock implements `ReentrantRWLock`, and is always taken again by somebody (`Reacquired`). |
| `rooms` | a registered empty room always has a handler that will enter or remove it (`NoAbandonedRoom`, for all clients); with careful clients `Player::_room` and `Room::_players` agree (`MembershipMutual`) and two players that joined a room know of each other (`NoMissedMember`). |
| `rooms_orphan` | **violated**: a room with players in it may not be in the manager, see section 6. |
| `job_queue` | order and no loss (`Fifo`), no lost notification (`NoLostWakeup`), `Stop` returns only after everything accepted before it ran (`StopDrains`), and all of it does run (`AcceptedRuns`). |
| `job_queue_full` | **violated**: a producer blocked on a full queue never returns. |
| `room_log` | the pool and the queue together: a connection is in one hand or in the queue, never lost, never deleted in use (`Conserved`); nobody sleeps next to a free connection or on a dead pool (`NoLostWakeup`); `~Room` leaves nothing behind (`StopsClean`) and returns (`RoomStops`). |
| `session_lifecycle` | `ReleaseSession` never asserts (`NoReleaseCrash`); count, service and manager agree, and an accept event never shares a session (`RegistriesAgree`); the receive loop is kept (`RecvLoopKept`) and an ended session released (`Released`), but for the errors the code only logs. |
| `server_core` | receive buffer: the unread bytes are the stream's, inside the buffer, and every complete packet has been handed on (`Faithful`); there is always room to receive (`RoomToReceive`); the memcpy of `Clean` never overlaps (`CleanSafe`). Send buffers: live buffers share no byte (`LiveDisjoint`); a chunk is in exactly one place, none leaks (`OnePlace`); `Open` never asserts nor returns nullptr (`OpenSucceeds`). Memory: a size up to the last pool's, and a block in use, is served with less than a grain of waste (`ServedTightly`); blocks return to their own pool and the counters are right at rest (`BlocksComeHome`). Profiler: the alarm goes off exactly on a cycle of recorded orders, and before any circular wait between classes (`DeadlockReported`). |
| `pool_sizes` | **violated**: not every size up to `MAX_ALLOC_SIZE` has a pool. |
| `game_rooms` | session and room agree on where the player is, up to the jobs posted (`SessionFollowsRoom`); a room with players is the one its key finds, but for one race (`StrandedOnlyByRace`); the end packet returns the token of the change to that map (`EndCarriesToken`); an acknowledged change ends (`MapChangeSettles`); a disconnected player leaves, unless it was moving (`DisconnectRemoves`); the hand-over implements `Presence`. |
| `game_rooms_purge` | **violated**: the purge erases a room with a player in it. |

Each property has a mutant in `PROJECT.json`: a plausible bug in one definition,
kept next to it as `Name_Bug`, under which the same run finds the property violated.

Type invariants are theorems, in every component that has a Proofs module (section
4). Where another module has a `TypeOK` it says what the variables range over; the
checked invariants say most of it in a stronger way.

### Bounds, and why they are enough

- `session_send`: three threads are two senders and a completion; four buffers of
  1, 1, 2 and 3 bytes against limits scaled to a few bytes meet every cap and
  every batch limit, both by bytes and by count.
- `rw_lock`: three threads with two nested holds of each kind: a waiter, a holder
  and a third to disturb a CAS between its load and its exchange.
- `rooms`: three careful clients in a room for two (a join is refused, two joins
  overlap with a leave), or two arbitrary clients with two logins each, ids shared
  or 0, in two rooms for one.
- `job_queue`: two producers, two workers, three jobs, bound 0 (unlimited), 1 or 2.
- `room_log`: two connections for three users; one file job, two database jobs.
- `server_core`, receive buffer: a buffer of 3 x 3 bytes and a stream of eight packets
  that wraps it more than twice, cut into receives in every way. Send buffers: two
  threads, three chunks of 3, at most three live buffers: a chunk can be replaced,
  drained by another thread and reused. Memory (`pool_sizes` too): two threads and three
  blocks: one is popped while the other is pushed or being pushed; requests for two sizes
  of one pool, one in the middle of the table, the first past the last pool and one that
  is not pooled. Profiler: four locks of three classes, and three threads that nest two,
  or two at a time that nest three: cycles of length two and three and a re-entered lock.
  Threads, chunks and blocks, and lock takers are interchangeable (`Symmetry`); the run
  has no liveness property.
- `session_lifecycle`: two accept events, three sessions, of which one may be a
  client's; every fault.
- `game_rooms` and `game_rooms_purge`: one player with two map changes (among world,
  dungeon and a map that is not valid, which the world stands in for), or two players
  that go to the dungeon at the same time; one world room and two room objects for the
  dungeon, so that it can be purged and made again.
  Bounds named in the module: one login per player, as many changes as `Plans`
  holds, one copy of an acknowledgement in the queue, no purge when no room object
  is left.

`MaxLogins`, `MaxRooms`, `c.rooms`, `MaxLive`, `MaxDepth`, the finite sets of
messages, jobs, chunks and sessions bound the runs only. `CHECK_DEADLOCK FALSE`
where the environment may fall silent: no more messages to send, jobs to log,
bytes in the stream, clients to come, or the queue stopped.

### Fairness

Always weak and only for code that runs by itself: a thread inside a function
goes on, a worker's dispatch loop takes the completions that are there
(`ChatServer.cpp`'s workers loop for ever), a query ends, a scope ends and
releases its guard, an actor with a job in its queue runs it. Nobody is obliged to
send, log in, disconnect, stop, change maps or acknowledge, the purge timer need
not come, and a condition variable owes no spurious wake-up. Nothing orders waiters of the spin
lock or of the pool, so no property promises progress to one particular thread
there: a writer can starve, and then `LOCK_TIMEOUT` ends the process. `RoomStops`
assumes that login requests pause at some time (`LoginsPause`): the pool is not
first come, first served.

## 4. What is proved

For every value of the constants that satisfies the modules' assumptions.

**SessionSendProofs**, about `SessionSend`: `TypeCorrect`, `SingleRegistration`,
`PinnedUntilCompletion`, `NoLostWakeup`, `ExactBacklog`, `OrderedAtMostOnce`. The inductive
invariant is types, buffer count, token and pinning. The token
(`OneOutstandingSend`) is inductive with the types: the flag goes up only in the
exchange that found it down, and each holder hands the token on or lowers the
flag. Pinning needs the token: only its holder may touch `_sendEvent.sendBuffers`.
The refinement needs pinning: what is pending in the channel is the batch
followed by the queue, which is right only because an unposted batch has one
owner. `QueueServed` needs besides that a thread in the failure path has closed
the session or is in the ignored case. `BacklogExact` is inductive with these: pinning
says that the batch is empty when a drain starts, so that the loop's running total is the
batch's. The weight of a sequence is a recursive function (`RunningBytes`); that it has a
value at all, grows by one buffer's size with each, and splits where the sequence is cut
(`RunningTotals`, `StretchTotal`, `BytesFacts`) is proved by taking the shortest prefix
for which it fails (`LeastNat`), since the library's induction theorems are out of reach.

**LockProofs** has the lock and the profiler its guards call.

About `RwSpinLock`: `TypeCorrect`, `FlagCorrect`,
`Exclusion`, `NoFalseAlarm`, `ImplementsAbstractLock`, for any nesting depth
and any set of thread ids. `FlagFaithful` is the heart: the
owner half names the thread with write holds and the reader half is the number of
read holds, a cardinality that each ReadLock and ReadUnlock moves by one. Its
strengthening `Shape` says what each label implies of the holds. Mutual exclusion
and the refinement follow from it.

About `LockProfiler`, for any threads, locks, naming and nesting:
`SearchFindsCycles`, `ProfilerTypes`, `DeadlocksReported`.
- The search, in any finite set of names with any orders. A set of names each with an
  order to one of the set (`Ring`) exists exactly when a name reaches itself
  (`CycleIsRing`): the names that such a name reaches and is reached from are a ring,
  and in a ring the successor of the name that reaches fewest of it reaches itself. A
  step keeps the search `Sane`
  (`SearchStepIsSane`): until it finds a cycle, its path is the discovered, unfinished
  names in the order of discovery, so that an edge to a name on the path closes a ring;
  what a finished name leads to is finished; and no ring is among the finished names.
  Every step discovers or finishes a name or looks at an edge, so after `SearchLength`
  steps the search has ended, and if it found nothing then every name is finished.
- The books. A thread's lock stack is the ids of the locks it holds and of the one it
  has announced (`Mirrored`), and what lies below an id on a stack is the same id or was
  recorded as an order to it (`Recorded`). Therefore pops always find the name they
  expect. The alarm is exact (`AlarmExact`) because a search is made whenever an order
  is new, and a name that is new is in no ring (`CycleOfOldNames`).
- The circular wait (`CircleIsRing`). Take a smallest circle of waiting threads, and on
  their stacks the ids from one that some thread of the circle waits for upwards. If one
  of these had no order to another, everything above it would be the same id, so the
  threads that wait for that name would be a smaller circle, or the whole circle waits for
  locks of one name. So the ids are a ring, and the alarm has gone off.

**JobQueueProofs**, about `JobQueue` with any producers, workers, jobs and bound:
`TypeCorrect`, `Order`, `NoneSleepsOnWork`, `StopRunsEverything`. `Fifo` and
`NoLostWakeup` are inductive with the types. `StopDrains` needs to know where an
accepted job is until it has run (queued or in a worker's hand: `Located`) and that
a worker leaves a queue that is stopped and holds no job from before the stop,
and none can come back, because nobody can hand in a job twice and a producer
blocked on a full queue throws once it sees the stop (`Drained`).

**ChatRoomsProofs**, about `ChatRooms` for any crowd: `RoomTypes`,
`RoomsNotAbandoned`, `MembershipAlwaysMutual`, `NobodyMissed`. A session runs one
handler at a time, so what a handler found in its first locked block still holds in
its later ones as far as only this session can change it (`Handlers`). A registered
room without an id has its creator still on the way (`Keyed`), which is why nobody
else can remove it. `MembershipMutual` needs the room limit and that players keep
their own ids (`WithinLimit`, `UnderOwnId`); `NoMissedMember` needs that the one
broadcast that announces a join is told from a chat broadcast (`Told`).

**RoomLogProofs**, about `DBConnectionPool` and about `RoomLog` over it: for the pool
in any use, `PoolTypes`, `ConnectionsConserved`, `PoolWakesWaiters`; for a room's log,
`LogImplementsPool`, `LogConserves`, `LogWakesWaiters`, `LogTypes`, `LogStopsClean`. The
composition is proved by refinement: every step of the worker, of a login handler or of
`~Room` is a step of the pool, of the queue, or of both at once, so `LogSpec` implements
both and inherits their theorems (`OneWorker` is JobQueueProofs with one worker). What
is left for `StopsClean` is that the worker is in the pool only in the middle of a
database job.

**BufferProofs** has the three components that hold bytes; they share only the facts about
numbers and sequences.
- `SendBufferPool`: `SendBufferTypes`, `BuffersNeverOverlap`, `ChunksInOnePlace`,
  `OpenAlwaysSucceeds`, for any threads, chunks and sizes. `LiveDisjoint` needs to know
  where a buffer lies: closed below the used size of its chunk, or the one open buffer
  that starts there (`Cuts`). A reset puts the used size back to 0 and is safe because a
  pooled chunk is referred to by nobody (`OnePlace`), and that needs what each label of
  `Open` implies of the popped chunk (`Steps`).
- `RecvBuffer`: `RecvTypes`, `ReceivesFaithfully`, `AlwaysRoom`, `CleanNeverOverlaps`, for
  any packets cut in any way and a buffer of at least three times the largest packet.
  Once a completion's packets are parsed less than a packet is unread (`Parsed`); so when
  less than a `BufferSize` is free behind the unread bytes they start
  beyond the first `BufferSize`, move without overlap, and leave room (`Cleaned`).
- `MemoryPools`: `MemoryTypes`, `AlwaysServedTightly`, `AlwaysComeHome`, for any threads,
  blocks, requests and header size. The table is an operator of the entry, and its 48
  pools are known one by one (`PoolSizesAre`, `TableEntry`); a size beyond the last
  pool's is not claimed to have one. A block is with one thread,
  or owned, or at one place of one list, and of the right capacity wherever it is
  (`BlockPlaces`, `ThreadSteps`, `OwnedServe`); a counter is off by exactly the threads
  that have changed the list and not yet the counter (`Counters`).

**SessionLifecycleProofs**, about `SessionLifecycle` with any faults: `LifecycleTypes`,
`NeverReleaseCrash`, `RegistriesAlwaysAgree`, `RecvLoopAlwaysKept`. They rest on the life
of a session object (`Life`): unused, then through the stages of `ProcessConnect`, where
nobody can disconnect it before it is in both registries, then at most one disconnect,
which takes it out of the manager first and out of the service afterwards.

**GameRoomsProofs**, about `GameRooms` for any sessions, keys, room objects and plans:
`GameTypes`, `SessionsFollowRooms`, `NobodyStranded`, `EndsCarryToken`,
`RoomsImplementPresence`, with any map standing in for those that are not valid. Session
and room know of each other only through jobs, so the
invariant says what the queues hold. `OnePlace`: a player is outside, or with the lobby,
or has one enter job in one queue, or is in one room; each step makes one of six moves
between these (`PlaceSteps`), and those are the steps of `Presence`. `InStep`: once its
jobs have run, the session is in the room the player is in, except for the player whose
leave job waits in that room. `ChangeKept`: while the session lives, an acknowledged
change is carried by exactly one of a transfer job, the lobby, an enter job, an entry to
be counted and a cancel, always for the map it was asked for; therefore the token that
the room reads from another thread is this change's. `Counted` gives the player count of
a room between insert and count, which is what tells `raced` from a lost room.

Model-checked only: the liveness properties (`Drains`, `Reacquired`, `AcceptedRuns`,
`RoomStops`, `Released`, `MapChangeSettles`, `DisconnectRemoves`), because fairness and
ENABLED are out of the prover's reach. The four runs that expect a violation are
counterexamples, not theorems.

Every safety property, refinements included, that a passing run checks is a theorem.

## 5. What is not modelled

- The C++ memory model: `_lockFlag` accesses are sequentially
  consistent in the code; `_connected` and `_sendRegistered` are atomics.
- Payloads: messages, names and bytes of protobuf messages. Packets are assumed
  to be at least a header long, and to fit in a chunk of 6000 bytes, as
  `MakeSendBuffer` builds them.
- Message ids, chat history ids, logging, console output.
- What a SQL statement does: a query is the time between Pop and Push.
- `CloseService` (empty in the code), `Service::Broadcast` and
  `ChatSessionManager::Broadcast` (never called).
- Start-up, object pools (`ObjectPool.h`, a constructor call around `Memory`), ODBC
  wrappers and buffer readers: straight-line code without state of its own.
- MMO movement and combat: each handler runs inside one room job; it computes on
  floats (speed check, area of interest, hit tests). `UpdateAll`'s room updates,
  trades, saving and the binding of player ids to sessions are left out of
  `GameRooms`, and so is a player who logs in again on a second session.
- The Unity samples: single-threaded scripts, mostly presentation. The clients and
  the load-test copy: inputs of the models and a copy of the modelled code.
- Vendored and generated code: the protobuf library is nearly all of the
  repository's lines and none of its design.

## 6. Where the code and its words differ

Shown by a run:
- `rooms_orphan`: the leave handler tests for an empty room and removes it in two
  steps (`ClientPacketHandler.cpp:165-167`); a join that found the room before
  enters in between. The room is occupied and nobody can find it, although
  `RoomManager.h:33` says the map holds all rooms that exist.
- `job_queue_full`: `JobQueue.h:61` says a full queue makes `Enqueue` wait until
  there is room, but nothing notifies `cvFull_`. Latent: rooms use unlimited
  queues.
- `pool_sizes`: the pools of the last loop (`Memory.cpp:39`) run from 2080 to 3872 in
  steps of 256, so the table entries from 3873 on are never set and `Allocate` goes
  through one of them, although `Memory.h:14` and `:17` say pooling goes up to 4096.
- `game_rooms_purge`: `RoomManager.cpp:160` looks again before it erases a room because
  somebody may have come in, but a player is inserted before it is counted
  (`GameRoom.EnterLeave.cpp:41`, `:46`), and the purge can only go by the count.
  `ShouldPurge` itself is not in the repository. An enter job still in the room's queue
  is overtaken too (`raced`).

Met while modelling, part of the models as they are, without a run of their own:
- `Session.cpp:269` says a failed WSASend "can be retried": what was queued
  meanwhile has nobody to send it until the next `Send`. Likewise a WSARecv or
  DisconnectEx that fails with another error than a reset is only printed
  (`Session.cpp:203`, `:96`): the session stays connected without a receive loop,
  or is never released.
- `Session.cpp:281`: a failed ConnectEx is dispatched like a success and marks
  the session connected (`IocpCore.cpp:56`).
- `Listener.cpp:161`: accept events are re-armed after every accept, so
  `_maxSessionCount` bounds outstanding accepts, not sessions (`Service.h:60`).
- `JobQueue.h:60`: the unlimited `Enqueue` ignores `stop_`; after `Stop` its job
  never runs and its future never becomes ready.
- `DBConnectionPool.cpp:103`: a connection pushed after `Clear` is never deleted.
- `ChatSession.cpp:16`: a player of a closed session stays in its room for good.
- `ClientPacketHandler.cpp:92`: create before login dereferences a null player
  (the test is at line 95); `:60`: an unknown name logs in with id 0; `:172`,
  `:280`: message ids are not unique.
- `Room.cpp:141-162`: the statement of `LogChatToDB` is prepared and bound but
  never executed.
- `Lock.cpp:10`: locks are announced before they are waited for, while
  `DeadLockProfiler.h:14` says right after they are acquired. Before is the useful
  place: `DeadlockReported` needs it. Taking A, B and A again, which `Lock.cpp:13`
  allows, raises the alarm; two locks of one class never do.
- `PlayerSession.cpp:42`: a session cleaned up while its player is being moved
  (`late`) has no current room to tell, and the player enters afterwards: nobody
  removes it. The login job may come after the cleanup job as well.

## 7. Plan

Done: the modules above. The send pipeline and the lock came first, because
everything else relies on them; then rooms, queues, pools, framing, lifecycle;
then the actors of the MMO sample and the process-wide helpers.

Next, modelling, where it proves worth a run: a second session that logs in as
the same player (`BindPlayerId` and `UnbindPlayerId`, `PlayerSession.cpp:58`), and
the inventory and growth state machines of the Unity samples.
