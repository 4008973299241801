# Anura: TLA+ models and proofs

Anura is a C++ engine for 2D games. Most of it is sequential: a formula
language, objects and levels, rendering, an editor. This project models the
parts where several programs, threads or machines act at once, or where a small
algorithm has to be right in every order of events. Paths below are relative to
the repository's `src/`.

## 1. Inventory

| Component | State | Operations | Talks to | What is hard | What makes it correct |
|---|---|---|---|---|---|
| Netplay: control records and packets (`controls.cpp`, `multiplayer.cpp`) | per player: frames of every player since `starting_cycles`, highest confirmed cycle, acknowledged cycle, first invalid cycle | `read_local_controls`, `write_control_packet`, `read_control_packet`, `get_controlStatus` | UDP packets to the other players; called by the level | loss, duplication, reordering; predictions; truncation of the history | confirmed frames are true; nobody drops a frame that is still needed |
| Netplay: snapshots and rollback (`level.cpp`, `level_runner.cpp`) | the game, the last 250 snapshots | `backup`, `replay_from_cycle`, `restore_from_backup`, `play_cycle` | reads the control records | a correction of cycles already simulated | every wrong cycle is recomputed; settled cycles are the same everywhere |
| Netplay: starting a game (`multiplayer.cpp`, `multiplayer_server.cpp`) | sockets, ids, games and addresses on the server; confirmed players, rounds, delay and start time of a client | `Client::PumpStartLevel`, `setup_networked_game`, the server's TCP and UDP handlers, `disconnect` | TCP to the server, UDP among players | unacknowledged confirmations and pings, no identification of who has started, players that leave | who starts has the same list and delay as the others; somebody starts; the server's tables agree |
| Shared memory pipe (`shared_memory_pipe.cpp`) | two shared regions with a mutex each, a queue in and out at each end | `write`, `read`, `process` | another process | any interleaving of two processes, `try_lock` | a pair of FIFO queues |
| Formula garbage collector (`formula_garbage_collector.cpp`) | the list of objects, counts, tenures, a collection in progress | construction, reference counting, `collect`, `reap` | every value of the formula language | counts taken away and given back; order of visits and destructors | frees exactly what cannot be reached |
| Background task pool (`background_task_pool.cpp`) | the task map, ids of completed jobs, a thread per task | `submit`, `run_task`, `pump`, `~manager` | main loop, internal TBS server | a thread may be done before its task is entered | every task completes once; no thread is left at exit |
| TBS server (`tbs_server_base.cpp`, `tbs_server.cpp`) | clients, games, message queues, waiting connections by socket and by session | `handle_message`, `queue_msg`, `close_ajax`, `handle_send`, `heartbeat`, `quit_games` | HTTP long polling, the pipe, in-process queues; the game | two maps of the same sockets, requests that overtake each other, failed writes, sessions that quit or time out | each request is answered once; each message is first written once and in order |
| TBS game and its clients (`tbs_game.cpp`, `tbs_client.cpp`, `modules/tbs`) | the state, its id, the replay; per player what was sent last and what it confirmed; the client's state and queue | `send_game_state`, `write`, `request_updates`, `restore_state`, `process`; `pump_client`, `_process_game_state` | the server's queues | deltas against what the server believes a client has; loss, overtaking, restarts | a client's state is the server's; a client catches up |
| HTTP client (`http_client.cpp`) | the lookup, the next endpoint, requests in flight, kept sockets, a `Connection` per request | `send_request`, the asio callbacks, `process` | TBS clients, matchmaking, statistics | retries and timeouts against late callbacks; state shared by all connections | each request is answered once; `in_flight_` is exact; requests end |
| Matchmaking, relay, module, statistics servers | accounts, chat, files | document handlers | databases, HTTP | I/O | not in scope |
| Formula language, objects, rendering, editor | the game | sequential | everything | size | not in scope |

The hazards of the code, each at its line and with the property that would
notice it, are in `PROJECT.json`.

## 2. Modules

| Module | What it is |
|---|---|
| `Netplay` | control records, packets, prediction, snapshots and rollback of any number of players |
| `NetplayBounded` | `Netplay` with the assumptions on the network under which the players stay in sync |
| `NetplayProofs` | inductive invariants and safety theorems of `NetplayBounded`, up to `NoDesync` |
| `PipeFifo` | abstract: a queue in each direction |
| `SharedMemoryPipe` | both ends of the pipe, process() in atomic steps; implements `PipeFifo` |
| `SharedMemoryPipeProofs` | mutual exclusion, integrity and the refinement |
| `Reachability` | what can be reached in a heap: the least closed set with the roots |
| `ProgramHeap` | abstract: the heap as the program sees it, with no collector |
| `GarbageCollector` | the list, counts and a collection, step by step |
| `GarbageCollection` | what the collector promises; implements `ProgramHeap` |
| `GarbageCollectorProofs` | inductive invariant of a collection, its safety theorems and the refinement |
| `BackgroundTaskPool` | main thread, task threads, completed ids |
| `BackgroundTaskPoolProofs` | inductive invariant and safety theorems of the pool |
| `NetplayStart` | the server and the clients from READY to the first cycle of the game |
| `NetplayStartProofs` | inductive invariant and safety theorems of the start |
| `TbsServer` | sessions, queues and sockets of the HTTP server, for a game of any players and observers |
| `TbsServerProofs` | inductive invariant and safety theorems of the server |
| `GameSync` | the game, its players' records and their clients, over a reduced transport |
| `GameSyncProofs` | every document on its way is genuine, and so is every client's; what is on its way is an unbroken chain |
| `HttpClient` | the callbacks and retries of the HTTP client |
| `HttpClientProofs` | inductive invariant and safety theorems of the HTTP client |
| `MC*` | constants and symmetry for TLC |

A definition called "Mutant of X" is X with a plausible mistake in it. No
specification uses it: each one is put in the place of X to see that some
property notices the mistake.

### Netplay

Every player runs the whole game. One turn of the game loop is two kinds of
step. `PlayCycle(p, keys)` is `LevelRunner::play_cycle` up to the sending of
the packet: the pending rollback (`replay_from_cycle`, `mark_valid`), the
snapshot of the present (`backup`), `read_local_controls`, and
`write_control_packet` with its send to every other player. Then `Receive(p, m)`
applies packets, any number of them, and `DoProcessing(p)` simulates a cycle.
Between them the other players take their steps.

* `controls[p][s]` is a function on the absolute cycles `start[p] ..
  ending[p][s] - 1`; in the code it is a vector whose element 0 is
  `starting_cycles`.
* A game state is the sequence of inputs it was computed from (`world`): the
  simulation is deterministic, which is the design the code relies on. Two games
  are in sync when these sequences agree.
* `net` is a set, and a packet stays in it when it is received: UDP may lose,
  repeat and reorder. Packets that every receiver would discard are forgotten
  (`Useful`); no behaviour depends on them.
* `highest_confirmed` of a player's own slot is a count and that of another
  player's slot an index, in the code and here.
* A rollback goes back to the first invalid control cycle although, with a
  delay, the first wrong game cycle is later; the model does what the code does.

### Shared memory pipe

One action for each critical section entry, payload copy, length write and
exit. `Region e` is the one end `e` writes. A message of length 0 is one of the
messages: the code cannot tell it from an empty region, so it vanishes when its
turn comes, and `PipeFifo` says so (`LoseEmpty`) rather than pretend the pipe
delivers everything. The other way round, a region in which there is nothing must
never come out as a message of length 0: `TypeOK` keeps the empty message out of
`buf`, of `in_queue_` and of what `read` returns.

### Garbage collector

The program creates objects, copies references out of fields, assigns fields
and drops references; all of it is counted. A collection of the generations
below `gens` pins the objects it looks at and takes their references to each
other away; pointers become null, variants keep their value and lose their
count (`Accumulate`). Passes over the items, in any order since the code sorts
them by address, give back the references of those that something refers to.
What is left loses its references (`DestroyReferences`) and its pins (`Unpin`),
and destructors run (`Destroy`, also for objects the program drops). `Contents`
is the heap as the program will find it when the collection is over.

### Background task pool

Each task's thread runs the job, pushes its id under the mutex and ends. The
main thread submits (thread first, map entry second), pumps (swap, callback,
erase, which joins the thread) and at exit pumps until the map is empty.
Callbacks may submit.

### Starting a game

`NetplayStart` begins when every client has connected and ends when it plays.
The server's half is `Receive` (a read of the TCP connection, which may return
the greetings and READY together and then understands neither; a second READY on a
connection, which no client sends, is left out), `HandleZ` (the
address of the sender, and START when the game is full and every address is
known) and `Disconnect`. The client's half is a phase: `pumping` sends 'Z'
until START comes; `confirming` makes rounds of confirmations (`Round`);
`handshaking` pings or answers pings; then it starts. A round of confirmations
is one action: it sends to everybody and takes any part of what has arrived.
The loop's condition is translated as it stands (`Confirming`): `m != 1000` is
false for round 1000 alone, when `m < confirmation_point + 50` still holds, so
the loop never ends without everybody confirmed, and the error below it
(`Decide`, "failed") is never reached. Time is left out: slot 0 may start at
any moment of its second, the others whenever they have been told a time, and
any delay may come of the latencies.

### TBS server

`TbsServer` is one game with its players and observers on a few sockets. A
handler is one action, with every message it queues: a message for a session
answers the session's waiting request or joins its queue (`Queue`), the request
that was handled takes from the queue or waits (`CloseAjax`). An answer is in
`writing` from `send_msg` until `handle_send`; only then the socket's next
request is read. A failed write queues the whole answer again, header included
(`Wrapped`); `AnsweredInOrder` is about first writes and passes over such answers. What the game says is any of a few scripts of recipients
(`Scripts`). Messages are numbered by session in the order `queue_msg` takes
them, so that lost, repeated or overtaking ones show.

### TBS game and clients

`GameSync` looks at the same protocol from the other side: what the messages
carry. A document is the id of the state it was first written for. `Write`
makes a whole state or a delta, `Written` records it as the player's.
`HandleUpdates`, `HandleStart`, `HandleMove`, `HandleRestore` and `Process` are
the game's handlers, each with all its `send_game_state` calls. `Restored` follows
`restore_replay`: when the state asked for is the first of the replay (or older), the
commands of the game's `restore_state` are dropped there (`tbs_game.cpp:517-519`),
unlike in the loop below, so the game stays as it is under a new id. A `restart`
defined by a game, which `start_game` calls, is left out: that of `tbs_game_base` does
nothing. The transport
is `TbsServer`'s with one waiting request a session; its answers travel on
connections of their own, so a later one may arrive first. `local` chooses the
other transport, a FIFO that loses nothing, and with it the code's conditions
on `g_tbs_server_local`. The client is the `game_controller_base` object:
`Poll` when nothing is in flight, `Act` whenever the player wants to, `Apply`
for one queued game message at a time.

### HTTP client

Every request is a `Connection` in the phase of the callback it waits for; a
callback is one action, with its retry or its answer. What requests share is
explicit: the state of the lookup, `endpoint_iterator_`, the kept sockets and
`in_flight_`. `timeout_and_retry` and `serial` are chosen at the start: whether
the client times requests out, and whether its caller waits for an answer
before the next request. Incrementing the end of the endpoint list is undefined;
the behaviour ends there.

## 3. Runs

| Run | Instance | Shows |
|---|---|---|
| `netplay_two` | 2 players, one always holds a key, delay 1, history 5, 3 snapshots, lag 2, 7 cycles | corrections in both directions, also after a truncation; records are typed; confirmed frames are true; wrong cycles are marked; settled cycles agree; the snapshot exists |
| `netplay_three` | 3 players, one presses keys, delay 1, history 4, 2 snapshots, lag 1, 5 cycles | acknowledgements of the slowest of several players, with truncation; no packet leaves a hole |
| `netplay_hole` | no bound on the lag | **violated**: a truncated packet is taken for a complete one |
| `netplay_start` | 3 clients, a level of 2, one may leave | who starts has the same list, the server's tables agree, somebody starts |
| `pipe` | 2 messages and the empty one, 2 in transit | mutual exclusion, integrity, refinement of `PipeFifo`; no empty message is received; no deadlock |
| `collector` | 3 objects with a pointer and a variant | exact counts, list order, exact collection |
| `collector_program` | 2 objects, tenures to 2 | the collector is invisible to the program, and ends |
| `task_pool` | 3 tasks | tasks are found, completed once, and joined at exit |
| `tbs_server` | a player and an observer on 3 sockets, messages modulo 3 | every request answered once, the maps agree, first writes in order |
| `tbs_sync` | 1 player, 3 states after the first, 1 loss or restart; remote and local | states are true, deltas chain, nothing is withheld, the client catches up |
| `tbs_stuck` | the same with 2 states after the first, without losses | **violated**: the server does not update a client that asks for ever |
| `http_client` | 2 requests, 2 endpoints, with and without timeouts | answered once, counted exactly; a request ends |

Why the bounds suffice. In netplay a rollback needs one wrong prediction and
one cycle simulated on it; a rollback on top of a rollback needs two; a
truncation needs the history to fill once, which `MaxHistory` 4 and 5 reach
within 5 cycles; the 7 cycles of `netplay_two` have rollbacks of several cycles
after it. Everybody predicts that nothing is pressed, so one player that always
holds a key makes every prediction about it wrong. The code's constants
are 1024 frames and 250 snapshots; what matters is their order (`MaxBackups` and
the lag against half of `MaxHistory`), which the runs keep, and the theorems
hold for every value. For the pipe, two messages in transit fill a region and a
queue behind it. Three objects are enough for a cycle of garbage beside a living
object and for a chain that needs one pass for each of its links. Two objects
suffice for the refinement, because `collector` already shows for three which
ones are collected.

In `netplay_start` two clients make the game and the third arrives before,
between or after them, so a game of three players, a second game and a player
that leaves all occur. One round before the loop may end and one after it are
enough: the others repeat them. In `tbs_server` three sockets let a session have
two waiting requests and a third that dismisses them; the game speaks only while
the queues are empty, but a handler may queue several messages at once, so
queues of several messages, wrapped answers and direct answers mix. Messages
modulo three tell neighbours apart. A second player makes the instance too
large; the shift of player indexes after a player quits is therefore not
exercised. In `tbs_sync` a delta on top of a delta needs two states after the
first, and a single fault already separates server and client. A third state is
what it takes to restore an older document: the first of the replay is never
restored (`Restored`), so the second is restored from the third. `CatchesUp` asks
that a client is where the game is again and again: the game stands still at
`MaxState`, but requests, actions that do not move it and observers go on. In
`http_client` a second request is what waits for the lookup of the first, shares
its endpoints and takes its socket.

`CHECK_DEADLOCK FALSE` where the system stops by design: a bounded number of
cycles, of objects, the destruction of the pool, a game that has started, or an
endpoint iterator past the end. The pipe, the TBS server and its game never
stop.

Fairness. `FairSpec` of the collector is weak fairness of the collector's own
steps: a collection is a call on the game's thread that runs to its end, and so
is a destructor. `FairSpec` of the pool is weak fairness of every task's thread
(the scheduler) and of `pump` (called each cycle by `play_cycle`, and in a loop
by `~manager`). Nothing is assumed about Netplay, the pipe or `TbsServer`, and
no liveness is claimed there: UDP need not deliver and `try_lock` need not
succeed.

`FairSpec` of `NetplayStart`: the server sends START over TCP and a client that
confirms, decides or starts goes on (weak fairness of its steps, which are one
loop on one thread); a player that keeps sending confirmations is heard in some
round (weak fairness of `Hears`: UDP loses packets but not all of them). Nothing
is assumed of joining, leaving or pings. `FairSpec` of `GameSync`: `process`
runs every frame, so a client polls and applies; the server handles requests
that arrive, and its clock answers those that wait; the oldest answer arrives
unless it is lost or overtaken. Acting, losing and the game's own clock are free.
A local client polls at every frame, which `MaxBacklog` may prevent in the
model, hence strong fairness there. `FairSpec` of `HttpClient`: a handler
returns, and a client that times out does so. Only for one that does not is each
callback assumed to come.

### The condition on the network of netplay, and a finding

Nothing makes a player wait for the others (`cycles_behind` is only
displayed). Every guarantee of netplay thus needs a bound on how far a player
runs ahead. `Lag(p, s)` is that distance, a bound on the environment and not a definition of
the code; `PlayCycle` is bounded by `MaxLag`, and
`NetplayBounded` assumes two things of it. `BoundedLagAssumption`: `MaxLag` is less
than what is left of the history after a truncation. The proofs show that this is
enough for true confirmed frames. `ReplayAssumption`: the lag is below the number
of snapshots, and lag and delay together fit in what is left of the history. With
it every rollback finds its snapshot and its frames, and the games agree. For the
code's 1024 frames and 250 snapshots, at 50 cycles a second, it says that nobody is
five seconds behind.

Neither part can be weakened by a cycle: with `MaxLag` equal to `MaxBackups` TLC
finds `ReplayFindsSnapshot` violated, and with `MaxLag + Delay` one larger it finds
`NoDesync` violated, by a truncation that erases frames which cycles still to be
computed again depend on: a frame drives the cycle `Delay` after its own.

`MCNetplayUnbounded` leaves the condition out. The sender then drops frames
nobody has acknowledged (`controls.cpp:349`), its packets start later than the
receiver needs (`controls.cpp:577`), and the receiver fills the gap with the
first frame it gets and calls it confirmed (`controls.cpp:524`, `541`), although
the source says that "incoming packets will correct any assumptions"
(`controls.cpp:337`). Nothing corrects it afterwards; `NoDesync` is violated in
the same setting, and so is `ReplayFindsSnapshot`: a correction arrives for a
cycle that is older than the snapshots kept (`level.cpp:4372`) and
`ASSERT_GE(index, 0)` (`level.cpp:4314`) fails.

### A finding about the updates of a turn-based game

`bot_base.cfg:5-7` says that a client sends the last state id it received "and
the server will update us if something newer is avilaable". The game does
answer, but with a delta against the state it wrote last (`tbs_game.cpp:350-361`),
not against the one the client names. Whenever a client misses one message (an
answer is lost, or a player's action makes a second request whose answer
overtakes the first), it can apply no later delta, and `allow_deltas` stays true
because it has a state. `tbs_stuck` shows the overtaking; `CatchesUp` says, with
the rest of the fairness, that this is the only way to stay behind, and
`ClientStateTrue` that even then the client never takes a wrong state.

### What else the models say about the code

* A player whose confirmations never arrive loops in `PumpStartLevel` for ever,
  without `idle_fn`; the "COULD NOT CONFIRM NETWORK CONNECTION" error
  (`multiplayer.cpp:450`) is unreachable.
* `SomebodyStarts` cannot be "everybody starts": a player that has started does
  not answer confirmations, and slot 0 stops pinging after a second.
* `StartsTogether` allows a delay of 3 beside slot 0's: the delay is told in
  unacknowledged pings. `Netplay` takes one `Delay` for all players, which is
  thus an assumption: `get_controlStatus` subtracts the player's own delay from
  everybody's cycles, so players with different delays play different games.
* START may list more players than the level has (`multiplayer_server.cpp:221`
  asks for at least that many).
* `TablesAgree` excepts client 0: a second `disconnect` of the same socket
  erases its id (`multiplayer_server.cpp:166`).
* `EndpointValid` and `EveryRequestEnds` are about callers with one request at a
  time. With two, a connection may begin at the end of the endpoint list, its
  failure increments the end, and a request may wait for a lookup that nobody
  makes; two requests that time out in turn never reach the limit of six
  attempts, which is looked at only when nothing is in flight.

## 4. Proofs

tlapm checks every step; the constants are arbitrary except for the named
assumptions. TLC evaluates those in the runs. Every safety invariant and the two
refinements that the runs check are theorems. Each proof has the same outline: `IInv`,
the strengthening that is inductive, with a comment on each part; a lemma for each
action that says it keeps `IInv`; `Invariance`; and a theorem for each property. Where
a second invariant is needed (`Netplay`, `GameSync`), it is proved on top of the first.

**Netplay** (`NetplayAssumption`, `BoundedLagAssumption`, `ReplayAssumption`).
`Invariance` is about the records. The safety properties are not inductive alone:
that a confirmed frame is true needs that packets in flight carry what their sender
recorded (`PacketsTrue`), that what is confirmed exists (`KnownExists`), that
acknowledgements are never ahead of the truth, and that a packet never starts
after the first frame its receiver lacks (`PacketsConnect`). The last follows
from the bound on the lag and the shape of the sender's own record
(`LocalRecord`), which the truncation would otherwise break. From `IInv` follow
`TypeCorrect`, `ConfirmedTrue`, `AcknowledgedArrived` and `NoHoles`.

`SyncInvariance` adds the games. `Pressed(s, i)` is what player s pressed in cycle i:
what drove its own game. Own frames, confirmed frames, frames in flight and erased
frames are what was pressed (`RecordsPressed`, `PacketsPressed`, `ErasedPressed`);
predictions repeat the last frame known (`PredictionsConstant`), so that a packet
which confirms the frames expected changes none of them; and wherever a player's game
differs from its record the cycle is marked (`WrongCyclesAreInvalid`). `Snapshots` are
prefixes of the game, one for each of the last cycles, and the mark is never older
than the lag (`InvalidRecent`, `HistoryLong`). It gives `WrongCyclesInvalid`,
`ConfirmedPlayed`, `SnapshotFound` and, comparing two games through what was pressed,
`InSync`: the players never lose sync. Only this part needs `ReplayAssumption`.

**Shared memory pipe** (`PipeAssumption`). The invariant ties each end's place in
`process()` to the mutexes and to the length words, and says that an occupied region
holds a message that is not empty. It gives `TypeCorrect` (nobody receives an empty
message), `Exclusion` and `Integrity`, and from it each step is shown to be a step of `PipeFifo` or a
stutter (`Refinement`): the queue of a direction is what was delivered but not
read, the local buffer, the region, and what was written but not sent, in that
order.

**Background task pool** (`TasksAssumption`). The invariant says where an id may
be: an id that was pushed waits in exactly one of the two vectors, once, and its
task is in the map or is being entered by `submit` at that moment; a task that
left the map has had its callback and its thread is joined. It gives
`TypeCorrect` (with "no callback is called twice"), `TasksKnown` and
`ManagerLast`.

**Garbage collector** (`HeapAssumption`), for any finite heap and any fields. The
invariant describes every phase: `Surrendered` and `Phases` say which references are
taken away, that every reference among the objects looked at is, and that an item
that was passed over has only its pin as long as nothing is restored; `Exact` is the
count of every object, proved by counting the fields that change; `Reached` says that
only what can be reached is saved, and `Ordered` that the list would be in order
if the items had been saved. `Counts`, `Sorted` and `TypeCorrect` follow. For
`Exactness` what is not garbage is shown to be closed (`LiveClosed`) and to contain
the roots, so that the least such set is within it. `Invisible` is the refinement
`Spec => ProgramSpec`: what can be reached depends on nothing outside of a closed set
(`SeenInside`), so a destructor changes nothing the program sees, and what a
collection takes away is given back before the program looks.

**Start of a game** (`NetplayStartAssumption`). The invariant follows the
server's tables while clients join (`Joining`), the lists START sends (`Rosters`),
who has heard whom (`Confirmations`) and the delay slot 0 tells the others
(`Agreed`). It gives `PlayersStartTogether` and `ServerTablesAgree`.

**TBS server** (`TbsServerAssumption`). A handler is a composition of steps on one record of queues and
sockets (`Net`). `Sound` says what such a record is between handlers, and, with the
sockets `asking`, in the middle of one; `InOrder` that the queues continue what was
written, the answers being written included. Every step is shown to keep both, and a
handler is proved by citing its steps. It gives `Replies`, `Maps`, `Prompt` and
`Order`.

**TBS game and clients** (`GameSyncAssumption`). A message is `Genuine` if its document is the server's for
its id, or a delta between two of the server's; documents are never changed, so it
stays genuine however late it arrives. With what the server takes a client to have
(`Believed`) and what the client holds (`Held`), `ClientsTrue` follows: no client ever
applies a delta to the wrong document, whatever is lost or overtaken.

`LineInvariance` adds what is on its way. A player's `Line` is everything about one
player: the server's record of it, its mail, requests, answers and client. `Todo` is
what the client has yet to process. `Sound` has eight parts:

* `Newest`: nobody knows of a newer state than the one sent last.
* `Requested`: there is one request for updates at a time, and a client that asked
  for deltas still has a state when the request arrives.
* `Stateless`: without a state a client has no id, and deltas are for players that
  were sent something.
* `Queued`: while a request waits there is no mail, and the mail is a chain that ends
  at what was sent last.
* `Fresh`: a server that still writes deltas for a restarted client has nothing on
  its way to it but that client's request for a whole state.
* `Leftover`: the answer to that request may be the one answer with old deltas in it,
  and then it is the only thing on its way.
* `Chain`: unless a message was missed and deltas go on, `Todo` continues the
  client's state, every delta made from the state before it.
* `Complete`: if none was missed, `Todo` ends at what was sent last.

`Fresh` and `Leftover` are about the time after a restart, when the server still writes,
or has still in its mail, deltas for a client that has no state any more.
Each action is shown to keep one line sound (`ApplySound`, `ReceiveSound`,
`ServerSound`, `UpdatesSound`, ...), with `Wrote` for what `send_game_state` writes and
`Sent` for what the transport does with it, and then the lines of all players
(`Sync`). `Chained` and `Withheld` follow. `Coming` reads the answers in the order they
were sent, and the proof that one may arrive before another splits them there.

**HTTP client** (`HttpClientAssumption`). `Sound` counts the requests under way and bounds the kept sockets
between two callbacks; `Between` says what holds inside one, when a request is no
longer counted and not yet answered or sent again. It gives `Answers` and `Endpoint`.

What a recursive function computes (`FlattenSeq`, `GameMessages`, `Own`) is
established step by step (`EverySeq`, `UpTo`) or by least counterexample: the library's
well-foundedness of the naturals gives the first index at which a claim would fail. No module a theorem is about has a
`RECURSIVE` operator.

Only model-checked: liveness (`CollectionEnds`, `SubmittedCompletes`, `SomebodyStarts`,
`CatchesUp`, `EveryRequestEnds`), which is out of the prover's reach.

## 5. Not modelled

* Netplay: several levels in a row, pausing, checksums (only logged), the
  simulated lag queue, the scan for other ports, several games on one server and
  the relaying of packets (only whom the server would relay to).
* A program that dies while it holds a region of the pipe: the code has no
  answer to it.
* Weak pointers, pool allocation and worker threads of the garbage collector.
  Variants nested in one another when they are assigned.
* TBS server: creating games, taking idle games off the list, relay sessions,
  more than one game, the order among answers that are queued again after a failed
  write, a game's own `restart`, chat and pings of a game, uploading, downloading, loading
  and saving states, server-side bots. `TbsServer` and `GameSync` are checked
  separately: together they are too large, and each takes of the other only the
  order of messages and what they carry.
* TBS client: the disabled local cache and predicted animations. The in-process
  client and server are `GameSync`'s local transport; the child process's pipe is
  `SharedMemoryPipe`.
* HTTP client: bytes and headers, fake lag, progress, answers without a length
  under `allow_keepalive_`, which nothing sets.
* The matchmaking and relay servers, which are account, chat and child process
  handling around a database; the formula language, game rules, rendering, the
  editor and the services around files, HTTP and databases, which are sequential
  or presentation. Vendored libraries and the platforms' build trees.

## 6. Plan

The models are complete as far as the above, and every safety property that the runs
check is proved. What could be added is what section 5 lists: several levels of a net
game in a row, the creation and the removal of games on the TBS server, and weak
pointers of the garbage collector.
