# netPanzer: a TLA+ development

The repository holds several releases of netPanzer, an online tank battle game, and
the master server its game servers register with. This project specifies the
protocols and the control of the newest game server, `src/krom-svn1421`, and the whole
of the master server, `src/masterserver-0.2.9`: how players are let in and out of a
running game while connections break, rounds end and slots change hands; how rounds,
teams and votes follow each other; how messages get through buffers, sockets and
rings; how units get their paths from two shared generators; and how the threads of the
master server share their table. Paths below are
relative to `src/krom-svn1421/src` unless they start with `src/`; `Network/` and
`Interfaces/` stand for `NetPanzer/Classes/Network/` and `NetPanzer/Interfaces/`.

## 1. The system

The game server is one thread. `DedicatedGameManager::mainLoop` repeats a tick:
console commands (`inputLoop`), the inactivity check, `NetworkManager::run` (accept,
read, notice lost peers), then `simLoop`: `cleanUpClientList`, `connectProcess`,
the simulation, `routeMessages` and `updateGameControlFlow`. Inside a tick, handlers
call each other synchronously; the one source of re-entrance is a `send` that fails,
which calls `onClientDisconected` from the middle of the handler that sends.

| component | state | operations | interacts through |
|---|---|---|---|
| `ServerConnectDaemon` | `connect_queue`, `connect_client`, state, `sync_count`, `time_out_timer`, `connection_lock_state` | `connectProcess`, `processNetPacket`, `addClientToQueue`, `removeClientFromQueue`, (un)lock | slots, list, sends, map cycle |
| `NetworkServer`, `ClientSocket` | `client_list`, `receive_queue`, socket, `player_id`, send buffer | accept, receive, disconnect, kick, cleanup, broadcast | raw pointers to clients in the list, the queue, packets and `connect_client` |
| `ServerMessageRouter` | none | `routePacket` | dispatches packets by class |
| `PlayerInterface`, `PlayerState` | `player_lists` (status of each slot), alliances, statistics | allocate, free, `setState*`, player requests | indexed by `PlayerID` |
| `GameControlRulesDaemon` | map-cycle state, `game_state`, timers | `mapCycleFsmServer`, `checkGameRules`, force ends | locks the connect daemon |
| `ClientConnectDaemon` | the client's side of the handshake | `connectFsm` | messages over TCP |
| `VoteManager`, `TeamManager` | one vote and its answers; the team of each slot, ready flags | start, answer, count, timer; add, change, balance, remove | slots, the forced end of a round |
| `NetworkClient`, `ClientMessageRouter` | `clientsocket`, the receive ring | join, part, receive, route | TCP; the goodbye of a client without a socket goes into its own ring |
| `Vehicle`, `UnitInterface` | AI command and its state, pending order, life of each unit | orders, hits, self-destruction, update, removal | unit ids; requests for paths |
| `PathScheduler`, `PathGenerator`, `Astar` | two request rings, two generators | request, query, kill, run | a pointer to the path list inside the unit |
| objectives, power-ups, weapons | the rest of the simulation | opcodes | `PlayerID`s, units |
| `MasterServer` (`src/masterserver-0.2.9`) | `serverlist` under `serverlist_mutex`, `threads`, `running` | accept, sweep, heartbeat, list, quit, time-outs, cancel | one thread per request, signals |
| `RequestThread`, `HeartbeatThread` | a stream under `exit_sync`, `running`; pointers into `serverlist` | read and answer queries; tell the other masters; be cancelled and joined | the table, the main thread |

Behaviours that are hard here:

* **pointers and ids that outlive their owner.** A `ClientSocket*` is kept in the
  list, the connect queue, the received packets and `connect_client`; a `PlayerID` in
  packets and in objects of connections that are gone. Whether they are still right
  when used depends on the order of five stages of the tick.
* **losses inside a handler.** A flush that finds the peer gone frees the slot, moves
  the state machine to idle, and returns into code that goes on.
* **one handshake at a time.** Everybody else waits for it; each of its states needs
  its own way to end.
* **map changes.** They must wait for the handshake, and handshakes for them; and an
  end of the round may be forced in the middle of one.
* **counting people who come and go.** Votes and teams are counted at one moment and
  used at another.
* **bytes.** Sends and reads end anywhere in a packet, the send buffer has an end, the
  ring has no guard, connections end with bytes in all of them.
* **paths.** A search of many ticks writes into a unit that may be ordered elsewhere, die
  or be deleted meanwhile, and its answer blocks the generator until the unit takes it.
* **threads.** The master server's table is locked in pieces, its threads are told to
  stop through flags they set themselves, and deleted by whoever comes next.

What makes the components correct: one connection per slot; a slot is freed on every
path and only by its owner; the list, the queue and the state machine name the same
clients; the address rule; the order and the capacity of joining; exclusion between
map change and handshake; every handshake, vote and round ending in the end; messages
routed whole, in order and once; every path answered to the unit that waits for it and to
no other; a table that forgets nobody too early, and a shutdown
that leaves no thread behind.
`PROJECT.json` lists these as hazards, each at its line.

## 2. Modules

| module | models |
|---|---|
| `ServerConnect` | the server side of joining, playing and leaving; its properties |
| `JoinService` | the abstract promise: first come first served, one at a time, at most as many players as slots |
| `MCServerConnect` | small sets and the symmetry for TLC |
| `ServerConnect_proofs` | type correctness, proved |
| `ServerConnectSafety_proofs` | the invariant of slots and map changes, and that no slot leaks; its theorems |
| `ServerConnectQueue_proofs` | the invariant of the pointers in the queue and the packets; its theorems |
| `ServerConnectSeats_proofs` | what players who were let in keep: their slots, the address rule; the refinement of `JoinService` |
| `GameControl` | the map cycle, the teams and the surrender vote; their properties |
| `RoundCycle` | the abstract promise of the rounds: play, end, load, form, and nobody let in during a load |
| `MCGameControl`, `GameControl_proofs` | instances; theorems about the cycle, the vote and the teams |
| `Transport` | send buffer, connection, reassembly and ring between a server and a client |
| `Channel` | the abstract promise: whole messages, in order, at most once, lost only by whole laps |
| `MCTransport`, `Transport_proofs` | the instance; theorems |
| `PathScheduler` | units that ask for paths, the request rings, the path generators |
| `MCPathScheduler`, `PathScheduler_proofs` | the instance; theorems |
| `MasterServer` | the threads of the master server, its table and mutexes, its shutdown |
| `ServerDirectory` | the abstract promise: who was heard of is known until it quits or is silent for the alive time-out |
| `MCMasterServer`, `MasterServer_proofs` | instances; theorems |

`ServerConnect` and `GameControl` overlap on purpose: the first has the handshake in
full and the map cycle of a server without teams in outline, the second the map cycle
in full and a handshake that starts and ends. Each relies on the other for what it
leaves out: that handshakes end (`HandshakesEnd` of the run `fair`) is the fairness of
`EndHandshake` in `GameControl`, and that the map is loaded under the lock is checked on
both sides (`MapChangeIsQuiet`, `RoundCycleSpec`). `Transport` is the link under both.
`PathScheduler` is the part of the simulation that shares something between units; from
the rest of the server it sees orders and the reset at a change of map.

### ServerConnect and the code

`phase` is the stage of the tick: `input` (commands and network), `connect`
(`connectProcess`), `route` (`routeMessages`, then `updateGameControlFlow`) and
`crashed`, entered where the code uses freed memory or an invalidated iterator and a
crash is one of the outcomes a build can produce.

| action | code |
|---|---|
| `Connect`, `Receive`, `LoseClient` | `onNewConnection`, `onDataReceived`, `onDisconected` in `NetworkManager::run` |
| `Leave` | a client that quits or is cut off; `wire[c]` ends in `eof` |
| `Kick` | `NetworkServer::kickClient` from the console or the inactivity check |
| `ForceMapChange` | the map change and surrender that end a round from outside |
| `CleanUpClientList` | `NetworkServer::cleanUpClientList` |
| `ServeNext`, `StayIdle` | `StateIdle::process` and `leave`, with the enter of the next state |
| `KeepWaiting`, `TimeOut` | `process` of the states that wait for the client |
| `SyncClient`, `SendNextProfile` | the profile, player, flag and unit syncs |
| `FinishConnect`, `DropBadConnectingClient` | the last states |
| `UseDeletedClient` | the state machine running on a deleted `connect_client` |
| `ClientDisconnect`, `JoinRequest`, `ChangeFlag` | the packets that do not go to the state machine |
| `ConnectRequest`, `ClientSettings`, `GameSetupAck`, `IgnoreMessage` | `StateMachine::message` per state |
| `ShowEndRound`, `LoadNextMap`, `StartRound`, `FinishRound`, `KeepPlaying` | `updateGameControlFlow` |

`Proceed` and `Outcome` are the heart: one call of `StateMachine::process` or
`message`, with what it changes, the client's reply, and whether a flush finds
`connect_client` gone, either before the handler returns its next state (so that the
switch is made from the idle the disconnect entered) or in the `enter` of the next
state, and whether one client of the queue is found gone while the loop of
`StateIdle::leave` runs over the queue.

`Client` is the set of *addresses* of client objects: an address is used again after
`delete`, which is what makes stale pointers visible. `conn` is `none` (not
allocated), `open` or `closed`; a deleted object keeps its `player_id`, as freed
memory does.

Abstractions, all of data:

* messages are their kinds; a client may give any reply `ClientConnectDaemon` can,
  in TCP's order (`Replies`), or fall silent. A client may quit at any point and what
  it had not written is lost.
* the timer is not a clock: whenever it is looked at it may have run out.
  A ping, which only resets it, is therefore a message that is ignored.
* `client_list` is a set; the code never adds a client twice.
* a sync sends `NumProfiles` profiles or takes `NumChunks` ticks per phase; the number
  of units is not state of this module.
* the status `kicked` of a slot lasts from `setStateKicked` to the disconnect in the
  same call and is not a value of `pstate`; statistics are left out.
* the map cycle is that of a dedicated server without teams; its steps between the
  load of the map and the respawn are the one state `changing`.
* commands are run before packets are read; that is the order of `mainLoop`.
* what ends a round (time, frags, objectives, a vote) is a choice.
* a client changes its flag at most once after it was let in.
* at most one client of the queue is found lost by one walk over the queue.
* a client dropped during its handshake is closed but in no list that deletes it; it
  stays `closed` for ever, as the leaked object does.

Not in the module: a full send buffer and a packet of a bad size, which report an open
connection as disconnected; broadcasts inside `onClientDisconected` that themselves
fail; player commands other than the change of flag.

### GameControl and the code

One action is one tick of `updateGameControlFlow`, one routed request, one step of a
handshake, one lost player or one console command.

| action | code |
|---|---|
| `DisplayEndgameViews` ... `PrepareTeam`, together `Advance` | the cases of `mapCycleFsmServer` that go on to another state |
| `KeepWaiting`, `KeepPlaying` | the ticks that wait for a timer, for the map or for the handshake in progress, and the idle ones |
| `CheckGameRules` | `checkGameRules`; which rule ends the round is a choice |
| `ForceEnd` | `forceMapChange`, `forceEndRound` from the console |
| `StartConnect`, `FinishConnect`, `DropConnecting` | `StateIdle`, `StateFinishConnect`, `StateDropBadConnectingClient` |
| `Leave` | `onClientDisconected` with `removePlayer` and `BalancedTeam` |
| `RequestTeam` | `playerRequest_changeTeam` |
| `StartSurrenderVote`, `VoteSelected` | `playerRequest_startSurrenderVote`, `playerRequest_voteSelected` with `checkPlayersVote` |
| `CheckVoteTimer` | the timer `DedicatedGameManager::mainLoop` looks at |

`ChangeTeam`, `BalancedTeam` and `AddPlayer` are functions from a team map to the team
maps that may follow, since `getrandomplayer` picks at random and a slot with the team
0xFF reads behind `Teams_lists`. `left` holds the slots vacated since the received
packets were last routed: their requests are still handled.

Abstractions: timers may have run out whenever they are looked at; therefore the ready
flags, which only shorten the preparation, change nothing and are left out, as are
statistics, alliances, scores and map names. Every request of a vote puts one more box
before the client, and a box is answered at most once. An answer names no vote, so
`boxes` only counts what a slot has still to answer: a box that outlived its vote is
answered in the next one, and a client may so answer twice. `RequestTeam` asks for one of
the two `Teams`, as the client's buttons do (`PrepareTeam.cpp:290-306`); the server itself
does not look at the byte of the request before it indexes `Teams_lists` with it
(`ServerMessageRouter.cpp:148-151`, `TeamManager.cpp:411-447`), and what another byte
reads or writes behind the list is not modelled. The data of a vote that is over is cleared at the next tick (the code clears it
when the next one starts and does not read it in between). A division by zero ends the
process (`alive`). A slot that was never used has any team: `PlayerState` has no initial
value for it. The client's side of the cycle is not part of the module.

### Transport and the code

A byte is known by its message and its place in the frame, so a frame that is cut,
doubled or shifted is visible, and nothing else about the payload is kept.

| action | code |
|---|---|
| `SendMessage`, `SendRemaining` | `ClientSocket::sendMessage`, `sendRemaining` over `TCPSocket::send` |
| `LoseClient`, `HardClose` | `onDisconected`, `onSocketError`; `hardClose` of a kick |
| `Receive` | `TCPSocket::onDataReady` with `ClientSocket::onDataReceived` (`Turn`, one turn of its loop, and `Loop`, as many turns as there are bytes) |
| `LoseServer` | `NetworkClient::onClientDisconected` |
| `RouteMessages` | the drain in `ClientMessageRouter::routeMessages` |
| `JoinServer`, `Quit`, `Host` | `joinServer`; `shutdownConnectDaemon` with `sendMessage` and `partServer`; the new `NetworkClient` of `hostMultiPlayerGame` |
| `Break` | the network |

The ring has the code's `front` and `rear` and no guard: `Enqueue` that makes them equal
has lost a lap. The direction is from the server to the client; the other one runs the
same class and differs in what the observer does with a lost client. `alive` turns false
where the code has no defined continuation: a length and message that go past the end of
`sendbuffer` although the message alone fits, and a loss that is reported into the very
buffer whose overflow it reports. `SizesAssumption` says that what the server sends fits
the client's `tempbuffer` together with its two bytes of length; the largest messages of
the present server do (81 and 14 byte parts). A *client* that orders 51 units in one go
sends exactly 512 bytes, which do not (listed as a hazard at `ClientSocket.cpp:179`).
Not modelled: the messages a client sends while it routes, and packing several messages
into one.

### PathScheduler and the code

One action is what one unit or one generator does in a tick, one order, one hit, or a
change of map. The order within a tick is left open; in the code `routeMessages` comes
before `updateUnitStatus` and that before `PathScheduler::run`.

| action | code |
|---|---|
| `Update` | `Vehicle::updateState`: `updateUnitStateProperties` (`NextLife`), then the machine of the command (`Idle`, `DefendHold`, `MoveToLoc`, `AttackUnit`) with `checkPendingAICommStatus` (`NewCommand`) |
| `RemoveUnit`, `CreateUnit` | `updateUnitStatus` with `removeUnit`; `createUnit` |
| `PlayerCommand` | `playerCommand_MoveUnit`, `playerCommand_AttackUnit` |
| `Destruct` | `weaponHit` with the last hit point; `selfDestruct` |
| `Take`, `Search` | `PathScheduler::run` for one generator: the next request, one call of `PathGenerator::run` |
| `ResetGameLogic` | `GameManager::resetGameLogic` |

`ai` is the command with the state its machine rests in: the `do ... while` of
`aiFsmMoveToLoc` runs through its other states in one call, so `CheckGoal` is
`check_goal`, `next_move` and what follows. `DestructExit` and `CommandExit` are the two
exits every state that may wait has, and both kill the unit's requests. A slot that was
killed stays in its ring and is `FlushedSlot`, since nothing reads the rest of it.

Abstractions: the squares, the length of a path, whether the next square is occupied and
whether the goal is reached are free choices, as are the moments at which timers run out
and a search ends. An order to attack always names the unit itself, for
`playerCommand_AttackUnit` passes `unit_id` on (`UnitInterface.cpp:141`); the target is
therefore in range at once and the attacker never follows it. Firing, turrets and the
opcodes sent to clients change no request. The server is a dedicated one: leaving a
hosted game (`quitNetPanzerGame`) is not part of the module.

### MasterServer and the code

One step is what a thread does between two points where another thread may come in
between to any effect: lock, loop and unlock of `checkTimeouts` are one step, the copy
that `getServerList` makes is one step, and a query that acts on what it found holds
`mutex` from `Find` to its `Parse...` step. `pc` is the place of each thread, `job` what
it is at, `now` its `currenttime`, `found` the entries it works with.

| action | code |
|---|---|
| `Consult`, `EraseExpired`, `Find` | `checkTimeouts`, then the search of a query or `getServerList` |
| `ParseHeartbeat`, `ParseQuit`, `ParseList` | the rest of the queries, under the mutex |
| `Begin`, `Loop`, `Ask`, `Skip`, `EndOfStream`, `GiveUp`, `LockExit`, `DeleteStream` | `RequestThread::run` and the reads of `SocketStreambuf`; `Loop` is the look at `running`, before the read that may block |
| `Destroy`, `Cancel`, `Join` | `~RequestThread`, run by the main thread |
| `Run`, `Accept`, `Sweep`, `Admit`, `Signal` | `MasterServer::run`, `cancel` |
| `BeginHeartbeat`, `Beat`, `Wake`, `UseList` | `HeartbeatThread::threadMain`, `sendPacket`, `writeNeighborCache` |
| `StopHeartbeat`, `JoinHeartbeat`, `TearDown` | `main` after the loop: both destructors |

A `Request` is the memory of a `RequestThread` and is used again. `getServerList` hands out
pointers into the vector; the model gives its caller what they pointed to and leaves out
where they lead after another thread has moved the entries. Abstractions: a query is its kind, the
address and the game; other key and value filters of a list only narrow the game's; the
password is part of what a client chooses to ask; queries the server refuses are not
asked. Writing an answer does not block, as if every client read what it asked for. In the code
the `send` of `SocketStream.hpp:102`, which `parseList` reaches under `serverlist_mutex`,
may wait for a client that does not read, and `cancel()`, which is only looked at by the
reads, would not wake it; `JoinsAreAnswered` is to be read with that in mind. The neighbours' answers and the neighbour cache
at the start are any sequence of `AddServer`; entries that time out before the threads
start are taken out by the first look at the list after it. `select` that fails, and a
thread that cannot be created, are left out.

## 3. Runs

| run | instance | what it shows |
|---|---|---|
| `players` | 3 clients, 1 slot, queue of 3, every client may be lost inside a handler; symmetric | `TypeOK`, `OneOwnerPerSlot`, `NoLimbo`, `QueueIsSound`, `JoinersExist`, `JoinServiceSpec` |
| `rounds` | 2 clients of one address, 2 slots, several profiles, chunks, repeats and pings, rounds ending | `MapChangeIsQuiet`, `OnePerHost`, `SeatedHaveSlots` |
| `fair` | 2 clients, 1 slot, rounds ending, no loss inside a handler, fairness | `SetupSlotsAreHeld`, `HandshakesEnd`, `QueuedAreServed` |
| `foreign` | 2 clients, 2 slots | violated: a late message of a client that quit drops the one being let in |
| `ghost` | the same | violated: a slot becomes active again after its player left |
| `dangling` | the same, one client lost inside a handler | violated: `connect_client` is deleted during its handshake |
| `resume` | the same, rounds ending | violated: after the first map change the rules stay off |
| `game` | 2 players, 2 unit types, all kinds of server, 2 forced ends or votes, fairness | `LockIsReleased`, `ProfilesAreSynced`, `VoteWaitsForSomebody`, `RoundCycleSpec`, `VotesEnd`, `RoundsGoOn`, with `TypeOK` |
| `teams` | 10 players of a server with teams, 1 unit type, no forced end or vote; a view | `TeamsAreFair`, `LeadsDoNotGrow` |
| `transport` | messages of 1 and 4 bytes, buffer of 9, ring of 3, 4 messages, 2 sessions, fairness | `PacketsAreSound`, `FramesAreWhole`, `ChannelSpec`, `MessagesMove`, with `TypeOK` |
| `masterserver` | 2 requests, 2 addresses, 1 game, alive time-out 1, clock 0..1, the neighbours written back; symmetric | `UniqueServers`, `MutexHeld`, `FreshAnswers`, `StreamsOutliveUse`, `NothingOutlives`, `JoinsAreAnswered`, `DirectorySpec`, with `TypeOK` |
| `pathing` | 2 units, rings of 3 slots, fairness | `OneRequestEach`, `PathsHaveOneWriter`, `RequestsAreKept`, `UnitsAreServed`, with `TypeOK` |

Why the bounds suffice. The conflicts are between the client being let in, one that
has left or is leaving, and one that waits: three roles, and `players` has three
clients and a single slot for them, so a slot changes hands within a tick. `QMax`
bounds the packets read in one tick; 3 lets every client have one in flight, 2 lets a
message of a lost client meet one of its successor. In `players` all three clients may
wait at once, so that who comes first is served first, and one may leave from the front,
the middle or the end of the queue, or while the walk of `StateIdle::leave` is over it. In
`rounds` and `fair` the queue takes fewer than there are clients, so there it is full. One chunk per sync is enough for the order of the
states; `rounds` uses two, which adds the time-out in the middle of a sync.
`CHECK_DEADLOCK FALSE` in the runs without fairness: a crashed server stops. In `fair`
no crash is reachable and deadlock is checked.

`JoinServiceSpec` is checked with every loss there is. A call of the state machine that
starts a handshake may find another client of the queue gone, which is why `Serve` of
`JoinService` lets one of those behind leave in the same step. The clients of `players` are
interchangeable (one address policy, all may be lost) and the property is a safety
property of steps, so the symmetry is sound for it. `SetupSlotsAreHeld` has the deletion of `connect_client` as its condition,
not the losses, since a deletion can do without them: a client whose connection ends
between the read and the routing of its join request is queued all the same, messages
left behind by clients that quit in the middle of their handshakes may bring it as far as
the unit sync, and there it is listed, and so deleted. Once its address is used again
nobody remembers its slot, which stays taken for ever. With three clients, two slots, two
repeated requests and four packets in a tick TLC finds a behaviour of 58
states that does it; `fair` is too
small for it, and the proof for every instance shows that nothing else is missing.

`game`: the map cycle does not depend on the number of players, and two are one who
votes or comes or goes and one who stays. With two calls a second forced end meets
every state of a cycle that was forced before, and a second vote finds the boxes of the
first still open, whose answers it then counts. Two unit types tell an index
that is one short from one that is not reset. A vote nobody was counted for divides by
zero: that is reachable (the vote of a player who left before it was routed), and then
`alive` is false and nothing more is promised.

`teams`: `TeamsAreFair` bounds a team by half of the slots and one, and `LeadsDoNotGrow`
forbids that a lead above two grows: `AddPlayer` may count the new player in the team its
slot had before, which makes a lead of two. A round may start with more, since the
balancing moves one player: with ten slots, five against none becomes four against one.
Ten slots are the fewest with which such a round starts, so that the second property says
something the first does not. Slots are interchangeable in a game of teams, so `View`
keeps of all slots, of the active and of the vacated ones only how many there are in each
team, and of the one being let in its team; the two properties, and all steps, depend on nothing else.
The vote is left out of this run (`MaxCalls` is 0), since it does not change the teams.
Both properties are proved for every number of slots.

`VotesEnd` is about the dedicated server; a loop-back server never looks at the vote
timer, so there a vote whose voter quit stays open.

`transport`: the buffer takes one large message and its alert, but not two, so a refused
message whose alert fits and one whose alert does not are both reached; the ring laps
with three unread messages, and a fourth lies behind the lap; two sessions let bytes and
packets of the first meet the second. `RoomSize` is smaller than a large frame, so
every frame may be cut anywhere.

`masterserver`: a conflict is between two requests, or a request and the heartbeat or
main thread; two requests, each of whose memory is used again, are enough for both. One
address is the master's own, the other registers as a master: no property tells games
apart, and with one every list a client asks for is the longest there is. With the
alive time-out at 1, an entry may be expired for a thread that read the time late and
not for one that read it early. The request time-out of 0 dooms a request one tick after
its start; the connection limit of 1 lets two run, since the code drops a client only
with more.

`pathing`: two units are one that is served and one that waits behind it, in the same
ring or with the other generator. A ring of three slots holds one request of each and
overflows with a third; that one is there because a killed request keeps its slot. No
counter is bounded: units die and come back under the same id for ever.

Deadlock is checked in all of these runs: `Terminated`, `Dead` and `Wrecked`
are the only states in which the program stops.

Fairness (`FairSpec`), and why the code justifies it:

* weak fairness of `CleanUpClientList`, `ConnectProcess`, `RoutePacket` and
  `UpdateGameControlFlow`: the main loop runs each stage in every tick and nothing in
  a tick blocks. Nothing is assumed of the clients, which may be silent for ever.
* strong fairness of `TimeOut`: the timer of a waiting state is looked at once per
  tick and runs out unless it is reset again and again; the bounded pings are the only
  resets.
* strong fairness of `LoadNextMap` and `StartRound`: the end-of-round and map-load
  timers run out, and are looked at in every tick.
* `QueuedAreServed` presupposes that the lock is open again and again. Console
  commands may force one map change after the other and so keep it closed; that is
  the operator's choice, not a fault of the server.
* `GameControl`: weak fairness of `Advance` with the drain before it (the cycle is looked
  at in every tick, its timers run out and its loads end, so it does not wait for ever), of
  `EndHandshake` (what `fair` shows as `HandshakesEnd`) and of `CheckVoteTimer` (the
  timer is looked at in every tick of the dedicated server and a vote's time runs out
  once). Since a timer may have run out whenever it is looked at, what is shown is that
  the control never gets stuck, not how long it takes. Nothing is assumed of players;
  the forced ends are bounded by `MaxCalls`, as an operator who forces ends for ever
  would keep any server from playing.
* `Transport`: weak fairness of `SendRemaining`, `Receive`, `RouteMessages` and
  `LoseServer`, one for each thing both main loops do in every tick. The server is never
  assumed to send, the network never to break or to hold.
* `PathScheduler`: weak fairness of `Update` and `RemoveUnit` for every unit and of `Run`
  for both generators, which are called in every tick; and of an update in which the life
  of a unit goes on, since `unit_state_timer` runs out every tenth of a second whatever
  else happens. `Run` being fair includes that a search ends: A* closes each square of the
  map at most once and stops when its nodes are used up. Orders and hits are not assumed
  to come or to stay away; only a unit destroyed again and again is excepted (`UnitDies`),
  because each `selfDestruct` starts its end anew.
* `MasterServer` states no fairness: `JoinsAreAnswered` says instead, as an invariant,
  that whoever is waited for has been woken and is not itself waiting for the waiter.

`JoinServiceSpec` is refinement: `waiting` is `connect_queue`, `serving` the client
of a handshake in progress, `seated` the listed, open clients whose handshake is over.
A client that is closed and listed is not seated; the unit sync lists a client before
it is let in, and it counts only when the handshake ends. `RoundCycleSpec` maps the ten
states of the map cycle to four phases and the active slots to `members`; a forced end
is a step of the abstract cycle, so what it promises is that nothing else leaves the
order and that nobody joins in `loading`. `ChannelSpec` maps the bytes that can still
arrive to the messages whose last byte is among them, and the ring to the messages a
drain would find; its `Arrive` loses messages only in whole laps. `DirectorySpec` maps
the list of entries to the time each address was last heard of.

## 4. Proofs

### ServerConnect

Assumptions: `ClientAssumption` (a null client is no client, hosts and flaky clients
are over `Client`), `SlotAssumption` (slots are naturals other than the invalid id),
`BoundAssumption` (bounds are naturals), and for `ServiceCorrect` `TableAssumption` (the
table of players is finite). Clients need not be finitely many.

* `TypeCorrect`: `Spec => []TypeOK`. Lemmas give the types of the helpers (`Without`,
  `Replies`, `Closing`, `SetSlot`) and of `Proceed`, then one step per action.
* `OneOwnerCorrect`, `NoLimboCorrect`, `QuietMapChange`: from the invariant
  `IInv == TypeOK /\ Safe`.

`OneOwnerPerSlot` is not inductive. A slot is given to a client because its status is
`free`, so every owner's slot has to be taken (`SlotsTaken`), except during a
handshake, where a loss of the same client can free it early. Then:

* a listed client whose connection is gone can be kicked and frees its slot *again*:
  that slot must not have a new owner (`GhostsHoldNothing`). It can have one only if
  it is allocated before the cleanup removes the entry, which is why the cleanup runs
  before the routing that allocates, and why the list is clean in the phase in
  between (`ListIsClean`);
* a handshake that fails frees `player_id[connect_client]`; nobody else may own it
  (`HeldSlot`);
* `NoLimbo` needs the client to be listed by the time the handshake ends
  (`ListedInTime`);
* the map is exchanged under the lock and with an idle machine (`LockedForMap`).

`ProceedFacts` extracts from a call of the state machine what these conditions need;
`ProceedSafe`, `AdvanceSafe` and `DisconnectSafe` preserve `Safe` once for all handlers; each action is then a
short lemma (`TimeOutSafe`, `ConnectRequestSafe`, ...), and `SafeStep` combines them.
TLC had agreed with `IInv` on the instances of `players` and `rounds` first.

* `QueueCorrect`, `JoinersCorrect`: from `TypeOK /\ Waits`, an invariant of its own. A
  client asks to join, waits, is being let in and is listed, one after the other, and
  asks only once (`WireJoins`, `ReadJoins`), so that whoever still asks has not been
  dealt with (`AskersAreNew`) and has not been deleted, as only listed clients are.
  The order has one gap: from the unit sync on, `connect_client` may point to a deleted
  object whose address a new client has been given, which then asks, waits and is being
  let in at once. `Late` is that exception, and `ListedExist` and `EarlyExists` say that
  there is no other. `WithoutElements` is what removing a client from the queue leaves.
* `SeatsCorrect`, `HostsCorrect`: from `IInv /\ Waits /\ Seats`. A slot that a step
  frees is that of a lost client (nobody else's by `OneOwnerPerSlot` and
  `GhostsHoldNothing`) or of the one being let in (`HeldSlot`). That `StateFinishConnect`
  may still rely on the address that `StateWaitForConnectRequest` looked up is
  `HostsApart`: nobody else is let in meanwhile. `Waits` excludes a new connection at an
  address that is still listed.

* `SetupCorrect`: `SetupHeld` says that slots in setup exist only in the states of the
  handshake that give them back or play them, and are the player id of
  `connect_client`. `ProceedHeld` shows why a loss inside a handler does no harm: the
  slot it frees is the one that was taken in the same call. Only a new connection at the
  address of `connect_client` could take the player id away, which is where
  `ConnectClientExists` is needed. It is a step condition of the proof and not part of
  the invariant, since `dangling` shows that it fails.
* `ServiceCorrect`: `Spec => JoinServiceSpec`, whatever is lost where. `CallSeen` says what
  the service sees of a call of the state machine: the client being let in is found gone
  in the handler, in the `enter` of the next state or not at all, and one of the queue may
  be found gone with it. `AdvanceService` makes every step inside a handshake a stutter, an
  `Abort` or a `GiveUp` and never two of these at once. `WithoutLeaves` and `WithoutLast`
  say that who leaves the queue leaves the others in order. `ServeService` needs that who waits is not listed (`QueueIsSound`),
  `JoinRequestService` that who asks is neither listed nor waiting (`AskersAreNew`), and
  `FinishService` that there is a seat left: the players and the client being let in
  have different slots of the table (`SeatLeft`, from `OneOwnerPerSlot` and
  `SeatedHaveSlots`), so that the code never counts its players and yet never has more
  than slots. The `conn` of a client may be gone when its handshake ends; then the step
  is an `Abort`.

### GameControl

Assumptions: fewer than 256 slots, a finite set with the host among them; at least one
unit type; any bound on forced ends. The inductive invariant is
`IInv == TypeOK /\ Sent /\ LockInv`.

* `TypeCorrect` needs arithmetic on finite sets: the votes are counted in a byte, and
  `SlotsCount` shows that the slots fit into it. It also needs `Sent`, since only the
  index that stops at the number of types keeps `sync_profile_index` in its type.
* `ProfilesCorrect`: `Sent` says that while profiles are synced, those sent are exactly
  the ones below the index. A forced end may leave the index anywhere, and the reset in
  `load_unit_profiles` is what makes the next cycle start over.
* `LockCorrect`: `LockHeld` says the lock is held from the moment the cycle waits for
  the handshake in progress, and nobody is connecting while the map is loaded.
* `CycleCorrect`: every step is a step of `RoundCycle` or stutters. `Joining` and
  `LockHeld` rule out a join during a load; `Crowd` shows that no step but one by one
  adds or removes members.
* `VoteCorrect`: every answer decrements the byte by one (`VoteStep`), the answer that
  brings it to zero closes the vote, and a vote opens with as many as it counts.
* `TeamsCorrect` and `LeadsCorrect` need no more than `TypeOK`, for the work is in the
  counts. `CountMoved`, `CountLeft` and `CountCame` say what one slot adds to a team or
  takes from it, `BothTeams` that the teams share the slots. So the smaller team always
  has less than half of the slots when it is two behind, and the balancing is never
  refused (`Balanced`). `AddedFair`, `LeftFair`, `ChangedFair` and `BalancedFair` are the
  four ways in which teams change.

### MasterServer

Assumptions: the threads are distinct, `Master` is one of the games, time-outs are
naturals and the alive time-out is not zero. Nothing is assumed finite. The inductive
invariant is `IInv == TypeOK /\ Life /\ Streams /\ Listed`.

* `Life`: which threads exist in which part of `main`. It gives `MutexCorrect` and
  `ShutdownCorrect` (the heartbeat has ended before anybody is told farewell).
* `Streams`: who holds `exit_sync`, and that a serving request which has been told to
  stop has also been woken. It gives `StreamsCorrect` and `JoinsCorrect`.
* `Listed`: no thread's time is ahead of the clock, nothing in the list is expired for a
  thread between its time-out check and its answer (entries only get younger), and what
  a request found is what the list holds as long as it has the mutex. It gives
  `UniqueCorrect` and `FreshCorrect`.
* `DirectoryCorrect`: `HearStep`, `SignOffStep` and `ForgetStep` map the three ways in
  which the list changes to `ServerDirectory`; all other steps stutter or are its `Tick`.

### PathScheduler

Assumptions: `UnitAssumption` (the idle generator's unit is no unit) and
`QueueAssumption` (a ring has at least two slots). Nothing is assumed finite. The
inductive invariant is
`IInv == TypeOK /\ OneRequestEach /\ PathsHaveOneWriter /\ DyingAreTold`.

* `DyingAreTold` says that a unit whose end has come and that is not idle has been told
  to end its command (`destruct`). It is what makes `PathsHaveOneWriter` inductive: a unit
  reaches `destroyed` only from idle, and it goes idle by killing its requests, so the
  deletion, which tells the scheduler nothing, finds none.
* `OneRequestEach` needs `PathsHaveOneWriter`: a request is made only in states without
  one, or after a kill. `KillOutcome`, `AskOutcome` and `TakeOutcome` say once what
  killing, asking and taking do to the requests of the unit and of the others; each action
  of a unit is then one of these (`UnitStep`).
* `RequestsKept` follows from the same lemmas in the form `Kept`: every step that takes a
  request from a unit which goes on waiting would have to be an overflow.

### Transport

Assumptions: `SizesAssumption` (no message is empty, and each fits both buffers with its
two bytes of length) and `BoundsAssumption` (a ring has at least two places, and the sizes
and bounds are naturals). The inductive invariant is
`IInv == TypeOK /\ Linked /\ Counted /\ InStep /\ Unparsed /\ RingIsSound /\ PacketsAreSound`.

* `InStep` is the heart of it: in a connection that lives, the *path*, which is what the
  client has of a packet, what is on its way and what is to be sent, is made of whole
  frames (`Whole`), ends with one as long as the server has its socket (`Ended`), and has
  only messages sent before (`SentBy`: the next frame is a later one). `Unparsed` says that
  between two reads the client never holds a complete packet, `RingIsSound` that what a
  drain would find was enqueued.
* `FirstFrame`: a byte follows from the one before it, so a path begins with the frame of
  its first byte. So the two bytes the client takes for a length are one (`PackedIs`,
  `TurnIs`), which is `PacketsCorrect`.
* `LoopIs`: the loop of `onDataReceived` takes all bytes, parses frames off the front and
  enqueues their messages in order (`InLoop`). The module has no induction over data:
  `Recursion` proves once, from the least natural number at which it would fail
  (`LeastNat`), that a definition by recursion has a solution and that an invariant of its
  steps holds at its end. `LoopIs`, `UptoIs` and `CompletedConcat` (what two stretches of
  bytes complete together) rest on it.
* `FramesCorrect` follows from `InStep`.
* `ChannelCorrect`: every action is a step of `Channel` or stutters (`ChannelStep`). A read
  is `Arrive` of the messages whose frames it parsed (`ReceiveArrives`); `EnqueueArrives`
  shows that a ring overtaken by `rear` loses exactly a lap (`UnlappedAppend`); a closed or
  broken connection cuts what is coming at its end (`CutsEnd`).

### Only model-checked

Liveness under fairness: `HandshakesEnd`, `QueuedAreServed`, `VotesEnd`, `RoundsGoOn`,
`MessagesMove` and `UnitsAreServed`. Every other property of a passing run is the property of
a theorem.

## 5. Findings

* `foreign`: the state machine takes any connect message for one of `connect_client`
  (`ServerConnectDaemon.cpp:896`).
* `ghost`: `playerRequest_changeFlag` activates a freed slot
  (`PlayerInterface.cpp:598`).
* `dangling`: `StateMachine::process` switches state after its handler lost the
  client (`ServerConnectDaemon.cpp:176`). Once its address is used again, the slot of the
  handshake is nobody's: that is the condition of `SetupSlotsAreHeld`.
* `resume`: without teams nothing sets `game_state` back after a map change
  (`GameControlRulesDaemon.cpp:401`).

Met on the way and kept in the models as they are, without a run of their own:

* a loop-back server whose map fails to load stays locked
  (`GameControlRulesDaemon.cpp:309`; the exception in `LockIsReleased`);
* a surrender is accepted without a single yes (`VoteManager.cpp:128`);
* a vote nobody was counted for divides by zero (line 127);
* a stop that comes before a thread's first instruction is lost
  (`RequestThread.cpp:72`, the exception in `JoinsAreAnswered`; `HeartbeatThread.cpp:245`,
  where `main` then waits for the heartbeat for ever);
* the report of a full send buffer goes into the same buffer (`ClientSocket.cpp:97`);
* a request ring that is filled drops all its requests, and their units wait until they
  are ordered again (`QueueTemplate.hpp:43`; the exception in `RequestsAreKept`);
* an order to attack makes the unit attack itself (`UnitInterface.cpp:141`).

Met and not in the models: `getServerList` hands out pointers into a vector that other
threads change (`MasterServer.cpp:494`).

## 6. Plan

Done: `ServerConnect`, `GameControl` (with the votes and the teams), `MasterServer`,
`Transport` (the ring and the send buffer), each with its abstract specification, and
`PathScheduler`, whose promise is stated by its properties.

Left, in this order:

1. `ClientConnect`, the client's states of the handshake and of the map cycle, then
   `Handshake` composing it with `ServerConnect`, which replaces `Replies` by a
   refinement.
2. `Transport` composed with `ServerConnect`: a full send buffer reports a loss in the
   middle of a handler while the socket stays open.
3. `Players`: alliances and the commands attributed by the player id of a packet.

## 7. Not modelled

User interface, resources, sound, scripts and bots are I/O or random play. Weapons,
projectiles, the movement of units, the order of A*'s nodes, objectives and power-ups are
one single-threaded simulation over large numeric state: what they do depends on
positions and angles, and an instance small enough to explore has no battle in it. What
the simulation shares between units, the path requests, is in `PathScheduler`. Name resolution and `select`
are seen through what they report. The heartbeat and info sockets of the game server
keep nothing but a timer.

Most of the repository's lines are not part of any of this: the older releases
(`src/svn1341`, the snapshots, the 0.8.5 builds) are earlier states of the same code,
and modelling them again would say the same of other line numbers; the archive library
`physfs`, fonts, image and interface code are vendored or drawing. The modules therefore
cover a small share of the repository's lines, and most of the newest release's network
and game-control code.
