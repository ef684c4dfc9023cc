--------------------------- MODULE ServerConnect ---------------------------
(***************************************************************************)
(* How the netPanzer server (krom-svn1421) lets players in and out of a    *)
(* running game: NetworkServer, ServerConnectDaemon, ServerMessageRouter,  *)
(* the slot table of PlayerInterface and the part of GameControlRulesDaemon *)
(* that must not change the map while somebody is being let in.            *)
(*                                                                         *)
(* The server is one thread that runs DedicatedGameManager::mainLoop; its  *)
(* stages are the values of phase.  The concurrency is that of the clients *)
(* and of the network: what arrives, when a peer disappears, and that a    *)
(* failing send reports the loss from inside the handler that sends.       *)
(* A Client is the address of a ClientSocket object: it is used again once *)
(* the object is deleted.                                                  *)
(***************************************************************************)
EXTENDS Naturals, FiniteSets, Sequences

CONSTANTS
  Client,        \* addresses of ClientSocket objects
  Slot,          \* PlayerIDs, the indexes of player_lists
  NoClient,      \* connect_client before the first handshake
  NoPlayer,      \* INVALID_PLAYER_ID
  Host,          \* IP addresses
  HostOf,        \* the IP address a client connects from
  AllowMultiIp,  \* GameConfig::game_allowmultiip
  Refused,       \* clients with another protocol version or password
  FlakyClient,   \* clients whose loss a send may be the first to notice
  MaxQueue,      \* clients that may wait in connect_queue (26 in the code)
  NumProfiles,   \* unit profiles sent one by one
  NumChunks,     \* ticks each of the player, flag and unit syncs takes
  MaxRetries,    \* bound on the connect requests a client repeats
  MaxPings,      \* bound on the pings a client sends while it loads the map
  RoundsEnd,     \* whether rounds end in the instance
  QMax           \* bound on the packets received in one tick

ASSUME ClientAssumption == /\ NoClient \notin Client
                           /\ HostOf \in [Client -> Host]
                           /\ FlakyClient \subseteq Client
                           /\ Refused \subseteq Client
ASSUME SlotAssumption == Slot \subseteq Nat /\ NoPlayer \notin Slot
ASSUME TableAssumption == IsFiniteSet(Slot)
ASSUME BoundAssumption == /\ AllowMultiIp \in BOOLEAN /\ RoundsEnd \in BOOLEAN
                          /\ MaxQueue \in Nat \ {0}
                          /\ NumProfiles \in Nat \ {0}
                          /\ NumChunks \in Nat \ {0}
                          /\ MaxRetries \in Nat
                          /\ MaxPings \in Nat \ {0}
                          /\ QMax \in Nat \ {0}

VARIABLES
  phase,                  \* the stage of the main loop that runs next
  conn,                   \* the ClientSocket objects and their sockets
  player_id,              \* ClientSocket::player_id
  wire,                   \* what a client has sent and the server not read
  client_list,            \* NetworkServer::client_list
  receive_queue,          \* NetworkInterface::receive_queue
  connect_queue,          \* clients waiting for their turn
  connect_client,         \* the client being let in
  fsm,                    \* state of the connect state machine
  sync_count,             \* progress inside the current sync state
  pstate,                 \* PlayerState::status of each slot
  map_cycle,              \* GameControlRulesDaemon's server FSM
  game_state,             \* whether the rules of the game are applied
  connection_lock_state   \* no new handshake may begin

sockets == <<conn, player_id, wire>>
server  == <<client_list, receive_queue>>
connecting == <<connect_queue, connect_client, fsm, sync_count>>
game    == <<map_cycle, game_state, connection_lock_state>>
vars == <<phase, sockets, server, connecting, pstate, game>>

-----------------------------------------------------------------------------
(* Types *)

Phase == {"input", "connect", "route", "crashed"}
ConnState == {"none", "open", "closed"}
PlayerStatus == {"free", "allocated", "connecting", "selecting_flag", "active"}
ConnectState == {"idle", "wait_for_connect_request",
  "wait_for_client_settings", "wait_for_client_game_setup_ack",
  "unit_profile_sync", "player_state_sync", "sync_flags", "unit_sync",
  "finish_connect", "drop_bad_connecting_client"}
MapCycle == {"idle", "display_endgame_views", "cycle_next_map", "changing"}
GameState == {"in_progress", "completed"}

ConnectMsg == {"connect_request", "client_settings", "setup_ping",
               "setup_ack", "next_profile"}
Msg == ConnectMsg \cup {"join_request", "change_flag", "disconnect"}
Packet == [from : Client, player : Slot \cup {NoPlayer}, msg : Msg]

TypeOK ==
  /\ phase \in Phase
  /\ conn \in [Client -> ConnState]
  /\ player_id \in [Client -> Slot \cup {NoPlayer}]
  /\ wire \in [Client -> Seq(Msg \cup {"eof"})]
  /\ client_list \subseteq Client
  /\ receive_queue \in Seq(Packet)
  /\ connect_queue \in Seq(Client)
  /\ connect_client \in Client \cup {NoClient}
  /\ fsm \in ConnectState
  /\ fsm # "idle" => connect_client \in Client
  /\ sync_count \in Nat
  /\ pstate \in [Slot -> PlayerStatus]
  /\ map_cycle \in MapCycle
  /\ game_state \in GameState
  /\ connection_lock_state \in BOOLEAN

Init ==
  /\ phase = "input"
  /\ conn = [c \in Client |-> "none"]
  /\ player_id = [c \in Client |-> NoPlayer]
  /\ wire = [c \in Client |-> << >>]
  /\ client_list = {}
  /\ receive_queue = << >>
  /\ connect_queue = << >>
  /\ connect_client = NoClient
  /\ fsm = "idle"
  /\ sync_count = 0
  /\ pstate = [p \in Slot |-> "free"]
  /\ map_cycle = "idle"
  /\ game_state = "in_progress"
  /\ connection_lock_state = FALSE

-----------------------------------------------------------------------------
(* Clients.  The replies follow ClientConnectDaemon: a client answers what  *)
(* the server sends in the order it was sent, and TCP keeps that order.     *)

\* The bytes of c end here: it has closed its socket or was cut off.
Left(c) == wire[c] # << >> /\ wire[c][Len(wire[c])] = "eof"

\* The replies a client may give to a message of the server: none when the
\* server refuses it or when the map is not installed, and a request or a ping
\* may be repeated.
Replies(sent) ==
  CASE sent = "start_connect" ->
         {[i \in 1..n |-> "connect_request"] : n \in 1..(1 + MaxRetries)}
    [] sent = "connect_result_success" -> {<<"client_settings">>}
    [] sent = "server_game_settings" ->
         {<< >>} \cup {[i \in 1..n |-> "setup_ping"] \o <<"setup_ack">> :
                         n \in 1..MaxPings}
    [] sent = "unit_profile" -> {<<"next_profile">>}
    [] sent = "sync_complete" -> {<< >>, <<"change_flag">>}
    [] OTHER -> {<< >>}

-----------------------------------------------------------------------------
(* The connect queue and the slots *)

InQueue(c) == \E i \in 1..Len(connect_queue) : connect_queue[i] = c
Connecting(c) == fsm # "idle" /\ connect_client = c
InConnectQueue(c) == Connecting(c) \/ InQueue(c)

\* connect_queue.remove(c), for a queue that holds c at most once.
Without(queue, c) ==
  IF \E i \in 1..Len(queue) : queue[i] = c
  THEN LET i == CHOOSE i \in 1..Len(queue) : queue[i] = c
       IN  SubSeq(queue, 1, i - 1) \o SubSeq(queue, i + 1, Len(queue))
  ELSE queue

\* A setState call on the slot p, which no slot is when p is NoPlayer.
SetSlot(p, status) == [q \in Slot |-> IF q = p THEN status ELSE pstate[q]]
IsActive(p) == pstate[p] \in {"selecting_flag", "active"}
FreeSlots == {p \in Slot : pstate[p] = "free"}

\* Only an open socket has an address; every other one is "not connected".
SameIP(c, d) == IF conn[c] = "open" THEN conn[d] = "open" /\ HostOf[c] = HostOf[d]
                                    ELSE conn[d] # "open"
\* Mutant: the address is never looked up.
MutIsAlreadyConnected(c) == FALSE
IsAlreadyConnected(c) == \E d \in client_list : SameIP(c, d)

\* conn after hardClose of the clients in gone.
Closing(gone) == [c \in Client |-> IF c \in gone /\ conn[c] = "open"
                                  THEN "closed" ELSE conn[c]]

\* NetworkServer::onClientDisconected for a client whose socket is closed, or
\* is being closed by the caller.
Disconnect(c) ==
  /\ conn' = Closing({c})
  /\ wire' = [wire EXCEPT ![c] = << >>]
  /\ connect_queue' = Without(connect_queue, c)
  /\ fsm' = IF Connecting(c) THEN "idle" ELSE fsm
  /\ pstate' = SetSlot(player_id[c], "free")
  /\ UNCHANGED <<player_id, client_list, connect_client, sync_count, game>>

-----------------------------------------------------------------------------
(* mainLoop and inputLoop: the inactivity check and the commands of the     *)
(* console run before the network is read in a tick.                        *)

\* NetworkServer::kickClient: the first entry of the list with that player id,
\* which may be a client whose socket is closed already.
Kick ==
  /\ phase = "input"
  /\ receive_queue = << >>
  /\ \E c \in client_list : player_id[c] # NoPlayer /\ Disconnect(c)
  /\ UNCHANGED <<phase, receive_queue>>

\* What the end of a game sets, whoever ends it.
EndGame ==
  /\ map_cycle' = "display_endgame_views"
  /\ game_state' = "completed"

\* forceMapChange and forceEndRound.
ForceMapChange ==
  /\ RoundsEnd
  /\ phase = "input"
  /\ EndGame
  /\ UNCHANGED <<phase, sockets, server, connecting, pstate,
                 connection_lock_state>>

-----------------------------------------------------------------------------
(* NetworkManager::run: new connections, data and lost peers.  What clients *)
(* do in the meantime is observed here, so it happens here.                 *)

Connect(c) ==
  /\ phase = "input"
  /\ conn[c] = "none"
  /\ conn' = [conn EXCEPT ![c] = "open"]
  /\ player_id' = [player_id EXCEPT ![c] = NoPlayer]
  /\ wire' = [wire EXCEPT ![c] = <<"join_request">>]
  /\ UNCHANGED <<phase, server, connecting, pstate, game>>

\* The player quits (shutdownConnectDaemon says so before it closes) or the
\* connection breaks; what the client had not written yet is never written.
Leave(c) ==
  /\ phase = "input"
  /\ conn[c] = "open" /\ ~Left(c)
  /\ \E k \in 0..Len(wire[c]), last \in {<<"eof">>, <<"disconnect", "eof">>} :
       wire' = [wire EXCEPT ![c] = SubSeq(wire[c], 1, k) \o last]
  /\ UNCHANGED <<phase, conn, player_id, server, connecting, pstate, game>>

\* ClientSocket::onDataReceived queues a packet with its sender and the
\* sender's player id of this moment.
Receive(c) ==
  /\ phase = "input"
  /\ conn[c] = "open"
  /\ wire[c] # << >> /\ Head(wire[c]) # "eof"
  /\ Len(receive_queue) < QMax
  /\ receive_queue' = Append(receive_queue,
       [from |-> c, player |-> player_id[c], msg |-> Head(wire[c])])
  /\ wire' = [wire EXCEPT ![c] = Tail(wire[c])]
  /\ UNCHANGED <<phase, conn, player_id, client_list, connecting, pstate, game>>

\* ClientSocket::onDisconected and onSocketError.
LoseClient(c) ==
  /\ phase = "input"
  /\ conn[c] = "open"
  /\ wire[c] # << >> /\ Head(wire[c]) = "eof"
  /\ Disconnect(c)
  /\ UNCHANGED <<phase, receive_queue>>

-----------------------------------------------------------------------------
(* simLoop *)

\* Mutant: every closed socket is deleted, listed or not.
MutCleanUpClientList ==
  /\ phase = "input"
  /\ conn' = [c \in Client |-> IF conn[c] = "closed" THEN "none" ELSE conn[c]]
  /\ client_list' = {c \in client_list : conn[c] # "closed"}
  /\ phase' = "connect"
  /\ UNCHANGED <<player_id, wire, receive_queue, connecting, pstate, game>>

\* NetworkServer::cleanUpClientList deletes the listed clients that are not
\* connected.  The deleted object keeps its last player_id until the address is
\* used again: that is what a dangling pointer still reads.  An entry that was
\* deleted before is deleted twice, which may end the server.
CleanUpClientList ==
  /\ phase = "input"
  /\ LET dead == {c \in client_list : conn[c] # "open"}
     IN  /\ conn' = [c \in Client |-> IF c \in dead THEN "none" ELSE conn[c]]
         /\ client_list' = client_list \ dead
         /\ phase' \in {"connect"} \cup
                       {p \in {"crashed"} : \E c \in dead : conn[c] = "none"}
  /\ UNCHANGED <<player_id, wire, receive_queue, connecting, pstate, game>>

\* States whose enter() flushes to connect_client, and messages of the server
\* that are flushed as soon as they are written.
FlushingEnter == {"unit_profile_sync", "player_state_sync"}

\* A flush may find that the peer of c has gone: onClientDisconected(c) then
\* runs inside the handler.
MayFail(c) == c \in FlakyClient /\ conn[c] = "open"

\* Where the loss of cc can show: in the handler, before it returns the next
\* state, or in the enter() of that state.
Losses(cc, flushes, new) ==
  {"none"} \cup {l \in {"handler", "enter"} :
                   /\ MayFail(cc)
                   /\ l = "handler" => flushes
                   /\ l = "enter" => new # fsm /\ new \in FlushingEnter}

\* Leaving idle tells every queued client its position and flushes; a queued
\* client whose loss shows there is removed from the list being walked.
QueueLosses(queue, lost) ==
  {NoClient} \cup {d \in Client : /\ fsm = "idle" \/ lost = "handler"
                                  /\ \E i \in 1..Len(queue) : queue[i] = d
                                  /\ MayFail(d)}

(* The outcome of a handler that ends in switchState(new), or in no switch  *)
(* when it returns its own state.  The loss of cc showed at lost, reply is  *)
(* what cc answers, and d is the queued client found lost, if any.  A flush *)
(* of the handler that loses cc makes onClientDisconected enter idle, and   *)
(* the switch to the state the handler returns is then made from there,     *)
(* even if that is its own.  Removing d from the queue under the iterator   *)
(* of idle's leave is undefined: the server crashes or the loop happens to  *)
(* end.                                                                     *)
Outcome(cc, queue, new, ids, slots, lost, reply, d) ==
  LET gone == (IF lost = "none" THEN {} ELSE {cc}) \cup ({d} \ {NoClient})
      stays == new = fsm /\ lost = "none"
  IN  /\ conn' = Closing(gone)
      /\ player_id' = ids
      /\ pstate' = [p \in Slot |-> IF \E c \in gone : ids[c] = p
                                   THEN "free" ELSE slots[p]]
      /\ wire' = [c \in Client |->
                    IF c \in gone THEN << >>
                    ELSE IF c = cc /\ conn[c] = "open" /\ ~Left(c)
                         THEN wire[c] \o reply ELSE wire[c]]
      /\ client_list' = IF new = "unit_sync" /\ ~stays /\ lost # "enter"
                        THEN client_list \cup {cc} ELSE client_list
      /\ connect_queue' = Without(queue, d)
      /\ connect_client' = cc
      /\ fsm' = IF lost = "enter" THEN "idle" ELSE new
      /\ phase' \in {"route"} \cup
                    (IF d = NoClient THEN {} ELSE {"crashed"})
      /\ UNCHANGED game

\* One StateMachine::process or message call with connect_client = cc, whose
\* handler has set the slots and player ids to slots and ids, has left queue in
\* connect_queue and has sent cc the message sent, which it flushed if flushes.
Proceed(cc, queue, new, ids, slots, sent, flushes) ==
  \E lost \in Losses(cc, flushes, new), reply \in Replies(sent) :
    \E d \in QueueLosses(queue, lost) :
      Outcome(cc, queue, new, ids, slots, lost, reply, d)

\* The usual call: nothing but the connecting client is touched.
Advance(new, slots, sent, flushes) ==
  Proceed(connect_client, connect_queue, new, player_id, slots, sent, flushes)

\* Mutant: the last of the queue is served.
MutServeNext ==
  /\ phase = "connect"
  /\ fsm = "idle"
  /\ connect_queue # << >> /\ ~connection_lock_state
  /\ Proceed(connect_queue[Len(connect_queue)],
             SubSeq(connect_queue, 1, Len(connect_queue) - 1),
             "wait_for_connect_request", player_id, pstate,
             "start_connect", TRUE)
  /\ sync_count' = 0
  /\ UNCHANGED receive_queue

ServeNext ==
  /\ phase = "connect"
  /\ fsm = "idle"
  /\ connect_queue # << >> /\ ~connection_lock_state
  /\ Proceed(Head(connect_queue), Tail(connect_queue),
             "wait_for_connect_request", player_id, pstate,
             "start_connect", TRUE)
  /\ sync_count' = 0
  /\ UNCHANGED receive_queue

StayIdle ==
  /\ phase = "connect"
  /\ fsm = "idle"
  /\ connect_queue = << >> \/ connection_lock_state
  /\ phase' = "route"
  /\ UNCHANGED <<sockets, server, connecting, pstate, game>>

PlayerOf(c) == player_id[c]
\* Mutant: the slot of a client that timed out is not freed.
MutFreePlayer == pstate
FreePlayer == SetSlot(PlayerOf(connect_client), "free")

\* The states that wait for the client: three of them and the profile sync
\* once its first profile is out.  time_out_timer is not a clock here: whenever
\* it is looked at it may have run out.
Waiting == \/ fsm \in {"wait_for_connect_request", "wait_for_client_settings",
                       "wait_for_client_game_setup_ack"}
           \/ fsm = "unit_profile_sync" /\ sync_count > 0

KeepWaiting ==
  /\ phase = "connect"
  /\ Waiting
  /\ phase' = "route"
  /\ UNCHANGED <<sockets, server, connecting, pstate, game>>

\* Mutant: the timer is not looked at while the client loads the map.
MutTimeOut ==
  /\ phase = "connect"
  /\ Waiting /\ fsm # "wait_for_client_game_setup_ack"
  /\ Advance("drop_bad_connecting_client",
             IF fsm = "wait_for_connect_request" THEN pstate ELSE FreePlayer,
             "nothing", FALSE)
  /\ sync_count' = 0
  /\ UNCHANGED receive_queue

\* The slot is freed, but wait_for_connect_request has not allocated one yet.
TimeOut ==
  /\ phase = "connect"
  /\ Waiting
  /\ Advance("drop_bad_connecting_client",
             IF fsm = "wait_for_connect_request" THEN pstate ELSE FreePlayer,
             "nothing", FALSE)
  /\ sync_count' = 0
  /\ UNCHANGED receive_queue

\* Mutant: the profile sync goes on to a state the machine does not have.
MutNextSyncUnknown(s) == CASE s = "unit_profile_sync" -> "objective_sync"
                           [] s = "player_state_sync" -> "sync_flags"
                           [] s = "sync_flags" -> "unit_sync"
                           [] s = "unit_sync" -> "finish_connect"
\* Mutant: the unit sync, which lists the client, is skipped.
MutNextSyncSkip(s) == CASE s = "unit_profile_sync" -> "player_state_sync"
                        [] s = "player_state_sync" -> "sync_flags"
                        [] s \in {"sync_flags", "unit_sync"} -> "finish_connect"
NextSync(s) == CASE s = "unit_profile_sync" -> "player_state_sync"
                 [] s = "player_state_sync" -> "sync_flags"
                 [] s = "sync_flags" -> "unit_sync"
                 [] s = "unit_sync" -> "finish_connect"
SyncEnd(s) == IF s = "unit_profile_sync" THEN NumProfiles ELSE NumChunks
\* The messages of this chunk are flushed at once; the unit sync leaves them to
\* the end of the tick, and there is no flag to send when nobody plays.
SyncFlushes(s) == CASE s = "unit_sync" -> FALSE
                    [] s = "sync_flags" -> \E p \in Slot : IsActive(p)
                    [] OTHER -> TRUE

\* Send the next chunk of the sync: when it is the last one go to the next
\* state, otherwise drop the client if the caller finds that it is too late.
SendNext(late) ==
  LET done == sync_count + 1 = SyncEnd(fsm)
      drop == late /\ ~done
      new  == IF done THEN NextSync(fsm)
              ELSE IF drop THEN "drop_bad_connecting_client" ELSE fsm
  IN  /\ Advance(new, IF drop THEN FreePlayer ELSE pstate,
                 IF fsm = "unit_profile_sync" THEN "unit_profile" ELSE "sync",
                 SyncFlushes(fsm))
      /\ sync_count' = IF fsm' = fsm /\ conn' = conn THEN sync_count + 1 ELSE 0

SyncClient ==
  /\ phase = "connect"
  /\ \/ fsm = "unit_profile_sync" /\ sync_count = 0
     \/ fsm \in {"player_state_sync", "sync_flags", "unit_sync"}
  /\ \E late \in BOOLEAN : (late => fsm # "unit_sync") /\ SendNext(late)
  /\ UNCHANGED receive_queue

\* Mutant: the player's state is not set when the handshake ends.
MutFinishConnect ==
  /\ phase = "connect"
  /\ fsm = "finish_connect"
  /\ Advance("idle", pstate, "sync_complete", FALSE)
  /\ sync_count' = 0
  /\ UNCHANGED receive_queue

\* Without a player id there is no PlayerState to set: a null pointer.
FinishConnect ==
  /\ phase = "connect"
  /\ fsm = "finish_connect"
  /\ IF player_id[connect_client] = NoPlayer
     THEN /\ phase' = "crashed"
          /\ UNCHANGED <<sockets, client_list, connecting, pstate, game>>
     ELSE /\ Advance("idle", SetSlot(player_id[connect_client], "selecting_flag"),
                     "sync_complete", FALSE)
          /\ sync_count' = 0
  /\ UNCHANGED receive_queue

\* Mutant: the drop state leaves the socket open.
MutDropBadConnectingClient ==
  /\ phase = "connect"
  /\ fsm = "drop_bad_connecting_client"
  /\ fsm' = "idle"
  /\ phase' = "route"
  /\ UNCHANGED <<sockets, server, connect_queue, connect_client, sync_count,
                 pstate, game>>

\* The drop state closes the socket and tells nobody.
DropBadConnectingClient ==
  /\ phase = "connect"
  /\ fsm = "drop_bad_connecting_client"
  /\ conn' = Closing({connect_client})
  /\ wire' = [wire EXCEPT ![connect_client] = << >>]
  /\ fsm' = "idle"
  /\ phase' = "route"
  /\ UNCHANGED <<player_id, server, connect_queue, connect_client, sync_count,
                 pstate, game>>

\* connect_client points to an object cleanUpClientList has deleted.  Reading
\* it shows the old contents, as in the actions above, or ends the server.
UseDeletedClient ==
  /\ phase = "connect"
  /\ fsm # "idle" /\ conn[connect_client] = "none"
  /\ phase' = "crashed"
  /\ UNCHANGED <<sockets, server, connecting, pstate, game>>

-----------------------------------------------------------------------------
(* routeMessages: every queued packet, before the tick ends *)

packet == Head(receive_queue)
Routing(kinds) ==
  /\ phase = "route"
  /\ receive_queue # << >>
  /\ packet.msg \in kinds
  /\ receive_queue' = Tail(receive_queue)

\* niceDisconnect closes the sender if client_list holds it, and ignores the
\* notice of a client that is not listed yet.
ClientDisconnect ==
  /\ Routing({"disconnect"})
  /\ IF packet.from \in client_list
     THEN Disconnect(packet.from)
     ELSE UNCHANGED <<sockets, client_list, connecting, pstate, game>>
  /\ UNCHANGED phase

\* A join request: a client that is refused is closed once it is told so; the
\* others are queued unless they are in the queue or being let in.
JoinRequest ==
  /\ Routing({"join_request"})
  /\ LET c == packet.from
         known == InConnectQueue(c)
         bad == c \in Refused \/ (~known /\ Len(connect_queue) >= MaxQueue)
         queue == IF bad \/ known THEN connect_queue ELSE Append(connect_queue, c)
     IN  \E lost \in {FALSE} \cup {l \in {TRUE} : MayFail(c)} :
           LET closed == IF lost \/ bad THEN {c} ELSE {}
           IN  /\ conn' = Closing(closed)
               /\ wire' = [d \in Client |-> IF d \in closed THEN << >> ELSE wire[d]]
               /\ connect_queue' = IF lost THEN Without(queue, c) ELSE queue
               /\ fsm' = IF lost /\ Connecting(c) THEN "idle" ELSE fsm
               /\ pstate' = IF lost THEN SetSlot(player_id[c], "free")
                                    ELSE pstate
  /\ UNCHANGED <<phase, player_id, client_list, connect_client, sync_count,
                 game>>

\* playerRequest_changeFlag activates the slot of the packet unconditionally.
ChangeFlag ==
  /\ Routing({"change_flag"})
  /\ pstate' = SetSlot(packet.player, "active")
  /\ UNCHANGED <<phase, sockets, client_list, connecting, game>>

\* All other connect messages go to the state machine, whoever sent them.
FsmMessage(state, kinds) == Routing(kinds) /\ fsm = state

\* Any other message drops the client; so do a second client of its address
\* and a server without a free slot.
ConnectRequest ==
  /\ FsmMessage("wait_for_connect_request", ConnectMsg)
  /\ LET cc == connect_client
         full == FreeSlots = {}
     IN  IF packet.msg # "connect_request"
         THEN Advance("drop_bad_connecting_client", pstate, "nothing", FALSE)
         ELSE IF (~AllowMultiIp /\ IsAlreadyConnected(cc)) \/ full
         THEN Advance("drop_bad_connecting_client", pstate,
                      "connect_result_refused", TRUE)
         ELSE \E p \in FreeSlots :
                /\ \A q \in FreeSlots : p <= q
                /\ Proceed(cc, connect_queue, "wait_for_client_settings",
                           [player_id EXCEPT ![cc] = p], SetSlot(p, "allocated"),
                           "connect_result_success", TRUE)
  /\ sync_count' = 0

ClientSettings ==
  /\ FsmMessage("wait_for_client_settings", {"client_settings"})
  /\ Advance("wait_for_client_game_setup_ack",
             SetSlot(PlayerOf(connect_client), "connecting"),
             "server_game_settings", TRUE)
  /\ sync_count' = 0

GameSetupAck ==
  /\ FsmMessage("wait_for_client_game_setup_ack", {"setup_ack"})
  /\ Advance("unit_profile_sync", pstate, "player_connect_id", FALSE)
  /\ sync_count' = 0

SendNextProfile ==
  /\ FsmMessage("unit_profile_sync", {"next_profile"})
  /\ SendNext(FALSE)

\* A ping resets the timer in the states after the settings and is nothing else.
Handled == CASE fsm = "wait_for_connect_request" -> ConnectMsg
             [] fsm = "wait_for_client_settings" -> {"client_settings"}
             [] fsm = "wait_for_client_game_setup_ack" -> {"setup_ack"}
             [] fsm = "unit_profile_sync" -> {"next_profile"}
             [] OTHER -> {}
IgnoreMessage ==
  /\ Routing(ConnectMsg \ Handled)
  /\ UNCHANGED <<phase, sockets, client_list, connecting, pstate, game>>

-----------------------------------------------------------------------------
(* updateGameControlFlow, once all packets of the tick are routed *)

\* The end of a round keeps new handshakes from starting.
EndRound ==
  /\ map_cycle = "display_endgame_views"
  /\ map_cycle' = "cycle_next_map"
  /\ connection_lock_state' = TRUE
  /\ UNCHANGED game_state

\* Mutant: the next map does not wait for the handshake.
MutNextMap ==
  /\ map_cycle = "cycle_next_map"
  /\ map_cycle' = "changing"
  /\ UNCHANGED <<game_state, connection_lock_state>>

\* The next map is loaded once the end has been shown for its time and the
\* handshake that was going on is over; the clients load it in "changing".
NextMap ==
  /\ map_cycle = "cycle_next_map"
  /\ fsm = "idle"
  /\ map_cycle' = "changing"
  /\ UNCHANGED <<game_state, connection_lock_state>>

\* respawn_players, without teams: the clients start over on the new map.
RespawnPlayers ==
  /\ map_cycle = "changing"
  /\ map_cycle' = "idle"
  /\ connection_lock_state' = FALSE
  /\ UNCHANGED game_state

\* checkGameRules may find that the round is over, while the game is on.
GameOver ==
  /\ RoundsEnd
  /\ game_state = "in_progress"
  /\ EndGame
  /\ UNCHANGED connection_lock_state

Control(step) ==
  /\ phase = "route" /\ receive_queue = << >>
  /\ step
  /\ phase' = "input"
  /\ UNCHANGED <<sockets, server, connecting, pstate>>

ShowEndRound == Control(EndRound)
LoadNextMap == Control(NextMap)
StartRound == Control(RespawnPlayers)
FinishRound == Control(GameOver)
KeepPlaying == Control(map_cycle # "display_endgame_views" /\ UNCHANGED game)

-----------------------------------------------------------------------------
ConnectProcess == \/ ServeNext \/ StayIdle \/ KeepWaiting \/ TimeOut
                  \/ SyncClient \/ FinishConnect \/ DropBadConnectingClient
                  \/ UseDeletedClient
RoutePacket == \/ ClientDisconnect \/ JoinRequest \/ ChangeFlag
               \/ ConnectRequest \/ ClientSettings \/ GameSetupAck
               \/ SendNextProfile \/ IgnoreMessage
UpdateGameControlFlow == \/ ShowEndRound \/ LoadNextMap \/ StartRound
                         \/ FinishRound \/ KeepPlaying
MainLoop == \/ CleanUpClientList \/ ConnectProcess \/ RoutePacket
            \/ UpdateGameControlFlow

Next ==
  \/ Kick
  \/ ForceMapChange
  \/ \E c \in Client : Connect(c) \/ Leave(c) \/ Receive(c) \/ LoseClient(c)
  \/ MainLoop

Spec == Init /\ [][Next]_vars

\* The main loop goes on, a timer that is not reset for ever runs out, and so
\* do the timers of the end of a round.
Fairness == /\ WF_vars(CleanUpClientList)
            /\ WF_vars(ConnectProcess)
            /\ WF_vars(RoutePacket)
            /\ WF_vars(UpdateGameControlFlow)
            /\ SF_vars(TimeOut)
            /\ SF_vars(LoadNextMap)
            /\ SF_vars(StartRound)
FairSpec == Spec /\ Fairness

-----------------------------------------------------------------------------
(* Properties *)

Open(c) == conn[c] = "open"
\* A player the server has let in and not lost.
Seated(c) == c \in client_list /\ Open(c) /\ ~Connecting(c)

\* Two connections never command the same slot: commands and units are
\* attributed by player_id alone.
OneOwnerPerSlot ==
  \A c, d \in Client :
    c # d /\ Open(c) /\ Open(d) /\ player_id[c] # NoPlayer
      => player_id[c] # player_id[d]

\* A connection with a slot is in client_list or is the one being let in:
\* neither broadcasts nor kicks nor the cleanup reach any other, so its slot
\* would be held by nobody the server still knows.
NoLimbo ==
  \A c \in Client :
    Open(c) /\ player_id[c] # NoPlayer => c \in client_list \/ Connecting(c)

\* A player who was let in keeps an active slot until it leaves, whatever
\* other clients time out, are kicked or disappear in the meantime.
SeatedHaveSlots ==
  \A c \in Client :
    Seated(c) => player_id[c] # NoPlayer /\ IsActive(player_id[c])

\* connect_queue holds raw pointers: each client waits at most once, is still
\* allocated, and is not already being let in or playing.
QueueIsSound ==
  \A i \in 1..Len(connect_queue) :
    LET c == connect_queue[i]
    IN  /\ conn[c] # "none" /\ ~Connecting(c) /\ c \notin client_list
        /\ \A j \in 1..Len(connect_queue) : connect_queue[j] = c => j = i

\* The handler of a join request answers through the sender's pointer, which
\* the cleanup between reading and routing must not have deleted.
JoinersExist ==
  \A i \in 1..Len(receive_queue) :
    receive_queue[i].msg = "join_request"
      => conn[receive_queue[i].from] # "none"

\* While the map is exchanged nobody is being let in, since the settings and
\* units sent to it would be those of the old map.
MapChangeIsQuiet ==
  map_cycle = "changing" => fsm = "idle" /\ connection_lock_state

\* With game_allowmultiip off two players never come from one address.
OnePerHost ==
  ~AllowMultiIp => \A c, d \in Client :
    Seated(c) /\ Seated(d) /\ HostOf[c] = HostOf[d] => c = d

\* Every handshake ends, also when the client falls silent at any point.
HandshakesEnd == (fsm # "idle") ~> (fsm = "idle")

\* A client that was put into the queue gets its turn or leaves, if the ends of
\* rounds do not hold the lock for ever.
QueuedAreServed ==
  []<>(~connection_lock_state) =>
    \A c \in Client : InQueue(c) ~> ~InQueue(c)

\* (violated) A message of another client never drops the one being let in.
ForeignMessagesDropNobody ==
  [][receive_queue # << >> /\ packet.from # connect_client
       /\ fsm # "drop_bad_connecting_client" /\ phase = "route"
     => fsm' # "drop_bad_connecting_client"]_vars

\* (violated) Once the next map is played the rules of the game apply again:
\* destroyed players respawn and the round can be won.
RoundsResume == map_cycle = "idle" => game_state = "in_progress"

\* (violated) An active slot has a connected player.
ActiveSlotsHavePlayers ==
  \A p \in Slot :
    IsActive(p) => \E c \in client_list : Open(c) /\ player_id[c] = p

\* (violated) The client being let in has not been deleted.
ConnectClientExists == fsm # "idle" => conn[connect_client] # "none"

\* A slot that is allocated but not yet played belongs to the handshake in
\* progress; any other would stay taken for ever.  That is so until
\* connect_client is deleted: a client at its address then gets no player id,
\* and nobody remembers which slot the handshake had.
SetupSlotIsHeld ==
  \A p \in Slot :
    pstate[p] \in {"allocated", "connecting"}
      => fsm # "idle" /\ player_id[connect_client] = p
SetupSlotsAreHeld == []ConnectClientExists => []SetupSlotIsHeld

-----------------------------------------------------------------------------
(* What the players are promised *)

Service == INSTANCE JoinService WITH
  Capacity <- Cardinality(Slot),
  waiting <- connect_queue,
  serving <- IF fsm = "idle" THEN NoClient ELSE connect_client,
  seated <- {c \in Client : Seated(c)}

\* The server implements the service: whoever times out, is kicked, is refused,
\* leaves or is found gone by a send, players are let in one at a time, in the
\* order they asked, and never more of them than there are slots.
JoinServiceSpec == Service!Spec
=============================================================================
