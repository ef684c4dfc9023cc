------------------------ MODULE ServerConnect_proofs ------------------------
(***************************************************************************)
(* Proofs about ServerConnect for any numbers of clients and slots, any    *)
(* bounds, and any set of clients whose loss a send is the first to see.   *)
(***************************************************************************)
EXTENDS ServerConnect, SequenceTheorems, TLAPS

USE ClientAssumption, SlotAssumption, BoundAssumption
    DEF ClientAssumption, SlotAssumption, BoundAssumption

WireMsg == Msg \cup {"eof"}

-----------------------------------------------------------------------------
(* Lemmas about the operators *)

\* Taking a client out of the queue leaves a queue of clients.
LEMMA WithoutType ==
  ASSUME NEW S, NEW queue \in Seq(S), NEW c
  PROVE  Without(queue, c) \in Seq(S)
<1>1. CASE \E i \in 1..Len(queue) : queue[i] = c
  <2> DEFINE i == CHOOSE i \in 1..Len(queue) : queue[i] = c
  <2>1. i \in 1..Len(queue)
    BY <1>1
  <2>2. Len(queue) \in Nat
    BY LenProperties
  <2> HIDE DEF i
  <2>3. \A j \in 1..(i - 1) : queue[j] \in S
    BY <2>1, <2>2, ElementOfSeq
  <2>4. \A j \in (i + 1)..Len(queue) : queue[j] \in S
    BY <2>1, <2>2, ElementOfSeq
  <2>5. SubSeq(queue, 1, i - 1) \in Seq(S)
    BY <2>1, <2>2, <2>3, SubSeqProperties
  <2>6. SubSeq(queue, i + 1, Len(queue)) \in Seq(S)
    BY <2>1, <2>2, <2>4, SubSeqProperties
  <2>7. SubSeq(queue, 1, i - 1) \o SubSeq(queue, i + 1, Len(queue)) \in Seq(S)
    BY <2>5, <2>6, ConcatProperties
  <2>8. QED
    BY <1>1, <2>7 DEF Without, i
<1>2. CASE ~ \E i \in 1..Len(queue) : queue[i] = c
  BY <1>2 DEF Without
<1>3. QED
  BY <1>1, <1>2

\* Whatever the server sends, the replies are messages of the protocol.
LEMMA RepliesType ==
  ASSUME NEW sent, NEW reply \in Replies(sent)
  PROVE  reply \in Seq(WireMsg)
<1>1. \A n \in Nat : [i \in 1..n |-> "connect_request"] \in Seq(WireMsg)
  BY SeqDef DEF WireMsg, Msg, ConnectMsg
<1>2. \A n \in Nat : [i \in 1..n |-> "setup_ping"] \in Seq(WireMsg)
  BY SeqDef DEF WireMsg, Msg, ConnectMsg
<1>3. /\ << >> \in Seq(WireMsg) /\ <<"client_settings">> \in Seq(WireMsg)
      /\ <<"setup_ack">> \in Seq(WireMsg) /\ <<"next_profile">> \in Seq(WireMsg)
      /\ <<"change_flag">> \in Seq(WireMsg)
  BY DEF WireMsg, Msg, ConnectMsg
<1>4. \A n \in Nat : [i \in 1..n |-> "setup_ping"] \o <<"setup_ack">>
                       \in Seq(WireMsg)
  BY <1>2, <1>3, ConcatProperties
<1>5. CASE sent = "start_connect"
  BY <1>1, <1>5 DEF Replies
<1>6. CASE sent = "server_game_settings"
  <2>1. \/ reply = << >>
        \/ \E n \in 1..MaxPings :
             reply = [i \in 1..n |-> "setup_ping"] \o <<"setup_ack">>
    BY <1>6, Zenon DEF Replies
  <2>2. \A n \in 1..MaxPings : n \in Nat
    OBVIOUS
  <2>3. QED
    BY <1>3, <1>4, <2>1, <2>2, Zenon
<1>7. CASE sent \notin {"start_connect", "server_game_settings"}
  BY <1>3, <1>7 DEF Replies
<1>8. QED
  BY <1>5, <1>6, <1>7

LEMMA ClosingType ==
  ASSUME TypeOK, NEW gone
  PROVE  Closing(gone) \in [Client -> ConnState]
BY DEF Closing, TypeOK, ConnState

\* Adding client replies to a wire, or cutting it, keeps it a sequence.
LEMMA WireConcat ==
  ASSUME NEW w \in Seq(WireMsg), NEW v \in Seq(WireMsg)
  PROVE  w \o v \in Seq(WireMsg)
BY ConcatProperties

LEMMA SetSlotType ==
  ASSUME TypeOK, NEW p, NEW status \in PlayerStatus
  PROVE  SetSlot(p, status) \in [Slot -> PlayerStatus]
BY DEF SetSlot, TypeOK

-----------------------------------------------------------------------------
(* Type correctness *)

\* What a step of the state machine leaves well typed.  sync_count and the
\* packets are set by the actions themselves.
StepTypeOK ==
  /\ phase \in Phase
  /\ conn \in [Client -> ConnState]
  /\ player_id \in [Client -> Slot \cup {NoPlayer}]
  /\ wire \in [Client -> Seq(WireMsg)]
  /\ client_list \subseteq Client
  /\ connect_queue \in Seq(Client)
  /\ connect_client \in Client \cup {NoClient}
  /\ fsm \in ConnectState
  /\ fsm # "idle" => connect_client \in Client
  /\ pstate \in [Slot -> PlayerStatus]
  /\ map_cycle \in MapCycle
  /\ game_state \in GameState
  /\ connection_lock_state \in BOOLEAN

LEMMA ProceedType ==
  ASSUME TypeOK,
         NEW cc \in Client, NEW queue \in Seq(Client),
         NEW new \in ConnectState,
         NEW ids \in [Client -> Slot \cup {NoPlayer}],
         NEW slots \in [Slot -> PlayerStatus],
         NEW sent, NEW flushes,
         Proceed(cc, queue, new, ids, slots, sent, flushes)
  PROVE  StepTypeOK'
<1>1. PICK lost \in Losses(cc, flushes, new), reply \in Replies(sent) :
        \E d \in QueueLosses(queue, lost) :
          Outcome(cc, queue, new, ids, slots, lost, reply, d)
  BY Zenon DEF Proceed
<1>2. reply \in Seq(WireMsg)
  BY RepliesType
<1>3. \A c \in Client : wire[c] \o reply \in Seq(WireMsg)
  BY <1>2, WireConcat DEF TypeOK, WireMsg
<1>4. \A d : Without(queue, d) \in Seq(Client)
  BY WithoutType
<1>5. conn' \in [Client -> ConnState]
  <2>1. \E gone : conn' = Closing(gone)
    BY <1>1 DEF Outcome
  <2>2. QED
    BY <2>1, ClosingType
<1>6. pstate' \in [Slot -> PlayerStatus]
  BY <1>1 DEF Outcome, TypeOK, PlayerStatus
<1>7. wire' \in [Client -> Seq(WireMsg)]
  BY <1>1, <1>3 DEF Outcome, TypeOK, WireMsg
<1>8. client_list' \subseteq Client /\ connect_queue' \in Seq(Client)
  BY <1>1, <1>4 DEF Outcome, TypeOK
<1>9. fsm' \in ConnectState /\ phase' \in Phase
  BY <1>1 DEF Outcome, TypeOK, ConnectState, Phase
<1>10. /\ player_id' = ids /\ connect_client' = cc
       /\ map_cycle' \in MapCycle /\ game_state' \in GameState
       /\ connection_lock_state' \in BOOLEAN
  BY <1>1 DEF Outcome, TypeOK, game
<1>11. QED
  BY <1>5, <1>6, <1>7, <1>8, <1>9, <1>10 DEF StepTypeOK

LEMMA AdvanceType ==
  ASSUME TypeOK, fsm # "idle", NEW new \in ConnectState,
         NEW slots \in [Slot -> PlayerStatus], NEW sent, NEW flushes,
         Advance(new, slots, sent, flushes)
  PROVE  StepTypeOK'
<1>1. /\ connect_client \in Client /\ connect_queue \in Seq(Client)
      /\ player_id \in [Client -> Slot \cup {NoPlayer}]
  BY DEF TypeOK
<1>2. QED
  BY <1>1, ProceedType DEF Advance

LEMMA DisconnectType ==
  ASSUME TypeOK, NEW c \in Client, Disconnect(c), UNCHANGED phase
  PROVE  StepTypeOK' /\ sync_count' \in Nat
<1>1. connect_queue' \in Seq(Client)
  BY WithoutType DEF TypeOK, Disconnect
<1>2. pstate' \in [Slot -> PlayerStatus]
  BY SetSlotType DEF Disconnect, PlayerStatus
<1>3. wire' \in [Client -> Seq(WireMsg)] /\ conn' \in [Client -> ConnState]
  BY ClosingType, EmptySeq DEF Disconnect, TypeOK, WireMsg
<1>4. fsm' \in ConnectState /\ (fsm' # "idle" => connect_client' \in Client)
  BY DEF Disconnect, TypeOK, ConnectState
<1>5. QED
  BY <1>1, <1>2, <1>3, <1>4 DEF Disconnect, TypeOK, StepTypeOK, game

\* The packet being routed, and what is left of the queue.
LEMMA PacketType ==
  ASSUME TypeOK, NEW kinds, Routing(kinds)
  PROVE  packet \in Packet /\ receive_queue' \in Seq(Packet)
BY HeadTailProperties DEF TypeOK, Routing, packet

LEMMA FreePlayerType ==
  ASSUME TypeOK
  PROVE  FreePlayer \in [Slot -> PlayerStatus]
BY SetSlotType DEF FreePlayer, PlayerStatus

LEMMA SendNextType ==
  ASSUME TypeOK, NEW late \in BOOLEAN, SendNext(late),
         fsm \in {"unit_profile_sync", "player_state_sync", "sync_flags",
                  "unit_sync"}
  PROVE  StepTypeOK' /\ sync_count' \in Nat
<1> DEFINE done == sync_count + 1 = SyncEnd(fsm)
           drop == late /\ ~done
           new == IF done THEN NextSync(fsm)
                  ELSE IF drop THEN "drop_bad_connecting_client" ELSE fsm
           slots == IF drop THEN FreePlayer ELSE pstate
           sent == IF fsm = "unit_profile_sync" THEN "unit_profile" ELSE "sync"
<1>1. Advance(new, slots, sent, SyncFlushes(fsm))
  BY DEF SendNext
<1>2. NextSync(fsm) \in ConnectState
  BY DEF NextSync, ConnectState
<1>3. new \in ConnectState
  BY <1>2 DEF TypeOK, ConnectState
<1>4. slots \in [Slot -> PlayerStatus]
  BY FreePlayerType DEF TypeOK
<1> HIDE DEF new, slots, sent
<1>5. StepTypeOK'
  BY <1>1, <1>3, <1>4, AdvanceType
<1>6. sync_count' \in Nat
  BY DEF SendNext, TypeOK
<1>7. QED
  BY <1>5, <1>6

\* A step of the main loop or of a client keeps every variable in its type.
LEMMA TypeStep == TypeOK /\ [Next]_vars => TypeOK'
<1> SUFFICES ASSUME TypeOK, [Next]_vars
             PROVE  TypeOK'
  OBVIOUS
<1>u. TypeOK' <=> StepTypeOK' /\ receive_queue' \in Seq(Packet) /\ sync_count' \in Nat
  BY DEF TypeOK, StepTypeOK, WireMsg
<1>p. pstate \in [Slot -> PlayerStatus]
  BY DEF TypeOK
<1>1. CASE Kick
  BY <1>1, <1>u, DisconnectType DEF Kick, TypeOK
<1>2. CASE ForceMapChange
  BY <1>2 DEF ForceMapChange, EndGame, TypeOK, MapCycle, GameState, sockets, server, connecting
<1>3. ASSUME NEW c \in Client, Connect(c)
      PROVE  TypeOK'
  <2>1. <<"join_request">> \in Seq(WireMsg)
    BY DEF WireMsg, Msg
  <2>2. QED
    BY <1>3, <2>1 DEF Connect, TypeOK, ConnState, WireMsg, server, connecting, game
<1>4. ASSUME NEW c \in Client, Leave(c)
      PROVE  TypeOK'
  <2>1. PICK k \in 0..Len(wire[c]), last \in {<<"eof">>, <<"disconnect", "eof">>} :
          wire' = [wire EXCEPT ![c] = SubSeq(wire[c], 1, k) \o last]
    BY <1>4 DEF Leave
  <2>2. wire[c] \in Seq(WireMsg) /\ Len(wire[c]) \in Nat
    BY LenProperties DEF TypeOK, WireMsg
  <2>3. \A i \in 1..k : wire[c][i] \in WireMsg
    BY <2>2, ElementOfSeq
  <2>4. SubSeq(wire[c], 1, k) \in Seq(WireMsg)
    BY <2>2, <2>3, SubSeqProperties
  <2>5. last \in Seq(WireMsg)
    <3>1. "eof" \in WireMsg /\ "disconnect" \in WireMsg
      BY DEF WireMsg, Msg
    <3>2. <<"eof">> \in Seq(WireMsg) /\ <<"disconnect", "eof">> \in Seq(WireMsg)
      BY <3>1
    <3>3. QED
      BY <3>2
  <2>6. SubSeq(wire[c], 1, k) \o last \in Seq(WireMsg)
    BY <2>4, <2>5, WireConcat
  <2>7. QED
    BY <1>4, <2>1, <2>6 DEF Leave, TypeOK, WireMsg, server, connecting, game
<1>5. ASSUME NEW c \in Client, Receive(c)
      PROVE  TypeOK'
  <2>1. wire[c] \in Seq(WireMsg) /\ wire[c] # << >> /\ Head(wire[c]) # "eof"
    BY <1>5 DEF Receive, TypeOK, WireMsg
  <2>2. Head(wire[c]) \in Msg /\ Tail(wire[c]) \in Seq(WireMsg)
    BY <2>1, HeadTailProperties DEF WireMsg
  <2>3. [from |-> c, player |-> player_id[c], msg |-> Head(wire[c])] \in Packet
    BY <2>2 DEF TypeOK, Packet
  <2>4. receive_queue' \in Seq(Packet)
    BY <1>5, <2>3 DEF Receive, TypeOK
  <2>5. wire' \in [Client -> Seq(WireMsg)]
    BY <1>5, <2>2 DEF Receive, TypeOK, WireMsg
  <2>6. QED
    BY <1>5, <2>4, <2>5 DEF Receive, TypeOK, WireMsg, connecting, game
<1>6. ASSUME NEW c \in Client, LoseClient(c)
      PROVE  TypeOK'
  BY <1>6, <1>u, DisconnectType DEF LoseClient, TypeOK
<1>7. CASE CleanUpClientList
  BY <1>7 DEF CleanUpClientList, TypeOK, ConnState, Phase, connecting, game
<1>8. CASE ConnectProcess
  <2>1. CASE ServeNext
    <3>1. Head(connect_queue) \in Client /\ Tail(connect_queue) \in Seq(Client)
      BY <2>1, HeadTailProperties DEF ServeNext, TypeOK
    <3>2. StepTypeOK'
      BY <2>1, <3>1, ProceedType DEF ServeNext, TypeOK, ConnectState
    <3>3. QED
      BY <2>1, <3>2, <1>u DEF ServeNext, TypeOK
  <2>2. CASE StayIdle \/ KeepWaiting \/ UseDeletedClient
    BY <2>2 DEF StayIdle, KeepWaiting, UseDeletedClient, TypeOK, Phase,
                sockets, server, connecting, game
  <2>3. CASE TimeOut
    <3> DEFINE slots == IF fsm = "wait_for_connect_request" THEN pstate
                        ELSE FreePlayer
    <3>1. Advance("drop_bad_connecting_client", slots, "nothing", FALSE)
      BY <2>3 DEF TimeOut
    <3>2. slots \in [Slot -> PlayerStatus]
      BY FreePlayerType DEF TypeOK
    <3>3. fsm # "idle" /\ "drop_bad_connecting_client" \in ConnectState
      BY <2>3 DEF TimeOut, Waiting, ConnectState
    <3> HIDE DEF slots
    <3>4. StepTypeOK'
      BY <3>1, <3>2, <3>3, AdvanceType
    <3>5. QED
      BY <2>3, <3>4, <1>u DEF TimeOut, TypeOK
  <2>4. CASE SyncClient
    <3>1. StepTypeOK' /\ sync_count' \in Nat
      BY <2>4, SendNextType DEF SyncClient
    <3>2. QED
      BY <2>4, <3>1, <1>u DEF SyncClient, TypeOK
  <2>5. CASE FinishConnect
    <3>1. CASE player_id[connect_client] = NoPlayer
      BY <2>5, <3>1 DEF FinishConnect, TypeOK, Phase, sockets, connecting, game
    <3>2. CASE player_id[connect_client] # NoPlayer
      <4>1. SetSlot(player_id[connect_client], "selecting_flag")
              \in [Slot -> PlayerStatus]
        BY SetSlotType DEF PlayerStatus
      <4>2. StepTypeOK'
        BY <2>5, <3>2, <4>1, AdvanceType DEF FinishConnect, ConnectState
      <4>3. QED
        BY <2>5, <3>2, <4>2, <1>u DEF FinishConnect, TypeOK
    <3>3. QED
      BY <3>1, <3>2
  <2>6. CASE DropBadConnectingClient
    BY <2>6, ClosingType, EmptySeq DEF DropBadConnectingClient, TypeOK,
                                       ConnectState, Phase, server, game
  <2>7. QED
    BY <1>8, <2>1, <2>2, <2>3, <2>4, <2>5, <2>6 DEF ConnectProcess
<1>9. CASE RoutePacket
  <2>1. CASE ClientDisconnect
    <3>1. packet \in Packet /\ receive_queue' \in Seq(Packet)
      BY <2>1, PacketType DEF ClientDisconnect
    <3>2. CASE packet.from \in client_list
      <4>1. packet.from \in Client /\ Disconnect(packet.from) /\ UNCHANGED phase
        BY <2>1, <3>2 DEF ClientDisconnect, TypeOK
      <4>2. QED
        BY <3>1, <4>1, <1>u, DisconnectType
    <3>3. CASE packet.from \notin client_list
      BY <2>1, <3>1, <3>3 DEF ClientDisconnect, TypeOK, sockets, connecting, game
    <3>4. QED
      BY <3>2, <3>3
  <2>2. CASE JoinRequest
    <3>1. packet \in Packet /\ receive_queue' \in Seq(Packet)
      BY <2>2, PacketType DEF JoinRequest
    <3>2. packet.from \in Client
      BY <3>1 DEF Packet
    <3>3. Append(connect_queue, packet.from) \in Seq(Client)
      BY <3>2 DEF TypeOK
    <3>4. \A queue \in Seq(Client) : \A c : Without(queue, c) \in Seq(Client)
      BY WithoutType
    <3>5. connect_queue' \in Seq(Client)
      <4>1. connect_queue \in Seq(Client)
        BY DEF TypeOK
      <4>2. \E q \in {connect_queue, Append(connect_queue, packet.from)} :
              connect_queue' \in {q, Without(q, packet.from)}
        BY <2>2, Zenon DEF JoinRequest
      <4>3. QED
        BY <3>3, <3>4, <4>1, <4>2, Zenon
    <3>6. SetSlot(player_id[packet.from], "free") \in [Slot -> PlayerStatus]
      BY SetSlotType DEF PlayerStatus
    <3>7. pstate' \in [Slot -> PlayerStatus]
      BY <2>2, <3>6 DEF JoinRequest, TypeOK
    <3>8. /\ conn' \in [Client -> ConnState]
          /\ wire' \in [Client -> Seq(WireMsg)]
          /\ fsm' \in {fsm, "idle"}
      BY <2>2, <3>2, ClosingType, EmptySeq DEF JoinRequest, TypeOK, WireMsg
    <3>9. UNCHANGED <<phase, player_id, client_list, connect_client, sync_count,
                      map_cycle, game_state, connection_lock_state>>
      BY <2>2 DEF JoinRequest, game
    <3>10. QED
      BY <3>1, <3>5, <3>7, <3>8, <3>9 DEF TypeOK, WireMsg, ConnectState
  <2>3. CASE ChangeFlag
    <3>1. packet \in Packet /\ receive_queue' \in Seq(Packet)
      BY <2>3, PacketType DEF ChangeFlag
    <3>2. pstate' \in [Slot -> PlayerStatus]
      BY <2>3, SetSlotType DEF ChangeFlag, PlayerStatus
    <3>3. QED
      BY <2>3, <3>1, <3>2 DEF ChangeFlag, TypeOK, sockets, connecting, game
  <2>4. CASE ConnectRequest
    <3>1. receive_queue' \in Seq(Packet)
      BY <2>4, PacketType DEF ConnectRequest, FsmMessage
    <3>2. fsm = "wait_for_connect_request" /\ sync_count' = 0
          /\ connect_client \in Client /\ connect_queue \in Seq(Client)
          /\ player_id \in [Client -> Slot \cup {NoPlayer}]
      BY <2>4 DEF ConnectRequest, FsmMessage, TypeOK
    <3>3. \/ \E sent, flushes :
               Advance("drop_bad_connecting_client", pstate, sent, flushes)
          \/ \E p \in Slot :
               Proceed(connect_client, connect_queue, "wait_for_client_settings",
                       [player_id EXCEPT ![connect_client] = p],
                       SetSlot(p, "allocated"), "connect_result_success", TRUE)
      BY <2>4 DEF ConnectRequest, FreeSlots
    <3>4. ASSUME NEW sent, NEW flushes,
                 Advance("drop_bad_connecting_client", pstate, sent, flushes)
          PROVE  StepTypeOK'
      BY <3>2, <3>4, <1>p, AdvanceType DEF ConnectState
    <3>5. ASSUME NEW p \in Slot,
                 Proceed(connect_client, connect_queue, "wait_for_client_settings",
                         [player_id EXCEPT ![connect_client] = p],
                         SetSlot(p, "allocated"), "connect_result_success", TRUE)
          PROVE  StepTypeOK'
      <4>1. SetSlot(p, "allocated") \in [Slot -> PlayerStatus]
        BY SetSlotType DEF PlayerStatus
      <4>2. [player_id EXCEPT ![connect_client] = p]
              \in [Client -> Slot \cup {NoPlayer}]
        BY <3>2
      <4>3. "wait_for_client_settings" \in ConnectState
        BY DEF ConnectState
      <4>4. QED
        BY <3>2, <3>5, <4>1, <4>2, <4>3, ProceedType
    <3>6. QED
      BY <3>1, <3>2, <3>3, <3>4, <3>5, <1>u
  <2>5. CASE ClientSettings
    <3>1. receive_queue' \in Seq(Packet)
      BY <2>5, PacketType DEF ClientSettings, FsmMessage
    <3>2. SetSlot(PlayerOf(connect_client), "connecting") \in [Slot -> PlayerStatus]
      BY SetSlotType DEF PlayerStatus
    <3>3. StepTypeOK'
      BY <2>5, <3>2, AdvanceType DEF ClientSettings, FsmMessage, ConnectState
    <3>4. QED
      BY <2>5, <3>1, <3>3, <1>u DEF ClientSettings
  <2>6. CASE GameSetupAck
    <3>1. receive_queue' \in Seq(Packet)
      BY <2>6, PacketType DEF GameSetupAck, FsmMessage
    <3>2. StepTypeOK'
      BY <2>6, <1>p, AdvanceType DEF GameSetupAck, FsmMessage, ConnectState
    <3>3. QED
      BY <2>6, <3>1, <3>2, <1>u DEF GameSetupAck
  <2>7. CASE SendNextProfile
    <3>1. receive_queue' \in Seq(Packet)
      BY <2>7, PacketType DEF SendNextProfile, FsmMessage
    <3>2. StepTypeOK' /\ sync_count' \in Nat
      BY <2>7, SendNextType DEF SendNextProfile, FsmMessage
    <3>3. QED
      BY <3>1, <3>2, <1>u
  <2>8. CASE IgnoreMessage
    <3>1. receive_queue' \in Seq(Packet)
      BY <2>8, PacketType DEF IgnoreMessage
    <3>2. QED
      BY <2>8, <3>1 DEF IgnoreMessage, TypeOK, sockets, connecting, game
  <2>9. QED
    BY <1>9, <2>1, <2>2, <2>3, <2>4, <2>5, <2>6, <2>7, <2>8 DEF RoutePacket
<1>10. CASE UpdateGameControlFlow
  BY <1>10 DEF UpdateGameControlFlow, ShowEndRound, LoadNextMap, StartRound,
               FinishRound, KeepPlaying, Control, EndRound, NextMap,
               RespawnPlayers, GameOver, EndGame, TypeOK, MapCycle,
               GameState, Phase, sockets,
               server, connecting, game
<1>11. CASE UNCHANGED vars
  BY <1>11 DEF vars, TypeOK, sockets, server, connecting, game
<1>12. QED
  BY <1>1, <1>2, <1>3, <1>4, <1>5, <1>6, <1>7, <1>8, <1>9, <1>10, <1>11
     DEF Next, MainLoop

LEMMA TypeInit == Init => TypeOK
<1> SUFFICES ASSUME Init PROVE TypeOK
  OBVIOUS
<1>1. wire \in [Client -> Seq(Msg \cup {"eof"})]
  BY EmptySeq DEF Init
<1>2. receive_queue \in Seq(Packet) /\ connect_queue \in Seq(Client)
  BY EmptySeq DEF Init
<1>3. /\ conn \in [Client -> ConnState] /\ pstate \in [Slot -> PlayerStatus]
      /\ player_id \in [Client -> Slot \cup {NoPlayer}]
  BY DEF Init, ConnState, PlayerStatus
<1>4. QED
  BY <1>1, <1>2, <1>3 DEF Init, TypeOK, Phase, ConnectState, MapCycle,
                              GameState

\* Every variable stays in its type: among others the state machine is never
\* in a state it does not have, and its client pointer is set when it needs it.
THEOREM TypeCorrect == Spec => []TypeOK
BY TypeInit, TypeStep, PTL DEF Spec
=============================================================================
