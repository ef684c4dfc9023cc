---------------------- MODULE ServerConnectSeats_proofs ----------------------
(***************************************************************************)
(* Who was let in keeps an active slot, and no two of them come from one    *)
(* address where that is forbidden, for any clients, slots and bounds; and  *)
(* the server implements JoinService.                                       *)
(***************************************************************************)
EXTENDS ServerConnectQueue_proofs, FiniteSetTheorems

-----------------------------------------------------------------------------
(* The inductive invariant *)

\* Once it has a slot the client being let in shares its address with no
\* player: wait_for_connect_request has looked, and nobody is let in before it.
HostsApart ==
  ~AllowMultiIp /\ fsm \in HoldingState /\ Owner(connect_client) =>
    \A d \in client_list :
      d # connect_client /\ Open(d) => HostOf[d] # HostOf[connect_client]

Seats == SeatedHaveSlots /\ OnePerHost /\ HostsApart

ActiveStatus == {"selecting_flag", "active"}

-----------------------------------------------------------------------------
(* What most steps have in common *)

\* Nobody is let in by the step, and those who were keep their slots.
LEMMA SeatsFrame ==
  ASSUME TypeOK, Seats,
         \A c \in Client :
           Seated(c)' => /\ Seated(c) /\ player_id'[c] = player_id[c]
                         /\ pstate'[player_id[c]] \in ActiveStatus,
         client_list' \subseteq client_list,
         connect_client' = connect_client,
         fsm' \in HoldingState => fsm' = fsm,
         \A c \in Client : Owner(c)' => Owner(c),
         \A c \in client_list' : conn'[c] = "open" => conn[c] = "open"
  PROVE  Seats'
<1>s. SeatedHaveSlots /\ OnePerHost /\ HostsApart
  BY DEF Seats
<1>1. SeatedHaveSlots'
  BY <1>s DEF SeatedHaveSlots, IsActive, ActiveStatus
<1>2. OnePerHost'
  BY <1>s DEF OnePerHost
<1>3. HostsApart'
  <2> SUFFICES ASSUME ~AllowMultiIp, fsm' \in HoldingState, Owner(connect_client)',
                      NEW d \in client_list', d # connect_client, conn'[d] = "open"
               PROVE  HostOf[d] # HostOf[connect_client]
    BY DEF HostsApart, Open
  <2>1. fsm = fsm' /\ connect_client \in Client
    BY DEF TypeOK, HoldingState, BeforeSlot
  <2>2. Owner(connect_client)
    BY <2>1
  <2>3. QED
    BY <1>s, <2>1, <2>2 DEF HostsApart, Open
<1>4. QED
  BY <1>1, <1>2, <1>3 DEF Seats

\* Nothing but the status of slots changes, and no active slot is given up.
LEMMA QuietSeats ==
  ASSUME TypeOK, Seats,
         UNCHANGED <<conn, player_id, client_list, connect_client, fsm>>,
         \A p \in Slot : pstate[p] \in ActiveStatus => pstate'[p] \in ActiveStatus
  PROVE  Seats'
<1>1. \A c \in Client :
        Seated(c)' => /\ Seated(c) /\ player_id'[c] = player_id[c]
                      /\ pstate'[player_id[c]] \in ActiveStatus
  <2> SUFFICES ASSUME NEW c \in Client, Seated(c)
               PROVE  pstate'[player_id[c]] \in ActiveStatus
    BY DEF Seated, Open, Connecting
  <2>1. player_id[c] \in Slot /\ pstate[player_id[c]] \in ActiveStatus
    BY DEF Seats, SeatedHaveSlots, IsActive, ActiveStatus, TypeOK
  <2>2. QED
    BY <2>1
<1>2. \A c \in Client : Owner(c)' => Owner(c)
  BY DEF Owner
<1>3. QED
  BY <1>1, <1>2, SeatsFrame

\* A connection that ends takes nobody's seat: its slot is no other player's,
\* even when it is kicked after it was lost.
LEMMA LostSeats ==
  ASSUME IInv, Seats, NEW c \in Client, conn[c] = "open" \/ c \in client_list,
         conn' = Closing({c}),
         fsm' = fsm \/ (fsm' = "idle" /\ connect_client = c),
         \/ pstate' = SetSlot(player_id[c], "free")
         \/ pstate' = pstate,
         UNCHANGED <<player_id, client_list, connect_client>>
  PROVE  Seats'
<1>t. /\ client_list \subseteq Client
      /\ player_id \in [Client -> Slot \cup {NoPlayer}] /\ TypeOK
  BY DEF IInv, TypeOK
<1>1. \A d \in Client : conn'[d] = "open" <=> conn[d] = "open" /\ d # c
  BY DEF Closing
<1>2. \A d \in Client : Seated(d)' => Seated(d) /\ d # c
  BY <1>1 DEF Seated, Open, Connecting
<1>3. ASSUME NEW d \in Client, Seated(d), d # c
      PROVE  pstate'[player_id[d]] \in ActiveStatus
  <2>1. player_id[d] \in Slot /\ pstate[player_id[d]] \in ActiveStatus
    BY <1>3, <1>t DEF Seats, SeatedHaveSlots, IsActive, ActiveStatus
  <2>2. Owner(d) /\ ~(d = connect_client /\ Exempt)
    BY <1>3, <2>1, SlotAssumption
       DEF Owner, Seated, Open, Connecting, Exempt, BeforeSlot, SlotAssumption
  <2>3. player_id[d] # player_id[c]
    BY <1>3, <2>2 DEF IInv, Safe, OneOwnerPerSlot, GhostsHoldNothing, Owner, Open
  <2>4. QED
    BY <2>1, <2>3 DEF SetSlot
<1>4. \A d \in Client : Owner(d)' => Owner(d)
  BY <1>1 DEF Owner
<1>5. fsm' \in HoldingState => fsm' = fsm
  BY DEF HoldingState, BeforeSlot
<1>6. QED
  BY <1>1, <1>2, <1>3, <1>4, <1>5, <1>t, SeatsFrame

LEMMA DisconnectSeats ==
  ASSUME IInv, Seats, NEW c \in Client, conn[c] = "open" \/ c \in client_list,
         Disconnect(c)
  PROVE  Seats'
<1>1. fsm' = fsm \/ (fsm' = "idle" /\ connect_client = c)
  BY DEF Disconnect, Connecting
<1>2. QED
  BY <1>1, LostSeats DEF Disconnect

\* One call of the state machine for cc.  It may end the handshake only of a
\* client with an active slot, and give cc only a slot nobody has.
LEMMA ProceedSeats ==
  ASSUME IInv, Seats,
         NEW cc \in Client, NEW queue \in Seq(Client), NEW new \in ConnectState,
         NEW ids \in [Client -> Slot \cup {NoPlayer}],
         NEW slots \in [Slot -> PlayerStatus], NEW sent, NEW flushes,
         Proceed(cc, queue, new, ids, slots, sent, flushes),
         cc # connect_client => fsm = "idle",
         \A c \in Client \ {cc} : ids[c] = player_id[c],
         \A c \in Client \ {cc} : Seated(c) => slots[player_id[c]] \in ActiveStatus,
         conn[cc] = "open" =>
           \A c \in Client \ {cc} : Owner(c) => player_id[c] # ids[cc],
         new = "idle" /\ conn[cc] = "open" =>
           ids[cc] # NoPlayer /\ slots[ids[cc]] \in ActiveStatus,
         new \in HoldingState \cup {"idle"} /\ conn[cc] = "open"
             /\ ids[cc] # NoPlayer /\ ~AllowMultiIp =>
           \A d \in client_list :
             d # cc /\ conn[d] = "open" => HostOf[d] # HostOf[cc]
  PROVE  Seats'
<1>t. /\ client_list \subseteq Client /\ TypeOK
      /\ player_id \in [Client -> Slot \cup {NoPlayer}]
  BY DEF IInv, TypeOK
<1>1. PICK gone \in SUBSET Client :
        /\ \A c \in gone : conn[c] = "open"
        /\ conn' = Closing(gone)
        /\ pstate' = [p \in Slot |-> IF \E c \in gone : ids[c] = p
                                     THEN "free" ELSE slots[p]]
        /\ cc \notin gone => fsm' = new
        /\ fsm' = new \/ fsm' = "idle"
        /\ \/ client_list' = client_list
           \/ client_list' = client_list \cup {cc} /\ new = "unit_sync"
        /\ new = "unit_sync" /\ fsm # "unit_sync" /\ cc \notin gone
             => cc \in client_list'
        /\ player_id' = ids /\ connect_client' = cc
        /\ map_cycle' = map_cycle
        /\ connection_lock_state' = connection_lock_state
        /\ phase' # "connect"
  BY <1>t, ProceedFacts
<1>2. \A c \in Client : conn'[c] = "open" <=> conn[c] = "open" /\ c \notin gone
  BY <1>1 DEF Closing, IInv, TypeOK
<1>3. \A c \in client_list' : c = cc \/ c \in client_list
  BY <1>1
\* Everybody else who sits sat before, and cc sits only when it is done.
<1>4. \A c \in Client \ {cc} : Seated(c)' => Seated(c)
  BY <1>1, <1>2, <1>3 DEF Seated, Open, Connecting
<1>5. Seated(cc)' => new = "idle" /\ conn[cc] = "open"
  BY <1>1, <1>2 DEF Seated, Open, Connecting
\* No lost client had the slot of one that sits.
<1>6. \A c, d \in Client :
        c # d /\ conn[c] = "open" /\ conn[d] = "open" /\ ids[c] # NoPlayer
          => ids[c] # ids[d]
  BY DEF IInv, Safe, OneOwnerPerSlot, Owner, Open
<1>7. \A c \in Client :
        Seated(c)' => ids[c] # NoPlayer /\ slots[ids[c]] \in ActiveStatus
  <2> SUFFICES ASSUME NEW c \in Client, Seated(c)'
               PROVE  ids[c] # NoPlayer /\ slots[ids[c]] \in ActiveStatus
    OBVIOUS
  <2>1. CASE c = cc
    BY <1>5, <2>1
  <2>2. CASE c # cc
    BY <1>4, <2>2 DEF Seats, SeatedHaveSlots
  <2>3. QED
    BY <2>1, <2>2
<1>8. SeatedHaveSlots'
  <2> SUFFICES ASSUME NEW c \in Client, Seated(c)'
               PROVE  ids[c] # NoPlayer /\ pstate'[ids[c]] \in ActiveStatus
    BY <1>1 DEF SeatedHaveSlots, IsActive, ActiveStatus
  <2>1. conn[c] = "open" /\ c \notin gone /\ ids[c] # NoPlayer /\ ids[c] \in Slot
    BY <1>2, <1>7 DEF Seated, Open
  <2>2. ~ \E g \in gone : ids[g] = ids[c]
    BY <1>1, <1>6, <2>1
  <2>3. QED
    BY <1>1, <1>7, <2>1, <2>2
<1>9. OnePerHost'
  <2> SUFFICES ASSUME ~AllowMultiIp, NEW c \in Client, NEW d \in Client,
                      Seated(c)', Seated(d)', HostOf[c] = HostOf[d], c # d
               PROVE  FALSE
    BY DEF OnePerHost
  <2>1. ASSUME NEW e \in Client \ {cc}, Seated(e)', Seated(cc)'
        PROVE  HostOf[e] # HostOf[cc]
    <3>1. e \in client_list /\ conn[e] = "open"
      BY <1>4, <2>1 DEF Seated, Open
    <3>2. QED
      BY <1>5, <2>1, <3>1
  <2>2. CASE c = cc \/ d = cc
    BY <2>1, <2>2
  <2>3. CASE c # cc /\ d # cc
    BY <1>4, <2>3 DEF Seats, OnePerHost
  <2>4. QED
    BY <2>2, <2>3
<1>10. HostsApart'
  <2> SUFFICES ASSUME ~AllowMultiIp, fsm' \in HoldingState, Owner(cc)',
                      NEW d \in client_list', d # cc, conn'[d] = "open"
               PROVE  HostOf[d] # HostOf[cc]
    BY <1>1 DEF HostsApart, Open
  <2>1. fsm' = new /\ conn[cc] = "open" /\ ids[cc] # NoPlayer
    BY <1>1, <1>2 DEF Owner, HoldingState, BeforeSlot
  <2>2. d \in client_list /\ conn[d] = "open"
    BY <1>2, <1>3, <1>t
  <2>3. QED
    BY <2>1, <2>2
<1>11. QED
  BY <1>8, <1>9, <1>10 DEF Seats

\* The usual call: somebody's slot is given away or activated by no such call.
LEMMA AdvanceSeats ==
  ASSUME IInv, Seats, fsm # "idle", NEW new \in ConnectState,
         NEW slots \in [Slot -> PlayerStatus], NEW sent, NEW flushes,
         Advance(new, slots, sent, flushes),
         \A c \in Client \ {connect_client} :
           Seated(c) => slots[player_id[c]] \in ActiveStatus,
         new = "idle" => /\ player_id[connect_client] # NoPlayer
                         /\ slots[player_id[connect_client]] \in ActiveStatus,
         new \in HoldingState \cup {"idle"} => fsm \in HoldingState
  PROVE  Seats'
<1> DEFINE cc == connect_client
<1>1. /\ cc \in Client /\ connect_queue \in Seq(Client)
      /\ player_id \in [Client -> Slot \cup {NoPlayer}]
  BY DEF IInv, TypeOK
<1>2. Proceed(cc, connect_queue, new, player_id, slots, sent, flushes)
  BY DEF Advance
<1>3. conn[cc] = "open" =>
        \A c \in Client \ {cc} : Owner(c) => player_id[c] # player_id[cc]
  BY <1>1 DEF IInv, Safe, OneOwnerPerSlot, Owner, Open
<1>4. new \in HoldingState \cup {"idle"} /\ conn[cc] = "open"
          /\ player_id[cc] # NoPlayer /\ ~AllowMultiIp =>
        \A d \in client_list :
          d # cc /\ conn[d] = "open" => HostOf[d] # HostOf[cc]
  BY DEF Seats, HostsApart, Owner, Open
<1> HIDE DEF cc
<1>5. QED
  BY <1>1, <1>2, <1>3, <1>4, ProceedSeats DEF cc

\* A seated client has a slot of the table, which is active; it is not the one
\* being let in, and the slot of that one is another.
LEMMA SeatedFacts ==
  ASSUME IInv, Seats, NEW c \in Client, Seated(c)
  PROVE  /\ player_id[c] \in Slot /\ pstate[player_id[c]] \in ActiveStatus
         /\ Owner(c)
         /\ fsm \in HoldingState => player_id[c] # player_id[connect_client]
<1>1. player_id[c] \in Slot /\ pstate[player_id[c]] \in ActiveStatus /\ Owner(c)
  BY DEF Seats, SeatedHaveSlots, IsActive, ActiveStatus, IInv, TypeOK, Owner,
         Seated, Open
<1>2. fsm \in HoldingState => c # connect_client
  BY DEF Seated, Connecting, HoldingState, BeforeSlot
<1>3. QED
  BY <1>1, <1>2 DEF IInv, Safe, HeldSlot

-----------------------------------------------------------------------------
(* The actions *)

LEMMA ServeNextSeats == IInv /\ Seats /\ ServeNext => Seats'
<1> SUFFICES ASSUME IInv, Seats, ServeNext PROVE Seats'
  OBVIOUS
<1> DEFINE cc == Head(connect_queue)
           queue == Tail(connect_queue)
<1>1. /\ cc \in Client /\ queue \in Seq(Client)
      /\ player_id \in [Client -> Slot \cup {NoPlayer}]
      /\ pstate \in [Slot -> PlayerStatus]
  BY HeadTailProperties DEF ServeNext, IInv, TypeOK
<1>2. fsm = "idle"
  BY DEF ServeNext
<1>3. PICK new, sent, flushes :
        /\ Proceed(cc, queue, new, player_id, pstate, sent, flushes)
        /\ new = "wait_for_connect_request"
  BY Zenon DEF ServeNext
<1>4. /\ new \in ConnectState /\ new # "idle" /\ new \notin HoldingState
  BY <1>3 DEF ConnectState, HoldingState, BeforeSlot
<1>5. \A c \in Client \ {cc} : Seated(c) => pstate[player_id[c]] \in ActiveStatus
  BY SeatedFacts
<1>6. conn[cc] = "open" =>
        \A c \in Client \ {cc} : Owner(c) => player_id[c] # player_id[cc]
  BY <1>1 DEF IInv, Safe, OneOwnerPerSlot, Owner, Open
<1>7. Proceed(cc, queue, new, player_id, pstate, sent, flushes)
  BY <1>3
<1> HIDE DEF cc, queue
<1>8. QED
  BY <1>1, <1>2, <1>4, <1>5, <1>6, <1>7, ProceedSeats

LEMMA TimeOutSeats == IInv /\ Seats /\ TimeOut => Seats'
<1> SUFFICES ASSUME IInv, Seats, TimeOut PROVE Seats'
  OBVIOUS
<1>1. PICK new, slots, sent, flushes :
        /\ Advance(new, slots, sent, flushes)
        /\ new = "drop_bad_connecting_client"
        /\ slots = IF fsm = "wait_for_connect_request" THEN pstate ELSE FreePlayer
  BY Zenon DEF TimeOut
<1>2. slots \in [Slot -> PlayerStatus]
  BY <1>1, FreePlayerType DEF IInv, TypeOK
<1>3. fsm # "idle" /\ (fsm = "wait_for_connect_request" \/ fsm \in HoldingState)
  BY DEF TimeOut, Waiting, HoldingState, BeforeSlot, ConnectState
<1>4. \A c \in Client \ {connect_client} :
        Seated(c) => slots[player_id[c]] \in ActiveStatus
  BY <1>1, <1>3, SeatedFacts DEF FreePlayer, PlayerOf, SetSlot
<1>5. /\ new \in ConnectState /\ new # "idle" /\ new \notin HoldingState
  BY <1>1 DEF ConnectState, HoldingState, BeforeSlot
<1>6. QED
  BY <1>1, <1>2, <1>3, <1>4, <1>5, AdvanceSeats

LEMMA SendNextSeats ==
  ASSUME IInv, Seats, NEW late \in BOOLEAN, SendNext(late),
         fsm \in {"unit_profile_sync", "player_state_sync", "sync_flags",
                  "unit_sync"}
  PROVE  Seats'
<1>1. PICK new, slots, sent, flushes :
        /\ Advance(new, slots, sent, flushes)
        /\ new \in {NextSync(fsm), "drop_bad_connecting_client", fsm}
        /\ slots \in {FreePlayer, pstate}
  <2> DEFINE done == sync_count + 1 = SyncEnd(fsm)
             drop == late /\ ~done
             nxt == IF done THEN NextSync(fsm)
                    ELSE IF drop THEN "drop_bad_connecting_client" ELSE fsm
             table == IF drop THEN FreePlayer ELSE pstate
             what == IF fsm = "unit_profile_sync" THEN "unit_profile" ELSE "sync"
  <2>1. Advance(nxt, table, what, SyncFlushes(fsm))
    BY DEF SendNext
  <2>2. /\ nxt \in {NextSync(fsm), "drop_bad_connecting_client", fsm}
        /\ table \in {FreePlayer, pstate}
    OBVIOUS
  <2> HIDE DEF nxt, table, what
  <2>3. QED
    BY <2>1, <2>2, Zenon
<1>2. slots \in [Slot -> PlayerStatus]
  BY <1>1, FreePlayerType DEF IInv, TypeOK
<1>3. fsm # "idle" /\ fsm \in HoldingState
  BY DEF HoldingState, BeforeSlot, ConnectState
<1>4. \A c \in Client \ {connect_client} :
        Seated(c) => slots[player_id[c]] \in ActiveStatus
  BY <1>1, <1>3, SeatedFacts DEF FreePlayer, PlayerOf, SetSlot
<1>5. new \in ConnectState /\ new # "idle"
  BY <1>1 DEF NextSync, ConnectState
<1>6. QED
  BY <1>1, <1>2, <1>3, <1>4, <1>5, AdvanceSeats

LEMMA FinishConnectSeats == IInv /\ Seats /\ FinishConnect => Seats'
<1> SUFFICES ASSUME IInv, Seats, FinishConnect PROVE Seats'
  OBVIOUS
<1>t. TypeOK /\ pstate \in [Slot -> PlayerStatus]
  BY DEF IInv, TypeOK
<1>1. CASE player_id[connect_client] = NoPlayer
  BY <1>t, <1>1, QuietSeats DEF FinishConnect, sockets, connecting
<1>2. CASE player_id[connect_client] # NoPlayer
  <2>1. PICK new, slots, sent, flushes :
          /\ Advance(new, slots, sent, flushes) /\ new = "idle"
          /\ slots = SetSlot(player_id[connect_client], "selecting_flag")
    BY <1>2, Zenon DEF FinishConnect
  <2>2. fsm = "finish_connect" /\ fsm \in HoldingState /\ fsm # "idle"
    BY DEF FinishConnect, HoldingState, BeforeSlot, ConnectState
  <2>3. slots \in [Slot -> PlayerStatus]
    BY <1>t, <2>1, SetSlotType DEF PlayerStatus
  <2>4. connect_client \in Client /\ player_id[connect_client] \in Slot
    BY <1>t, <1>2, <2>2 DEF TypeOK
  <2>5. /\ slots[player_id[connect_client]] \in ActiveStatus
        /\ \A c \in Client \ {connect_client} :
             Seated(c) => slots[player_id[c]] \in ActiveStatus
    BY <2>1, <2>4, SeatedFacts DEF SetSlot, ActiveStatus
  <2>6. new \in ConnectState
    BY <2>1 DEF ConnectState
  <2>7. QED
    BY <1>2, <2>1, <2>2, <2>3, <2>5, <2>6, AdvanceSeats
<1>3. QED
  BY <1>1, <1>2

\* A free slot is nobody's, and a second client of an address is refused.
LEMMA ConnectRequestSeats == IInv /\ Seats /\ ConnectRequest => Seats'
<1> SUFFICES ASSUME IInv, Seats, ConnectRequest PROVE Seats'
  OBVIOUS
<1> DEFINE cc == connect_client
<1>1. /\ fsm = "wait_for_connect_request" /\ fsm # "idle" /\ ~Exempt
      /\ cc \in Client /\ connect_queue \in Seq(Client)
      /\ client_list \subseteq Client
      /\ player_id \in [Client -> Slot \cup {NoPlayer}]
      /\ pstate \in [Slot -> PlayerStatus]
  BY DEF ConnectRequest, FsmMessage, IInv, TypeOK, Exempt, BeforeSlot
<1>2. \/ \E new, sent, flushes : /\ Advance(new, pstate, sent, flushes)
                                 /\ new = "drop_bad_connecting_client"
      \/ /\ ~(~AllowMultiIp /\ IsAlreadyConnected(cc))
         /\ \E p \in FreeSlots : \E new, ids, slots, sent, flushes :
              /\ Proceed(cc, connect_queue, new, ids, slots, sent, flushes)
              /\ new = "wait_for_client_settings"
              /\ ids = [player_id EXCEPT ![cc] = p]
              /\ slots = SetSlot(p, "allocated")
  BY Zenon DEF ConnectRequest
<1>3. ASSUME NEW new, NEW sent, NEW flushes,
             Advance(new, pstate, sent, flushes),
             new = "drop_bad_connecting_client"
      PROVE  Seats'
  <2>1. new \in ConnectState /\ new # "idle" /\ new \notin HoldingState
    BY <1>3 DEF ConnectState, HoldingState, BeforeSlot
  <2>2. \A c \in Client \ {connect_client} :
          Seated(c) => pstate[player_id[c]] \in ActiveStatus
    BY SeatedFacts
  <2>3. QED
    BY <1>1, <1>3, <2>1, <2>2, AdvanceSeats
<1>4. ASSUME ~(~AllowMultiIp /\ IsAlreadyConnected(cc)),
             NEW p \in FreeSlots, NEW new, NEW ids, NEW slots, NEW sent,
             NEW flushes,
             Proceed(cc, connect_queue, new, ids, slots, sent, flushes),
             new = "wait_for_client_settings",
             ids = [player_id EXCEPT ![cc] = p],
             slots = SetSlot(p, "allocated")
      PROVE  Seats'
  <2>1. p \in Slot /\ pstate[p] = "free"
    BY DEF FreeSlots
  <2>2. ids \in [Client -> Slot \cup {NoPlayer}] /\ ids[cc] = p
        /\ \A c \in Client \ {cc} : ids[c] = player_id[c]
    BY <1>1, <1>4, <2>1
  <2>3. slots \in [Slot -> PlayerStatus]
    BY <1>4, SetSlotType DEF IInv, PlayerStatus
  <2>4. \A c \in Client : Owner(c) => player_id[c] # p
    BY <1>1, <2>1 DEF IInv, Safe, SlotsTaken, Owner
  <2>5. \A c \in Client \ {cc} : Seated(c) => slots[player_id[c]] \in ActiveStatus
    BY <1>4, <2>4, SeatedFacts DEF SetSlot
  <2>6. conn[cc] = "open" /\ ~AllowMultiIp =>
          \A d \in client_list :
            d # cc /\ conn[d] = "open" => HostOf[d] # HostOf[cc]
    BY <1>4 DEF IsAlreadyConnected, SameIP
  <2>7. new \in ConnectState /\ new # "idle"
    BY <1>4 DEF ConnectState
  <2> HIDE DEF cc
  <2>8. cc # connect_client => fsm = "idle"
    BY DEF cc
  <2>9. \A c \in Client \ {cc} : Owner(c) => player_id[c] # ids[cc]
    BY <2>2, <2>4
  <2>10. Proceed(cc, connect_queue, new, ids, slots, sent, flushes)
    BY <1>4
  <2>11. cc \in Client /\ connect_queue \in Seq(Client)
    BY <1>1
  <2>12. QED
    BY <2>2, <2>3, <2>5, <2>6, <2>7, <2>8, <2>9, <2>10, <2>11, ProceedSeats
<1>5. QED
  BY <1>2, <1>3, <1>4, Zenon

LEMMA ClientSettingsSeats == IInv /\ Seats /\ ClientSettings => Seats'
<1> SUFFICES ASSUME IInv, Seats, ClientSettings PROVE Seats'
  OBVIOUS
<1>1. PICK new, slots, sent, flushes :
        /\ Advance(new, slots, sent, flushes)
        /\ new = "wait_for_client_game_setup_ack"
        /\ slots = SetSlot(PlayerOf(connect_client), "connecting")
  BY Zenon DEF ClientSettings
<1>2. fsm = "wait_for_client_settings" /\ fsm # "idle" /\ fsm \in HoldingState
  BY DEF ClientSettings, FsmMessage, HoldingState, BeforeSlot, ConnectState
<1>3. slots \in [Slot -> PlayerStatus]
  BY <1>1, SetSlotType DEF IInv, PlayerStatus
<1>4. \A c \in Client \ {connect_client} :
        Seated(c) => slots[player_id[c]] \in ActiveStatus
  BY <1>1, <1>2, SeatedFacts DEF PlayerOf, SetSlot
<1>5. new \in ConnectState /\ new # "idle"
  BY <1>1 DEF ConnectState
<1>6. QED
  BY <1>1, <1>2, <1>3, <1>4, <1>5, AdvanceSeats

LEMMA GameSetupAckSeats == IInv /\ Seats /\ GameSetupAck => Seats'
<1> SUFFICES ASSUME IInv, Seats, GameSetupAck PROVE Seats'
  OBVIOUS
<1>1. PICK new, sent, flushes : /\ Advance(new, pstate, sent, flushes)
                                /\ new = "unit_profile_sync"
  BY Zenon DEF GameSetupAck
<1>2. /\ fsm = "wait_for_client_game_setup_ack"
      /\ fsm # "idle" /\ fsm \in HoldingState
  BY DEF GameSetupAck, FsmMessage, HoldingState, BeforeSlot, ConnectState
<1>3. pstate \in [Slot -> PlayerStatus]
  BY DEF IInv, TypeOK
<1>4. \A c \in Client \ {connect_client} :
        Seated(c) => pstate[player_id[c]] \in ActiveStatus
  BY SeatedFacts
<1>5. new \in ConnectState /\ new # "idle"
  BY <1>1 DEF ConnectState
<1>6. QED
  BY <1>1, <1>2, <1>3, <1>4, <1>5, AdvanceSeats

\* A sender that is closed loses nobody else's seat.
LEMMA JoinRequestSeats == IInv /\ Seats /\ JoinRequest => Seats'
<1> SUFFICES ASSUME IInv, Seats, JoinRequest PROVE Seats'
  OBVIOUS
<1>1. PICK c \in Client, lost \in BOOLEAN, bad \in BOOLEAN :
        /\ lost => conn[c] = "open"
        /\ conn' = Closing(IF lost \/ bad THEN {c} ELSE {})
        /\ fsm' = IF lost /\ Connecting(c) THEN "idle" ELSE fsm
        /\ pstate' = IF lost THEN SetSlot(player_id[c], "free") ELSE pstate
        /\ UNCHANGED <<player_id, client_list, connect_client>>
  <2>1. packet \in Packet
    BY PacketType DEF JoinRequest, IInv
  <2>2. packet.from \in Client
    BY <2>1 DEF Packet
  <2>3. PICK c \in Client : c = packet.from
    BY <2>2
  <2>4. \E lost \in BOOLEAN, bad \in BOOLEAN :
          /\ lost => conn[c] = "open"
          /\ conn' = Closing(IF lost \/ bad THEN {c} ELSE {})
          /\ fsm' = IF lost /\ Connecting(c) THEN "idle" ELSE fsm
          /\ pstate' = IF lost THEN SetSlot(player_id[c], "free") ELSE pstate
    BY <2>3 DEF JoinRequest, MayFail
  <2>5. UNCHANGED <<player_id, client_list, connect_client>>
    BY DEF JoinRequest
  <2>6. QED
    BY <2>4, <2>5
<1>2. CASE conn[c] = "open" /\ (lost \/ bad)
  <2>1. conn' = Closing({c}) /\ (pstate' = pstate \/ pstate' = SetSlot(player_id[c], "free"))
        /\ (fsm' = fsm \/ (fsm' = "idle" /\ connect_client = c))
    BY <1>1, <1>2 DEF Connecting
  <2>2. QED
    BY <1>1, <1>2, <2>1, LostSeats
<1>3. CASE ~(conn[c] = "open" /\ (lost \/ bad))
  <2>1. conn' = conn /\ ~lost
    BY <1>1, <1>3 DEF Closing, IInv, TypeOK
  <2>2. QED
    BY <1>1, <2>1, QuietSeats DEF IInv
<1>4. QED
  BY <1>2, <1>3

LEMMA DropBadConnectingClientSeats ==
  IInv /\ Seats /\ DropBadConnectingClient => Seats'
<1> SUFFICES ASSUME IInv, Seats, DropBadConnectingClient PROVE Seats'
  OBVIOUS
<1>1. /\ connect_client \in Client /\ conn' = Closing({connect_client})
      /\ fsm' = "idle"
      /\ UNCHANGED <<player_id, client_list, connect_client, pstate>>
  BY DEF DropBadConnectingClient, IInv, TypeOK, server
<1>2. CASE conn[connect_client] = "open"
  BY <1>1, <1>2, LostSeats
<1>3. CASE conn[connect_client] # "open"
  <2>1. TypeOK /\ conn' = conn /\ client_list \subseteq Client
    BY <1>1, <1>3 DEF Closing, IInv, TypeOK
  <2>2. \A c \in Client : Seated(c)' => Seated(c)
    BY <1>1, <1>3, <2>1 DEF Seated, Open, Connecting
  <2>3. \A c \in Client : Seated(c)' => pstate'[player_id[c]] \in ActiveStatus
    BY <1>1, <2>2, SeatedFacts
  <2>4. \A c \in Client : Owner(c)' => Owner(c)
    BY <1>1, <2>1 DEF Owner
  <2>5. fsm' \notin HoldingState
    BY <1>1 DEF HoldingState, BeforeSlot
  <2>6. QED
    BY <1>1, <2>1, <2>2, <2>3, <2>4, <2>5, SeatsFrame
<1>4. QED
  BY <1>2, <1>3

\* A new connection is at no address that is still listed.
LEMMA ConnectSeats ==
  ASSUME IInv, Waits, Seats, NEW c \in Client, Connect(c)
  PROVE  Seats'
<1>t. TypeOK /\ client_list \subseteq Client
  BY DEF IInv, TypeOK
<1>1. /\ \A d \in Client :
           d # c => conn'[d] = conn[d] /\ player_id'[d] = player_id[d]
      /\ player_id'[c] = NoPlayer
      /\ UNCHANGED <<client_list, connect_client, fsm, pstate>>
  BY <1>t DEF Connect, server, connecting, TypeOK
<1>2. c \notin client_list
  BY DEF Connect, Waits, ListedExist
<1>3. \A d \in Client : Seated(d)' => Seated(d) /\ d # c
  BY <1>1, <1>2 DEF Seated, Open, Connecting
<1>4. \A d \in Client :
        Seated(d)' => /\ Seated(d) /\ player_id'[d] = player_id[d]
                      /\ pstate'[player_id[d]] \in ActiveStatus
  BY <1>1, <1>3, SeatedFacts
<1>5. \A d \in Client : Owner(d)' => Owner(d)
  BY <1>1 DEF Owner
<1>6. \A d \in client_list' : conn'[d] = "open" => conn[d] = "open"
  BY <1>1, <1>2, <1>t
<1>7. QED
  BY <1>1, <1>4, <1>5, <1>6, <1>t, SeatsFrame

LEMMA CleanUpSeats == IInv /\ Seats /\ CleanUpClientList => Seats'
<1> SUFFICES ASSUME IInv, Seats, CleanUpClientList PROVE Seats'
  OBVIOUS
<1>t. TypeOK /\ client_list \subseteq Client /\ conn \in [Client -> ConnState]
  BY DEF IInv, TypeOK
<1>1. /\ client_list' \subseteq client_list
      /\ \A c \in Client : conn'[c] = "open" <=> conn[c] = "open"
      /\ UNCHANGED <<player_id, connect_client, fsm, pstate>>
  BY <1>t DEF CleanUpClientList, connecting
<1>2. \A c \in Client : Seated(c)' => Seated(c)
  BY <1>1 DEF Seated, Open, Connecting
<1>3. \A c \in Client :
        Seated(c)' => /\ Seated(c) /\ player_id'[c] = player_id[c]
                      /\ pstate'[player_id[c]] \in ActiveStatus
  BY <1>1, <1>2, SeatedFacts
<1>4. \A c \in Client : Owner(c)' => Owner(c)
  BY <1>1 DEF Owner
<1>5. \A c \in client_list' : conn'[c] = "open" => conn[c] = "open"
  BY <1>1, <1>t
<1>6. QED
  BY <1>1, <1>3, <1>4, <1>5, <1>t, SeatsFrame

LEMMA SeatsStep == IInv /\ Waits /\ Seats /\ [Next]_vars => Seats'
<1> SUFFICES ASSUME IInv, Waits, Seats, [Next]_vars PROVE Seats'
  OBVIOUS
<1>t. TypeOK /\ client_list \subseteq Client /\ pstate \in [Slot -> PlayerStatus]
  BY DEF IInv, TypeOK
<1>1. CASE Kick
  <2>1. PICK c \in client_list : Disconnect(c)
    BY <1>1 DEF Kick
  <2>2. QED
    BY <1>t, <2>1, DisconnectSeats
<1>2. CASE ForceMapChange
  BY <1>2, <1>t, QuietSeats DEF ForceMapChange, sockets, server, connecting
<1>3. ASSUME NEW c \in Client, Connect(c)
      PROVE  Seats'
  BY <1>3, ConnectSeats
<1>4. ASSUME NEW c \in Client, Leave(c) \/ Receive(c)
      PROVE  Seats'
  BY <1>4, <1>t, QuietSeats DEF Leave, Receive, server, connecting
<1>5. ASSUME NEW c \in Client, LoseClient(c)
      PROVE  Seats'
  BY <1>5, DisconnectSeats DEF LoseClient
<1>6. CASE CleanUpClientList
  BY <1>6, CleanUpSeats
<1>7. CASE StayIdle \/ KeepWaiting \/ UseDeletedClient
  BY <1>7, <1>t, QuietSeats DEF StayIdle, KeepWaiting, UseDeletedClient, sockets,
                                server, connecting
<1>8. CASE SyncClient
  BY <1>8, SendNextSeats DEF SyncClient
<1>9. CASE ServeNext \/ TimeOut \/ FinishConnect \/ DropBadConnectingClient
  BY <1>9, ServeNextSeats, TimeOutSeats, FinishConnectSeats,
     DropBadConnectingClientSeats
<1>10. CASE ClientDisconnect
  <2>1. CASE packet.from \in client_list
    <3>1. Disconnect(packet.from) /\ packet.from \in Client
      BY <1>10, <1>t, <2>1 DEF ClientDisconnect
    <3>2. QED
      BY <2>1, <3>1, DisconnectSeats
  <2>2. CASE packet.from \notin client_list
    BY <1>10, <1>t, <2>2, QuietSeats DEF ClientDisconnect, sockets, connecting
  <2>3. QED
    BY <2>1, <2>2
<1>11. CASE JoinRequest \/ ConnectRequest \/ ClientSettings \/ GameSetupAck
  BY <1>11, JoinRequestSeats, ConnectRequestSeats, ClientSettingsSeats,
     GameSetupAckSeats
<1>12. CASE ChangeFlag
  <2>1. PICK p : pstate' = SetSlot(p, "active")
    BY <1>12 DEF ChangeFlag
  <2>2. \A q \in Slot : pstate[q] \in ActiveStatus => pstate'[q] \in ActiveStatus
    BY <2>1 DEF SetSlot, ActiveStatus
  <2>3. UNCHANGED <<conn, player_id, client_list, connect_client, fsm>>
    BY <1>12 DEF ChangeFlag, sockets, connecting
  <2>4. QED
    BY <1>t, <2>2, <2>3, QuietSeats
<1>13. CASE SendNextProfile
  BY <1>13, SendNextSeats DEF SendNextProfile, FsmMessage
<1>14. CASE IgnoreMessage
  BY <1>14, <1>t, QuietSeats DEF IgnoreMessage, sockets, connecting
<1>15. CASE UpdateGameControlFlow
  BY <1>15, <1>t, QuietSeats
     DEF UpdateGameControlFlow, ShowEndRound, LoadNextMap, StartRound,
         FinishRound, KeepPlaying, Control, sockets, server, connecting
<1>16. CASE UNCHANGED vars
  BY <1>16, <1>t, QuietSeats DEF vars, sockets, server, connecting
<1>17. QED
  BY <1>1, <1>2, <1>3, <1>4, <1>5, <1>6, <1>7, <1>8, <1>9, <1>10, <1>11, <1>12,
     <1>13, <1>14, <1>15, <1>16
     DEF Next, MainLoop, ConnectProcess, RoutePacket

LEMMA SeatsInit == Init => Seats
BY DEF Init, Seats, SeatedHaveSlots, Seated, OnePerHost, HostsApart, HoldingState,
       BeforeSlot

LEMMA SeatsInvariance == Spec => []Seats
<1>1. IInv /\ Waits /\ Seats /\ [Next]_vars => IInv' /\ Waits' /\ Seats'
  BY SafeStep, WaitsStep, SeatsStep DEF IInv
<1>2. Init => IInv /\ Waits /\ Seats
  BY InitSafe, WaitsInit, SeatsInit
<1>3. QED
  BY <1>1, <1>2, PTL DEF Spec

-----------------------------------------------------------------------------

\* A player who was let in keeps an active slot until it leaves, whatever other
\* clients time out, are kicked, disappear or connect at a reused address.
THEOREM SeatsCorrect == Spec => []SeatedHaveSlots
<1>1. Seats => SeatedHaveSlots
  BY DEF Seats
<1>2. QED
  BY <1>1, SeatsInvariance, PTL

\* With game_allowmultiip off no two players come from one address: the look at
\* client_list at the start of a handshake is still good when it ends.
THEOREM HostsCorrect == Spec => []OnePerHost
<1>1. Seats => OnePerHost
  BY DEF Seats
<1>2. QED
  BY <1>1, SeatsInvariance, PTL
-----------------------------------------------------------------------------
(* The server implements JoinService.                                       *)

Serving == IF fsm = "idle" THEN NoClient ELSE connect_client
Players == {c \in Client : Seated(c)}

\* What the service sees of a call of the state machine: the loss of cc may
\* show in the handler or in the enter() of the next state, and that of d, a
\* queued client, when idle is left.
Call(cc, queue, new, flushes, lost, d) ==
  /\ lost = "handler" => flushes
  /\ lost = "enter" => new \in FlushingEnter
  /\ d # NoClient => /\ fsm = "idle" \/ lost = "handler"
                     /\ \E i \in 1..Len(queue) : queue[i] = d
  /\ \A c \in Client : conn'[c] = "open"
        <=> conn[c] = "open" /\ c # d /\ ~(c = cc /\ lost # "none")
  /\ connect_queue' = Without(queue, d)
  /\ connect_client' = cc
  /\ fsm' = IF lost = "enter" THEN "idle" ELSE new
  /\ \/ client_list' = client_list
     \/ client_list' = client_list \cup {cc} /\ new = "unit_sync"

LEMMA CallSeen ==
  ASSUME TypeOK, NEW cc \in Client, NEW queue \in Seq(Client), NEW new, NEW ids,
         NEW slots, NEW sent, NEW flushes,
         Proceed(cc, queue, new, ids, slots, sent, flushes)
  PROVE  \E lost \in {"none", "handler", "enter"}, d \in Client \cup {NoClient} :
           Call(cc, queue, new, flushes, lost, d)
<1>1. PICK lost \in Losses(cc, flushes, new), reply \in Replies(sent) :
        \E d \in QueueLosses(queue, lost) :
          Outcome(cc, queue, new, ids, slots, lost, reply, d)
  BY Zenon DEF Proceed
<1>2. PICK d \in QueueLosses(queue, lost) :
        Outcome(cc, queue, new, ids, slots, lost, reply, d)
  BY <1>1
<1>3. /\ lost \in {"none", "handler", "enter"}
      /\ lost = "handler" => flushes
      /\ lost = "enter" => new \in FlushingEnter
  BY DEF Losses
<1>4. /\ d \in Client \cup {NoClient}
      /\ d # NoClient => /\ fsm = "idle" \/ lost = "handler"
                         /\ \E i \in 1..Len(queue) : queue[i] = d
  BY DEF QueueLosses
<1>5. /\ conn' = Closing((IF lost = "none" THEN {} ELSE {cc}) \cup ({d} \ {NoClient}))
      /\ connect_queue' = Without(queue, d) /\ connect_client' = cc
      /\ fsm' = IF lost = "enter" THEN "idle" ELSE new
      /\ \/ client_list' = client_list
         \/ client_list' = client_list \cup {cc} /\ new = "unit_sync"
  BY <1>2 DEF Outcome
<1>6. \A c \in Client : conn'[c] = "open"
        <=> conn[c] = "open" /\ c # d /\ ~(c = cc /\ lost # "none")
  BY <1>5, ClientAssumption DEF Closing, ClientAssumption
<1>7. QED
  BY <1>3, <1>4, <1>5, <1>6 DEF Call

\* Who leaves a queue leaves it at one place, and the others stay in order.
LEMMA WithoutLeaves ==
  ASSUME NEW queue \in Seq(Client), NEW d \in Client \cup {NoClient}
  PROVE  \/ Without(queue, d) = queue
         \/ \E i \in 1..Len(queue) : Without(queue, d) = Service!LeftAt(queue, i)
<1>1. CASE \E i \in 1..Len(queue) : queue[i] = d
  <2> DEFINE i == CHOOSE i \in 1..Len(queue) : queue[i] = d
  <2>1. i \in 1..Len(queue)
    BY <1>1
  <2>2. Without(queue, d) = SubSeq(queue, 1, i - 1)
                              \o SubSeq(queue, i + 1, Len(queue))
    BY <1>1 DEF Without
  <2> HIDE DEF i
  <2>3. QED
    BY <2>1, <2>2 DEF Service!LeftAt
<1>2. CASE ~\E i \in 1..Len(queue) : queue[i] = d
  BY <1>2 DEF Without
<1>3. QED
  BY <1>1, <1>2

\* Steps of the server that the service does not see.
LEMMA HiddenStep ==
  ASSUME connect_queue' = connect_queue, Serving' = Serving, Players' = Players
  PROVE  UNCHANGED Service!vars
BY DEF Service!vars, Serving, Players

LEMMA QuietService ==
  ASSUME UNCHANGED <<conn, client_list, connect_queue, connect_client, fsm>>
  PROVE  UNCHANGED Service!vars
<1>1. Serving' = Serving /\ Players' = Players
  BY DEF Serving, Players, Seated, Open, Connecting
<1>2. QED
  BY <1>1, HiddenStep

\* A handshake that ends without a new player.
LEMMA AbortStep ==
  ASSUME fsm # "idle", connect_client \in Client, fsm' = "idle",
         connect_queue' = connect_queue, Players' = Players
  PROVE  Service!Abort
BY ClientAssumption DEF Service!Abort, Players, ClientAssumption

\* A client that waits is found gone.
LEMMA GiveUpStep ==
  ASSUME connect_queue \in Seq(Client), NEW d \in Client \cup {NoClient},
         connect_queue' = Without(connect_queue, d),
         Serving' = Serving, Players' = Players
  PROVE  Service!Next \/ UNCHANGED Service!vars
<1>1. CASE connect_queue' = connect_queue
  BY <1>1, HiddenStep
<1>2. CASE \E i \in 1..Len(connect_queue) :
             connect_queue' = Service!LeftAt(connect_queue, i)
  <2>1. Service!GiveUp
    BY <1>2 DEF Service!GiveUp, Players, Serving
  <2>2. QED
    BY <2>1 DEF Service!Next
<1>3. QED
  BY <1>1, <1>2, WithoutLeaves

\* A lost client ends its handshake, leaves the queue or quits the game.
LEMMA DisconnectService ==
  ASSUME TypeOK, Waits, NEW c \in Client, Disconnect(c)
  PROVE  Service!Next \/ UNCHANGED Service!vars
<1>1. /\ \A d \in Client : conn'[d] = "open" <=> conn[d] = "open" /\ d # c
      /\ connect_queue' = Without(connect_queue, c)
      /\ fsm' = IF Connecting(c) THEN "idle" ELSE fsm
      /\ client_list' = client_list /\ connect_client' = connect_client
  BY DEF Disconnect, Closing, TypeOK
<1>2. ~InQueue(c) => connect_queue' = connect_queue
  BY <1>1 DEF Without, InQueue
<1>3. InQueue(c) => ~Connecting(c) /\ c \notin client_list
  BY DEF InQueue, Waits, QueueIsSound
<1>4. CASE Connecting(c)
  <2>1. Players' = Players
    BY <1>1, <1>4 DEF Players, Seated, Open, Connecting
  <2>2. Service!Abort
    BY <1>1, <1>2, <1>3, <1>4, <2>1, AbortStep DEF Connecting
  <2>3. QED
    BY <2>2 DEF Service!Next
<1>5. CASE InQueue(c)
  <2>1. Players' = Players /\ Serving' = Serving
    BY <1>1, <1>3, <1>5 DEF Players, Serving, Seated, Open, Connecting
  <2>2. QED
    BY <1>1, <2>1, GiveUpStep DEF TypeOK
<1>6. CASE ~Connecting(c) /\ ~InQueue(c)
  <2>1. Players' = Players \ {c} /\ Serving' = Serving
    BY <1>1, <1>6 DEF Players, Serving, Seated, Open, Connecting
  <2>2. CASE Seated(c)
    <3>1. Service!Quit(c)
      BY <1>2, <1>6, <2>1, <2>2 DEF Service!Quit, Players, Serving
    <3>2. QED
      BY <3>1 DEF Service!Next
  <2>3. CASE ~Seated(c)
    <3>1. Players' = Players
      BY <2>1, <2>3 DEF Players
    <3>2. QED
      BY <1>2, <1>6, <2>1, <3>1, HiddenStep
  <2>4. QED
    BY <2>2, <2>3
<1>7. QED
  BY <1>4, <1>5, <1>6

\* The handshake goes on: the service sees the same client being let in, unless
\* that client or one of the queue is found gone.
LEMMA AdvanceService ==
  ASSUME TypeOK, Waits, fsm # "idle",
         NEW new, NEW slots, NEW sent, NEW flushes, new # "idle",
         \/ Advance(new, slots, sent, flushes)
         \/ \E ids : Proceed(connect_client, connect_queue, new, ids, slots,
                             sent, flushes)
  PROVE  Service!Next \/ UNCHANGED Service!vars
<1>1. connect_client \in Client /\ connect_queue \in Seq(Client)
  BY DEF TypeOK
<1>2. PICK ids : Proceed(connect_client, connect_queue, new, ids, slots, sent,
                         flushes)
  BY Zenon DEF Advance
<1>3. PICK lost \in {"none", "handler", "enter"}, d \in Client \cup {NoClient} :
        Call(connect_client, connect_queue, new, flushes, lost, d)
  BY <1>1, <1>2, CallSeen
<1>4. d # NoClient => d \notin client_list /\ d # connect_client
  BY <1>3 DEF Call, Waits, QueueIsSound, Connecting
<1>5. Players' = Players
  <2>1. connect_client' = connect_client /\ (fsm' = "idle" => lost = "enter")
    BY <1>3 DEF Call
  <2>2. \A c \in Client : c # connect_client
          => /\ c \in client_list' <=> c \in client_list
             /\ c \in client_list => (conn'[c] = "open" <=> conn[c] = "open")
    BY <1>3, <1>4, ClientAssumption DEF Call, ClientAssumption
  <2>3. \A c \in Client : c # connect_client => (Seated(c)' <=> Seated(c))
    BY <2>1, <2>2 DEF Seated, Open, Connecting
  <2>4. ~Seated(connect_client)
    BY DEF Seated, Connecting
  <2>5. lost = "enter" => conn'[connect_client] # "open"
    BY <1>1, <1>3 DEF Call
  <2>6. \A c \in Client : c = connect_client => ~Seated(c)'
    BY <2>1, <2>5 DEF Seated, Open, Connecting
  <2>7. QED
    BY <2>3, <2>4, <2>6 DEF Players
<1>6. CASE lost = "enter"
  <2>1. fsm' = "idle" /\ d = NoClient
    BY <1>3, <1>6 DEF Call
  <2>2. connect_queue' = connect_queue
    BY <1>1, <1>3, <2>1, WithoutNobody DEF Call
  <2>3. QED
    BY <1>1, <1>5, <2>1, <2>2, AbortStep DEF Service!Next
<1>7. CASE lost # "enter"
  <2>1. Serving' = Serving
    BY <1>3, <1>7 DEF Call, Serving
  <2>2. connect_queue' = Without(connect_queue, d)
    BY <1>3 DEF Call
  <2>3. QED
    BY <1>1, <1>5, <2>1, <2>2, GiveUpStep
<1>8. QED
  BY <1>6, <1>7

\* The queue is served from its front, and who waits has no seat yet.
LEMMA ServeService ==
  ASSUME TypeOK, Waits, ServeNext
  PROVE  Service!Serve
<1> DEFINE cc == Head(connect_queue)
           queue == Tail(connect_queue)
<1>1. /\ cc \in Client /\ queue \in Seq(Client) /\ cc = connect_queue[1]
      /\ 1 \in 1..Len(connect_queue)
  BY HeadTailProperties, LenProperties DEF ServeNext, TypeOK
<1>2. \A i \in 1..Len(queue) : queue[i] = connect_queue[i + 1]
                               /\ i + 1 \in 1..Len(connect_queue)
  BY HeadTailProperties, LenProperties DEF ServeNext, TypeOK
<1>3. PICK new, sent, flushes :
        /\ Proceed(cc, queue, new, player_id, pstate, sent, flushes)
        /\ new = "wait_for_connect_request"
  BY Zenon DEF ServeNext
<1>4. cc \notin client_list
      /\ \A i \in 1..Len(queue) : queue[i] \notin client_list
  BY <1>1, <1>2 DEF Waits, QueueIsSound
<1> HIDE DEF cc, queue
<1>5. PICK lost \in {"none", "handler", "enter"}, d \in Client \cup {NoClient} :
        Call(cc, queue, new, flushes, lost, d)
  BY <1>1, <1>3, CallSeen
<1>6. /\ fsm' = "wait_for_connect_request" /\ connect_client' = cc
      /\ client_list' = client_list /\ connect_queue' = Without(queue, d)
  BY <1>3, <1>5 DEF Call, FlushingEnter
<1>7. fsm = "idle" /\ connect_queue # << >>
  BY DEF ServeNext
<1>8. d \notin client_list \/ d = NoClient
  BY <1>4, <1>5 DEF Call
<1>9. \A c \in client_list : conn'[c] = "open" <=> conn[c] = "open"
  BY <1>4, <1>5, <1>8, ClientAssumption DEF Call, ClientAssumption, TypeOK
<1>10. Players' = Players
  BY <1>4, <1>6, <1>7, <1>9 DEF Players, Seated, Open, Connecting
<1>11. connect_queue' = queue
       \/ \E i \in 1..Len(queue) : connect_queue' = Service!LeftAt(queue, i)
  BY <1>1, <1>6, WithoutLeaves
<1>12. QED
  BY <1>6, <1>7, <1>10, <1>11 DEF Service!Serve, Players, cc, queue

LEMMA ServiceCardinality ==
  ASSUME NEW S
  PROVE  Service!Cardinality(S) = Cardinality(S)
BY DEF Service!Cardinality, Cardinality

\* Those who sit and the one being let in have different slots of the table.
LEMMA SeatLeft ==
  ASSUME IInv, Seats, fsm # "idle", Owner(connect_client)
  PROVE  Cardinality(Players) < Cardinality(Slot)
<1> DEFINE all == Players \cup {connect_client}
           slot == [c \in all |-> player_id[c]]
<1>1. connect_client \in Client /\ player_id \in [Client -> Slot \cup {NoPlayer}]
  BY DEF IInv, TypeOK
<1>2. \A c \in all : c \in Client /\ Owner(c) /\ player_id[c] \in Slot
  BY <1>1, SeatedFacts DEF Players, Owner
<1>3. \A c, d \in all : player_id[c] = player_id[d] => c = d
  BY <1>2 DEF IInv, Safe, OneOwnerPerSlot, Owner, Open
<1>4. slot \in Injection(all, Slot)
  BY <1>2, <1>3 DEF Injection, IsInjective
<1>5. connect_client \notin Players
  BY DEF Players, Seated, Connecting
<1> HIDE DEF slot
<1>6. IsFiniteSet(all) /\ Cardinality(all) <= Cardinality(Slot)
  BY <1>4, FS_Injection, TableAssumption DEF TableAssumption
<1>7. IsFiniteSet(Players) /\ Cardinality(Players) \in Nat
  BY <1>6, FS_Subset, FS_CardinalityType
<1>8. Cardinality(all) = Cardinality(Players) + 1
  BY <1>5, <1>7, FS_AddElement
<1>9. Cardinality(Slot) \in Nat
  BY FS_CardinalityType, TableAssumption DEF TableAssumption
<1>10. QED
  BY <1>6, <1>7, <1>8, <1>9

\* The handshake ends: with a new player if it is still connected.
LEMMA FinishService ==
  ASSUME IInv, Seats, FinishConnect
  PROVE  Service!Next \/ UNCHANGED Service!vars
<1>t. /\ TypeOK /\ connect_client \in Client /\ connect_queue \in Seq(Client)
      /\ fsm = "finish_connect" /\ fsm # "idle"
  BY DEF FinishConnect, IInv, TypeOK
<1>1. CASE player_id[connect_client] = NoPlayer
  BY <1>1, QuietService DEF FinishConnect, sockets, connecting
<1>2. CASE player_id[connect_client] # NoPlayer
  <2>1. PICK new, slots, sent, flushes :
          /\ Proceed(connect_client, connect_queue, new, player_id, slots, sent,
                     flushes)
          /\ new = "idle" /\ ~flushes
    BY <1>2, Zenon DEF FinishConnect, Advance
  <2>a. PICK lost \in {"none", "handler", "enter"}, d \in Client \cup {NoClient} :
          Call(connect_client, connect_queue, new, flushes, lost, d)
    BY <1>t, <2>1, CallSeen
  <2>b. lost = "none" /\ d = NoClient
    BY <1>t, <2>1, <2>a DEF Call, FlushingEnter
  <2>2. /\ \A c \in Client : conn'[c] = "open" <=> conn[c] = "open"
        /\ connect_queue' = connect_queue
        /\ connect_client' = connect_client /\ fsm' = "idle"
        /\ client_list' = client_list
    BY <1>t, <2>1, <2>a, <2>b, WithoutNobody, ClientAssumption
       DEF Call, ClientAssumption
  <2>3. CASE connect_client \in client_list /\ Open(connect_client)
    <3>1. Players' = Players \cup {connect_client}
      BY <1>t, <2>2, <2>3 DEF Players, Seated, Open, Connecting
    <3>2. Cardinality(Players) < Cardinality(Slot)
      BY <1>t, <1>2, <2>3, SeatLeft DEF Owner, Open
    <3>3. Service!Admit
      BY <1>t, <2>2, <3>1, <3>2, ServiceCardinality, ClientAssumption
         DEF Service!Admit, Players, ClientAssumption
    <3>4. QED
      BY <3>3 DEF Service!Next
  <2>4. CASE ~(connect_client \in client_list /\ Open(connect_client))
    <3>1. Players' = Players
      BY <1>t, <2>2, <2>4 DEF Players, Seated, Open, Connecting
    <3>2. Service!Abort
      BY <1>t, <2>2, <3>1, AbortStep
    <3>3. QED
      BY <3>2 DEF Service!Next
  <2>5. QED
    BY <2>3, <2>4
<1>3. QED
  BY <1>1, <1>2

LEMMA SendNextService ==
  ASSUME TypeOK, Waits, NEW late \in BOOLEAN, SendNext(late),
         fsm \in {"unit_profile_sync", "player_state_sync", "sync_flags",
                  "unit_sync"}
  PROVE  Service!Next \/ UNCHANGED Service!vars
<1>1. PICK new, slots, sent, flushes :
        /\ Advance(new, slots, sent, flushes)
        /\ new \in {NextSync(fsm), "drop_bad_connecting_client", fsm}
  <2> DEFINE done == sync_count + 1 = SyncEnd(fsm)
             drop == late /\ ~done
             nxt == IF done THEN NextSync(fsm)
                    ELSE IF drop THEN "drop_bad_connecting_client" ELSE fsm
             table == IF drop THEN FreePlayer ELSE pstate
             what == IF fsm = "unit_profile_sync" THEN "unit_profile" ELSE "sync"
  <2>1. Advance(nxt, table, what, SyncFlushes(fsm))
    BY Zenon DEF SendNext
  <2>2. nxt \in {NextSync(fsm), "drop_bad_connecting_client", fsm}
    OBVIOUS
  <2> HIDE DEF nxt, table, what
  <2>3. QED
    BY <2>1, <2>2, Zenon
<1>2. fsm # "idle" /\ new # "idle"
  BY <1>1 DEF NextSync
<1>3. QED
  BY <1>1, <1>2, AdvanceService

\* Who is put at the end of a queue and found gone has never been in it.
LEMMA WithoutLast ==
  ASSUME NEW queue \in Seq(Client), NEW c \in Client,
         ~\E i \in 1..Len(queue) : queue[i] = c
  PROVE  Without(Append(queue, c), c) = queue
<1> DEFINE longer == Append(queue, c)
           n == Len(queue) + 1
<1>1. /\ longer \in Seq(Client) /\ Len(longer) = n /\ longer[n] = c
      /\ \A i \in 1..Len(queue) : longer[i] = queue[i]
      /\ Len(queue) \in Nat
  BY AppendProperties, LenProperties
<1> HIDE DEF longer
<1>2. \A i \in 1..Len(longer) : longer[i] = c => i = n
  BY <1>1
<1>3. n \in 1..Len(longer)
  BY <1>1
<1>4. (CHOOSE i \in 1..Len(longer) : longer[i] = c) = n
  BY <1>1, <1>2, <1>3
<1>5. Without(longer, c) = SubSeq(longer, 1, n - 1)
                             \o SubSeq(longer, n + 1, Len(longer))
  BY <1>1, <1>3, <1>4 DEF Without
<1>6. QED
  BY <1>1, <1>5 DEF longer

\* Who asks is new to the service, unless it has asked before.
LEMMA JoinRequestService ==
  ASSUME TypeOK, Waits, JoinRequest
  PROVE  Service!Next \/ UNCHANGED Service!vars
<1>t. /\ conn \in [Client -> ConnState] /\ connect_client \in Client \cup {NoClient}
      /\ connect_queue \in Seq(Client)
  BY DEF TypeOK
<1>1. packet \in Packet /\ packet.from \in Client
  BY PacketType DEF JoinRequest, Packet
<1>2. Asks(packet.from)
  <2>1. packet = receive_queue[1] /\ 1 \in 1..Len(receive_queue)
    BY HeadTailProperties, LenProperties DEF JoinRequest, Routing, packet, TypeOK
  <2>2. packet.msg = "join_request"
    BY DEF JoinRequest, Routing
  <2>3. QED
    BY <2>1, <2>2 DEF Asks, Reads, IsJoin
<1>3. PICK c \in Client : c = packet.from
  BY <1>1
<1>4. c \notin client_list /\ ~InQueue(c)
  BY <1>2, <1>3 DEF Waits, AskersAreNew
<1>5. PICK bad \in BOOLEAN, lost \in BOOLEAN :
        LET known == InConnectQueue(c)
            queue == IF bad \/ known THEN connect_queue
                     ELSE Append(connect_queue, c)
        IN  /\ conn' = Closing(IF lost \/ bad THEN {c} ELSE {})
            /\ connect_queue' = IF lost THEN Without(queue, c) ELSE queue
            /\ fsm' = IF lost /\ Connecting(c) THEN "idle" ELSE fsm
  BY <1>3 DEF JoinRequest
<1>6. client_list' = client_list /\ connect_client' = connect_client
  BY DEF JoinRequest
<1>7. \A d \in Client : d # c => conn'[d] = conn[d]
  BY <1>5 DEF Closing
<1>8. ~Connecting(c) \/ ~lost => fsm' = fsm
  BY <1>5
<1>9. Players' = Players
  <2>1. \A d \in Client : d # c => (Connecting(d)' <=> Connecting(d))
    BY <1>5, <1>6 DEF Connecting
  <2>2. QED
    BY <1>4, <1>6, <1>7, <2>1 DEF Players, Seated, Open
<1>10. CASE lost
  <2>1. connect_queue' = connect_queue
    <3>1. CASE bad \/ InConnectQueue(c)
      BY <1>4, <1>5, <1>10, <3>1 DEF Without, InQueue
    <3>2. CASE ~(bad \/ InConnectQueue(c))
      <4>1. connect_queue' = Without(Append(connect_queue, c), c)
        BY <1>5, <1>10, <3>2
      <4>2. QED
        BY <1>4, <1>t, <4>1, WithoutLast DEF InQueue
    <3>3. QED
      BY <3>1, <3>2
  <2>2. CASE Connecting(c)
    <3>1. fsm # "idle" /\ connect_client \in Client /\ fsm' = "idle"
      BY <1>5, <1>10, <2>2 DEF Connecting
    <3>2. QED
      BY <1>9, <2>1, <3>1, AbortStep DEF Service!Next
  <2>3. CASE ~Connecting(c)
    <3>1. Serving' = Serving
      BY <1>6, <1>8, <2>3 DEF Serving
    <3>2. QED
      BY <1>9, <2>1, <3>1, HiddenStep
  <2>4. QED
    BY <2>2, <2>3
<1>11. CASE ~lost /\ (bad \/ InConnectQueue(c))
  <2>1. connect_queue' = connect_queue /\ Serving' = Serving
    BY <1>5, <1>6, <1>8, <1>11 DEF Serving
  <2>2. QED
    BY <1>9, <2>1, HiddenStep
<1>12. CASE ~lost /\ ~(bad \/ InConnectQueue(c))
  <2>1. ~Service!Waits(c)
    BY <1>4 DEF Service!Waits, InQueue
  <2>2. Serving # c /\ c \notin Players
    BY <1>4, <1>12, ClientAssumption
       DEF Serving, Players, Seated, InConnectQueue, Connecting, ClientAssumption
  <2>3. connect_queue' = Append(connect_queue, c) /\ Serving' = Serving
    BY <1>5, <1>6, <1>8, <1>12 DEF Serving
  <2>4. Service!Join(c)
    BY <1>9, <2>1, <2>2, <2>3 DEF Service!Join, Serving, Players
  <2>5. QED
    BY <2>4 DEF Service!Next
<1>13. QED
  BY <1>10, <1>11, <1>12

LEMMA CleanUpService ==
  ASSUME TypeOK, CleanUpClientList
  PROVE  UNCHANGED Service!vars
<1>1. /\ \A c \in Client : conn'[c] = "open" <=> conn[c] = "open"
      /\ client_list' = {c \in client_list : conn[c] = "open"}
      /\ UNCHANGED <<connect_queue, connect_client, fsm>>
  BY DEF CleanUpClientList, connecting, TypeOK
<1>2. Players' = Players /\ Serving' = Serving
  BY <1>1 DEF Players, Serving, Seated, Open, Connecting
<1>3. QED
  BY <1>1, <1>2, HiddenStep

LEMMA ConnectService ==
  ASSUME TypeOK, Waits, NEW c \in Client, Connect(c)
  PROVE  UNCHANGED Service!vars
<1>1. c \notin client_list
  BY DEF Connect, Waits, ListedExist
<1>2. /\ \A d \in Client : d # c => conn'[d] = conn[d]
      /\ UNCHANGED <<client_list, connect_queue, connect_client, fsm>>
  BY DEF Connect, server, connecting, TypeOK
<1>3. Players' = Players /\ Serving' = Serving
  BY <1>1, <1>2 DEF Players, Serving, Seated, Open, Connecting
<1>4. QED
  BY <1>2, <1>3, HiddenStep

LEMMA ServiceStep ==
  ASSUME IInv, Waits, Seats, [Next]_vars
  PROVE  Service!Next \/ UNCHANGED Service!vars
<1>t. TypeOK /\ client_list \subseteq Client
  BY DEF IInv, TypeOK
\* What the steps that call the state machine for connect_client have in common.
<1>a. ASSUME fsm # "idle", NEW new, NEW slots, NEW sent, NEW flushes,
             new # "idle",
             \/ Advance(new, slots, sent, flushes)
             \/ \E ids : Proceed(connect_client, connect_queue, new, ids, slots,
                                 sent, flushes)
      PROVE  Service!Next \/ UNCHANGED Service!vars
  BY <1>a, <1>t, AdvanceService
<1>1. CASE Kick
  <2>1. PICK c \in client_list : Disconnect(c)
    BY <1>1 DEF Kick
  <2>2. QED
    BY <1>t, <2>1, DisconnectService
<1>2. CASE ForceMapChange
  BY <1>2, QuietService DEF ForceMapChange, sockets, server, connecting
<1>3. ASSUME NEW c \in Client, Connect(c)
      PROVE  UNCHANGED Service!vars
  BY <1>3, <1>t, ConnectService
<1>4. ASSUME NEW c \in Client, Leave(c) \/ Receive(c)
      PROVE  UNCHANGED Service!vars
  BY <1>4, QuietService DEF Leave, Receive, server, connecting
<1>5. ASSUME NEW c \in Client, LoseClient(c)
      PROVE  Service!Next \/ UNCHANGED Service!vars
  BY <1>5, <1>t, DisconnectService DEF LoseClient
<1>6. CASE CleanUpClientList
  BY <1>6, <1>t, CleanUpService
<1>7. CASE StayIdle \/ KeepWaiting \/ UseDeletedClient
  BY <1>7, QuietService DEF StayIdle, KeepWaiting, UseDeletedClient, sockets,
                            server, connecting
<1>8. CASE ServeNext
  BY <1>8, <1>t, ServeService DEF Service!Next
<1>9. CASE TimeOut
  <2>1. PICK new, slots, sent, flushes :
          /\ Advance(new, slots, sent, flushes)
          /\ new = "drop_bad_connecting_client"
    BY <1>9, Zenon DEF TimeOut
  <2>2. fsm # "idle"
    BY <1>9 DEF TimeOut, Waiting
  <2>3. QED
    BY <1>a, <2>1, <2>2
<1>10. CASE SyncClient
  <2>1. /\ \E late \in BOOLEAN : SendNext(late)
        /\ fsm \in {"unit_profile_sync", "player_state_sync", "sync_flags",
                    "unit_sync"}
    BY <1>10 DEF SyncClient
  <2>2. QED
    BY <1>t, <2>1, SendNextService
<1>11. CASE FinishConnect
  BY <1>11, FinishService
<1>12. CASE DropBadConnectingClient
  <2>1. /\ connect_client \in Client /\ conn' = Closing({connect_client})
        /\ fsm # "idle" /\ fsm' = "idle"
        /\ UNCHANGED <<client_list, connect_queue, connect_client>>
    BY <1>12, <1>t DEF DropBadConnectingClient, TypeOK, server
  <2>2. \A d \in Client : d # connect_client => conn'[d] = conn[d]
    BY <2>1 DEF Closing
  <2>3. conn'[connect_client] # "open"
    BY <2>1 DEF Closing
  <2>4. Players' = Players
    BY <2>1, <2>2, <2>3 DEF Players, Seated, Open, Connecting
  <2>5. QED
    BY <2>1, <2>4, AbortStep DEF Service!Next
<1>13. CASE ClientDisconnect
  <2>1. CASE packet.from \in client_list
    <3>1. Disconnect(packet.from) /\ packet.from \in Client
      BY <1>13, <1>t, <2>1 DEF ClientDisconnect
    <3>2. QED
      BY <1>t, <3>1, DisconnectService
  <2>2. CASE packet.from \notin client_list
    BY <1>13, <2>2, QuietService DEF ClientDisconnect, sockets, connecting
  <2>3. QED
    BY <2>1, <2>2
<1>14. CASE JoinRequest
  BY <1>14, <1>t, JoinRequestService
<1>15. CASE ChangeFlag \/ IgnoreMessage
  BY <1>15, QuietService DEF ChangeFlag, IgnoreMessage, sockets, connecting
<1>16. CASE ConnectRequest
  <2>1. fsm # "idle"
    BY <1>16 DEF ConnectRequest, FsmMessage
  <2>2. PICK new, ids, slots, sent, flushes :
          /\ \/ Advance(new, slots, sent, flushes)
             \/ Proceed(connect_client, connect_queue, new, ids, slots, sent,
                        flushes)
          /\ new \in {"drop_bad_connecting_client", "wait_for_client_settings"}
    <3>1. \/ Advance("drop_bad_connecting_client", pstate, "nothing", FALSE)
          \/ Advance("drop_bad_connecting_client", pstate,
                     "connect_result_refused", TRUE)
          \/ \E q \in FreeSlots :
               Proceed(connect_client, connect_queue, "wait_for_client_settings",
                       [player_id EXCEPT ![connect_client] = q],
                       SetSlot(q, "allocated"), "connect_result_success", TRUE)
      BY <1>16, Zenon DEF ConnectRequest
    <3>2. /\ "drop_bad_connecting_client"
               \in {"drop_bad_connecting_client", "wait_for_client_settings"}
          /\ "wait_for_client_settings"
               \in {"drop_bad_connecting_client", "wait_for_client_settings"}
      OBVIOUS
    <3>3. QED
      BY <3>1, <3>2, Zenon
  <2>3. QED
    BY <1>a, <2>1, <2>2
<1>17. CASE ClientSettings \/ GameSetupAck
  <2>1. PICK new, slots, sent, flushes :
          /\ Advance(new, slots, sent, flushes)
          /\ \/ new = "wait_for_client_game_setup_ack"
             \/ new = "unit_profile_sync"
    BY <1>17, Zenon DEF ClientSettings, GameSetupAck
  <2>2. fsm # "idle"
    BY <1>17 DEF ClientSettings, GameSetupAck, FsmMessage
  <2>3. QED
    BY <1>a, <2>1, <2>2
<1>18. CASE SendNextProfile
  BY <1>18, <1>t, SendNextService DEF SendNextProfile, FsmMessage
<1>19. CASE UpdateGameControlFlow
  BY <1>19, QuietService
     DEF UpdateGameControlFlow, ShowEndRound, LoadNextMap, StartRound,
         FinishRound, KeepPlaying, Control, sockets, server, connecting
<1>20. CASE UNCHANGED vars
  BY <1>20, QuietService DEF vars, sockets, server, connecting
<1>21. QED
  BY <1>1, <1>2, <1>3, <1>4, <1>5, <1>6, <1>7, <1>8, <1>9, <1>10, <1>11, <1>12,
     <1>13, <1>14, <1>15, <1>16, <1>17, <1>18, <1>19, <1>20
     DEF Next, MainLoop, ConnectProcess, RoutePacket

LEMMA ServiceInit == Init => Service!Init
BY DEF Init, Service!Init, Seated

\* Players are let in one at a time, in the order they asked, and never more of
\* them than there are slots, whoever times out, is kicked, is refused, goes
\* away or is found gone by a send meanwhile.
THEOREM ServiceCorrect == Spec => JoinServiceSpec
<1>1. IInv /\ Waits /\ Seats /\ [Next]_vars => IInv' /\ Waits' /\ Seats'
  BY SafeStep, WaitsStep, SeatsStep DEF IInv
<1>2. Init => IInv /\ Waits /\ Seats
  BY InitSafe, WaitsInit, SeatsInit
<1>3. IInv /\ Waits /\ Seats /\ [Next]_vars => [Service!Next]_(Service!vars)
  BY ServiceStep
<1>4. QED
  BY <1>1, <1>2, <1>3, ServiceInit, PTL DEF Spec, JoinServiceSpec, Service!Spec
=============================================================================
