--------------------- MODULE ServerConnectSafety_proofs ---------------------
(***************************************************************************)
(* The safety of letting players in, for any clients, slots and bounds:    *)
(* one owner per slot, no connection in limbo, quiet map changes, no slot  *)
(* that leaks.                                                             *)
(***************************************************************************)
EXTENDS ServerConnect_proofs

-----------------------------------------------------------------------------
(* The inductive invariant *)

\* An open connection that has a player id.
Owner(c) == conn[c] = "open" /\ player_id[c] # NoPlayer

\* States of the handshake in which connect_client may have a slot that its
\* player id does not keep taken, and those of them it goes on from.
BeforeSlot == {"idle", "wait_for_connect_request"}
Exempt == fsm \notin BeforeSlot
HoldingState == ConnectState \ (BeforeSlot \cup {"drop_bad_connecting_client"})
ListedState == {"unit_sync", "finish_connect"}

\* The slot of every owner is taken, so that it is not given away again.
SlotsTaken ==
  \A c \in Client :
    Owner(c) /\ ~(Exempt /\ c = connect_client) => pstate[player_id[c]] # "free"

\* A listed client whose connection is gone may still be kicked, which frees
\* its slot once more: only the handshake may have got that slot meanwhile.
GhostsHoldNothing ==
  \A e \in client_list, d \in Client :
    conn[e] # "open" /\ Owner(d) /\ player_id[d] = player_id[e]
      => d = connect_client /\ Exempt

\* After the cleanup of a tick all listed clients are connected.
ListIsClean ==
  phase = "connect" => \A c \in client_list : conn[c] = "open"

\* The slot that is freed when the handshake fails is nobody else's.
HeldSlot ==
  fsm \in HoldingState =>
    \A d \in Client :
      Owner(d) /\ d # connect_client => player_id[d] # player_id[connect_client]

\* From the unit sync on the connecting client is listed.
ListedInTime ==
  fsm \in ListedState /\ Owner(connect_client) => connect_client \in client_list

\* A map change under way has the lock, from the moment it waits for the
\* handshake on.
LockedForMap ==
  /\ map_cycle \in {"cycle_next_map", "changing"} => connection_lock_state
  /\ map_cycle = "changing" => fsm = "idle"

Safe == /\ SlotsTaken
        /\ OneOwnerPerSlot
        /\ GhostsHoldNothing
        /\ ListIsClean
        /\ HeldSlot
        /\ ListedInTime
        /\ NoLimbo
        /\ LockedForMap
IInv == TypeOK /\ Safe

-----------------------------------------------------------------------------
(* One call of the state machine *)

\* What Proceed does, with the clients it loses collected in one set.
LEMMA ProceedFacts ==
  ASSUME TypeOK,
         NEW cc \in Client, NEW queue \in Seq(Client), NEW new, NEW ids,
         NEW slots, NEW sent, NEW flushes,
         Proceed(cc, queue, new, ids, slots, sent, flushes)
  PROVE  \E gone \in SUBSET Client :
           /\ \A c \in gone : conn[c] = "open"
           /\ conn' = Closing(gone)
           /\ pstate' = [p \in Slot |-> IF \E c \in gone : ids[c] = p
                                        THEN "free" ELSE slots[p]]
           /\ cc \notin gone => fsm' = new
           /\ fsm' = new \/ fsm' = "idle"
           /\ \/ client_list' = client_list
              \/ client_list' = client_list \cup {cc} /\ new = "unit_sync"
           /\ new = "unit_sync" /\ fsm # "unit_sync" /\ cc \notin gone
                => cc \in client_list'
           /\ player_id' = ids /\ connect_client' = cc
           /\ map_cycle' = map_cycle
           /\ connection_lock_state' = connection_lock_state
           /\ phase' # "connect"
<1>1. PICK lost \in Losses(cc, flushes, new), reply \in Replies(sent) :
        \E d \in QueueLosses(queue, lost) :
          Outcome(cc, queue, new, ids, slots, lost, reply, d)
  BY Zenon DEF Proceed
<1>2. PICK d \in QueueLosses(queue, lost) :
        Outcome(cc, queue, new, ids, slots, lost, reply, d)
  BY <1>1
<1> DEFINE gone == (IF lost = "none" THEN {} ELSE {cc}) \cup ({d} \ {NoClient})
<1>3. lost = "none" \/ conn[cc] = "open"
  BY DEF Losses, MayFail
<1>4. d = NoClient \/ (d \in Client /\ conn[d] = "open")
  BY DEF QueueLosses, MayFail
<1>5. gone \in SUBSET Client /\ \A c \in gone : conn[c] = "open"
  BY <1>3, <1>4
<1>6. cc \notin gone => lost = "none"
  OBVIOUS
<1>7. /\ conn' = Closing(gone)
      /\ pstate' = [p \in Slot |-> IF \E c \in gone : ids[c] = p
                                   THEN "free" ELSE slots[p]]
  BY <1>2, Zenon DEF Outcome
<1>8. fsm' = IF lost = "enter" THEN "idle" ELSE new
  BY <1>2, Zenon DEF Outcome
<1>9. client_list' = IF new = "unit_sync" /\ ~(new = fsm /\ lost = "none")
                          /\ lost # "enter"
                     THEN client_list \cup {cc} ELSE client_list
  BY <1>2, Zenon DEF Outcome
<1>10. /\ player_id' = ids /\ connect_client' = cc
       /\ map_cycle' = map_cycle
       /\ connection_lock_state' = connection_lock_state
       /\ phase' # "connect"
  BY <1>2 DEF Outcome, game
<1> HIDE DEF gone
<1>11. QED
  BY <1>5, <1>6, <1>7, <1>8, <1>9, <1>10

\* When a call of the state machine for cc keeps the invariant: what it does to
\* the slots and player ids must leave the owners their slots, it may only end
\* where cc may stay, and it may only leave idle without a map change.
LEMMA ProceedSafe ==
  ASSUME IInv,
         NEW cc \in Client, NEW queue \in Seq(Client), NEW new \in ConnectState,
         NEW ids \in [Client -> Slot \cup {NoPlayer}],
         NEW slots \in [Slot -> PlayerStatus], NEW sent, NEW flushes,
         Proceed(cc, queue, new, ids, slots, sent, flushes),
         \A c \in Client \ {cc} : ids[c] = player_id[c],
         \A c \in Client \ {cc} : Owner(c) => slots[player_id[c]] # "free",
         conn[cc] = "open" \/ new \in HoldingState =>
           \A c \in Client \ {cc} : Owner(c) => player_id[c] # ids[cc],
         new \in BeforeSlot /\ conn[cc] = "open" /\ ids[cc] # NoPlayer =>
           slots[ids[cc]] # "free",
         \A e \in client_list, d \in Client :
           conn[e] # "open" /\ conn[d] = "open" /\ ids[d] # NoPlayer
             /\ ids[d] = ids[e] => d = cc /\ new \notin BeforeSlot,
         new \in ListedState /\ conn[cc] = "open" /\ ids[cc] # NoPlayer =>
           cc \in client_list \/ (new = "unit_sync" /\ fsm # "unit_sync"),
         new = "idle" /\ conn[cc] = "open" /\ ids[cc] # NoPlayer =>
           cc \in client_list,
         cc # connect_client => fsm = "idle",
         new # "idle" => map_cycle # "changing"
  PROVE  Safe'
<1>t. /\ conn \in [Client -> ConnState] /\ client_list \subseteq Client
      /\ player_id \in [Client -> Slot \cup {NoPlayer}]
  BY DEF IInv, TypeOK
<1>s. /\ SlotsTaken /\ OneOwnerPerSlot /\ GhostsHoldNothing /\ NoLimbo
      /\ LockedForMap
  BY DEF IInv, Safe
<1>1. PICK gone \in SUBSET Client :
        /\ \A c \in gone : conn[c] = "open"
        /\ conn' = Closing(gone)
        /\ pstate' = [p \in Slot |-> IF \E c \in gone : ids[c] = p
                                     THEN "free" ELSE slots[p]]
        /\ cc \notin gone => fsm' = new
        /\ fsm' = new \/ fsm' = "idle"
        /\ \/ client_list' = client_list
           \/ client_list' = client_list \cup {cc} /\ new = "unit_sync"
        /\ new = "unit_sync" /\ fsm # "unit_sync" /\ cc \notin gone
             => cc \in client_list'
        /\ player_id' = ids /\ connect_client' = cc
        /\ map_cycle' = map_cycle
        /\ connection_lock_state' = connection_lock_state
        /\ phase' # "connect"
  BY ProceedFacts DEF IInv
\* Who is open afterwards was open before and is not lost.
<1>2. \A c \in Client : conn'[c] = "open" <=> conn[c] = "open" /\ c \notin gone
  BY <1>1, <1>t DEF Closing
<1>3. \A c \in Client \ {cc} : Owner(c)' => Owner(c) /\ player_id[c] = ids[c]
  BY <1>1, <1>2 DEF Owner
<1>4. conn'[cc] = "open" => fsm' = new
  BY <1>1, <1>2
\* Two open clients have different slots, also under the new ids.
<1>5. \A c, d \in Client :
        c # d /\ conn[c] = "open" /\ conn[d] = "open" /\ ids[c] # NoPlayer
          => ids[c] # ids[d]
  BY <1>s DEF OneOwnerPerSlot, Owner, Open
<1>6. OneOwnerPerSlot'
  BY <1>1, <1>2, <1>5 DEF OneOwnerPerSlot, Open
<1>7. SlotsTaken'
  <2> SUFFICES ASSUME NEW c \in Client, Owner(c)', ~(Exempt /\ c = connect_client)'
               PROVE  pstate'[ids[c]] # "free"
    BY <1>1 DEF SlotsTaken
  <2>1. conn[c] = "open" /\ c \notin gone /\ ids[c] # NoPlayer /\ ids[c] \in Slot
    BY <1>1, <1>2 DEF Owner
  <2>2. pstate'[ids[c]] = slots[ids[c]]
    BY <1>1, <1>5, <2>1
  <2>3. CASE c # cc
    BY <1>3, <2>2, <2>3
  <2>4. CASE c = cc
    <3>1. new \in BeforeSlot
      BY <1>1, <1>4, <1>2, <2>1, <2>4 DEF Exempt
    <3>2. QED
      BY <2>1, <2>2, <2>4, <3>1
  <2>5. QED
    BY <2>3, <2>4
<1>8. GhostsHoldNothing'
  <2> SUFFICES ASSUME NEW e \in client_list', NEW d \in Client,
                      conn'[e] # "open", Owner(d)', ids[d] = ids[e]
               PROVE  d = cc /\ fsm' \notin BeforeSlot
    BY <1>1 DEF GhostsHoldNothing, Exempt
  <2>1. conn[d] = "open" /\ d \notin gone /\ ids[d] # NoPlayer /\ e \in Client
    BY <1>1, <1>2, <1>t DEF Owner
  <2>2. conn[e] # "open"
    BY <1>2, <1>5, <2>1
  <2>3. CASE e \in client_list
    <3>1. d = cc /\ new \notin BeforeSlot
      BY <2>1, <2>2, <2>3
    <3>2. QED
      BY <1>1, <2>1, <3>1
  <2>4. CASE e \notin client_list
    <3>1. e = cc /\ new \in HoldingState
      BY <1>1, <2>4 DEF HoldingState, ConnectState, BeforeSlot
    <3>2. d # cc /\ Owner(d) /\ player_id[d] # ids[cc]
      BY <1>1, <1>3, <2>1, <2>2, <3>1 DEF Owner
    <3>3. QED
      BY <3>1, <3>2
  <2>5. QED
    BY <2>3, <2>4
<1>9. ListIsClean'
  BY <1>1 DEF ListIsClean
<1>10. HeldSlot'
  <2> SUFFICES ASSUME fsm' \in HoldingState, NEW d \in Client, Owner(d)', d # cc
               PROVE  ids[d] # ids[cc]
    BY <1>1 DEF HeldSlot
  <2>1. new \in HoldingState
    BY <1>1 DEF HoldingState, BeforeSlot
  <2>2. QED
    BY <1>3, <2>1
<1>11. ListedInTime'
  <2> SUFFICES ASSUME fsm' \in ListedState, Owner(cc)'
               PROVE  cc \in client_list'
    BY <1>1 DEF ListedInTime
  <2>1. new \in ListedState /\ cc \notin gone /\ conn[cc] = "open"
        /\ ids[cc] # NoPlayer
    BY <1>1, <1>2 DEF Owner, ListedState
  <2>2. QED
    BY <1>1, <2>1
<1>12. NoLimbo'
  <2> SUFFICES ASSUME NEW c \in Client, conn'[c] = "open", ids[c] # NoPlayer
               PROVE  c \in client_list' \/ Connecting(c)'
    BY <1>1 DEF NoLimbo, Open
  <2>1. CASE c # cc
    <3>1. c \in client_list \/ Connecting(c)
      BY <1>2, <1>s, <2>1 DEF NoLimbo, Open
    <3>2. ~Connecting(c)
      BY <2>1 DEF Connecting
    <3>3. QED
      BY <1>1, <3>1, <3>2
  <2>2. CASE c = cc
    <3>1. fsm' = new /\ conn[cc] = "open" /\ ids[cc] # NoPlayer
      BY <1>1, <1>2, <2>2
    <3>2. QED
      BY <1>1, <2>2, <3>1 DEF Connecting
  <2>3. QED
    BY <2>1, <2>2
<1>13. LockedForMap'
  BY <1>1, <1>s DEF LockedForMap
<1>14. QED
  BY <1>6, <1>7, <1>8, <1>9, <1>10, <1>11, <1>12, <1>13 DEF Safe

\* The usual call, which leaves all other clients' slots alone.
LEMMA AdvanceSafe ==
  ASSUME IInv, fsm # "idle", NEW new \in ConnectState,
         NEW slots \in [Slot -> PlayerStatus], NEW sent, NEW flushes,
         Advance(new, slots, sent, flushes),
         \A c \in Client \ {connect_client} :
           Owner(c) => slots[player_id[c]] # "free",
         new \in HoldingState => fsm \in HoldingState,
         new \in BeforeSlot => phase = "connect",
         new \in BeforeSlot /\ Owner(connect_client) =>
           slots[player_id[connect_client]] # "free",
         new \in ListedState /\ Owner(connect_client) =>
           connect_client \in client_list
             \/ (new = "unit_sync" /\ fsm # "unit_sync"),
         new = "idle" /\ Owner(connect_client) => connect_client \in client_list
  PROVE  Safe'
<1> DEFINE cc == connect_client
<1>1. /\ cc \in Client /\ connect_queue \in Seq(Client)
      /\ player_id \in [Client -> Slot \cup {NoPlayer}]
  BY DEF IInv, TypeOK
<1>2. Proceed(cc, connect_queue, new, player_id, slots, sent, flushes)
  BY DEF Advance
<1>3. conn[cc] = "open" \/ new \in HoldingState =>
        \A c \in Client \ {cc} : Owner(c) => player_id[c] # player_id[cc]
  BY <1>1 DEF IInv, Safe, OneOwnerPerSlot, HeldSlot, Owner, Open
<1>4. \A e \in client_list, d \in Client :
        conn[e] # "open" /\ conn[d] = "open" /\ player_id[d] # NoPlayer
          /\ player_id[d] = player_id[e] => d = cc /\ new \notin BeforeSlot
  BY DEF IInv, Safe, GhostsHoldNothing, ListIsClean, Owner
<1>5. map_cycle # "changing"
  BY DEF IInv, Safe, LockedForMap
<1>6. QED
  BY <1>1, <1>2, <1>3, <1>4, <1>5, ProceedSafe DEF Owner

-----------------------------------------------------------------------------
(* The other steps *)

\* Nothing the invariant speaks of changes but the slots, which stay taken, the
\* phase, which does not become "connect", and the map cycle.
LEMMA QuietSafe ==
  ASSUME IInv,
         UNCHANGED <<conn, player_id, client_list, connect_client, fsm>>,
         phase' = "connect" => phase = "connect",
         \A p \in Slot : pstate[p] # "free" => pstate'[p] # "free",
         LockedForMap'
  PROVE  Safe'
<1>1. player_id \in [Client -> Slot \cup {NoPlayer}]
  BY DEF IInv, TypeOK
<1>2. SlotsTaken' /\ OneOwnerPerSlot' /\ NoLimbo'
  BY <1>1 DEF IInv, Safe, SlotsTaken, OneOwnerPerSlot, NoLimbo, Owner, Open,
              Exempt, Connecting
<1>3. GhostsHoldNothing' /\ ListIsClean' /\ HeldSlot' /\ ListedInTime'
  BY DEF IInv, Safe, GhostsHoldNothing, ListIsClean, HeldSlot, ListedInTime,
         Owner, Exempt
<1>4. QED
  BY <1>2, <1>3 DEF Safe

\* Clients whose loss is noticed give their slots back; a client that is not
\* open any more when that happens is still listed.
LEMMA LostSafe ==
  ASSUME IInv, phase # "connect", NEW c \in Client,
         conn[c] = "open" \/ c \in client_list,
         conn' = Closing({c}),
         fsm' = IF Connecting(c) THEN "idle" ELSE fsm,
         pstate' = SetSlot(player_id[c], "free"),
         UNCHANGED <<phase, player_id, client_list, connect_client,
                     map_cycle, connection_lock_state>>
  PROVE  Safe'
<1>t. /\ client_list \subseteq Client
      /\ fsm # "idle" => connect_client \in Client
      /\ player_id \in [Client -> Slot \cup {NoPlayer}]
  BY DEF IInv, TypeOK
<1>s. SlotsTaken /\ OneOwnerPerSlot /\ GhostsHoldNothing /\ HeldSlot
      /\ ListedInTime /\ NoLimbo /\ LockedForMap
  BY DEF IInv, Safe
<1>1. \A d \in Client : conn'[d] = "open" <=> conn[d] = "open" /\ d # c
  BY DEF Closing
<1>2. \A d \in Client : Owner(d)' => Owner(d) /\ d # c
  BY <1>1 DEF Owner
\* Connecting(c) ends the handshake, so that everybody else keeps its state.
<1>3. \A d \in Client : d # c /\ d = connect_client => fsm' = fsm
  BY DEF Connecting
<1>4. fsm' = fsm \/ (fsm' = "idle" /\ connect_client = c)
  BY DEF Connecting
<1>5. OneOwnerPerSlot'
  BY <1>1, <1>s DEF OneOwnerPerSlot, Open
<1>6. SlotsTaken'
  <2> SUFFICES ASSUME NEW d \in Client, Owner(d)', ~(Exempt /\ d = connect_client)'
               PROVE  pstate'[player_id[d]] # "free"
    BY DEF SlotsTaken
  <2>1. Owner(d) /\ d # c /\ player_id[d] \in Slot
    BY <1>2, <1>t DEF Owner
  <2>2. ~(Exempt /\ d = connect_client)
    BY <1>3, <2>1 DEF Exempt
  <2>3. pstate[player_id[d]] # "free"
    BY <1>s, <2>1, <2>2 DEF SlotsTaken
  <2>4. player_id[d] # player_id[c]
    BY <1>s, <2>1, <2>2 DEF OneOwnerPerSlot, GhostsHoldNothing, Owner, Open
  <2>5. QED
    BY <2>1, <2>3, <2>4 DEF SetSlot
<1>7. GhostsHoldNothing'
  <2> SUFFICES ASSUME NEW e \in client_list, NEW d \in Client,
                      conn'[e] # "open", Owner(d)', player_id[d] = player_id[e]
               PROVE  d = connect_client /\ Exempt'
    BY DEF GhostsHoldNothing
  <2>1. Owner(d) /\ d # c /\ e \in Client
    BY <1>2, <1>t
  <2>2. conn[e] # "open"
    BY <1>1, <1>s, <2>1 DEF OneOwnerPerSlot, Owner, Open
  <2>3. d = connect_client /\ Exempt
    BY <1>s, <2>1, <2>2 DEF GhostsHoldNothing
  <2>4. QED
    BY <1>3, <2>1, <2>3 DEF Exempt
<1>8. ListIsClean'
  BY DEF ListIsClean
<1>9. HeldSlot' /\ ListedInTime'
  <2>1. fsm' \in HoldingState \/ fsm' \in ListedState =>
          fsm' = fsm /\ connect_client \in Client
    BY <1>4, <1>t DEF HoldingState, ListedState, BeforeSlot
  <2>2. QED
    BY <1>2, <1>s, <2>1 DEF HeldSlot, ListedInTime
<1>10. NoLimbo'
  BY <1>1, <1>3, <1>s DEF NoLimbo, Open, Connecting
<1>11. LockedForMap'
  BY <1>4, <1>s DEF LockedForMap
<1>12. QED
  BY <1>5, <1>6, <1>7, <1>8, <1>9, <1>10, <1>11 DEF Safe

\* A client is closed and nobody is told: its slot stays taken.  The state
\* machine may go to idle if this was its client.
LEMMA ClosedSafe ==
  ASSUME IInv, NEW c \in Client, conn' = Closing({c}), phase' # "connect",
         fsm' = fsm \/ (fsm' = "idle" /\ c = connect_client),
         UNCHANGED <<player_id, client_list, connect_client, pstate,
                     map_cycle, connection_lock_state>>
  PROVE  Safe'
<1>t. /\ client_list \subseteq Client
      /\ fsm # "idle" => connect_client \in Client
  BY DEF IInv, TypeOK
<1>s. SlotsTaken /\ OneOwnerPerSlot /\ GhostsHoldNothing /\ HeldSlot
      /\ ListedInTime /\ NoLimbo /\ LockedForMap
  BY DEF IInv, Safe
<1>1. \A d \in Client : conn'[d] = "open" <=> conn[d] = "open" /\ d # c
  BY DEF Closing
<1>2. \A d \in Client : Owner(d)' => Owner(d) /\ d # c
  BY <1>1 DEF Owner
<1>3. \A d \in Client : d # c /\ d = connect_client => fsm' = fsm
  OBVIOUS
<1>4. OneOwnerPerSlot'
  BY <1>1, <1>s DEF OneOwnerPerSlot, Open
<1>5. SlotsTaken'
  BY <1>2, <1>3, <1>s DEF SlotsTaken, Exempt
<1>6. GhostsHoldNothing'
  <2> SUFFICES ASSUME NEW e \in client_list, NEW d \in Client,
                      conn'[e] # "open", Owner(d)', player_id[d] = player_id[e]
               PROVE  d = connect_client /\ Exempt'
    BY DEF GhostsHoldNothing
  <2>1. Owner(d) /\ d # c /\ e \in Client
    BY <1>2, <1>t
  <2>2. conn[e] # "open"
    BY <1>1, <1>s, <2>1 DEF OneOwnerPerSlot, Owner, Open
  <2>3. QED
    BY <1>3, <1>s, <2>1, <2>2 DEF GhostsHoldNothing, Exempt
<1>7. HeldSlot' /\ ListedInTime' /\ ListIsClean'
  <2>1. fsm' \in HoldingState \/ fsm' \in ListedState =>
          fsm' = fsm /\ connect_client \in Client
    BY <1>t DEF HoldingState, ListedState, BeforeSlot
  <2>2. QED
    BY <1>2, <1>s, <2>1 DEF HeldSlot, ListedInTime, ListIsClean
<1>8. NoLimbo' /\ LockedForMap'
  BY <1>1, <1>3, <1>s DEF NoLimbo, LockedForMap, Open, Connecting
<1>9. QED
  BY <1>4, <1>5, <1>6, <1>7, <1>8 DEF Safe

LEMMA DisconnectSafe ==
  ASSUME IInv, phase # "connect", NEW c \in Client,
         conn[c] = "open" \/ c \in client_list,
         Disconnect(c), UNCHANGED phase
  PROVE  Safe'
BY LostSafe DEF Disconnect, game

\* A slot of the table stays taken when it is set to anything but free, and
\* only the slot of a player id is set.
LEMMA SetSlotTaken ==
  ASSUME TypeOK, NEW p, NEW status \in PlayerStatus
  PROVE  \A q \in Slot :
           /\ status # "free" /\ pstate[q] # "free"
                => SetSlot(p, status)[q] # "free"
           /\ q # p => SetSlot(p, status)[q] = pstate[q]
           /\ SetSlot(p, status)[q] \in {pstate[q], status}
BY DEF SetSlot

\* In the states that hold a slot, freeing that slot takes it from nobody else.
LEMMA FreePlayerHeld ==
  ASSUME IInv, fsm \in HoldingState, NEW c \in Client \ {connect_client}, Owner(c)
  PROVE  FreePlayer[player_id[c]] # "free"
<1>1. player_id[c] \in Slot /\ player_id[c] # player_id[connect_client]
  BY DEF IInv, TypeOK, Safe, HeldSlot, Owner
<1>2. pstate[player_id[c]] # "free"
  BY DEF IInv, Safe, SlotsTaken
<1>3. QED
  BY <1>1, <1>2 DEF FreePlayer, PlayerOf, SetSlot

\* As long as the slots are as they were, everybody else's is taken.
LEMMA OthersTaken ==
  ASSUME IInv, NEW c \in Client \ {connect_client}, Owner(c)
  PROVE  player_id[c] \in Slot /\ pstate[player_id[c]] # "free"
BY DEF IInv, TypeOK, Safe, SlotsTaken, Owner

-----------------------------------------------------------------------------
(* The actions of the state machine *)

LEMMA ServeNextSafe == IInv /\ ServeNext => Safe'
<1> SUFFICES ASSUME IInv, ServeNext PROVE Safe'
  OBVIOUS
<1> DEFINE cc == Head(connect_queue)
           queue == Tail(connect_queue)
<1>1. /\ cc \in Client /\ queue \in Seq(Client)
      /\ player_id \in [Client -> Slot \cup {NoPlayer}]
      /\ pstate \in [Slot -> PlayerStatus]
  BY HeadTailProperties DEF ServeNext, IInv, TypeOK
<1>2. "wait_for_connect_request" \in ConnectState
      /\ "wait_for_connect_request" \in BeforeSlot
      /\ "wait_for_connect_request" \notin HoldingState \cup ListedState
  BY DEF ConnectState, BeforeSlot, HoldingState, ListedState
<1>3. fsm = "idle" /\ ~Exempt /\ ~connection_lock_state
  BY DEF ServeNext, Exempt, BeforeSlot
<1>4. PICK sent, flushes :
        Proceed(cc, queue, "wait_for_connect_request", player_id,
                pstate, sent, flushes)
  BY Zenon DEF ServeNext
<1>5. \A c \in Client : Owner(c) => pstate[player_id[c]] # "free"
  BY <1>3 DEF IInv, Safe, SlotsTaken
<1>6. \A e \in client_list, d \in Client :
        conn[e] # "open" /\ conn[d] = "open" /\ player_id[d] # NoPlayer
          /\ player_id[d] = player_id[e]
          => d = cc /\ "wait_for_connect_request" \notin BeforeSlot
  BY <1>3 DEF IInv, Safe, GhostsHoldNothing, Owner
<1>7. conn[cc] = "open" =>
        \A c \in Client \ {cc} : Owner(c) => player_id[c] # player_id[cc]
  BY <1>1 DEF IInv, Safe, OneOwnerPerSlot, Owner, Open
<1>8. map_cycle # "changing"
  BY <1>3 DEF IInv, Safe, LockedForMap
<1>9. conn[cc] = "open" /\ player_id[cc] # NoPlayer =>
        pstate[player_id[cc]] # "free"
  BY <1>1, <1>5 DEF Owner
<1>10. /\ ~("wait_for_connect_request" \in HoldingState)
       /\ ~("wait_for_connect_request" \in ListedState)
       /\ "wait_for_connect_request" # "idle"
  BY <1>2
<1> HIDE DEF cc, queue
<1>11. QED
  BY <1>1, <1>2, <1>3, <1>4, <1>5, <1>6, <1>7, <1>8, <1>9, <1>10, ProceedSafe

LEMMA TimeOutSafe == IInv /\ TimeOut => Safe'
<1> SUFFICES ASSUME IInv, TimeOut PROVE Safe'
  OBVIOUS
<1> DEFINE slots == IF fsm = "wait_for_connect_request" THEN pstate ELSE FreePlayer
<1>1. Advance("drop_bad_connecting_client", slots, "nothing", FALSE)
  BY DEF TimeOut
<1>2. slots \in [Slot -> PlayerStatus]
  BY FreePlayerType DEF IInv, TypeOK
<1>3. fsm # "idle" /\ (fsm = "wait_for_connect_request" \/ fsm \in HoldingState)
  BY DEF TimeOut, Waiting, HoldingState, BeforeSlot, ConnectState
<1>4. \A c \in Client \ {connect_client} : Owner(c) => slots[player_id[c]] # "free"
  BY <1>3, FreePlayerHeld, OthersTaken
<1>5. /\ "drop_bad_connecting_client" \in ConnectState
      /\ "drop_bad_connecting_client" \notin HoldingState \cup BeforeSlot \cup ListedState
  BY DEF ConnectState, HoldingState, BeforeSlot, ListedState
<1> HIDE DEF slots
<1>6. QED
  BY <1>1, <1>2, <1>3, <1>4, <1>5, AdvanceSafe

LEMMA SendNextSafe ==
  ASSUME IInv, NEW late \in BOOLEAN, SendNext(late),
         fsm \in {"unit_profile_sync", "player_state_sync", "sync_flags",
                  "unit_sync"},
         late => fsm # "unit_sync"
  PROVE  Safe'
<1> DEFINE done == sync_count + 1 = SyncEnd(fsm)
           drop == late /\ ~done
           new == IF done THEN NextSync(fsm)
                  ELSE IF drop THEN "drop_bad_connecting_client" ELSE fsm
           slots == IF drop THEN FreePlayer ELSE pstate
           sent == IF fsm = "unit_profile_sync" THEN "unit_profile" ELSE "sync"
<1>1. Advance(new, slots, sent, SyncFlushes(fsm))
  BY DEF SendNext
<1>2. fsm # "idle" /\ fsm \in HoldingState
  BY DEF HoldingState, BeforeSlot, ConnectState
<1>3. new \in ConnectState /\ new \notin BeforeSlot
  BY DEF NextSync, ConnectState, BeforeSlot
<1>4. slots \in [Slot -> PlayerStatus]
  BY FreePlayerType DEF IInv, TypeOK
<1>5. \A c \in Client \ {connect_client} : Owner(c) => slots[player_id[c]] # "free"
  BY <1>2, FreePlayerHeld, OthersTaken
<1>6. new \in ListedState => fsm = "unit_sync" \/ (new = "unit_sync" /\ fsm # "unit_sync")
  BY DEF NextSync, ListedState
<1>7. fsm = "unit_sync" /\ Owner(connect_client) => connect_client \in client_list
  BY DEF IInv, Safe, ListedInTime, ListedState
<1>8. new # "idle"
  BY <1>3 DEF BeforeSlot
<1> HIDE DEF new, slots, sent
<1>9. QED
  BY <1>1, <1>2, <1>3, <1>4, <1>5, <1>6, <1>7, <1>8, AdvanceSafe

LEMMA FinishConnectSafe == IInv /\ FinishConnect => Safe'
<1> SUFFICES ASSUME IInv, FinishConnect PROVE Safe'
  OBVIOUS
<1>t. TypeOK /\ pstate \in [Slot -> PlayerStatus] /\ LockedForMap
  BY DEF IInv, TypeOK, Safe
<1>1. CASE player_id[connect_client] = NoPlayer
  <2>1. phase' = "crashed" /\ UNCHANGED <<sockets, client_list, connecting,
                                          pstate, game>>
    BY <1>1 DEF FinishConnect
  <2>2. QED
    BY <1>t, <2>1, QuietSafe DEF sockets, connecting, game, LockedForMap
<1>2. CASE player_id[connect_client] # NoPlayer
  <2> DEFINE slots == SetSlot(player_id[connect_client], "selecting_flag")
  <2>1. /\ Advance("idle", slots, "sync_complete", FALSE)
        /\ phase = "connect" /\ fsm = "finish_connect"
    BY <1>2 DEF FinishConnect
  <2>2. slots \in [Slot -> PlayerStatus]
    BY <1>t, SetSlotType DEF PlayerStatus
  <2>3. \A q \in Slot : pstate[q] # "free" => slots[q] # "free"
    BY <1>t, SetSlotTaken DEF PlayerStatus
  <2>4. \A c \in Client \ {connect_client} : Owner(c) => slots[player_id[c]] # "free"
    BY <2>3, OthersTaken
  <2>5. connect_client \in Client
    BY <1>t, <2>1 DEF TypeOK
  <2>6. Owner(connect_client) => slots[player_id[connect_client]] # "free"
    BY <1>t, <2>5 DEF SetSlot, Owner, TypeOK
  <2>7. Owner(connect_client) => connect_client \in client_list
    BY <2>1 DEF IInv, Safe, ListedInTime, ListedState
  <2>8. "idle" \in ConnectState /\ "idle" \notin HoldingState \cup ListedState
        /\ fsm # "idle"
    BY <2>1 DEF ConnectState, HoldingState, BeforeSlot, ListedState
  <2> HIDE DEF slots
  <2>9. QED
    BY <2>1, <2>2, <2>4, <2>6, <2>7, <2>8, AdvanceSafe
<1>3. QED
  BY <1>1, <1>2

LEMMA DropBadConnectingClientSafe == IInv /\ DropBadConnectingClient => Safe'
<1> SUFFICES ASSUME IInv, DropBadConnectingClient PROVE Safe'
  OBVIOUS
<1>1. connect_client \in Client
  BY DEF DropBadConnectingClient, IInv, TypeOK
<1>2. /\ conn' = Closing({connect_client}) /\ fsm' = "idle" /\ phase' = "route"
      /\ UNCHANGED <<player_id, client_list, connect_client, pstate,
                     map_cycle, connection_lock_state>>
  BY DEF DropBadConnectingClient, server, game
<1>3. QED
  BY <1>1, <1>2, ClosedSafe

LEMMA ConnectRequestSafe == IInv /\ ConnectRequest => Safe'
<1> SUFFICES ASSUME IInv, ConnectRequest PROVE Safe'
  OBVIOUS
<1> DEFINE cc == connect_client
<1>1. /\ fsm = "wait_for_connect_request" /\ ~Exempt
      /\ cc \in Client /\ connect_queue \in Seq(Client)
      /\ player_id \in [Client -> Slot \cup {NoPlayer}]
      /\ pstate \in [Slot -> PlayerStatus]
  BY DEF ConnectRequest, FsmMessage, IInv, TypeOK, Exempt, BeforeSlot
<1>2. \/ \E sent, flushes :
           Advance("drop_bad_connecting_client", pstate, sent, flushes)
      \/ \E p \in FreeSlots :
           Proceed(cc, connect_queue, "wait_for_client_settings",
                   [player_id EXCEPT ![cc] = p],
                   SetSlot(p, "allocated"), "connect_result_success", TRUE)
  BY DEF ConnectRequest
<1>3. ASSUME NEW sent, NEW flushes,
             Advance("drop_bad_connecting_client", pstate, sent, flushes)
      PROVE  Safe'
  <2>1. /\ "drop_bad_connecting_client" \in ConnectState
        /\ "drop_bad_connecting_client" \notin HoldingState \cup BeforeSlot \cup ListedState
    BY DEF ConnectState, HoldingState, BeforeSlot, ListedState
  <2>2. \A c \in Client \ {cc} : Owner(c) => pstate[player_id[c]] # "free"
    BY OthersTaken
  <2>3. QED
    BY <1>1, <1>3, <2>1, <2>2, AdvanceSafe
<1>4. ASSUME NEW p \in FreeSlots,
             Proceed(cc, connect_queue, "wait_for_client_settings",
                     [player_id EXCEPT ![cc] = p],
                     SetSlot(p, "allocated"), "connect_result_success", TRUE)
      PROVE  Safe'
  <2> DEFINE ids == [player_id EXCEPT ![cc] = p]
             slots == SetSlot(p, "allocated")
  <2>1. p \in Slot /\ pstate[p] = "free" /\ p # NoPlayer
    BY <1>4, SlotAssumption DEF FreeSlots
  <2>2. ids \in [Client -> Slot \cup {NoPlayer}] /\ ids[cc] = p
        /\ \A c \in Client \ {cc} : ids[c] = player_id[c]
    BY <1>1, <2>1
  <2>3. slots \in [Slot -> PlayerStatus]
    BY SetSlotType DEF IInv, PlayerStatus
  \* Nobody has a free slot, so nobody has the one that is given away.
  <2>4. \A c \in Client : Owner(c) =>
          player_id[c] \in Slot /\ pstate[player_id[c]] # "free"
    BY <1>1 DEF IInv, Safe, SlotsTaken, Owner
  <2>5. \A c \in Client : Owner(c) => player_id[c] # p
    BY <2>1, <2>4
  <2>6. \A c \in Client : Owner(c) => slots[player_id[c]] # "free"
    BY <2>4, <2>5 DEF SetSlot
  <2>7. /\ "wait_for_client_settings" \in ConnectState
        /\ "wait_for_client_settings" \notin BeforeSlot \cup ListedState
        /\ "wait_for_client_settings" # "idle"
    BY DEF ConnectState, BeforeSlot, ListedState
  <2>8. \A e \in client_list, d \in Client :
          conn[e] # "open" /\ conn[d] = "open" /\ ids[d] # NoPlayer
            /\ ids[d] = ids[e]
          => d = cc /\ "wait_for_client_settings" \notin BeforeSlot
    <3> SUFFICES ASSUME NEW e \in client_list, NEW d \in Client, d # cc,
                        conn[e] # "open", conn[d] = "open", ids[d] # NoPlayer,
                        ids[d] = ids[e]
                 PROVE  FALSE
      BY <2>7
    <3>1. Owner(d) /\ ids[d] = player_id[d]
      BY <2>2 DEF Owner
    <3>2. e # cc
      BY <2>2, <2>5, <3>1
    <3>3. player_id[e] = player_id[d]
      BY <2>2, <3>1, <3>2 DEF IInv, TypeOK
    <3>4. QED
      BY <1>1, <3>1, <3>3 DEF IInv, Safe, GhostsHoldNothing
  <2>9. map_cycle # "changing"
    BY <1>1 DEF IInv, Safe, LockedForMap
  <2> HIDE DEF ids, slots
  <2>10. PICK sent, flushes :
           Proceed(cc, connect_queue, "wait_for_client_settings", ids, slots,
                   sent, flushes)
    BY <1>4, Zenon DEF ids, slots
  <2>11. \A c \in Client \ {cc} :
           Owner(c) => player_id[c] # ids[cc] /\ slots[player_id[c]] # "free"
    BY <2>2, <2>5, <2>6
  <2>12. /\ ~("wait_for_client_settings" \in BeforeSlot)
         /\ ~("wait_for_client_settings" \in ListedState)
    BY <2>7
  <2> HIDE DEF cc
  <2>13. QED
    BY <1>1, <2>2, <2>3, <2>7, <2>8, <2>9, <2>10, <2>11, <2>12, ProceedSafe
       DEF cc
<1>5. QED
  BY <1>2, <1>3, <1>4

LEMMA ClientSettingsSafe == IInv /\ ClientSettings => Safe'
<1> SUFFICES ASSUME IInv, ClientSettings PROVE Safe'
  OBVIOUS
<1> DEFINE slots == SetSlot(PlayerOf(connect_client), "connecting")
<1>1. /\ fsm = "wait_for_client_settings"
      /\ Advance("wait_for_client_game_setup_ack", slots, "server_game_settings",
                 TRUE)
  BY DEF ClientSettings, FsmMessage
<1>2. slots \in [Slot -> PlayerStatus]
  BY SetSlotType DEF IInv, PlayerStatus
<1>3. \A q \in Slot : pstate[q] # "free" => slots[q] # "free"
  BY SetSlotTaken DEF IInv, PlayerStatus
<1>4. \A c \in Client \ {connect_client} : Owner(c) => slots[player_id[c]] # "free"
  BY <1>3, OthersTaken
<1>5. /\ fsm \in HoldingState /\ fsm # "idle"
      /\ "wait_for_client_game_setup_ack" \in ConnectState
      /\ "wait_for_client_game_setup_ack" \notin BeforeSlot \cup ListedState
      /\ "wait_for_client_game_setup_ack" # "idle"
  BY <1>1 DEF HoldingState, ConnectState, BeforeSlot, ListedState
<1> HIDE DEF slots
<1>6. QED
  BY <1>1, <1>2, <1>4, <1>5, AdvanceSafe

LEMMA GameSetupAckSafe == IInv /\ GameSetupAck => Safe'
<1> SUFFICES ASSUME IInv, GameSetupAck PROVE Safe'
  OBVIOUS
<1>1. /\ fsm = "wait_for_client_game_setup_ack"
      /\ Advance("unit_profile_sync", pstate, "player_connect_id", FALSE)
      /\ pstate \in [Slot -> PlayerStatus]
  BY DEF GameSetupAck, FsmMessage, IInv, TypeOK
<1>2. /\ fsm \in HoldingState /\ fsm # "idle"
      /\ "unit_profile_sync" \in ConnectState
      /\ "unit_profile_sync" \notin BeforeSlot \cup ListedState
      /\ "unit_profile_sync" # "idle"
  BY <1>1 DEF HoldingState, ConnectState, BeforeSlot, ListedState
<1>3. \A c \in Client \ {connect_client} : Owner(c) => pstate[player_id[c]] # "free"
  BY OthersTaken
<1>4. QED
  BY <1>1, <1>2, <1>3, AdvanceSafe

\* A lost sender gives its slot back; a refused one is closed without a word to
\* the state machine.
LEMMA JoinRequestSafe == IInv /\ JoinRequest => Safe'
<1> SUFFICES ASSUME IInv, JoinRequest PROVE Safe'
  OBVIOUS
<1> DEFINE c == packet.from
<1>1. /\ c \in Client /\ phase = "route"
      /\ UNCHANGED <<phase, player_id, client_list, connect_client, map_cycle,
                     connection_lock_state>>
  <2>1. packet \in Packet
    BY PacketType DEF JoinRequest, IInv
  <2>2. QED
    BY <2>1 DEF JoinRequest, Routing, Packet, game
<1>2. PICK lost \in {FALSE} \cup {l \in {TRUE} : MayFail(c)}, bad \in BOOLEAN :
        /\ conn' = Closing(IF lost \/ bad THEN {c} ELSE {})
        /\ fsm' = IF lost /\ Connecting(c) THEN "idle" ELSE fsm
        /\ pstate' = IF lost THEN SetSlot(player_id[c], "free") ELSE pstate
  BY DEF JoinRequest
<1>3. CASE lost
  <2>1. conn[c] = "open" /\ lost = TRUE
    BY <1>3 DEF MayFail
  <2>2. QED
    BY <1>1, <1>2, <2>1, LostSafe
<1>4. CASE ~lost /\ bad
  BY <1>1, <1>2, <1>4, ClosedSafe
<1>5. CASE ~lost /\ ~bad
  <2>1. conn' = conn
    BY <1>2, <1>5 DEF Closing, IInv, TypeOK
  <2>2. fsm' = fsm /\ pstate' = pstate
    BY <1>2, <1>5
  <2>3. LockedForMap'
    BY <1>1, <2>2 DEF LockedForMap, IInv, Safe
  <2>4. QED
    BY <1>1, <2>1, <2>2, <2>3, QuietSafe
<1>6. QED
  BY <1>3, <1>4, <1>5

-----------------------------------------------------------------------------
(* Every step keeps the invariant *)

LEMMA ConnectSafe ==
  ASSUME IInv, NEW c \in Client, Connect(c)
  PROVE  Safe'
<1>1. /\ \A d \in Client : Owner(d)' => Owner(d) /\ d # c
      /\ \A d \in Client : d # c => conn'[d] = conn[d] /\ player_id'[d] = player_id[d]
      /\ conn'[c] = "open" /\ player_id'[c] = NoPlayer
  BY DEF Connect, Owner, IInv, TypeOK
<1>2. /\ UNCHANGED <<phase, client_list, connect_client, fsm, pstate, map_cycle,
                     connection_lock_state>>
      /\ phase = "input"
  BY DEF Connect, server, connecting, game
<1>t. /\ client_list \subseteq Client
      /\ fsm # "idle" => connect_client \in Client
      /\ player_id \in [Client -> Slot \cup {NoPlayer}]
  BY DEF IInv, TypeOK
<1>s. Safe
  BY DEF IInv
<1>3. SlotsTaken' /\ ListIsClean' /\ LockedForMap'
  BY <1>1, <1>2, <1>s DEF Safe, SlotsTaken, ListIsClean, LockedForMap, Exempt, Owner
<1>4. OneOwnerPerSlot'
  <2> SUFFICES ASSUME NEW d \in Client, NEW e \in Client, d # e, conn'[d] = "open",
                      conn'[e] = "open", player_id'[d] # NoPlayer
               PROVE  player_id'[d] # player_id'[e]
    BY DEF OneOwnerPerSlot, Open
  <2>1. d # c
    BY <1>1
  <2>2. QED
    BY <1>1, <1>s, <2>1 DEF Safe, OneOwnerPerSlot, Open
<1>5. GhostsHoldNothing'
  <2> SUFFICES ASSUME NEW e \in client_list, NEW d \in Client, conn'[e] # "open",
                      Owner(d)', player_id'[d] = player_id'[e]
               PROVE  d = connect_client /\ Exempt
    BY <1>2 DEF GhostsHoldNothing, Exempt
  <2>1. e \in Client /\ e # c /\ Owner(d) /\ d # c
    BY <1>1, <1>t
  <2>2. QED
    BY <1>1, <1>s, <2>1 DEF Safe, GhostsHoldNothing
<1>6. HeldSlot'
  <2> SUFFICES ASSUME fsm \in HoldingState, NEW d \in Client, Owner(d)',
                      d # connect_client
               PROVE  player_id'[d] # player_id'[connect_client]
    BY <1>2 DEF HeldSlot
  <2>1. connect_client \in Client /\ Owner(d) /\ d # c
    BY <1>1, <1>t DEF HoldingState, BeforeSlot
  <2>2. CASE connect_client = c
    BY <1>1, <2>1, <2>2 DEF Owner
  <2>3. CASE connect_client # c
    BY <1>1, <1>s, <2>1, <2>3 DEF Safe, HeldSlot
  <2>4. QED
    BY <2>2, <2>3
<1>7. ListedInTime'
  <2>1. fsm \in ListedState => connect_client \in Client
    BY <1>t DEF ListedState
  <2>2. QED
    BY <1>1, <1>2, <1>s, <2>1 DEF Safe, ListedInTime
<1>8. NoLimbo'
  <2> SUFFICES ASSUME NEW d \in Client, conn'[d] = "open", player_id'[d] # NoPlayer
               PROVE  d \in client_list \/ Connecting(d)
    BY <1>2 DEF NoLimbo, Open, Connecting
  <2>1. d # c /\ conn[d] = "open" /\ player_id[d] # NoPlayer
    BY <1>1
  <2>2. QED
    BY <1>s, <2>1 DEF Safe, NoLimbo, Open
<1>9. QED
  BY <1>3, <1>4, <1>5, <1>6, <1>7, <1>8 DEF Safe

LEMMA CleanUpSafe == IInv /\ CleanUpClientList => Safe'
<1> SUFFICES ASSUME IInv, CleanUpClientList PROVE Safe'
  OBVIOUS
<1>t. /\ client_list \subseteq Client /\ conn \in [Client -> ConnState]
      /\ fsm # "idle" => connect_client \in Client
  BY DEF IInv, TypeOK
<1>s. Safe
  BY DEF IInv
<1>1. /\ client_list' = {c \in client_list : conn[c] = "open"}
      /\ \A c \in Client : conn'[c] = "open" <=> conn[c] = "open"
      /\ UNCHANGED <<player_id, connect_client, fsm, pstate, map_cycle,
                     connection_lock_state>>
  BY <1>t DEF CleanUpClientList, connecting, game
<1>2. \A c \in Client : Owner(c)' <=> Owner(c)
  BY <1>1 DEF Owner
<1>3. SlotsTaken' /\ OneOwnerPerSlot' /\ HeldSlot' /\ LockedForMap'
  BY <1>1, <1>2, <1>s DEF Safe, SlotsTaken, OneOwnerPerSlot, HeldSlot,
                          LockedForMap, Open, Exempt
<1>4. GhostsHoldNothing' /\ ListIsClean'
  BY <1>1, <1>t DEF GhostsHoldNothing, ListIsClean
<1>5. ListedInTime'
  <2>1. fsm \in ListedState => connect_client \in Client
    BY <1>t DEF ListedState
  <2>2. QED
    BY <1>1, <1>2, <1>s, <2>1 DEF Safe, ListedInTime, Owner
<1>6. NoLimbo'
  BY <1>1, <1>s DEF Safe, NoLimbo, Open, Connecting
<1>7. QED
  BY <1>3, <1>4, <1>5, <1>6 DEF Safe

LEMMA ControlSafe == IInv /\ UpdateGameControlFlow => Safe'
<1> SUFFICES ASSUME IInv, UpdateGameControlFlow PROVE Safe'
  OBVIOUS
<1>1. /\ UNCHANGED <<conn, player_id, client_list, connect_client, fsm, pstate>>
      /\ phase' = "input"
  BY DEF UpdateGameControlFlow, ShowEndRound, LoadNextMap, StartRound,
         FinishRound, KeepPlaying, Control, sockets, server, connecting
<1>2. LockedForMap'
  BY DEF UpdateGameControlFlow, ShowEndRound, LoadNextMap, StartRound,
         FinishRound, KeepPlaying, Control, EndRound, NextMap, RespawnPlayers,
         GameOver, EndGame, LockedForMap, IInv, Safe, connecting, game
<1>3. QED
  BY <1>1, <1>2, QuietSafe

LEMMA SafeStep == IInv /\ [Next]_vars => IInv'
<1> SUFFICES ASSUME IInv, [Next]_vars PROVE Safe'
  BY TypeStep DEF IInv
<1>l. LockedForMap /\ TypeOK
  BY DEF IInv, Safe
<1>1. CASE Kick
  <2>1. PICK c \in client_list : Disconnect(c)
    BY <1>1 DEF Kick
  <2>2. c \in Client /\ phase = "input" /\ UNCHANGED phase
    BY <1>1, <1>l DEF Kick, TypeOK
  <2>3. QED
    BY <2>1, <2>2, DisconnectSafe
<1>2. CASE ForceMapChange
  <2>1. LockedForMap'
    BY <1>2 DEF ForceMapChange, EndGame, LockedForMap, connecting
  <2>2. QED
    BY <1>2, <2>1, QuietSafe DEF ForceMapChange, sockets, server, connecting
<1>3. ASSUME NEW c \in Client, Connect(c)
      PROVE  Safe'
  BY <1>3, ConnectSafe
<1>4. ASSUME NEW c \in Client, Leave(c) \/ Receive(c)
      PROVE  Safe'
  BY <1>4, <1>l, QuietSafe DEF Leave, Receive, server, connecting, game,
                               LockedForMap
<1>5. ASSUME NEW c \in Client, LoseClient(c)
      PROVE  Safe'
  BY <1>5, DisconnectSafe DEF LoseClient
<1>6. CASE CleanUpClientList
  BY <1>6, CleanUpSafe
<1>7. CASE StayIdle \/ KeepWaiting \/ UseDeletedClient
  BY <1>7, <1>l, QuietSafe DEF StayIdle, KeepWaiting, UseDeletedClient, sockets,
                               server, connecting, game, LockedForMap
<1>8. CASE SyncClient
  BY <1>8, SendNextSafe DEF SyncClient
<1>9. CASE ServeNext \/ TimeOut \/ FinishConnect \/ DropBadConnectingClient
  BY <1>9, ServeNextSafe, TimeOutSafe, FinishConnectSafe,
     DropBadConnectingClientSafe
<1>10. CASE ClientDisconnect
  <2>1. phase = "route" /\ UNCHANGED phase
    BY <1>10 DEF ClientDisconnect, Routing
  <2>2. CASE packet.from \in client_list
    <3>1. Disconnect(packet.from) /\ packet.from \in Client
      BY <1>10, <1>l, <2>2 DEF ClientDisconnect, TypeOK
    <3>2. QED
      BY <2>1, <2>2, <3>1, DisconnectSafe
  <2>3. CASE packet.from \notin client_list
    BY <1>10, <1>l, <2>1, <2>3, QuietSafe
       DEF ClientDisconnect, sockets, connecting, game, LockedForMap
  <2>4. QED
    BY <2>2, <2>3
<1>11. CASE JoinRequest \/ ConnectRequest \/ ClientSettings \/ GameSetupAck
  BY <1>11, JoinRequestSafe, ConnectRequestSafe, ClientSettingsSafe,
     GameSetupAckSafe
<1>12. CASE ChangeFlag
  <2>1. \A q \in Slot : pstate[q] # "free" => pstate'[q] # "free"
    BY <1>12, <1>l, SetSlotTaken DEF ChangeFlag, PlayerStatus
  <2>2. UNCHANGED <<phase, sockets, client_list, connecting, game>>
    BY <1>12 DEF ChangeFlag
  <2>3. QED
    BY <1>l, <2>1, <2>2, QuietSafe DEF sockets, connecting, game, LockedForMap
<1>13. CASE SendNextProfile
  BY <1>13, SendNextSafe DEF SendNextProfile, FsmMessage
<1>14. CASE IgnoreMessage
  BY <1>14, <1>l, QuietSafe DEF IgnoreMessage, sockets, connecting, game,
                                LockedForMap
<1>15. CASE UpdateGameControlFlow
  BY <1>15, ControlSafe
<1>16. CASE UNCHANGED vars
  BY <1>16, <1>l, QuietSafe DEF vars, sockets, server, connecting, game,
                                LockedForMap
<1>17. QED
  BY <1>1, <1>2, <1>3, <1>4, <1>5, <1>6, <1>7, <1>8, <1>9, <1>10, <1>11, <1>12,
     <1>13, <1>14, <1>15, <1>16
     DEF Next, MainLoop, ConnectProcess, RoutePacket

LEMMA InitSafe == Init => IInv
<1> SUFFICES ASSUME Init PROVE Safe
  BY TypeInit DEF IInv
<1>1. \A c \in Client : ~Owner(c) /\ ~Open(c)
  BY DEF Init, Owner, Open
<1>2. SlotsTaken /\ OneOwnerPerSlot /\ NoLimbo
  BY <1>1 DEF SlotsTaken, OneOwnerPerSlot, NoLimbo
<1>3. GhostsHoldNothing /\ ListIsClean /\ LockedForMap
  BY DEF Init, GhostsHoldNothing, ListIsClean, LockedForMap
<1>4. HeldSlot /\ ListedInTime
  BY DEF Init, HeldSlot, ListedInTime, HoldingState, BeforeSlot, ListedState
<1>5. QED
  BY <1>2, <1>3, <1>4 DEF Safe

LEMMA Invariance == Spec => []IInv
BY InitSafe, SafeStep, PTL DEF Spec

-----------------------------------------------------------------------------

\* No two connections ever hold the same player slot, however joins, losses,
\* kicks, time-outs and dangling pointers interleave (kickClient and
\* allocateNewPlayer included).
THEOREM OneOwnerCorrect == Spec => []OneOwnerPerSlot
<1>1. IInv => OneOwnerPerSlot
  BY DEF IInv, Safe
<1>2. QED
  BY <1>1, Invariance, PTL

\* A connection that has a slot is always one the server can still reach: it is
\* listed or it is the one being let in.
THEOREM NoLimboCorrect == Spec => []NoLimbo
<1>1. IInv => NoLimbo
  BY DEF IInv, Safe
<1>2. QED
  BY <1>1, Invariance, PTL

\* The map is never exchanged during a handshake, and none begins meanwhile.
THEOREM QuietMapChange == Spec => []MapChangeIsQuiet
<1>1. IInv => MapChangeIsQuiet
  BY DEF IInv, Safe, LockedForMap, MapChangeIsQuiet
<1>2. QED
  BY <1>1, Invariance, PTL

-----------------------------------------------------------------------------
(* Slots in setup.  While connect_client exists its player id is the slot    *)
(* that the handshake has taken, in the states that give it back or play it. *)

SetupStatus == {"allocated", "connecting"}
SetupHeld ==
  \A p \in Slot :
    pstate[p] \in SetupStatus
      => fsm \in HoldingState /\ player_id[connect_client] = p

\* No slot is taken, and the handshake stays as it is.
LEMMA QuietHeld ==
  ASSUME SetupHeld,
         \A p \in Slot : pstate'[p] \in SetupStatus => pstate[p] \in SetupStatus,
         fsm' = fsm, connect_client' = connect_client,
         fsm # "idle" => player_id'[connect_client] = player_id[connect_client]
  PROVE  SetupHeld'
BY DEF SetupHeld, HoldingState, BeforeSlot

\* A loss that ends the handshake frees its slot.
LEMMA LostHeld ==
  ASSUME SetupHeld, NEW c \in Client,
         fsm' = IF Connecting(c) THEN "idle" ELSE fsm,
         pstate' = SetSlot(player_id[c], "free"),
         UNCHANGED <<player_id, connect_client>>
  PROVE  SetupHeld'
<1> SUFFICES ASSUME NEW p \in Slot, pstate'[p] \in SetupStatus
             PROVE  fsm' \in HoldingState /\ player_id[connect_client] = p
  BY DEF SetupHeld
<1>1. pstate[p] \in SetupStatus /\ p # player_id[c]
  BY DEF SetSlot, SetupStatus
<1>2. fsm \in HoldingState /\ player_id[connect_client] = p
  BY <1>1 DEF SetupHeld
<1>3. QED
  BY <1>1, <1>2 DEF Connecting

\* A call of the state machine for cc may leave in setup only the slot of cc,
\* and only when it goes on.
LEMMA ProceedHeld ==
  ASSUME TypeOK,
         NEW cc \in Client, NEW queue \in Seq(Client), NEW new, NEW ids,
         NEW slots, NEW sent, NEW flushes,
         Proceed(cc, queue, new, ids, slots, sent, flushes),
         \A p \in Slot :
           slots[p] \in SetupStatus => new \in HoldingState /\ ids[cc] = p
  PROVE  SetupHeld'
<1>1. PICK gone \in SUBSET Client :
        /\ pstate' = [p \in Slot |-> IF \E c \in gone : ids[c] = p
                                     THEN "free" ELSE slots[p]]
        /\ cc \notin gone => fsm' = new
        /\ player_id' = ids /\ connect_client' = cc
  BY ProceedFacts
<1> SUFFICES ASSUME NEW p \in Slot, pstate'[p] \in SetupStatus
             PROVE  fsm' \in HoldingState /\ ids[cc] = p
  BY <1>1 DEF SetupHeld
<1>2. slots[p] \in SetupStatus /\ ~ \E c \in gone : ids[c] = p
  BY <1>1 DEF SetupStatus
<1>3. new \in HoldingState /\ ids[cc] = p
  BY <1>2
<1>4. cc \notin gone
  BY <1>2, <1>3
<1>5. QED
  BY <1>1, <1>3, <1>4

\* The usual call, which takes no slot and gives back the one that it had if it
\* does not go on.
LEMMA AdvanceHeld ==
  ASSUME TypeOK, SetupHeld, fsm # "idle", NEW new, NEW slots, NEW sent,
         NEW flushes, Advance(new, slots, sent, flushes),
         \A p \in Slot :
           slots[p] \in SetupStatus
             => /\ new \in HoldingState
                /\ pstate[p] \in SetupStatus \/ p = player_id[connect_client]
  PROVE  SetupHeld'
<1>1. connect_client \in Client /\ connect_queue \in Seq(Client)
  BY DEF TypeOK
<1>2. Proceed(connect_client, connect_queue, new, player_id, slots, sent, flushes)
  BY DEF Advance
<1>3. \A p \in Slot :
        slots[p] \in SetupStatus
          => new \in HoldingState /\ player_id[connect_client] = p
  BY DEF SetupHeld
<1>4. QED
  BY <1>1, <1>2, <1>3, ProceedHeld

\* Giving the slot back leaves no slot in setup.
LEMMA FreedHeld ==
  ASSUME SetupHeld, NEW p \in Slot, FreePlayer[p] \in SetupStatus
  PROVE  FALSE
BY DEF SetupHeld, FreePlayer, SetSlot, PlayerOf, SetupStatus

LEMMA SendNextHeld ==
  ASSUME TypeOK, SetupHeld, NEW late \in BOOLEAN, SendNext(late),
         fsm \in {"unit_profile_sync", "player_state_sync", "sync_flags",
                  "unit_sync"}
  PROVE  SetupHeld'
<1>1. PICK new, slots, sent, flushes :
        /\ Advance(new, slots, sent, flushes)
        /\ \/ slots = FreePlayer
           \/ slots = pstate /\ new \in {NextSync(fsm), fsm}
  <2> DEFINE done == sync_count + 1 = SyncEnd(fsm)
             drop == late /\ ~done
             nxt == IF done THEN NextSync(fsm)
                    ELSE IF drop THEN "drop_bad_connecting_client" ELSE fsm
             table == IF drop THEN FreePlayer ELSE pstate
             what == IF fsm = "unit_profile_sync" THEN "unit_profile" ELSE "sync"
  <2>1. Advance(nxt, table, what, SyncFlushes(fsm))
    BY Zenon DEF SendNext
  <2>2. \/ table = FreePlayer
        \/ table = pstate /\ nxt \in {NextSync(fsm), fsm}
    OBVIOUS
  <2> HIDE DEF nxt, table, what
  <2>3. QED
    BY <2>1, <2>2, Zenon
<1>2. fsm # "idle" /\ {NextSync(fsm), fsm} \subseteq HoldingState
  BY DEF NextSync, HoldingState, BeforeSlot, ConnectState
<1>3. QED
  BY <1>1, <1>2, FreedHeld, AdvanceHeld

LEMMA ConnectRequestHeld ==
  ASSUME TypeOK, SetupHeld, ConnectRequest
  PROVE  SetupHeld'
<1>1. /\ fsm = "wait_for_connect_request" /\ fsm # "idle"
      /\ fsm \notin HoldingState
      /\ connect_client \in Client /\ connect_queue \in Seq(Client)
      /\ player_id \in [Client -> Slot \cup {NoPlayer}]
  BY DEF ConnectRequest, FsmMessage, TypeOK, HoldingState, BeforeSlot
<1>2. \A p \in Slot : pstate[p] \notin SetupStatus
  BY <1>1 DEF SetupHeld
<1>3. \/ \E new, sent, flushes : Advance(new, pstate, sent, flushes)
      \/ \E p \in FreeSlots : \E new, ids, slots, sent, flushes :
           /\ Proceed(connect_client, connect_queue, new, ids, slots, sent, flushes)
           /\ new = "wait_for_client_settings"
           /\ ids = [player_id EXCEPT ![connect_client] = p]
           /\ slots = SetSlot(p, "allocated")
  BY Zenon DEF ConnectRequest
<1>4. CASE \E new, sent, flushes : Advance(new, pstate, sent, flushes)
  BY <1>1, <1>2, <1>4, AdvanceHeld
<1>5. ASSUME NEW p \in FreeSlots, NEW new, NEW ids, NEW slots, NEW sent,
             NEW flushes,
             Proceed(connect_client, connect_queue, new, ids, slots, sent, flushes),
             new = "wait_for_client_settings",
             ids = [player_id EXCEPT ![connect_client] = p],
             slots = SetSlot(p, "allocated")
      PROVE  SetupHeld'
  <2>1. new \in HoldingState /\ ids[connect_client] = p
    BY <1>1, <1>5 DEF HoldingState, BeforeSlot, ConnectState
  <2>2. \A q \in Slot : slots[q] \in SetupStatus => q = p
    BY <1>2, <1>5 DEF SetSlot
  <2>3. QED
    BY <1>1, <1>5, <2>1, <2>2, ProceedHeld
<1>6. QED
  BY <1>3, <1>4, <1>5, Zenon

LEMMA FinishConnectHeld ==
  ASSUME TypeOK, SetupHeld, FinishConnect
  PROVE  SetupHeld'
<1>1. CASE player_id[connect_client] = NoPlayer
  BY <1>1, QuietHeld DEF FinishConnect, sockets, connecting
<1>2. CASE player_id[connect_client] # NoPlayer
  <2>1. PICK new, slots, sent, flushes :
          /\ Advance(new, slots, sent, flushes)
          /\ slots = SetSlot(player_id[connect_client], "selecting_flag")
    BY <1>2, Zenon DEF FinishConnect
  <2>2. fsm # "idle"
    BY DEF FinishConnect
  <2>3. \A p \in Slot : slots[p] \notin SetupStatus
    BY <2>1 DEF SetupHeld, SetSlot, SetupStatus
  <2>4. QED
    BY <2>1, <2>2, <2>3, AdvanceHeld
<1>3. QED
  BY <1>1, <1>2

LEMMA JoinRequestHeld ==
  ASSUME TypeOK, SetupHeld, JoinRequest
  PROVE  SetupHeld'
<1>1. packet.from \in Client
  BY PacketType DEF JoinRequest, Packet
<1>2. PICK c \in Client, lost \in BOOLEAN :
        /\ fsm' = IF lost /\ Connecting(c) THEN "idle" ELSE fsm
        /\ pstate' = IF lost THEN SetSlot(player_id[c], "free") ELSE pstate
  BY <1>1 DEF JoinRequest
<1>3. UNCHANGED <<player_id, connect_client>>
  BY DEF JoinRequest
<1>4. CASE lost
  BY <1>2, <1>3, <1>4, LostHeld
<1>5. CASE ~lost
  BY <1>2, <1>3, <1>5, QuietHeld
<1>6. QED
  BY <1>4, <1>5

LEMMA HeldStep ==
  TypeOK /\ ConnectClientExists /\ SetupHeld /\ [Next]_vars => SetupHeld'
<1> SUFFICES ASSUME TypeOK, ConnectClientExists, SetupHeld, [Next]_vars
             PROVE  SetupHeld'
  OBVIOUS
<1>t. client_list \subseteq Client
  BY DEF TypeOK
\* What the steps that leave the slots and the handshake alone have in common.
<1>q. ASSUME UNCHANGED <<player_id, connect_client, fsm, pstate>>
      PROVE  SetupHeld'
  BY <1>q, QuietHeld
<1>d. ASSUME NEW c \in Client, Disconnect(c)
      PROVE  SetupHeld'
  BY <1>d, LostHeld DEF Disconnect
<1>1. CASE Kick
  BY <1>1, <1>t, <1>d DEF Kick
<1>2. CASE ForceMapChange \/ CleanUpClientList
  BY <1>2, <1>q DEF ForceMapChange, CleanUpClientList, sockets, connecting
\* A new connection is not at the address of connect_client, which exists.
<1>3. ASSUME NEW c \in Client, Connect(c)
      PROVE  SetupHeld'
  <2>1. fsm # "idle" => c # connect_client
    BY <1>3 DEF Connect, ConnectClientExists
  <2>2. fsm # "idle" => player_id'[connect_client] = player_id[connect_client]
    BY <1>3, <2>1 DEF Connect, TypeOK
  <2>3. QED
    BY <1>3, <2>2, QuietHeld DEF Connect, connecting
<1>4. ASSUME NEW c \in Client, Leave(c) \/ Receive(c)
      PROVE  SetupHeld'
  BY <1>4, <1>q DEF Leave, Receive, connecting
<1>5. ASSUME NEW c \in Client, LoseClient(c)
      PROVE  SetupHeld'
  BY <1>5, <1>d DEF LoseClient
<1>6. CASE StayIdle \/ KeepWaiting \/ UseDeletedClient
  BY <1>6, <1>q DEF StayIdle, KeepWaiting, UseDeletedClient, sockets, connecting
<1>7. CASE ServeNext
  <2>1. Head(connect_queue) \in Client /\ Tail(connect_queue) \in Seq(Client)
    BY <1>7, HeadTailProperties DEF ServeNext, TypeOK
  <2>2. \A p \in Slot : pstate[p] \notin SetupStatus
    BY <1>7 DEF SetupHeld, ServeNext, HoldingState, BeforeSlot
  <2>3. PICK new, sent, flushes :
          Proceed(Head(connect_queue), Tail(connect_queue), new, player_id, pstate,
                  sent, flushes)
    BY <1>7, Zenon DEF ServeNext
  <2>4. QED
    BY <2>1, <2>2, <2>3, ProceedHeld
<1>8. CASE TimeOut
  <2>1. PICK new, slots, sent, flushes :
          /\ Advance(new, slots, sent, flushes)
          /\ slots = IF fsm = "wait_for_connect_request" THEN pstate
                     ELSE FreePlayer
    BY <1>8, Zenon DEF TimeOut
  <2>2. fsm # "idle"
    BY <1>8 DEF TimeOut, Waiting
  <2>3. \A p \in Slot : slots[p] \notin SetupStatus
    <3>1. CASE fsm = "wait_for_connect_request"
      BY <2>1, <3>1 DEF SetupHeld, HoldingState, BeforeSlot
    <3>2. CASE fsm # "wait_for_connect_request"
      BY <2>1, <3>2, FreedHeld
    <3>3. QED
      BY <3>1, <3>2
  <2>4. QED
    BY <2>1, <2>2, <2>3, AdvanceHeld
<1>9. CASE SyncClient
  BY <1>9, SendNextHeld DEF SyncClient
<1>10. CASE FinishConnect \/ JoinRequest \/ ConnectRequest
  BY <1>10, FinishConnectHeld, JoinRequestHeld, ConnectRequestHeld
<1>11. CASE DropBadConnectingClient
  <2>1. /\ fsm \notin HoldingState /\ UNCHANGED pstate
    BY <1>11 DEF DropBadConnectingClient, HoldingState
  <2>2. QED
    BY <2>1 DEF SetupHeld
<1>12. CASE ClientDisconnect
  <2>1. CASE packet.from \in client_list
    BY <1>12, <1>t, <1>d, <2>1 DEF ClientDisconnect
  <2>2. CASE packet.from \notin client_list
    BY <1>12, <1>q, <2>2 DEF ClientDisconnect, sockets, connecting
  <2>3. QED
    BY <2>1, <2>2
<1>13. CASE ChangeFlag
  <2>1. \A p \in Slot : pstate'[p] \in SetupStatus => pstate[p] \in SetupStatus
    BY <1>13 DEF ChangeFlag, SetSlot, SetupStatus
  <2>2. QED
    BY <1>13, <2>1, QuietHeld DEF ChangeFlag, sockets, connecting
<1>14. CASE ClientSettings
  <2>1. PICK new, slots, sent, flushes :
          /\ Advance(new, slots, sent, flushes)
          /\ new = "wait_for_client_game_setup_ack"
          /\ slots = SetSlot(player_id[connect_client], "connecting")
    BY <1>14, Zenon DEF ClientSettings, PlayerOf
  <2>2. fsm # "idle" /\ new \in HoldingState
    BY <1>14, <2>1 DEF ClientSettings, FsmMessage, HoldingState, BeforeSlot,
                       ConnectState
  <2>3. \A p \in Slot :
          slots[p] \in SetupStatus
            => pstate[p] \in SetupStatus \/ p = player_id[connect_client]
    BY <2>1 DEF SetSlot
  <2>4. QED
    BY <2>1, <2>2, <2>3, AdvanceHeld
<1>15. CASE GameSetupAck
  <2>1. PICK new, sent, flushes : /\ Advance(new, pstate, sent, flushes)
                                  /\ new = "unit_profile_sync"
    BY <1>15, Zenon DEF GameSetupAck
  <2>2. fsm # "idle" /\ new \in HoldingState
    BY <1>15, <2>1 DEF GameSetupAck, FsmMessage, HoldingState, BeforeSlot,
                       ConnectState
  <2>3. QED
    BY <2>1, <2>2, AdvanceHeld
<1>16. CASE SendNextProfile
  BY <1>16, SendNextHeld DEF SendNextProfile, FsmMessage
<1>17. CASE IgnoreMessage
  BY <1>17, <1>q DEF IgnoreMessage, sockets, connecting
<1>18. CASE UpdateGameControlFlow
  BY <1>18, <1>q
     DEF UpdateGameControlFlow, ShowEndRound, LoadNextMap, StartRound,
         FinishRound, KeepPlaying, Control, sockets, connecting
<1>19. CASE UNCHANGED vars
  BY <1>19, <1>q DEF vars, sockets, connecting
<1>20. QED
  BY <1>1, <1>2, <1>3, <1>4, <1>5, <1>6, <1>7, <1>8, <1>9, <1>10, <1>11, <1>12,
     <1>13, <1>14, <1>15, <1>16, <1>17, <1>18, <1>19
     DEF Next, MainLoop, ConnectProcess, RoutePacket

\* No slot leaks: until connect_client is deleted under the handshake, a slot in
\* setup is the one of the handshake, whatever loss, time-out or message of
\* another client comes in between, and whichever clients a send may find gone.
THEOREM SetupCorrect == Spec => SetupSlotsAreHeld
<1>1. Init => SetupHeld
  BY DEF Init, SetupHeld, SetupStatus
<1>2. SetupHeld => SetupSlotIsHeld
  BY DEF SetupHeld, SetupSlotIsHeld, SetupStatus, HoldingState, BeforeSlot
<1>3. QED
  BY <1>1, <1>2, HeldStep, TypeCorrect, PTL DEF Spec, SetupSlotsAreHeld
=============================================================================
