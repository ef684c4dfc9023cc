---------------------- MODULE ServerConnectQueue_proofs ----------------------
(***************************************************************************)
(* Who asks to join and who waits, for any clients, slots and bounds: the   *)
(* pointers in the queue and in the packets of join requests are good.      *)
(***************************************************************************)
EXTENDS ServerConnectSafety_proofs

-----------------------------------------------------------------------------
(* The inductive invariant: a client asks to join, waits, is being let in    *)
(* and is listed, one after the other.  Only from the unit sync on may the   *)
(* client being let in be a new connection at the address of a deleted one.  *)

IsJoin(i) == receive_queue[i].msg = "join_request"
Reads(c) == \E i \in 1..Len(receive_queue) :
              receive_queue[i].from = c /\ IsJoin(i)
Asks(c) == Reads(c) \/ \E i \in 1..Len(wire[c]) : wire[c][i] = "join_request"
Late(c) == Connecting(c) => fsm \in ListedState

\* A client asks once: the request is the first thing it writes.
WireJoins ==
  \A c \in Client : \A i \in 1..Len(wire[c]) :
    wire[c][i] = "join_request" => i = 1 /\ ~Reads(c)
ReadJoins ==
  \A i, j \in 1..Len(receive_queue) :
    IsJoin(i) /\ IsJoin(j) /\ receive_queue[i].from = receive_queue[j].from
      => i = j

\* Who asks has not been dealt with.
AskersAreNew ==
  \A c \in Client :
    Asks(c) => conn[c] # "none" /\ c \notin client_list /\ ~InQueue(c) /\ Late(c)

\* No listed client has been deleted, and a client that is being let in is not
\* listed before the unit sync, so that it has not been deleted before.
ListedExist == \A c \in client_list : conn[c] # "none" /\ Late(c)
Early == fsm \notin ListedState \cup {"idle"}
EarlyExists == Early => conn[connect_client] # "none"

Waits == /\ WireJoins
         /\ ReadJoins
         /\ AskersAreNew
         /\ ListedExist
         /\ EarlyExists
         /\ QueueIsSound

-----------------------------------------------------------------------------
(* Lemmas *)

\* Taking a client out of a queue in which nobody waits twice leaves the others
\* waiting once, and it is not among them.
LEMMA WithoutElements ==
  ASSUME NEW queue \in Seq(Client), NEW d,
         \A i, j \in 1..Len(queue) : queue[i] = queue[j] => i = j,
         NEW rest, rest = Without(queue, d)
  PROVE  /\ \A i \in 1..Len(rest) :
              rest[i] # d /\ \E k \in 1..Len(queue) : rest[i] = queue[k]
         /\ \A i, j \in 1..Len(rest) : rest[i] = rest[j] => i = j
<1>1. CASE \E i \in 1..Len(queue) : queue[i] = d
  <2> DEFINE i == CHOOSE i \in 1..Len(queue) : queue[i] = d
             n == Len(queue)
             front == SubSeq(queue, 1, i - 1)
             back == SubSeq(queue, i + 1, n)
  <2>1. i \in 1..n /\ queue[i] = d
    BY <1>1
  <2>2. n \in Nat
    BY LenProperties
  <2>3. rest = front \o back
    BY <1>1 DEF Without
  <2> HIDE DEF i
  <2>4. \A j \in 1..n : queue[j] \in Client
    BY ElementOfSeq
  <2>5. /\ front \in Seq(Client) /\ Len(front) = i - 1
        /\ \A j \in 1..(i - 1) : front[j] = queue[j]
    <3>1. \A j \in 1..(i - 1) : queue[j] \in Client
      BY <2>1, <2>2, <2>4
    <3>2. QED
      BY <2>1, <2>2, <3>1, SubSeqProperties
  <2>6. /\ back \in Seq(Client) /\ Len(back) = n - i
        /\ \A j \in 1..(n - i) : back[j] = queue[i + j]
    <3>1. \A j \in (i + 1)..n : queue[j] \in Client
      BY <2>1, <2>2, <2>4
    <3>2. i + 1 \in Int /\ n \in Int
      BY <2>1, <2>2
    <3>3. back = [j \in 1..(n - i) |-> queue[i + j]]
      BY <2>1, <2>2 DEF back
    <3>4. back \in Seq(Client)
      BY <3>1, <3>2, <2>1, <2>2, SubSeqProperties
    <3>5. QED
      BY <2>1, <2>2, <3>3, <3>4
  <2> HIDE DEF n, front, back
  <2>7. /\ Len(rest) = n - 1
        /\ \A j \in 1..(n - 1) :
             rest[j] = IF j < i THEN queue[j] ELSE queue[j + 1]
    <3>1. /\ Len(front \o back) = Len(front) + Len(back)
          /\ \A j \in 1..(Len(front) + Len(back)) :
               (front \o back)[j] = IF j <= Len(front) THEN front[j]
                                    ELSE back[j - Len(front)]
      BY <2>5, <2>6, ConcatProperties
    <3>2. Len(rest) = n - 1
      BY <2>1, <2>2, <2>3, <2>5, <2>6, <3>1
    <3>3. ASSUME NEW j \in 1..(n - 1)
          PROVE  rest[j] = IF j < i THEN queue[j] ELSE queue[j + 1]
      BY <2>1, <2>2, <2>3, <2>5, <2>6, <3>1
    <3>4. QED
      BY <3>2, <3>3
  <2>8. \A j, k \in 1..n : queue[j] = queue[k] => j = k
    BY DEF n
  <2>9. \A j \in 1..Len(rest) :
          rest[j] # d /\ \E k \in 1..n : rest[j] = queue[k]
    <3> SUFFICES ASSUME NEW j \in 1..(n - 1)
                 PROVE  rest[j] # d /\ \E k \in 1..n : rest[j] = queue[k]
      BY <2>7
    <3>1. j \in 1..n /\ j + 1 \in 1..n
      BY <2>2
    <3>2. CASE j < i
      BY <2>1, <2>7, <2>8, <3>1, <3>2
    <3>3. CASE ~(j < i)
      BY <2>1, <2>7, <2>8, <3>1, <3>3
    <3>4. QED
      BY <3>2, <3>3
  <2>10. \A j, k \in 1..Len(rest) : rest[j] = rest[k] => j = k
    <3> SUFFICES ASSUME NEW j \in 1..(n - 1), NEW k \in 1..(n - 1),
                        rest[j] = rest[k]
                 PROVE  j = k
      BY <2>7
    <3>1. {j, k, j + 1, k + 1} \subseteq 1..n
      BY <2>2
    <3>2. (j < i <=> k < i) /\ (j < i => j = k) /\ (~(j < i) => j + 1 = k + 1)
      BY <2>1, <2>2, <2>7, <2>8, <3>1
    <3>3. QED
      BY <3>2
  <2>11. QED
    BY <2>9, <2>10 DEF n
<1>2. CASE ~ \E i \in 1..Len(queue) : queue[i] = d
  BY <1>2 DEF Without
<1>3. QED
  BY <1>1, <1>2

\* Nobody is in no queue.
LEMMA WithoutNobody ==
  ASSUME NEW queue \in Seq(Client)
  PROVE  Without(queue, NoClient) = queue
<1>1. \A i \in 1..Len(queue) : queue[i] \in Client
  BY ElementOfSeq
<1>2. \A i \in 1..Len(queue) : queue[i] # NoClient
  BY <1>1, ClientAssumption DEF ClientAssumption
<1>3. QED
  BY <1>2 DEF Without

\* No reply asks to join.
LEMMA RepliesJoin ==
  ASSUME NEW sent, NEW reply \in Replies(sent), NEW i \in 1..Len(reply)
  PROVE  reply[i] # "join_request"
<1>1. CASE sent = "start_connect"
  <2>1. PICK n \in 1..(1 + MaxRetries) :
          reply = [j \in 1..n |-> "connect_request"]
    BY <1>1 DEF Replies
  <2>2. QED
    BY <2>1
<1>2. CASE sent = "server_game_settings"
  <2>1. \/ reply = << >>
        \/ \E n \in 1..MaxPings :
             reply = [j \in 1..n |-> "setup_ping"] \o <<"setup_ack">>
    BY <1>2, Zenon DEF Replies
  <2>2. CASE reply = << >>
    BY <2>2
  <2>3. ASSUME NEW n \in 1..MaxPings,
               reply = [j \in 1..n |-> "setup_ping"] \o <<"setup_ack">>
        PROVE  reply[i] # "join_request"
    <3> DEFINE pings == [j \in 1..n |-> "setup_ping"]
    <3>1. pings \in Seq({"setup_ping"}) /\ Len(pings) = n
      BY SeqDef
    <3>2. \A j \in 1..(n + 1) :
            reply[j] = IF j <= n THEN pings[j] ELSE <<"setup_ack">>[j - n]
      BY <2>3, <3>1
    <3>3. Len(reply) = n + 1
      BY <2>3, <3>1
    <3>4. QED
      BY <3>2, <3>3
  <2>4. QED
    BY <2>1, <2>2, <2>3
<1>3. CASE sent \notin {"start_connect", "server_game_settings"}
  BY <1>3 DEF Replies
<1>4. QED
  BY <1>1, <1>2, <1>3

-----------------------------------------------------------------------------
(* What most steps have in common *)

\* No step but a new connection writes a request, and routing takes packets
\* from the front.
NoNewJoins ==
  \A c \in Client : \A i \in 1..Len(wire'[c]) :
    wire'[c][i] = "join_request"
      => i \in 1..Len(wire[c]) /\ wire[c][i] = "join_request"
RestRead ==
  \/ receive_queue' = receive_queue
  \/ receive_queue # << >> /\ receive_queue' = Tail(receive_queue)

LEMMA JoinsFrame ==
  ASSUME TypeOK, WireJoins, ReadJoins, NoNewJoins, RestRead
  PROVE  WireJoins' /\ ReadJoins' /\ \A c \in Client : Asks(c)' => Asks(c)
<1>1. \E k \in {0, 1} :
        \A i \in 1..Len(receive_queue') :
          i + k \in 1..Len(receive_queue)
            /\ receive_queue'[i] = receive_queue[i + k]
  <2>1. receive_queue \in Seq(Packet) /\ Len(receive_queue) \in Nat
    BY LenProperties DEF TypeOK
  <2>2. CASE receive_queue' = receive_queue
    <3>1. \A i \in 1..Len(receive_queue') :
            i + 0 \in 1..Len(receive_queue)
              /\ receive_queue'[i] = receive_queue[i + 0]
      BY <2>1, <2>2
    <3>2. QED
      BY <3>1
  <2>3. CASE receive_queue # << >> /\ receive_queue' = Tail(receive_queue)
    <3>1. \A i \in 1..Len(receive_queue') :
            i + 1 \in 1..Len(receive_queue)
              /\ receive_queue'[i] = receive_queue[i + 1]
      BY <2>1, <2>3
    <3>2. QED
      BY <3>1
  <2>4. QED
    BY <2>2, <2>3 DEF RestRead
<1>2. PICK k \in {0, 1} :
        \A i \in 1..Len(receive_queue') :
          i + k \in 1..Len(receive_queue)
            /\ receive_queue'[i] = receive_queue[i + k]
  BY <1>1
<1>3. ReadJoins'
  <2> SUFFICES ASSUME NEW i \in 1..Len(receive_queue'),
                      NEW j \in 1..Len(receive_queue'),
                      IsJoin(i)', IsJoin(j)',
                      receive_queue'[i].from = receive_queue'[j].from
               PROVE  i = j
    BY DEF ReadJoins
  <2>1. i + k = j + k
    BY <1>2 DEF ReadJoins, IsJoin
  <2>2. QED
    BY <2>1
<1>4. \A c \in Client : Reads(c)' => Reads(c)
  BY <1>2 DEF Reads, IsJoin
<1>5. WireJoins' /\ \A c \in Client : Asks(c)' => Asks(c)
  BY <1>4 DEF WireJoins, NoNewJoins, Asks
<1>6. QED
  BY <1>3, <1>5

\* A step that deletes nobody, lets nobody into the queue, and takes the client
\* being let in no way back, keeps the invariant.
Listing == {c \in Client : Connecting(c) /\ fsm \notin ListedState
                             /\ fsm' \in ListedState \cup {"idle"}}
LEMMA WaitsFrame ==
  ASSUME TypeOK, Waits,
         WireJoins', ReadJoins', \A c \in Client : Asks(c)' => Asks(c),
         \A c \in Client : conn'[c] = "none" => conn[c] = "none",
         client_list' \subseteq client_list \cup Listing,
         NEW d, connect_queue' = Without(connect_queue, d),
         \A c \in Client : Connecting(c)' => Connecting(c),
         fsm' # "idle" => connect_client' \in Client,
         fsm \in ListedState => fsm' \in ListedState \cup {"idle"}
  PROVE  Waits'
<1>t. /\ connect_queue \in Seq(Client) /\ client_list \subseteq Client
  BY DEF TypeOK
<1>w. /\ AskersAreNew /\ ListedExist /\ EarlyExists /\ QueueIsSound
  BY DEF Waits
<1>1. /\ \A i \in 1..Len(connect_queue') :
           \E k \in 1..Len(connect_queue) : connect_queue'[i] = connect_queue[k]
      /\ \A i, j \in 1..Len(connect_queue') :
           connect_queue'[i] = connect_queue'[j] => i = j
  <2>1. \A i, j \in 1..Len(connect_queue) :
          connect_queue[i] = connect_queue[j] => i = j
    BY <1>w DEF QueueIsSound
  <2>2. QED
    BY <1>t, <2>1, WithoutElements
<1>2. \A c \in Client : InQueue(c)' => InQueue(c)
  BY <1>1 DEF InQueue
<1>3. \A c \in Client : Late(c) => Late(c)'
  <2> SUFFICES ASSUME NEW c \in Client, Late(c), Connecting(c)'
               PROVE  fsm' \in ListedState
    BY DEF Late
  <2>1. fsm \in ListedState /\ fsm' # "idle"
    BY DEF Late, Connecting
  <2>2. QED
    BY <2>1
\* Who is listed in this step has neither asked nor waited.
<1>4. \A c \in Listing : /\ c \in Client /\ ~Asks(c) /\ ~InQueue(c)
                         /\ conn[c] # "none" /\ Late(c)'
  <2> SUFFICES ASSUME NEW c \in Listing
               PROVE  ~Asks(c) /\ ~InQueue(c) /\ conn[c] # "none" /\ Late(c)'
    BY DEF Listing
  <2>1. /\ c \in Client /\ Connecting(c) /\ fsm \notin ListedState
        /\ fsm' \in ListedState \cup {"idle"}
    BY DEF Listing
  <2>2. ~Late(c) /\ Early /\ c = connect_client
    BY <2>1 DEF Late, Early, Connecting
  <2>3. ~Asks(c)
    BY <1>w, <2>1, <2>2 DEF AskersAreNew
  <2>4. ~InQueue(c)
    BY <1>w, <2>1 DEF QueueIsSound, InQueue
  <2>5. conn[c] # "none"
    BY <1>w, <2>2 DEF EarlyExists
  <2>6. Late(c)'
    BY <2>1 DEF Late, Connecting
  <2>7. QED
    BY <2>3, <2>4, <2>5, <2>6
<1>5. AskersAreNew'
  BY <1>2, <1>3, <1>4, <1>w DEF AskersAreNew
<1>6. ListedExist'
  BY <1>3, <1>4, <1>t, <1>w DEF ListedExist
<1>7. EarlyExists'
  <2> SUFFICES ASSUME Early' PROVE conn'[connect_client'] # "none"
    BY DEF EarlyExists
  <2>1. /\ fsm' \notin ListedState /\ fsm' # "idle"
        /\ \E c \in Client : c = connect_client'
    BY DEF Early
  <2>2. \A c \in Client : c = connect_client' => Connecting(c)
    BY <2>1 DEF Connecting
  <2>3. connect_client = connect_client' /\ connect_client \in Client /\ Early
    BY <2>1, <2>2 DEF Connecting, Early
  <2>4. QED
    BY <1>w, <2>1, <2>3 DEF EarlyExists
<1>8. QueueIsSound'
  <2>1. ASSUME NEW c \in Client, InQueue(c)
        PROVE  conn'[c] # "none" /\ ~Connecting(c)' /\ c \notin client_list'
    <3>1. conn[c] # "none" /\ ~Connecting(c) /\ c \notin client_list
      BY <1>w, <2>1 DEF QueueIsSound, InQueue
    <3>2. QED
      BY <1>4, <2>1, <3>1
  <2>2. \A i \in 1..Len(connect_queue') :
          \E c \in Client : c = connect_queue'[i] /\ InQueue(c)
    BY <1>1, <1>t, ElementOfSeq DEF InQueue
  <2>3. \A i \in 1..Len(connect_queue') :
          /\ conn'[connect_queue'[i]] # "none"
          /\ ~(fsm' # "idle" /\ connect_client' = connect_queue'[i])
          /\ connect_queue'[i] \notin client_list'
    BY <2>1, <2>2 DEF Connecting
  <2>4. QED
    BY <1>1, <2>3 DEF QueueIsSound, Connecting
<1>9. QED
  BY <1>5, <1>6, <1>7, <1>8 DEF Waits

-----------------------------------------------------------------------------
(* The steps *)

\* Nothing the invariant speaks of changes, or packets are taken from the front
\* and what clients write is cut off.
LEMMA QuietWaits ==
  ASSUME TypeOK, Waits, NoNewJoins, RestRead,
         UNCHANGED <<conn, client_list, connect_queue, connect_client, fsm>>
  PROVE  Waits'
<1>1. connect_queue' = Without(connect_queue, NoClient)
  BY WithoutNobody DEF TypeOK
<1>2. WireJoins' /\ ReadJoins' /\ \A c \in Client : Asks(c)' => Asks(c)
  BY JoinsFrame DEF Waits
<1>3. \A c \in Client : Connecting(c)' => Connecting(c)
  BY DEF Connecting
<1>4. fsm' # "idle" => connect_client' \in Client
  BY DEF TypeOK
<1>5. QED
  BY <1>1, <1>2, <1>3, <1>4, WaitsFrame

\* A client whose loss is noticed leaves the queue and the handshake.
LEMMA DisconnectWaits ==
  ASSUME TypeOK, Waits, NEW c \in Client, Disconnect(c), RestRead
  PROVE  Waits'
<1>1. NoNewJoins
  BY DEF Disconnect, NoNewJoins, TypeOK
<1>2. WireJoins' /\ ReadJoins' /\ \A d \in Client : Asks(d)' => Asks(d)
  BY <1>1, JoinsFrame DEF Waits
<1>3. \A d \in Client : conn'[d] = "none" => conn[d] = "none"
  BY DEF Disconnect, Closing, TypeOK
<1>4. \A d \in Client : Connecting(d)' => Connecting(d)
  BY DEF Disconnect, Connecting
<1>5. /\ fsm' # "idle" => connect_client' \in Client
      /\ fsm \in ListedState => fsm' \in ListedState \cup {"idle"}
      /\ client_list' = client_list
      /\ connect_queue' = Without(connect_queue, c)
  BY DEF Disconnect, TypeOK
<1>6. QED
  BY <1>2, <1>3, <1>4, <1>5, WaitsFrame

\* What a call of the state machine leaves of what the invariant speaks of.
LEMMA ProceedWaits ==
  ASSUME TypeOK, NEW cc \in Client, NEW queue \in Seq(Client), NEW new, NEW ids,
         NEW slots, NEW sent, NEW flushes \in BOOLEAN,
         Proceed(cc, queue, new, ids, slots, sent, flushes)
  PROVE  /\ NoNewJoins
         /\ \A c \in Client : conn'[c] = "none" => conn[c] = "none"
         /\ \E d : connect_queue' = Without(queue, d)
         /\ connect_client' = cc
         /\ fsm' = new \/ fsm' = "idle"
         /\ \/ client_list' = client_list
            \/ /\ client_list' = client_list \cup {cc} /\ new = "unit_sync"
               /\ fsm # "unit_sync" \/ flushes
<1>1. PICK lost \in Losses(cc, flushes, new), reply \in Replies(sent) :
        \E d \in QueueLosses(queue, lost) :
          Outcome(cc, queue, new, ids, slots, lost, reply, d)
  BY Zenon DEF Proceed
<1>2. PICK d \in QueueLosses(queue, lost) :
        Outcome(cc, queue, new, ids, slots, lost, reply, d)
  BY <1>1
<1>3. NoNewJoins
  <2> SUFFICES ASSUME NEW c \in Client, NEW i \in 1..Len(wire'[c]),
                      wire'[c][i] = "join_request"
               PROVE  i \in 1..Len(wire[c]) /\ wire[c][i] = "join_request"
    BY DEF NoNewJoins
  <2>1. wire[c] \in Seq(WireMsg) /\ reply \in Seq(WireMsg)
    BY RepliesType DEF TypeOK, WireMsg
  <2>2. wire'[c] \in {<< >>, wire[c], wire[c] \o reply}
    BY <1>2 DEF Outcome
  <2>3. CASE wire'[c] = wire[c]
    BY <2>3
  <2>4. CASE wire'[c] = << >>
    BY <2>4
  <2>5. CASE wire'[c] = wire[c] \o reply
    <3>1. /\ Len(wire[c]) \in Nat /\ Len(reply) \in Nat
          /\ Len(wire'[c]) = Len(wire[c]) + Len(reply)
          /\ wire'[c][i] = IF i <= Len(wire[c]) THEN wire[c][i]
                           ELSE reply[i - Len(wire[c])]
      BY <2>1, <2>5, ConcatProperties, LenProperties
    <3>2. CASE i <= Len(wire[c])
      BY <3>1, <3>2
    <3>3. CASE ~(i <= Len(wire[c]))
      <4>1. i - Len(wire[c]) \in 1..Len(reply)
        BY <3>1, <3>3
      <4>2. QED
        BY <3>1, <3>3, <4>1, RepliesJoin
    <3>4. QED
      BY <3>2, <3>3
  <2>6. QED
    BY <2>2, <2>3, <2>4, <2>5
<1>4. \A c \in Client : conn'[c] = "none" => conn[c] = "none"
  BY <1>2 DEF Outcome, Closing
<1>5. /\ connect_queue' = Without(queue, d)
      /\ connect_client' = cc
      /\ fsm' = new \/ fsm' = "idle"
  BY <1>2 DEF Outcome
<1>6. client_list' = IF new = "unit_sync" /\ ~(new = fsm /\ lost = "none")
                          /\ lost # "enter"
                     THEN client_list \cup {cc} ELSE client_list
  BY <1>2, Zenon DEF Outcome
<1>7. lost \in {"none", "handler", "enter"} /\ (lost = "handler" => flushes)
  BY DEF Losses
<1>8. QED
  BY <1>3, <1>4, <1>5, <1>6, <1>7

LEMMA CallWaits ==
  ASSUME TypeOK, Waits, RestRead, fsm # "idle",
         NEW new, NEW ids, NEW slots, NEW sent, NEW flushes \in BOOLEAN,
         Proceed(connect_client, connect_queue, new, ids, slots, sent, flushes),
         fsm \in ListedState => new \in ListedState \cup {"idle"},
         new = "unit_sync" => fsm \notin ListedState \/ (fsm = "unit_sync" /\ ~flushes)
  PROVE  Waits'
<1> DEFINE cc == connect_client
<1>1. cc \in Client /\ connect_queue \in Seq(Client)
  BY DEF TypeOK
<1>2. /\ NoNewJoins
      /\ \A c \in Client : conn'[c] = "none" => conn[c] = "none"
      /\ \E d : connect_queue' = Without(connect_queue, d)
      /\ connect_client' = cc
      /\ fsm' = new \/ fsm' = "idle"
      /\ \/ client_list' = client_list
         \/ /\ client_list' = client_list \cup {cc} /\ new = "unit_sync"
            /\ fsm # "unit_sync" \/ flushes
  BY <1>1, ProceedWaits
<1>3. WireJoins' /\ ReadJoins' /\ \A c \in Client : Asks(c)' => Asks(c)
  BY <1>2, JoinsFrame DEF Waits
<1>4. \A c \in Client : Connecting(c)' => Connecting(c)
  BY <1>2 DEF Connecting
<1>5. client_list' \subseteq client_list \cup Listing
  <2>1. CASE client_list' = client_list \cup {cc} /\ new = "unit_sync"
             /\ (fsm # "unit_sync" \/ flushes)
    <3>1. cc \in Client /\ Connecting(cc) /\ fsm \notin ListedState
          /\ fsm' \in ListedState \cup {"idle"}
      BY <1>1, <1>2, <2>1 DEF Connecting, ListedState
    <3>2. cc \in Listing
      BY <3>1 DEF Listing
    <3>3. QED
      BY <2>1, <3>2
  <2>2. QED
    BY <1>2, <2>1
<1>6. /\ fsm' # "idle" => connect_client' \in Client
      /\ fsm \in ListedState => fsm' \in ListedState \cup {"idle"}
  BY <1>1, <1>2
<1> HIDE DEF cc
<1>7. QED
  BY <1>2, <1>3, <1>4, <1>5, <1>6, WaitsFrame

LEMMA AdvanceWaits ==
  ASSUME TypeOK, Waits, RestRead, fsm # "idle",
         NEW new, NEW slots, NEW sent, NEW flushes \in BOOLEAN,
         Advance(new, slots, sent, flushes),
         fsm \in ListedState => new \in ListedState \cup {"idle"},
         new = "unit_sync" => fsm \notin ListedState \/ (fsm = "unit_sync" /\ ~flushes)
  PROVE  Waits'
BY CallWaits DEF Advance

LEMMA SendNextWaits ==
  ASSUME TypeOK, Waits, RestRead, NEW late \in BOOLEAN, SendNext(late),
         late => fsm # "unit_sync",
         fsm \in {"unit_profile_sync", "player_state_sync", "sync_flags",
                  "unit_sync"}
  PROVE  Waits'
<1> DEFINE done == sync_count + 1 = SyncEnd(fsm)
           drop == late /\ ~done
           new == IF done THEN NextSync(fsm)
                  ELSE IF drop THEN "drop_bad_connecting_client" ELSE fsm
           slots == IF drop THEN FreePlayer ELSE pstate
           sent == IF fsm = "unit_profile_sync" THEN "unit_profile" ELSE "sync"
           flushes == SyncFlushes(fsm)
<1>1. Advance(new, slots, sent, flushes)
  BY DEF SendNext
<1>2. flushes \in BOOLEAN /\ (fsm = "unit_sync" => ~flushes)
  BY DEF SyncFlushes
<1>3. /\ fsm \in ListedState => new \in ListedState \cup {"idle"}
      /\ new = "unit_sync" => fsm \notin ListedState \/ (fsm = "unit_sync" /\ ~flushes)
  BY <1>2 DEF NextSync, ListedState
<1> HIDE DEF new, slots, sent, flushes
<1>4. QED
  BY <1>1, <1>2, <1>3, AdvanceWaits

\* The head of the queue becomes the client being let in.
LEMMA ServeNextWaits == TypeOK /\ Waits /\ ServeNext => Waits'
<1> SUFFICES ASSUME TypeOK, Waits, ServeNext PROVE Waits'
  OBVIOUS
<1> DEFINE cc == Head(connect_queue)
           queue == Tail(connect_queue)
<1>w. /\ AskersAreNew /\ ListedExist /\ QueueIsSound
  BY DEF Waits
<1>1. /\ connect_queue \in Seq(Client) /\ Len(connect_queue) \in Nat \ {0}
      /\ cc \in Client /\ queue \in Seq(Client)
      /\ Len(queue) = Len(connect_queue) - 1
      /\ \A i \in 1..Len(queue) : queue[i] = connect_queue[i + 1]
      /\ cc = connect_queue[1]
  <2>1. connect_queue \in Seq(Client) /\ connect_queue # << >>
    BY DEF ServeNext, TypeOK
  <2>2. QED
    BY <2>1, HeadTailProperties, EmptySeq, LenProperties
<1>2. \A i, j \in 1..Len(connect_queue) :
        connect_queue[i] = connect_queue[j] => i = j
  BY <1>w DEF QueueIsSound
<1>3. /\ \A i, j \in 1..Len(queue) : queue[i] = queue[j] => i = j
      /\ \A i \in 1..Len(queue) : queue[i] # cc /\
           \E k \in 1..Len(connect_queue) : queue[i] = connect_queue[k]
  <2>1. \A i \in 1..Len(queue) :
          i + 1 \in 1..Len(connect_queue) /\ i + 1 # 1 /\ 1 \in 1..Len(connect_queue)
    BY <1>1
  <2>2. \A i \in 1..Len(queue) : queue[i] # cc
    BY <1>1, <1>2, <2>1
  <2>3. ASSUME NEW i \in 1..Len(queue), NEW j \in 1..Len(queue),
               queue[i] = queue[j]
        PROVE  i = j
    <3>1. i + 1 = j + 1
      BY <1>1, <1>2, <2>1, <2>3
    <3>2. QED
      BY <3>1
  <2>4. QED
    BY <1>1, <2>1, <2>2, <2>3
<1>4. /\ NoNewJoins
      /\ \A c \in Client : conn'[c] = "none" => conn[c] = "none"
      /\ \E d : connect_queue' = Without(queue, d)
      /\ connect_client' = cc
      /\ fsm' = "wait_for_connect_request" \/ fsm' = "idle"
      /\ client_list' = client_list
  <2>1. PICK new, sent, flushes :
          /\ Proceed(cc, queue, new, player_id, pstate, sent, flushes)
          /\ new = "wait_for_connect_request" /\ flushes = TRUE
    BY Zenon DEF ServeNext
  <2> HIDE DEF cc, queue
  <2>2. QED
    BY <1>1, <2>1, ProceedWaits
<1>5. WireJoins' /\ ReadJoins' /\ \A c \in Client : Asks(c)' => Asks(c)
  BY <1>4, JoinsFrame DEF Waits, RestRead, ServeNext
<1>6. /\ \A i \in 1..Len(connect_queue') :
           \E k \in 1..Len(queue) : connect_queue'[i] = queue[k]
      /\ \A i, j \in 1..Len(connect_queue') :
           connect_queue'[i] = connect_queue'[j] => i = j
  <2>1. PICK d : connect_queue' = Without(queue, d)
    BY <1>4
  <2>2. queue \in Seq(Client) /\ \A i, j \in 1..Len(queue) : queue[i] = queue[j] => i = j
    BY <1>1, <1>3
  <2> HIDE DEF queue
  <2>3. QED
    BY <2>1, <2>2, WithoutElements
<1>7. \A c \in Client : InQueue(c)' => InQueue(c) /\ c # cc
  BY <1>3, <1>6 DEF InQueue
<1>8. InQueue(cc) /\ conn[cc] # "none" /\ cc \notin client_list /\ ~Asks(cc)
  BY <1>1, <1>w DEF QueueIsSound, InQueue, AskersAreNew
<1>9. \A c \in Client : Connecting(c)' => c = cc
  BY <1>4 DEF Connecting
<1>10. AskersAreNew'
  BY <1>4, <1>5, <1>7, <1>8, <1>9, <1>w DEF AskersAreNew, Late
<1>11. ListedExist'
  <2>1. client_list \subseteq Client
    BY DEF TypeOK
  <2>2. QED
    BY <1>4, <1>8, <1>9, <1>w, <2>1 DEF ListedExist, Late
<1>12. EarlyExists'
  BY <1>1, <1>4, <1>8 DEF EarlyExists
<1>13. QueueIsSound'
  <2>1. ASSUME NEW c \in Client, InQueue(c), c # cc
        PROVE  conn'[c] # "none" /\ ~Connecting(c)' /\ c \notin client_list'
    BY <1>4, <1>9, <1>w, <2>1 DEF QueueIsSound, InQueue
  <2>2. \A i \in 1..Len(connect_queue') :
          \E c \in Client : c = connect_queue'[i] /\ InQueue(c) /\ c # cc
    BY <1>1, <1>3, <1>6, ElementOfSeq DEF InQueue
  <2>3. \A i \in 1..Len(connect_queue') :
          /\ conn'[connect_queue'[i]] # "none"
          /\ ~(fsm' # "idle" /\ connect_client' = connect_queue'[i])
          /\ connect_queue'[i] \notin client_list'
    BY <2>1, <2>2 DEF Connecting
  <2>4. QED
    BY <1>6, <2>3 DEF QueueIsSound, Connecting
<1>14. QED
  BY <1>5, <1>10, <1>11, <1>12, <1>13 DEF Waits

\* A new connection at an address nobody has uses it: its request is the first
\* thing it writes.
LEMMA ConnectWaits ==
  ASSUME TypeOK, Waits, NEW c \in Client, Connect(c)
  PROVE  Waits'
<1>w. /\ WireJoins /\ ReadJoins /\ AskersAreNew /\ ListedExist /\ EarlyExists
      /\ QueueIsSound
  BY DEF Waits
<1>1. /\ conn[c] = "none"
      /\ conn' = [conn EXCEPT ![c] = "open"]
      /\ wire' = [wire EXCEPT ![c] = <<"join_request">>]
      /\ UNCHANGED <<receive_queue, client_list, connect_queue, connect_client, fsm>>
  BY DEF Connect, server, connecting
<1>t. /\ conn \in [Client -> ConnState] /\ wire \in [Client -> Seq(Msg \cup {"eof"})]
      /\ client_list \subseteq Client /\ connect_queue \in Seq(Client)
      /\ fsm # "idle" => connect_client \in Client
  BY DEF TypeOK
<1>2. ~Asks(c) /\ c \notin client_list /\ ~InQueue(c) /\ Late(c)
  BY <1>1, <1>w, ElementOfSeq
     DEF AskersAreNew, ListedExist, QueueIsSound, InQueue, EarlyExists, Early,
         Late, Connecting
<1>3. \A d \in Client : d # c => conn'[d] = conn[d] /\ wire'[d] = wire[d]
  BY <1>1, <1>t
<1>4. conn'[c] = "open" /\ wire'[c] = <<"join_request">>
  BY <1>1, <1>t
<1>5. \A d \in Client : /\ Reads(d)' <=> Reads(d)
                        /\ InQueue(d)' <=> InQueue(d)
                        /\ Late(d)' <=> Late(d)
  BY <1>1 DEF Reads, IsJoin, InQueue, Late, Connecting
<1>6. WireJoins'
  <2> SUFFICES ASSUME NEW d \in Client, NEW i \in 1..Len(wire'[d]),
                      wire'[d][i] = "join_request"
               PROVE  i = 1 /\ ~Reads(d)
    BY <1>5 DEF WireJoins
  <2>1. CASE d = c
    BY <1>2, <1>4, <2>1 DEF Asks
  <2>2. CASE d # c
    BY <1>3, <1>w, <2>2 DEF WireJoins
  <2>3. QED
    BY <2>1, <2>2
<1>7. ReadJoins'
  BY <1>1, <1>w DEF ReadJoins, IsJoin
<1>8. AskersAreNew'
  <2> SUFFICES ASSUME NEW d \in Client, Asks(d)'
               PROVE  conn'[d] # "none" /\ d \notin client_list /\ ~InQueue(d)
                      /\ Late(d)
    BY <1>1, <1>5 DEF AskersAreNew
  <2>1. CASE d = c
    BY <1>2, <1>4, <2>1
  <2>2. CASE d # c
    <3>1. Asks(d)
      BY <1>3, <1>5, <2>2 DEF Asks
    <3>2. QED
      BY <1>3, <1>w, <2>2, <3>1 DEF AskersAreNew
  <2>3. QED
    BY <2>1, <2>2
<1>9. ListedExist' /\ EarlyExists'
  BY <1>1, <1>3, <1>4, <1>5, <1>t, <1>w DEF ListedExist, EarlyExists, Early
<1>10. QueueIsSound'
  BY <1>1, <1>3, <1>4, <1>t, <1>w, ElementOfSeq DEF QueueIsSound, Connecting
<1>11. QED
  BY <1>6, <1>7, <1>8, <1>9, <1>10 DEF Waits

\* A request moves from what its client wrote to what the server has read.
LEMMA ReceiveWaits ==
  ASSUME TypeOK, Waits, NEW c \in Client, Receive(c)
  PROVE  Waits'
<1> DEFINE p == [from |-> c, player |-> player_id[c], msg |-> Head(wire[c])]
           n == Len(receive_queue)
<1>w. /\ WireJoins /\ ReadJoins /\ AskersAreNew /\ ListedExist /\ EarlyExists
      /\ QueueIsSound
  BY DEF Waits
<1>1. /\ receive_queue' = Append(receive_queue, p)
      /\ wire' = [wire EXCEPT ![c] = Tail(wire[c])]
      /\ wire[c] # << >>
      /\ UNCHANGED <<conn, client_list, connect_queue, connect_client, fsm>>
  BY DEF Receive, connecting
<1>t. /\ receive_queue \in Seq(Packet) /\ n \in Nat
      /\ wire \in [Client -> Seq(WireMsg)] /\ wire[c] \in Seq(WireMsg)
  BY LenProperties DEF TypeOK, WireMsg
<1>2. /\ Len(wire[c]) \in Nat \ {0} /\ Head(wire[c]) = wire[c][1]
      /\ Tail(wire[c]) \in Seq(WireMsg)
      /\ Len(Tail(wire[c])) = Len(wire[c]) - 1
      /\ \A i \in 1..Len(Tail(wire[c])) : Tail(wire[c])[i] = wire[c][i + 1]
  BY <1>1, <1>t, HeadTailProperties, EmptySeq, LenProperties
<1>3. /\ Len(receive_queue') = n + 1 /\ receive_queue'[n + 1] = p
      /\ \A i \in 1..n : receive_queue'[i] = receive_queue[i]
  <2> HIDE DEF p
  <2>1. QED
    BY <1>1, <1>t
<1>4. p.from = c /\ p.msg = wire[c][1]
  BY <1>2
<1> HIDE DEF p, n
<1>5. \A d \in Client : d # c => wire'[d] = wire[d]
  BY <1>1, <1>t
<1>6. wire'[c] = Tail(wire[c])
  BY <1>1, <1>t
\* No request is left behind the first thing c wrote.
<1>7. \A i \in 1..Len(wire'[c]) : wire'[c][i] # "join_request"
  <2> SUFFICES ASSUME NEW i \in 1..Len(wire'[c]), wire'[c][i] = "join_request"
               PROVE  FALSE
    OBVIOUS
  <2>1. i + 1 \in 1..Len(wire[c]) /\ wire[c][i + 1] = "join_request" /\ i + 1 # 1
    BY <1>2, <1>6
  <2>2. QED
    BY <1>w, <2>1 DEF WireJoins
\* The new packet is a request only if c has none among the others.
<1>8. p.msg = "join_request" => ~Reads(c) /\ Asks(c)
  <2>1. 1 \in 1..Len(wire[c])
    BY <1>2
  <2>2. QED
    BY <1>4, <1>w, <2>1 DEF WireJoins, Asks
<1>9. \A d \in Client : Reads(d)' => Reads(d) \/ (d = c /\ p.msg = "join_request")
  <2> SUFFICES ASSUME NEW d \in Client, NEW i \in 1..(n + 1),
                      receive_queue'[i].from = d,
                      receive_queue'[i].msg = "join_request"
               PROVE  Reads(d) \/ (d = c /\ p.msg = "join_request")
    BY <1>3 DEF Reads, IsJoin
  <2>1. CASE i \in 1..n
    BY <1>3, <2>1 DEF Reads, IsJoin, n
  <2>2. CASE i = n + 1
    BY <1>3, <1>4, <2>2
  <2>3. QED
    BY <1>t, <2>1, <2>2
<1>10. ReadJoins'
  <2> SUFFICES ASSUME NEW i \in 1..(n + 1), NEW j \in 1..(n + 1), i # j,
                      IsJoin(i)', IsJoin(j)',
                      receive_queue'[i].from = receive_queue'[j].from
               PROVE  FALSE
    BY <1>3 DEF ReadJoins
  <2>1. CASE i \in 1..n /\ j \in 1..n
    BY <1>3, <1>w, <2>1 DEF ReadJoins, IsJoin, n
  <2>2. CASE i = n + 1 \/ j = n + 1
    <3>1. PICK k \in 1..n : IsJoin(k) /\ receive_queue[k].from = c
      BY <1>3, <1>4, <1>t, <2>2 DEF IsJoin
    <3>2. Reads(c)
      BY <3>1 DEF Reads, n
    <3>3. p.msg = "join_request"
      BY <1>3, <2>2 DEF IsJoin
    <3>4. QED
      BY <1>8, <3>2, <3>3
  <2>3. QED
    BY <1>t, <2>1, <2>2
<1>11. WireJoins'
  BY <1>5, <1>7, <1>9, <1>w DEF WireJoins
<1>12. \A d \in Client : Asks(d)' => Asks(d)
  BY <1>5, <1>7, <1>8, <1>9 DEF Asks
<1>13. /\ connect_queue' = Without(connect_queue, NoClient)
       /\ \A d \in Client : Connecting(d)' => Connecting(d)
       /\ fsm' # "idle" => connect_client' \in Client
  BY <1>1, WithoutNobody DEF TypeOK, Connecting
<1>14. QED
  BY <1>1, <1>10, <1>11, <1>12, <1>13, WaitsFrame

\* Only listed clients are deleted.
LEMMA CleanUpWaits == TypeOK /\ Waits /\ CleanUpClientList => Waits'
<1> SUFFICES ASSUME TypeOK, Waits, CleanUpClientList PROVE Waits'
  OBVIOUS
<1>w. /\ AskersAreNew /\ ListedExist /\ EarlyExists /\ QueueIsSound
  BY DEF Waits
<1>t. /\ conn \in [Client -> ConnState] /\ client_list \subseteq Client
      /\ connect_queue \in Seq(Client)
      /\ fsm # "idle" => connect_client \in Client
  BY DEF TypeOK
<1>1. /\ \A c \in Client : conn'[c] = conn[c] \/ (c \in client_list \ client_list')
      /\ client_list' \subseteq client_list
      /\ UNCHANGED <<wire, receive_queue, connect_queue, connect_client, fsm>>
  BY <1>t DEF CleanUpClientList, connecting
<1>2. WireJoins' /\ ReadJoins' /\ \A c \in Client : Asks(c)' => Asks(c)
  <2>1. NoNewJoins /\ RestRead
    BY <1>1 DEF NoNewJoins, RestRead
  <2>2. QED
    BY <2>1, JoinsFrame DEF Waits
<1>3. AskersAreNew' /\ ListedExist'
  BY <1>1, <1>2, <1>t, <1>w DEF AskersAreNew, ListedExist, InQueue, Late, Connecting
<1>4. EarlyExists'
  <2> SUFFICES ASSUME Early PROVE conn'[connect_client] # "none"
    BY <1>1 DEF EarlyExists, Early
  <2>1. connect_client \in Client /\ connect_client \notin client_list
    BY <1>t, <1>w DEF ListedExist, Late, Early, Connecting
  <2>2. QED
    BY <1>1, <1>w, <2>1 DEF EarlyExists
<1>5. QueueIsSound'
  BY <1>1, <1>t, <1>w, ElementOfSeq DEF QueueIsSound, Connecting
<1>6. QED
  BY <1>2, <1>3, <1>4, <1>5 DEF Waits

\* Who asks is put at the end of the queue, unless it waits or is being let in
\* or is refused, and may be found lost when it is told its place.
LEMMA JoinRequestWaits == TypeOK /\ Waits /\ JoinRequest => Waits'
<1> SUFFICES ASSUME TypeOK, Waits, JoinRequest PROVE Waits'
  OBVIOUS
<1>c. PICK c \in Client : c = packet.from
  <2>1. packet \in Packet
    BY PacketType DEF JoinRequest
  <2>2. QED
    BY <2>1 DEF Packet
<1>w. /\ WireJoins /\ ReadJoins /\ AskersAreNew /\ ListedExist /\ EarlyExists
      /\ QueueIsSound
  BY DEF Waits
<1>t. /\ connect_queue \in Seq(Client) /\ client_list \subseteq Client
      /\ fsm # "idle" => connect_client \in Client
      /\ wire \in [Client -> Seq(WireMsg)]
  BY DEF TypeOK, WireMsg
<1>1. PICK d \in {c, NoClient}, queue \in {connect_queue, Append(connect_queue, c)} :
        /\ queue # connect_queue => ~InConnectQueue(c)
        /\ connect_queue' = Without(queue, d)
        /\ \E closed \in SUBSET {c} :
             /\ conn' = Closing(closed)
             /\ wire' = [e \in Client |-> IF e \in closed THEN << >> ELSE wire[e]]
        /\ fsm' = fsm \/ fsm' = "idle"
  <2> DEFINE known == InConnectQueue(c)
             bad == c \in Refused \/ (~known /\ Len(connect_queue) >= MaxQueue)
             queue == IF bad \/ known THEN connect_queue ELSE Append(connect_queue, c)
  <2>1. PICK lost \in {FALSE} \cup {l \in {TRUE} : MayFail(c)} :
          LET closed == IF lost \/ bad THEN {c} ELSE {}
          IN  /\ conn' = Closing(closed)
              /\ wire' = [e \in Client |-> IF e \in closed THEN << >> ELSE wire[e]]
              /\ connect_queue' = IF lost THEN Without(queue, c) ELSE queue
              /\ fsm' = IF lost /\ Connecting(c) THEN "idle" ELSE fsm
    BY <1>c DEF JoinRequest
  <2>2. queue \in Seq(Client)
    BY <1>t
  <2>3. /\ queue \in {connect_queue, Append(connect_queue, c)}
        /\ queue # connect_queue => ~InConnectQueue(c)
    OBVIOUS
  <2>4. \E closed \in SUBSET {c} :
           /\ conn' = Closing(closed)
           /\ wire' = [e \in Client |-> IF e \in closed THEN << >> ELSE wire[e]]
    <3>1. CASE lost \/ bad
      BY <2>1, <3>1
    <3>2. CASE ~(lost \/ bad)
      BY <2>1, <3>2
    <3>3. QED
      BY <3>1, <3>2
  <2>5. fsm' = fsm \/ fsm' = "idle"
    BY <2>1
  <2>6. \E d \in {c, NoClient} : connect_queue' = Without(queue, d)
    <3>1. connect_queue' = IF lost THEN Without(queue, c) ELSE queue
      BY <2>1
    <3> HIDE DEF queue
    <3>2. QED
      BY <2>2, <3>1, WithoutNobody
  <2> HIDE DEF queue
  <2>7. QED
    BY <2>3, <2>4, <2>5, <2>6
<1>2. UNCHANGED <<client_list, connect_client>>
  BY DEF JoinRequest
<1>3. \A e \in Client : conn'[e] = "none" => conn[e] = "none"
  BY <1>1 DEF Closing
<1>4. NoNewJoins /\ RestRead
  BY <1>1, <1>t DEF NoNewJoins, RestRead, JoinRequest, Routing
<1>5. WireJoins' /\ ReadJoins' /\ \A e \in Client : Asks(e)' => Asks(e)
  BY <1>4, <1>w, JoinsFrame
\* The request routed was the only one of c.
<1>6. Reads(c) /\ ~Asks(c)'
  <2>1. /\ receive_queue \in Seq(Packet) /\ Len(receive_queue) \in Nat \ {0}
        /\ receive_queue' = Tail(receive_queue)
        /\ packet = receive_queue[1] /\ packet.msg = "join_request"
    <3>1. receive_queue \in Seq(Packet) /\ receive_queue # << >>
      BY DEF TypeOK, JoinRequest, Routing
    <3>2. QED
      BY <3>1, EmptySeq, LenProperties DEF JoinRequest, Routing, packet
  <2>2. 1 \in 1..Len(receive_queue) /\ IsJoin(1) /\ receive_queue[1].from = c
    BY <1>c, <2>1 DEF IsJoin
  <2>3. Reads(c)
    BY <2>2 DEF Reads
  <2>4. ~Reads(c)'
    <3> SUFFICES ASSUME NEW i \in 1..Len(receive_queue'),
                        receive_queue'[i].from = c, IsJoin(i)'
                 PROVE  FALSE
      BY DEF Reads
    <3>1. /\ i + 1 \in 1..Len(receive_queue) /\ i + 1 # 1
          /\ receive_queue'[i] = receive_queue[i + 1]
      BY <2>1
    <3>2. IsJoin(i + 1) /\ receive_queue[i + 1].from = c
      BY <3>1 DEF IsJoin
    <3>3. QED
      BY <1>w, <2>2, <3>1, <3>2 DEF ReadJoins
  <2>5. \A i \in 1..Len(wire'[c]) : wire'[c][i] # "join_request"
    BY <1>4, <1>t, <1>w, <2>3 DEF NoNewJoins, WireJoins
  <2>6. QED
    BY <2>3, <2>4, <2>5 DEF Asks
<1>7. conn[c] # "none" /\ c \notin client_list /\ ~InQueue(c)
  BY <1>6, <1>t, <1>w DEF AskersAreNew, Asks
<1>8. \A e \in Client : Connecting(e)' => Connecting(e)
  BY <1>1, <1>2 DEF Connecting
<1>9. CASE queue = connect_queue
  <2>1. /\ fsm' # "idle" => connect_client' \in Client
        /\ fsm \in ListedState => fsm' \in ListedState \cup {"idle"}
        /\ connect_queue' = Without(connect_queue, d)
        /\ client_list' \subseteq client_list \cup Listing
    BY <1>1, <1>2, <1>9, <1>t
  <2>2. QED
    BY <1>3, <1>5, <1>8, <2>1, WaitsFrame
<1>10. CASE queue = Append(connect_queue, c) /\ ~InConnectQueue(c)
  <2> DEFINE n == Len(connect_queue)
  <2>1. /\ queue \in Seq(Client) /\ n \in Nat /\ Len(queue) = n + 1
        /\ queue[n + 1] = c
        /\ \A i \in 1..n : queue[i] = connect_queue[i]
    BY <1>10, <1>t
  <2>2. \A i \in 1..n : queue[i] # c
    BY <1>7, <2>1 DEF InQueue
  <2>3. \A i, j \in 1..n : queue[i] = queue[j] => i = j
    BY <1>w, <2>1 DEF QueueIsSound
  <2> HIDE DEF n
  <2>4. \A i, j \in 1..Len(queue) : queue[i] = queue[j] => i = j
    BY <2>1, <2>2, <2>3
  <2>5. /\ \A i \in 1..Len(connect_queue') :
             \E k \in 1..Len(queue) : connect_queue'[i] = queue[k]
        /\ \A i, j \in 1..Len(connect_queue') :
             connect_queue'[i] = connect_queue'[j] => i = j
    BY <1>1, <2>1, <2>4, WithoutElements
  <2>6. \A k \in 1..Len(queue) :
          \E e \in Client : e = queue[k] /\ (InQueue(e) \/ e = c)
    <3>1. \A k \in 1..n : \E e \in Client : e = queue[k] /\ InQueue(e)
      BY <1>t, <2>1, ElementOfSeq DEF InQueue, n
    <3>2. QED
      BY <1>t, <2>1, <3>1
  <2>7. \A i \in 1..Len(connect_queue') :
          \E e \in Client : e = connect_queue'[i] /\ (InQueue(e) \/ e = c)
    BY <2>5, <2>6
  <2>8. \A e \in Client : InQueue(e)' => InQueue(e) \/ e = c
    BY <2>7 DEF InQueue
  <2>9. \A e \in Client : Late(e) => Late(e)'
    BY <1>1, <1>2 DEF Late, Connecting, ListedState
  <2>10. AskersAreNew'
    BY <1>2, <1>3, <1>5, <1>6, <1>w, <2>8, <2>9 DEF AskersAreNew
  <2>11. ListedExist'
    BY <1>2, <1>3, <1>t, <1>w, <2>9 DEF ListedExist
  <2>12. EarlyExists'
    BY <1>1, <1>2, <1>3, <1>t, <1>w DEF EarlyExists, Early
  <2>13. QueueIsSound'
    <3>1. ~Connecting(c)
      BY <1>10 DEF InConnectQueue
    <3>2. ASSUME NEW e \in Client, InQueue(e) \/ e = c
          PROVE  conn'[e] # "none" /\ ~Connecting(e)' /\ e \notin client_list'
      <4>1. conn[e] # "none" /\ ~Connecting(e) /\ e \notin client_list
        BY <1>7, <1>w, <3>1, <3>2 DEF QueueIsSound, InQueue
      <4>2. QED
        BY <1>2, <1>3, <1>8, <4>1
    <3>3. \A i \in 1..Len(connect_queue') :
            /\ conn'[connect_queue'[i]] # "none"
            /\ ~(fsm' # "idle" /\ connect_client' = connect_queue'[i])
            /\ connect_queue'[i] \notin client_list'
      BY <2>7, <3>2 DEF Connecting
    <3>4. QED
      BY <2>5, <3>3 DEF QueueIsSound, Connecting
  <2>14. QED
    BY <1>5, <2>10, <2>11, <2>12, <2>13 DEF Waits
<1>11. QED
  BY <1>1, <1>9, <1>10

LEMMA LeaveWaits ==
  ASSUME TypeOK, Waits, NEW c \in Client, Leave(c)
  PROVE  Waits'
<1>1. PICK k \in 0..Len(wire[c]), last \in {<<"eof">>, <<"disconnect", "eof">>} :
        wire' = [wire EXCEPT ![c] = SubSeq(wire[c], 1, k) \o last]
  BY DEF Leave
<1>2. wire \in [Client -> Seq(WireMsg)] /\ wire[c] \in Seq(WireMsg)
      /\ Len(wire[c]) \in Nat
  BY LenProperties DEF TypeOK, WireMsg
<1> DEFINE kept == SubSeq(wire[c], 1, k)
<1>3. /\ kept \in Seq(WireMsg) /\ Len(kept) = k
      /\ \A i \in 1..k : kept[i] = wire[c][i]
  <2>1. \A i \in 1..k : wire[c][i] \in WireMsg
    BY <1>2, ElementOfSeq
  <2>2. k \in Int /\ 1 \in Int
    OBVIOUS
  <2>3. QED
    BY <1>2, <2>1, <2>2, SubSeqProperties
<1> HIDE DEF kept
<1>4. last \in Seq(WireMsg) /\ \A i \in 1..Len(last) : last[i] # "join_request"
  <2>1. {"eof", "disconnect"} \subseteq WireMsg
    BY DEF WireMsg, Msg
  <2>2. CASE last = <<"eof">>
    BY <2>1, <2>2
  <2>3. CASE last = <<"disconnect", "eof">>
    BY <2>1, <2>3
  <2>4. QED
    BY <2>2, <2>3
<1>5. /\ wire'[c] = kept \o last
      /\ \A d \in Client : d # c => wire'[d] = wire[d]
  BY <1>1, <1>2 DEF kept
<1>6. NoNewJoins
  <2> SUFFICES ASSUME NEW i \in 1..Len(wire'[c]), wire'[c][i] = "join_request"
               PROVE  i \in 1..Len(wire[c]) /\ wire[c][i] = "join_request"
    BY <1>5 DEF NoNewJoins
  <2> DEFINE all == kept \o last
  <2>a. /\ Len(last) \in Nat /\ Len(kept) = k /\ k \in Nat
        /\ Len(all) = Len(kept) + Len(last)
        /\ \A j \in 1..(Len(kept) + Len(last)) :
             all[j] = IF j <= Len(kept) THEN kept[j] ELSE last[j - Len(kept)]
    BY <1>2, <1>3, <1>4, ConcatProperties, LenProperties
  <2>b. wire'[c] = all
    BY <1>5
  <2> HIDE DEF all
  <2>1. /\ Len(last) \in Nat /\ Len(wire'[c]) = k + Len(last)
        /\ wire'[c][i] = IF i <= k THEN kept[i] ELSE last[i - k]
    BY <2>a, <2>b
  <2>2. CASE i <= k
    BY <1>2, <1>3, <2>1, <2>2
  <2>3. CASE ~(i <= k)
    <3>1. i - k \in 1..Len(last)
      BY <2>1, <2>3
    <3>2. QED
      BY <1>4, <2>1, <2>3, <3>1
  <2>4. QED
    BY <2>2, <2>3
<1>7. RestRead /\ UNCHANGED <<conn, client_list, connect_queue, connect_client, fsm>>
  BY DEF Leave, RestRead, server, connecting
<1>8. QED
  BY <1>6, <1>7, QuietWaits

LEMMA WaitsStep == TypeOK /\ Waits /\ [Next]_vars => Waits'
<1> SUFFICES ASSUME TypeOK, Waits, [Next]_vars PROVE Waits'
  OBVIOUS
\* What the steps that leave the wires alone have in common.
<1>q. ASSUME UNCHANGED <<conn, wire, client_list, connect_queue, connect_client, fsm>>,
             RestRead
      PROVE  Waits'
  <2>1. NoNewJoins
    BY <1>q DEF NoNewJoins
  <2>2. QED
    BY <1>q, <2>1, QuietWaits
<1>1. CASE Kick
  <2>1. PICK c \in client_list : Disconnect(c)
    BY <1>1 DEF Kick
  <2>2. c \in Client /\ RestRead
    BY <1>1 DEF TypeOK, Kick, RestRead
  <2>3. QED
    BY <2>1, <2>2, DisconnectWaits
<1>2. CASE ForceMapChange
  BY <1>2, <1>q DEF ForceMapChange, sockets, server, connecting, RestRead
<1>3. ASSUME NEW c \in Client, Connect(c) \/ Leave(c) \/ Receive(c)
      PROVE  Waits'
  BY <1>3, ConnectWaits, LeaveWaits, ReceiveWaits
<1>4. ASSUME NEW c \in Client, LoseClient(c)
      PROVE  Waits'
  BY <1>4, DisconnectWaits DEF LoseClient, RestRead
<1>5. CASE CleanUpClientList \/ ServeNext \/ JoinRequest
  BY <1>5, CleanUpWaits, ServeNextWaits, JoinRequestWaits
<1>6. CASE StayIdle \/ KeepWaiting \/ UseDeletedClient
  BY <1>6, <1>q DEF StayIdle, KeepWaiting, UseDeletedClient, sockets, server,
                    connecting, RestRead
<1>7. CASE TimeOut
  <2>1. PICK new, slots, sent, flushes :
          /\ Advance(new, slots, sent, flushes)
          /\ new = "drop_bad_connecting_client" /\ flushes = FALSE
    BY <1>7, Zenon DEF TimeOut
  <2>2. fsm # "idle" /\ fsm \notin ListedState /\ RestRead
    BY <1>7 DEF TimeOut, Waiting, ListedState, RestRead
  <2>3. QED
    BY <2>1, <2>2, AdvanceWaits
<1>8. CASE SyncClient
  <2>1. PICK late \in BOOLEAN : (late => fsm # "unit_sync") /\ SendNext(late)
    BY <1>8 DEF SyncClient
  <2>2. /\ RestRead
        /\ fsm \in {"unit_profile_sync", "player_state_sync", "sync_flags",
                    "unit_sync"}
    BY <1>8 DEF SyncClient, RestRead
  <2>3. QED
    BY <2>1, <2>2, SendNextWaits
<1>9. CASE FinishConnect
  <2>1. fsm = "finish_connect" /\ RestRead
    BY <1>9 DEF FinishConnect, RestRead
  <2>2. CASE player_id[connect_client] = NoPlayer
    BY <1>9, <1>q, <2>1, <2>2 DEF FinishConnect, sockets, connecting
  <2>3. CASE player_id[connect_client] # NoPlayer
    <3>1. PICK new, slots, sent, flushes :
            /\ Advance(new, slots, sent, flushes)
            /\ new = "idle" /\ flushes = FALSE
      BY <1>9, <2>3, Zenon DEF FinishConnect
    <3>2. QED
      BY <2>1, <3>1, AdvanceWaits
  <2>4. QED
    BY <2>2, <2>3
<1>10. CASE DropBadConnectingClient
  <2>1. NoNewJoins /\ RestRead
    BY <1>10 DEF DropBadConnectingClient, NoNewJoins, RestRead, TypeOK, server
  <2>2. WireJoins' /\ ReadJoins' /\ \A c \in Client : Asks(c)' => Asks(c)
    BY <2>1, JoinsFrame DEF Waits
  <2>3. /\ \A c \in Client : conn'[c] = "none" => conn[c] = "none"
        /\ \A c \in Client : Connecting(c)' => Connecting(c)
        /\ fsm' = "idle" /\ client_list' = client_list
        /\ connect_queue' = connect_queue
    BY <1>10 DEF DropBadConnectingClient, Closing, Connecting, server
  <2>4. connect_queue' = Without(connect_queue, NoClient)
    BY <2>3, WithoutNobody DEF TypeOK
  <2>5. QED
    BY <2>2, <2>3, <2>4, WaitsFrame
<1>11. CASE ClientDisconnect
  <2>1. RestRead
    BY <1>11 DEF ClientDisconnect, Routing, RestRead
  <2>2. CASE packet.from \in client_list
    <3>1. PICK c \in Client : Disconnect(c)
      BY <1>11, <2>2 DEF ClientDisconnect, TypeOK
    <3>2. QED
      BY <2>1, <3>1, DisconnectWaits
  <2>3. CASE packet.from \notin client_list
    BY <1>11, <1>q, <2>1, <2>3 DEF ClientDisconnect, sockets, connecting
  <2>4. QED
    BY <2>2, <2>3
<1>12. CASE ChangeFlag \/ IgnoreMessage
  <2>1. RestRead
    BY <1>12 DEF ChangeFlag, IgnoreMessage, Routing, RestRead
  <2>2. QED
    BY <1>12, <1>q, <2>1 DEF ChangeFlag, IgnoreMessage, sockets, connecting
<1>13. CASE ConnectRequest
  <2>1. fsm = "wait_for_connect_request" /\ RestRead
    BY <1>13 DEF ConnectRequest, FsmMessage, Routing, RestRead
  <2>2. \/ Advance("drop_bad_connecting_client", pstate, "nothing", FALSE)
        \/ Advance("drop_bad_connecting_client", pstate,
                   "connect_result_refused", TRUE)
        \/ \E q \in FreeSlots :
             Proceed(connect_client, connect_queue, "wait_for_client_settings",
                     [player_id EXCEPT ![connect_client] = q],
                     SetSlot(q, "allocated"), "connect_result_success", TRUE)
    BY <1>13, Zenon DEF ConnectRequest
  <2>3. \/ \E new, slots, sent : \E flushes \in BOOLEAN :
             /\ Advance(new, slots, sent, flushes)
             /\ new = "drop_bad_connecting_client"
        \/ \E new, ids, slots, sent, flushes :
             /\ Proceed(connect_client, connect_queue, new, ids, slots, sent,
                        flushes)
             /\ new = "wait_for_client_settings" /\ flushes = TRUE
    BY <2>2, Zenon
  <2>4. CASE \E new, slots, sent : \E flushes \in BOOLEAN :
               /\ Advance(new, slots, sent, flushes)
               /\ new = "drop_bad_connecting_client"
    <3>1. fsm # "idle" /\ fsm \notin ListedState
      BY <2>1 DEF ListedState
    <3>2. QED
      BY <2>1, <2>4, <3>1, AdvanceWaits
  <2>5. CASE \E new, ids, slots, sent, flushes :
               /\ Proceed(connect_client, connect_queue, new, ids, slots, sent,
                          flushes)
               /\ new = "wait_for_client_settings" /\ flushes = TRUE
    <3>1. PICK new, ids, slots, sent, flushes :
            /\ Proceed(connect_client, connect_queue, new, ids, slots, sent,
                       flushes)
            /\ new = "wait_for_client_settings" /\ flushes = TRUE
      BY <2>5
    <3>2. fsm # "idle" /\ fsm \notin ListedState /\ flushes \in BOOLEAN
      BY <2>1, <3>1 DEF ListedState
    <3>3. QED
      BY <2>1, <3>1, <3>2, CallWaits
  <2>6. QED
    BY <2>3, <2>4, <2>5
<1>14. CASE ClientSettings \/ GameSetupAck
  <2>1. PICK new, slots, sent, flushes :
          /\ Advance(new, slots, sent, flushes)
          /\ \/ new = "wait_for_client_game_setup_ack" /\ flushes = TRUE
             \/ new = "unit_profile_sync" /\ flushes = FALSE
    BY <1>14, Zenon DEF ClientSettings, GameSetupAck
  <2>2. fsm # "idle" /\ fsm \notin ListedState /\ RestRead
    BY <1>14 DEF ClientSettings, GameSetupAck, FsmMessage, Routing, ListedState, RestRead
  <2>3. QED
    BY <2>1, <2>2, AdvanceWaits
<1>15. CASE SendNextProfile
  <2>1. SendNext(FALSE) /\ fsm = "unit_profile_sync" /\ RestRead
    BY <1>15 DEF SendNextProfile, FsmMessage, Routing, RestRead
  <2>2. QED
    BY <2>1, SendNextWaits
<1>16. CASE UpdateGameControlFlow
  BY <1>16, <1>q DEF UpdateGameControlFlow, ShowEndRound, LoadNextMap, StartRound,
     FinishRound, KeepPlaying, Control, sockets, server, connecting, RestRead
<1>17. CASE UNCHANGED vars
  BY <1>17, <1>q DEF vars, sockets, server, connecting, RestRead
<1>18. QED
  BY <1>1, <1>2, <1>3, <1>4, <1>5, <1>6, <1>7, <1>8, <1>9, <1>10, <1>11, <1>12,
     <1>13, <1>14, <1>15, <1>16, <1>17
     DEF Next, MainLoop, ConnectProcess, RoutePacket

LEMMA WaitsInit == Init => Waits
BY DEF Init, Waits, WireJoins, ReadJoins, AskersAreNew, Asks, Reads, ListedExist,
       EarlyExists, Early, QueueIsSound

LEMMA WaitsInvariance == Spec => []Waits
<1>1. TypeOK /\ Waits /\ [Next]_vars => TypeOK' /\ Waits'
  BY TypeStep, WaitsStep
<1>2. Init => TypeOK /\ Waits
  BY TypeInit, WaitsInit
<1>3. QED
  BY <1>1, <1>2, PTL DEF Spec

-----------------------------------------------------------------------------

\* connect_queue never holds a pointer to a deleted client, a client twice, or
\* one that is being let in or plays, however joins, losses and the cleanup of
\* client_list interleave.
THEOREM QueueCorrect == Spec => []QueueIsSound
<1>1. Waits => QueueIsSound
  BY DEF Waits
<1>2. QED
  BY <1>1, WaitsInvariance, PTL

\* The sender of a join request still exists when the request is routed, since
\* nobody is listed, and so cleaned up, before its request has been handled.
THEOREM JoinersCorrect == Spec => []JoinersExist
<1>1. TypeOK /\ Waits => JoinersExist
  <2> SUFFICES ASSUME TypeOK, Waits, NEW i \in 1..Len(receive_queue),
                      receive_queue[i].msg = "join_request"
               PROVE  conn[receive_queue[i].from] # "none"
    BY DEF JoinersExist
  <2>1. receive_queue[i] \in Packet
    BY ElementOfSeq DEF TypeOK
  <2>2. receive_queue[i].from \in Client
    BY <2>1 DEF Packet
  <2>3. Asks(receive_queue[i].from)
    BY DEF Asks, Reads, IsJoin
  <2>4. QED
    BY <2>2, <2>3 DEF Waits, AskersAreNew
<1>2. QED
  BY <1>1, WaitsInvariance, TypeCorrect, PTL
=============================================================================
