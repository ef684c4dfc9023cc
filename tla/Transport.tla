----------------------------- MODULE Transport -----------------------------
(***************************************************************************)
(* The stream of messages from a netPanzer server to one of its clients:   *)
(* the send buffer of the server's ClientSocket, the TCP connection, the   *)
(* reassembly of packets in the client's ClientSocket, and the ring of     *)
(* NetworkInterface from which the client routes them once per tick.  Both *)
(* ends run the same class, so the other direction differs only in what    *)
(* the observer does with a lost client.                                   *)
(*                                                                         *)
(* A byte is known by the message it belongs to and its place in the frame *)
(* (two bytes of length, then the message).  The connection delivers bytes *)
(* in order and in pieces of any length, and may break at any moment.      *)
(*                                                                         *)
(* `alive' turns false where the code has no defined continuation: a write *)
(* past the end of sendbuffer, and the loss of a client reported to that   *)
(* same client's full buffer, which reports the loss again.                *)
(***************************************************************************)
EXTENDS Integers, Sequences

CONSTANTS
  Sizes,        \* the sizes of messages
  AlertSize,    \* sizeof(SystemConnectAlert), and of the goodbye of a client
  MaxSize,      \* _MAX_NET_PACKET_SIZE
  BufferSize,   \* SEND_BUFFER_LEN
  QueueSize,    \* the size of the receive ring
  RoomSize,     \* bound: bytes the connection holds
  MaxSent,      \* bound: messages of the server in a behaviour
  MaxSessions   \* bound: connections in a behaviour

\* What a server sends fits the buffer in which a client puts it together,
\* its length included (a client may send more: see the README).
ASSUME SizesAssumption == /\ AlertSize \in Sizes
                          /\ Sizes \subseteq Nat \ {0}
                          /\ \A s \in Sizes : s + 2 =< MaxSize /\ s + 2 =< BufferSize
ASSUME BoundsAssumption == /\ QueueSize \in Nat /\ QueueSize > 1
                           /\ {MaxSize, BufferSize, RoomSize, MaxSent, MaxSessions} \subseteq Nat

HeaderSize == 2

Messages == [id : 1..MaxSent + MaxSessions, size : Sizes]
Nothing == [id |-> 0, size |-> 0]
Bytes == [of : Messages, at : 1..MaxSize]
Queues == [array : [0..QueueSize - 1 -> Messages \cup {Nothing}],
           front : 0..QueueSize - 1, rear : 0..QueueSize - 1]

VARIABLES
  socket,         \* the server's ClientSocket has its socket
  sendbuffer,     \* its bytes up to sendpos
  open,           \* the connection still delivers
  stream,         \* the bytes in it
  clientsocket,   \* the client has its ClientSocket
  tempbuffer,     \* its bytes up to tempoffset
  receive_queue,  \* the ring of the client
  routed,         \* the messages of the last drain
  joined,         \* the player has joined and not yet quit
  rejected,       \* the client has met a packet of an impossible size
  alive,
  sent, sessions

server == <<socket, sendbuffer>>
connection == <<open, stream>>
client == <<clientsocket, tempbuffer, rejected>>
vars == <<server, connection, client, receive_queue, routed, joined, alive, sent, sessions>>

TypeOK ==
  /\ socket \in BOOLEAN
  /\ sendbuffer \in Seq(Bytes) /\ Len(sendbuffer) =< BufferSize
  /\ open \in BOOLEAN
  /\ stream \in Seq(Bytes) /\ Len(stream) =< RoomSize
  /\ clientsocket \in BOOLEAN
  /\ tempbuffer \in Seq(Bytes) /\ Len(tempbuffer) < MaxSize
  /\ receive_queue \in Queues
  /\ routed \in Seq(Messages)
  /\ joined \in BOOLEAN
  /\ rejected \in BOOLEAN
  /\ alive \in BOOLEAN
  /\ sent \in 0..MaxSent + MaxSessions
  /\ sessions \in 0..MaxSessions

EmptyQueue == [array |-> [i \in 0..QueueSize - 1 |-> Nothing], front |-> 0, rear |-> 0]

Init ==
  /\ socket = FALSE /\ sendbuffer = <<>>
  /\ open = FALSE /\ stream = <<>>
  /\ clientsocket = FALSE /\ tempbuffer = <<>>
  /\ receive_queue = EmptyQueue
  /\ routed = <<>>
  /\ joined = FALSE /\ rejected = FALSE /\ alive = TRUE
  /\ sent = 0 /\ sessions = 0

----------------------------------------------------------------------------
(* The ring: NetPacketQueue. *)

Enqueue(q, m) == LET next == (q.rear + 1) % QueueSize
                 IN  [q EXCEPT !.array[next] = m, !.rear = next]

\* Mutant: reads the place of front before front advances.
MutContents(q) == [i \in 1..(q.rear - q.front) % QueueSize |->
                     q.array[(q.front + i - 1) % QueueSize]]

\* What a drain finds: nothing when rear has caught up with front.
Contents(q) == [i \in 1..(q.rear - q.front) % QueueSize |->
                  q.array[(q.front + i) % QueueSize]]

----------------------------------------------------------------------------
(* The sending end. *)

Frame(m) == [i \in 1..HeaderSize + m.size |-> [of |-> m, at |-> i]]

Refused(size) == Len(sendbuffer) + size > BufferSize

\* Mutant: nothing guards the end of the buffer.
MutPut(m) == sendbuffer' = sendbuffer \o Frame(m) /\ UNCHANGED alive

\* The message goes behind those not yet sent; the length in front of it is
\* not part of what was compared with the size of the buffer.
Put(m) == IF Len(sendbuffer \o Frame(m)) > BufferSize
          THEN alive' = FALSE /\ UNCHANGED sendbuffer
          ELSE sendbuffer' = sendbuffer \o Frame(m) /\ UNCHANGED alive

\* The loss of the client is told to every client, and to this one, which
\* still has its socket.
ReportLoss(id) == IF Refused(AlertSize)
                  THEN alive' = FALSE /\ UNCHANGED sendbuffer
                  ELSE Put([id |-> id, size |-> AlertSize])

SendMessage(size) ==
  /\ alive /\ socket /\ sent < MaxSent
  /\ sent' = sent + 1
  /\ IF Refused(size) THEN ReportLoss(sent + 1) ELSE Put([id |-> sent + 1, size |-> size])
  /\ UNCHANGED <<socket, connection, client, receive_queue, routed, joined, sessions>>

\* Mutant: what a partial send leaves over is forgotten.
MutSendRemaining ==
  /\ alive /\ socket /\ open
  /\ \E n \in 1..Len(sendbuffer) :
       /\ Len(stream) + n =< RoomSize
       /\ stream' = stream \o SubSeq(sendbuffer, 1, n)
       /\ sendbuffer' = <<>>
  /\ UNCHANGED <<socket, open, client, receive_queue, routed, joined, alive, sent, sessions>>

\* Mutant: waits until the connection takes the whole buffer.
WholeSendRemaining ==
  /\ alive /\ socket /\ open
  /\ sendbuffer # <<>> /\ Len(stream \o sendbuffer) =< RoomSize
  /\ stream' = stream \o sendbuffer
  /\ sendbuffer' = <<>>
  /\ UNCHANGED <<socket, open, client, receive_queue, routed, joined, alive, sent, sessions>>

\* The connection takes some of the bytes, and the others move to the front.
SendRemaining ==
  /\ alive /\ socket /\ open
  /\ \E n \in 1..Len(sendbuffer) :
       /\ Len(stream) + n =< RoomSize
       /\ stream' = stream \o SubSeq(sendbuffer, 1, n)
       /\ sendbuffer' = SubSeq(sendbuffer, n + 1, Len(sendbuffer))
  /\ UNCHANGED <<socket, open, client, receive_queue, routed, joined, alive, sent, sessions>>

\* A send or a read meets the broken connection; the rest counts as sent.
LoseClient ==
  /\ alive /\ socket /\ ~open
  /\ socket' = FALSE
  /\ sendbuffer' = <<>>
  /\ UNCHANGED <<connection, client, receive_queue, routed, joined, alive, sent, sessions>>

\* kickClient and niceDisconnect: hardClose, whatever is still to be sent.
HardClose ==
  /\ alive /\ socket
  /\ socket' = FALSE
  /\ sendbuffer' = <<>>
  /\ UNCHANGED <<connection, client, receive_queue, routed, joined, alive, sent, sessions>>

----------------------------------------------------------------------------
(* The connection. *)

Break ==
  /\ alive /\ open
  /\ open' = FALSE
  /\ stream' = <<>>
  /\ UNCHANGED <<server, client, receive_queue, routed, joined, alive, sent, sessions>>

----------------------------------------------------------------------------
(* The receiving end. *)

\* The length in a header; what is not a header has none a packet may have.
PacketSize(temp) == IF /\ temp[1].of = temp[2].of
                       /\ temp[1].at = 1 /\ temp[2].at = 2
                    THEN temp[1].of.size
                    ELSE 0

MessageIn(temp) == IF temp = Frame(temp[1].of) THEN temp[1].of ELSE Nothing

\* Of the bytes received, as many as are needed and there are.
Take(s, need) == LET n == IF need < Len(s.data) THEN need ELSE Len(s.data)
                 IN  [s EXCEPT !.temp = s.temp \o SubSeq(s.data, 1, n),
                               !.data = SubSeq(s.data, n + 1, Len(s.data))]

\* Mutant: takes the beginning of the next packet with the end of this one.
MutPacked(s) == LET size == PacketSize(s.temp)
                    t == Take(s, Len(s.data))
                IN  IF size \notin 1..MaxSize THEN [s EXCEPT !.bad = TRUE]
                    ELSE IF Len(t.temp) - HeaderSize >= size
                         THEN [t EXCEPT !.queue = Enqueue(t.queue, t.temp[1].of), !.temp = <<>>]
                         ELSE t

Packed(s) == LET size == PacketSize(s.temp)
                 t == Take(s, size - (Len(s.temp) - HeaderSize))
             IN  IF size \notin 1..MaxSize THEN [s EXCEPT !.bad = TRUE]
                 ELSE IF Len(t.temp) - HeaderSize = size
                      THEN [t EXCEPT !.queue = Enqueue(t.queue, MessageIn(t.temp)),
                                     !.temp = <<>>]
                      ELSE t

Loops == [temp : Seq(Bytes), data : Seq(Bytes), queue : Queues, bad : BOOLEAN]

\* One turn of the loop of onDataReceived, which ends when no byte remains and
\* at a bad size; every turn takes a byte.
Turn[s \in Loops] ==
  IF s.data = <<>> \/ s.bad THEN s
  ELSE LET t == IF Len(s.temp) < HeaderSize THEN Take(s, HeaderSize - Len(s.temp)) ELSE s
       IN  IF Len(t.temp) < HeaderSize THEN t ELSE Packed(t)

Loop(s) == LET turns[n \in 0..Len(s.data)] == IF n = 0 THEN s ELSE Turn[turns[n - 1]]
           IN  turns[Len(s.data)]

onDataReceived(data) ==
  Loop([temp |-> tempbuffer, data |-> data, queue |-> receive_queue, bad |-> FALSE])

\* A client that meets a bad size deletes its ClientSocket.
Receive ==
  /\ alive /\ clientsocket /\ open
  /\ \E n \in 1..Len(stream) : \E s \in {onDataReceived(SubSeq(stream, 1, n))} :
       /\ receive_queue' = s.queue
       /\ tempbuffer' = IF s.bad THEN <<>> ELSE s.temp
       /\ clientsocket' = ~s.bad
       /\ open' = ~s.bad
       /\ stream' = IF s.bad THEN <<>> ELSE SubSeq(stream, n + 1, Len(stream))
       /\ rejected' = s.bad
  /\ UNCHANGED <<server, routed, joined, alive, sent, sessions>>

\* A read finds the connection broken, or closed by the server and empty.
LoseServer ==
  /\ alive /\ clientsocket
  /\ ~open \/ (~socket /\ stream = <<>>)
  /\ clientsocket' = FALSE
  /\ tempbuffer' = <<>>
  /\ open' = FALSE
  /\ UNCHANGED <<server, stream, receive_queue, routed, joined, rejected, alive, sent, sessions>>

\* One ClientMessageRouter::routeMessages: nothing without a ClientSocket.
RouteMessages ==
  /\ alive /\ clientsocket
  /\ routed' = Contents(receive_queue)
  /\ receive_queue' = [receive_queue EXCEPT !.front = receive_queue.rear]
  /\ UNCHANGED <<server, connection, client, joined, alive, sent, sessions>>

----------------------------------------------------------------------------
(* The player: joins, quits, hosts. *)

\* joinServer makes a new ClientSocket; the ring stays as it was left.
JoinServer ==
  /\ alive /\ ~joined /\ sessions < MaxSessions
  /\ joined' = TRUE
  /\ sessions' = sessions + 1
  /\ socket' = TRUE /\ sendbuffer' = <<>>
  /\ open' = TRUE /\ stream' = <<>>
  /\ clientsocket' = TRUE /\ tempbuffer' = <<>>
  /\ UNCHANGED <<receive_queue, routed, rejected, alive, sent>>

\* shutdownConnectDaemon: the goodbye goes to the server, or without a
\* ClientSocket into the client's own ring.
Quit ==
  /\ alive /\ joined
  /\ joined' = FALSE
  /\ IF clientsocket
     THEN UNCHANGED <<receive_queue, sent>>
     ELSE /\ sent' = sent + 1
          /\ receive_queue' = Enqueue(receive_queue, [id |-> sent + 1, size |-> AlertSize])
  /\ clientsocket' = FALSE /\ tempbuffer' = <<>>
  /\ open' = FALSE /\ stream' = <<>>
  /\ UNCHANGED <<server, routed, rejected, alive, sessions>>

\* hostMultiPlayerGame makes a new NetworkClient, which initialises the ring.
Host ==
  /\ alive /\ ~joined
  /\ receive_queue' = EmptyQueue
  /\ UNCHANGED <<server, connection, client, routed, joined, alive, sent, sessions>>

Wrecked == ~alive /\ UNCHANGED vars

----------------------------------------------------------------------------
Next ==
  \/ \E size \in Sizes : SendMessage(size)
  \/ SendRemaining
  \/ LoseClient \/ HardClose \/ Break
  \/ Receive
  \/ LoseServer \/ RouteMessages
  \/ JoinServer \/ Quit \/ Host
  \/ Wrecked

Spec == Init /\ [][Next]_vars

\* Both main loops turn: inputLoop reads what there is, simLoop routes and
\* sends, and a connection with room takes bytes.
FairSpec ==
  /\ Spec
  /\ WF_vars(SendRemaining)
  /\ WF_vars(Receive)
  /\ WF_vars(RouteMessages)
  /\ WF_vars(LoseServer)

----------------------------------------------------------------------------
IsEnd(b) == b.at = HeaderSize + b.of.size

\* The messages whose last byte is among these.
Completed(bytes) ==
  LET upto[n \in 0..Len(bytes)] == IF n = 0 THEN <<>>
                                   ELSE IF IsEnd(bytes[n])
                                        THEN Append(upto[n - 1], bytes[n].of)
                                        ELSE upto[n - 1]
  IN  upto[Len(bytes)]

(* What is coming: the messages whose last byte can still arrive. *)
Coming == IF open /\ clientsocket
          THEN Completed(tempbuffer \o stream \o IF socket THEN sendbuffer ELSE <<>>)
          ELSE <<>>

(* However sends and reads are cut into pieces, however long the client    *)
(* waits between two drains and whenever a connection ends, messages are   *)
(* routed in the order sent, whole and once; the ring loses none but whole *)
(* laps, and a broken connection none that has arrived.                    *)
Link == INSTANCE Channel WITH LapSize <- QueueSize, coming <- Coming,
                              arrived <- Contents(receive_queue)
ChannelSpec == Link!Spec

(* No packet of the server's own making is ever taken for a buggy one, in  *)
(* particular none that follows one of another connection.                 *)
PacketsAreSound == ~rejected

\* A frame goes on byte by byte, and behind its end begins a later message.
Follows(b, c) == IF IsEnd(b)
                 THEN c.at = 1 /\ c.of.id > b.of.id
                 ELSE c = [b EXCEPT !.at = @ + 1]

Whole(bytes) == /\ bytes # <<>> => bytes[1].at = 1
                /\ \A i \in 1..Len(bytes) - 1 : Follows(bytes[i], bytes[i + 1])

(* The two ends agree on where frames begin: the bytes a client holds, the *)
(* bytes on their way and the bytes to be sent follow one another.         *)
FramesAreWhole ==
  open /\ clientsocket /\ socket => Whole(tempbuffer \o stream \o sendbuffer)

InTransit(id) ==
  \/ \E s \in {tempbuffer, stream, sendbuffer} : \E i \in 1..Len(s) : s[i].of.id = id
  \/ \E i \in DOMAIN Contents(receive_queue) : Contents(receive_queue)[i].id = id

(* A message that has been taken into the send buffer does not stay on its *)
(* way: it is routed or lost, or the client has lost its server.           *)
MessagesMove ==
  \A id \in 1..MaxSent + MaxSessions : InTransit(id) ~> (~InTransit(id) \/ ~clientsocket \/ ~alive)
=============================================================================
