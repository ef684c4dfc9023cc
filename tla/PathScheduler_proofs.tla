------------------------ MODULE PathScheduler_proofs -----------------------
(***************************************************************************)
(* Proofs about PathScheduler for any number of units and any size of the  *)
(* request queues.                                                         *)
(***************************************************************************)
EXTENDS PathScheduler, TLAPS

USE UnitAssumption, QueueAssumption DEF UnitAssumption, QueueAssumption

\* The queues and the generators as values.
Queues == {q \in [Kind -> Seq(Request)] : \A k \in Kind : Len(q[k]) < QueueSize}
Pathers == [Kind -> Pather]

----------------------------------------------------------------------------
(* The operations on queues and generators.                                *)

\* Flushing keeps a queue a queue of the same length.
LEMMA FlushedType ==
  ASSUME NEW q \in Seq(Request), NEW u \in Unit
  PROVE  Flushed(q, u) \in Seq(Request) /\ Len(Flushed(q, u)) = Len(q)
         /\ DOMAIN Flushed(q, u) = DOMAIN q
<1> DEFINE f == Flushed(q, u)
<1>1. FlushedSlot \in Request
  BY DEF FlushedSlot, Request, RequestType
<1>2. DOMAIN q = 1 .. Len(q) /\ Len(q) \in Nat
  OBVIOUS
<1>3. f \in [1 .. Len(q) -> Request]
  BY <1>1, <1>2 DEF Flushed
<1>4. f \in Seq(Request) /\ Len(f) = Len(q)
  BY <1>2, <1>3
<1> QED BY <1>2, <1>3, <1>4

\* What Append does to the elements.
LEMMA AppendFacts ==
  ASSUME NEW S, NEW s \in Seq(S), NEW e \in S
  PROVE  /\ Append(s, e) \in Seq(S)
         /\ Len(s) \in Nat /\ DOMAIN s = 1 .. Len(s)
         /\ DOMAIN Append(s, e) = 1 .. (Len(s) + 1)
         /\ Append(s, e)[Len(s) + 1] = e
         /\ \A i \in 1 .. Len(s) : Append(s, e)[i] = s[i]
OBVIOUS

\* Enqueuing keeps a ring a ring.
LEMMA EnqueuedType ==
  ASSUME NEW q \in Seq(Request), Len(q) < QueueSize, NEW r \in Request
  PROVE  Enqueued(q, r) \in Seq(Request) /\ Len(Enqueued(q, r)) < QueueSize
<1>1. CASE Len(q) + 1 = QueueSize
  BY <1>1 DEF Enqueued
<1>2. CASE Len(q) + 1 # QueueSize
  <2>1. Append(q, r) \in Seq(Request) /\ Len(Append(q, r)) = Len(q) + 1
    OBVIOUS
  <2> QED BY <1>2, <2>1 DEF Enqueued
<1> QED BY <1>1, <1>2

\* killRequest leaves no request of the unit, and those of the others as they are.
KillOutcome(q, p, u, q2, p2) ==
  /\ q2 \in Queues /\ p2 \in Pathers /\ \A k \in Kind : Len(q2[k]) = Len(q[k])
  /\ LiveSlots(q2, u) = {} /\ Serving(p2, u) = {}
  /\ \A v \in Unit \ {u} : /\ LiveSlots(q2, v) = LiveSlots(q, v)
                           /\ Serving(p2, v) = Serving(p, v)
  /\ \A k \in Kind : p2[k].open => p2[k] = p[k]

LEMMA KillLemma ==
  ASSUME NEW q \in Queues, NEW p \in Pathers, NEW u \in Unit
  PROVE  KillOutcome(q, p, u, [k \in Kind |-> Flushed(q[k], u)],
                              [k \in Kind |-> Terminated(p[k], u)])
<1> DEFINE q2 == [k \in Kind |-> Flushed(q[k], u)]
           p2 == [k \in Kind |-> Terminated(p[k], u)]
<1>1. q2 \in Queues /\ \A k \in Kind : Len(q2[k]) = Len(q[k])
  BY FlushedType DEF Queues
<1>2. \A k \in Kind : /\ DOMAIN q2[k] = DOMAIN q[k]
                      /\ \A i \in DOMAIN q[k] :
                           q2[k][i] = IF q[k][i].unit = u THEN FlushedSlot ELSE q[k][i]
  <2>1. \A k \in Kind : q2[k] = Flushed(q[k], u) /\ q[k] \in Seq(Request)
    BY DEF Queues
  <2> QED BY <2>1 DEF Flushed
<1>3. LiveSlots(q2, u) = {}
  BY <1>2 DEF LiveSlots, FlushedSlot
<1>4. \A v \in Unit \ {u} : LiveSlots(q2, v) = LiveSlots(q, v)
  BY <1>2 DEF LiveSlots, FlushedSlot
<1>5. \A k \in Kind : /\ p2[k] \in Pather /\ p2[k] = Terminated(p[k], u)
                      /\ p2[k].unit = u => p2[k].status = "free"
                      /\ p[k].unit # u => p2[k] = p[k]
                      /\ p2[k].open => p2[k] = p[k]
  BY DEF Pathers, Pather, Terminated, Fsm
<1>6. p2 \in Pathers
  BY <1>5 DEF Pathers
<1>7. Serving(p2, u) = {}
  BY <1>5 DEF Serving
<1>8. ASSUME NEW v \in Unit \ {u} PROVE Serving(p2, v) = Serving(p, v)
  <2>1. ASSUME NEW k \in Kind
        PROVE  (p2[k].status # "free" /\ p2[k].unit = v) <=> (p[k].status # "free" /\ p[k].unit = v)
    BY <1>5 DEF Pathers, Pather, Terminated
  <2> QED BY <2>1 DEF Serving
<1>9. \A k \in Kind : p2[k].open => p2[k] = p[k]
  BY <1>5
<1> HIDE DEF q2, p2
<1>10. KillOutcome(q, p, u, q2, p2)
  BY <1>1, <1>3, <1>4, <1>6, <1>7, <1>8, <1>9 DEF KillOutcome
<1> QED BY <1>10 DEF q2, p2

\* What requestPath leaves of the queues: a request adds at most itself, and
\* something is missing only if the ring overflows.
WithRequest(q, k, u, t) ==
  [q EXCEPT ![k] = Enqueued(@, [unit |-> u, type |-> t, flush |-> FALSE])]

AskOutcome(q, q2, k, u) ==
  /\ q2 \in Queues
  /\ \A v \in Unit \ {u} : LiveSlots(q2, v) \subseteq LiveSlots(q, v)
  /\ LiveSlots(q, u) = {} => \A s, z \in LiveSlots(q2, u) : s = z
  /\ LiveSlots(q2, u) # {} \/ (Len(q[k]) + 1 = QueueSize /\ q2[k] = <<>>)
  /\ \/ \A v \in Unit \ {u} : LiveSlots(q, v) \subseteq LiveSlots(q2, v)
     \/ Len(q[k]) + 1 = QueueSize /\ q2[k] = <<>>

LEMMA AskLemma ==
  ASSUME NEW q \in Queues, NEW u \in Unit, NEW t \in RequestType, NEW k \in Kind
  PROVE  AskOutcome(q, WithRequest(q, k, u, t), k, u)
<1> DEFINE q2 == WithRequest(q, k, u, t)
<1> DEFINE r == [unit |-> u, type |-> t, flush |-> FALSE]
<1>1. r \in Request /\ r.unit = u /\ ~r.flush
  BY DEF Request
<1>2. q[k] \in Seq(Request) /\ Len(q[k]) < QueueSize /\ Len(q[k]) \in Nat
  BY DEF Queues
<1>3. /\ q2[k] = Enqueued(q[k], r) /\ DOMAIN q2 = Kind
      /\ \A j \in Kind \ {k} : q2[j] = q[j]
      /\ q2 = [j \in Kind |-> q2[j]]
  BY DEF Queues, WithRequest
<1> HIDE DEF r, q2
<1> SUFFICES AskOutcome(q, q2, k, u)
  BY DEF q2
<1>4. q2 \in Queues
  <2>1. \A j \in Kind : q2[j] \in Seq(Request) /\ Len(q2[j]) < QueueSize
    <3>1. q2[k] \in Seq(Request) /\ Len(q2[k]) < QueueSize
      BY <1>1, <1>2, <1>3, EnqueuedType
    <3>2. \A j \in Kind \ {k} : q2[j] \in Seq(Request) /\ Len(q2[j]) < QueueSize
      <4>1. \A j \in Kind : q[j] \in Seq(Request) /\ Len(q[j]) < QueueSize
        BY DEF Queues
      <4> QED BY <4>1, <1>3
    <3> QED BY <3>1, <3>2
  <2>2. q2 = [j \in Kind |-> q2[j]]
    BY <1>3
  <2>3. q2 \in [Kind -> Seq(Request)]
    BY <2>1, <2>2
  <2> QED BY <2>1, <2>3 DEF Queues
<1>5. CASE Len(q[k]) + 1 = QueueSize
  <2>1. q2[k] = <<>>
    BY <1>3, <1>5 DEF Enqueued
  <2>2. \A v \in Unit : LiveSlots(q2, v) \subseteq LiveSlots(q, v)
    BY <1>3, <2>1 DEF LiveSlots
  <2> QED BY <1>4, <1>5, <2>1, <2>2 DEF AskOutcome
<1>6. CASE Len(q[k]) + 1 # QueueSize
  <2> DEFINE n == Len(q[k]) + 1
  <2>1. q2[k] = Append(q[k], r)
    BY <1>3, <1>6 DEF Enqueued
  <2>2. /\ DOMAIN q[k] = 1 .. Len(q[k]) /\ DOMAIN q2[k] = 1 .. n
        /\ q2[k][n] = r /\ \A i \in 1 .. Len(q[k]) : q2[k][i] = q[k][i]
    <3>1. /\ DOMAIN q[k] = 1 .. Len(q[k])
          /\ DOMAIN Append(q[k], r) = 1 .. (Len(q[k]) + 1)
          /\ Append(q[k], r)[Len(q[k]) + 1] = r
          /\ \A i \in 1 .. Len(q[k]) : Append(q[k], r)[i] = q[k][i]
      BY <1>1, <1>2, AppendFacts
    <3> QED BY <3>1, <2>1
  <2>8. n \in Nat /\ n \in 1 .. n /\ 1 .. n = (1 .. Len(q[k])) \cup {n} /\ n \in 1 .. QueueSize
        /\ 1 .. Len(q[k]) \subseteq 1 .. QueueSize
    BY <1>2
  <2> HIDE DEF n
  <2>3. \A i \in DOMAIN q2[k] : i = n \/ (i \in DOMAIN q[k] /\ q2[k][i] = q[k][i])
    BY <2>8, <2>2
  <2>4. ASSUME NEW v \in Unit, NEW s \in LiveSlots(q2, v)
        PROVE  s \in LiveSlots(q, v) \/ (s = <<k, n>> /\ v = u)
    <3>1. PICK j \in Kind, i \in 1 .. QueueSize :
             s = <<j, i>> /\ i \in DOMAIN q2[j] /\ q2[j][i].unit = v /\ ~q2[j][i].flush
      BY DEF LiveSlots
    <3>2. CASE j = k
      <4>1. s = <<k, i>> /\ i \in DOMAIN q2[k] /\ q2[k][i].unit = v /\ ~q2[k][i].flush
        BY <3>1, <3>2
      <4>2. CASE i = n
        BY <4>1, <4>2, <2>2, <1>1
      <4>3. CASE i # n
        <5>1. i \in DOMAIN q[k] /\ q2[k][i] = q[k][i]
          BY <4>1, <4>3, <2>3
        <5> QED BY <4>1, <5>1 DEF LiveSlots
      <4> QED BY <4>2, <4>3
    <3>3. CASE j # k
      BY <3>1, <3>3, <1>3 DEF LiveSlots
    <3> QED BY <3>2, <3>3
  <2>6. <<k, n>> \in LiveSlots(q2, u)
    BY <1>1, <2>2, <2>8 DEF LiveSlots
  <2>7. ASSUME NEW v \in Unit, NEW s \in LiveSlots(q, v) PROVE s \in LiveSlots(q2, v)
    <3>1. PICK j \in Kind, i \in 1 .. QueueSize :
             s = <<j, i>> /\ i \in DOMAIN q[j] /\ q[j][i].unit = v /\ ~q[j][i].flush
      BY DEF LiveSlots
    <3>2. CASE j = k
      <4>1. s = <<k, i>> /\ i \in DOMAIN q2[k] /\ q2[k][i] = q[k][i]
        BY <3>1, <3>2, <2>2, <2>8
      <4> QED BY <3>1, <3>2, <4>1 DEF LiveSlots
    <3>3. CASE j # k
      BY <3>1, <3>3, <1>3 DEF LiveSlots
    <3> QED BY <3>2, <3>3
  <2> QED BY <1>4, <2>4, <2>6, <2>7 DEF AskOutcome
<1> QED BY <1>5, <1>6

\* A generator that takes a request moves the others one slot to the front.
TakeOutcome(q, k, q2) ==
  /\ q2 \in Queues /\ Head(q[k]) \in Request
  /\ \A v \in Unit :
       /\ (\A s, z \in LiveSlots(q, v) : s = z) =>
            /\ \A s, z \in LiveSlots(q2, v) : s = z
            /\ ~Head(q[k]).flush /\ Head(q[k]).unit = v => LiveSlots(q2, v) = {}
       /\ LiveSlots(q2, v) # {} => LiveSlots(q, v) # {}
       /\ \/ LiveSlots(q, v) # {} => LiveSlots(q2, v) # {}
          \/ ~Head(q[k]).flush /\ Head(q[k]).unit = v
  /\ \A v \in Unit :
       ~Head(q[k]).flush /\ Head(q[k]).unit = v => <<k, 1>> \in LiveSlots(q, v)

LEMMA TakeLemma ==
  ASSUME NEW q \in Queues, NEW k \in Kind, q[k] # <<>>
  PROVE  TakeOutcome(q, k, [q EXCEPT ![k] = Tail(@)])
<1> DEFINE q2 == [q EXCEPT ![k] = Tail(@)]
<1> DEFINE n == Len(q[k])
<1>1. q[k] \in Seq(Request) /\ n \in Nat \ {0} /\ n < QueueSize
  <2>1. q[k] \in Seq(Request) /\ Len(q[k]) < QueueSize
    BY DEF Queues
  <2> QED BY <2>1
<1>2. /\ Tail(q[k]) \in Seq(Request) /\ Len(Tail(q[k])) = n - 1
      /\ DOMAIN q[k] = 1 .. n /\ DOMAIN Tail(q[k]) = 1 .. (n - 1)
      /\ \A i \in 1 .. (n - 1) : Tail(q[k])[i] = q[k][i + 1]
      /\ Head(q[k]) = q[k][1]
  BY <1>1
<1>3. /\ q2[k] = Tail(q[k]) /\ \A j \in Kind \ {k} : q2[j] = q[j]
      /\ q2 = [j \in Kind |-> q2[j]]
  BY DEF Queues
<1> HIDE DEF n, q2
<1>4. q2 \in Queues
  <2>1. \A j \in Kind : q2[j] \in Seq(Request) /\ Len(q2[j]) < QueueSize
    BY <1>1, <1>2, <1>3 DEF Queues
  <2>2. q2 = [j \in Kind |-> q2[j]]
    BY <1>3
  <2> QED BY <2>1, <2>2 DEF Queues
<1>5. Head(q[k]) \in Request
  <2>1. 1 \in DOMAIN q[k]
    BY <1>1, <1>2
  <2> QED BY <1>1, <1>2, <2>1
<1>6. 1 \in 1 .. QueueSize /\ 1 \in DOMAIN q[k]
  BY <1>1, <1>2
<1>7. ASSUME NEW v \in Unit, ~Head(q[k]).flush, Head(q[k]).unit = v
      PROVE  <<k, 1>> \in LiveSlots(q, v)
  BY <1>2, <1>6, <1>7 DEF LiveSlots
<1> DEFINE Before(s) == IF s[1] = k THEN <<k, s[2] + 1>> ELSE s
<1>8. ASSUME NEW v \in Unit, NEW s \in LiveSlots(q2, v)
      PROVE  /\ Before(s) \in LiveSlots(q, v) /\ Before(s) # <<k, 1>>
             /\ s \in Kind \X (1 .. QueueSize)
  <2>1. PICK j \in Kind, i \in 1 .. QueueSize :
           s = <<j, i>> /\ i \in DOMAIN q2[j] /\ q2[j][i].unit = v /\ ~q2[j][i].flush
    BY <1>8 DEF LiveSlots
  <2>2. CASE j = k
    <3>1. i \in 1 .. (n - 1) /\ q[k][i + 1] = q2[k][i]
      BY <2>1, <2>2, <1>2, <1>3
    <3>2. i + 1 \in 1 .. n /\ i + 1 \in 1 .. QueueSize /\ i + 1 # 1
      BY <3>1, <1>1
    <3>3. <<k, i + 1>> \in LiveSlots(q, v)
      BY <3>1, <3>2, <2>1, <2>2, <1>2 DEF LiveSlots
    <3> QED BY <2>1, <2>2, <3>2, <3>3
  <2>3. CASE j # k
    BY <2>1, <2>3, <1>3 DEF LiveSlots
  <2> QED BY <2>2, <2>3
<1>9. ASSUME NEW v \in Unit, NEW s \in LiveSlots(q2, v), NEW z \in LiveSlots(q2, v),
             Before(s) = Before(z)
      PROVE  s = z
  <2>1. s \in Kind \X (1 .. QueueSize) /\ z \in Kind \X (1 .. QueueSize)
    BY <1>8
  <2>2. CASE s[1] = k /\ z[1] = k
    <3>1. s[2] + 1 = z[2] + 1
      BY <1>9, <2>2
    <3>2. s[2] = z[2]
      BY <3>1, <2>1
    <3> QED BY <2>1, <2>2, <3>2
  <2>3. CASE s[1] # k /\ z[1] # k
    BY <1>9, <2>3
  <2>4. CASE (s[1] = k) # (z[1] = k)
    BY <1>9, <2>1, <2>4
  <2> QED BY <2>2, <2>3, <2>4
<1>10. ASSUME NEW v \in Unit, NEW s \in LiveSlots(q, v), s # <<k, 1>>
       PROVE  LiveSlots(q2, v) # {}
  <2>1. PICK j \in Kind, i \in 1 .. QueueSize :
           s = <<j, i>> /\ i \in DOMAIN q[j] /\ q[j][i].unit = v /\ ~q[j][i].flush
    BY <1>10 DEF LiveSlots
  <2>2. CASE j = k
    <3>1. i \in 1 .. n /\ i # 1
      BY <2>1, <2>2, <1>2, <1>10
    <3>2. i - 1 \in 1 .. (n - 1) /\ i - 1 \in 1 .. QueueSize /\ (i - 1) + 1 = i
      BY <3>1, <1>1
    <3>3. q2[k][i - 1] = q[k][i] /\ i - 1 \in DOMAIN q2[k]
      BY <3>2, <1>2, <1>3
    <3>4. <<k, i - 1>> \in LiveSlots(q2, v)
      BY <3>2, <3>3, <2>1, <2>2 DEF LiveSlots
    <3> QED BY <3>4
  <2>3. CASE j # k
    <3>1. s \in LiveSlots(q2, v)
      BY <2>1, <2>3, <1>3 DEF LiveSlots
    <3> QED BY <3>1
  <2> QED BY <2>2, <2>3
<1>11. ASSUME NEW v \in Unit, <<k, 1>> \in LiveSlots(q, v)
       PROVE  ~Head(q[k]).flush /\ Head(q[k]).unit = v
  BY <1>2, <1>11 DEF LiveSlots
<1> HIDE DEF Before
<1>12. ASSUME NEW v \in Unit, \A s, z \in LiveSlots(q, v) : s = z
       PROVE  /\ \A s, z \in LiveSlots(q2, v) : s = z
              /\ ~Head(q[k]).flush /\ Head(q[k]).unit = v => LiveSlots(q2, v) = {}
  <2>1. ASSUME NEW s \in LiveSlots(q2, v), NEW z \in LiveSlots(q2, v) PROVE s = z
    <3>1. Before(s) = Before(z)
      BY <1>8, <1>12
    <3> QED BY <1>9, <3>1
  <2>2. ASSUME ~Head(q[k]).flush, Head(q[k]).unit = v, NEW s \in LiveSlots(q2, v)
        PROVE  FALSE
    BY <1>7, <1>8, <1>12, <2>2
  <2> QED BY <2>1, <2>2
<1>13. ASSUME NEW v \in Unit
       PROVE  /\ LiveSlots(q2, v) # {} => LiveSlots(q, v) # {}
              /\ \/ LiveSlots(q, v) # {} => LiveSlots(q2, v) # {}
                 \/ ~Head(q[k]).flush /\ Head(q[k]).unit = v
  <2>1. LiveSlots(q2, v) # {} => LiveSlots(q, v) # {}
    BY <1>8
  <2>2. \/ LiveSlots(q, v) # {} => LiveSlots(q2, v) # {}
        \/ ~Head(q[k]).flush /\ Head(q[k]).unit = v
    BY <1>10, <1>11
  <2> QED BY <2>1, <2>2
<1>14. TakeOutcome(q, k, q2)
  BY <1>4, <1>5, <1>7, <1>12, <1>13 DEF TakeOutcome
<1> QED BY <1>14 DEF q2

----------------------------------------------------------------------------
(* The inductive invariant.                                                *)

\* A unit that is no longer active is idle, or it has been told and not yet
\* heard: what keeps a unit from waiting, dead, for a path.
DyingAreTold ==
  \A u \in Unit : \/ life[u] = "active" \/ ai[u] = "idle"
                  \/ life[u] = "pending_destruct" /\ destruct[u]

IInv == TypeOK /\ OneRequestEach /\ PathsHaveOneWriter /\ DyingAreTold

\* At most one request of u in q and p.
Single(q, p, u) ==
  /\ \A s, t \in LiveSlots(q, u) : s = t
  /\ \A k, j \in Serving(p, u) : k = j
  /\ LiveSlots(q, u) = {} \/ Serving(p, u) = {}

Wanted(q, p, u) == LiveSlots(q, u) # {} \/ Serving(p, u) # {}

NoneLost == \A k \in Kind : ~Overflows(k)

\* What a step of unit u does to the requests and to the state of its machine.
UnitStep(u) ==
  /\ queue' \in Queues /\ pather' \in Pathers
  /\ ai' \in [Unit -> AIState] /\ \A v \in Unit \ {u} : ai'[v] = ai[v]
  /\ \A v \in Unit \ {u} : /\ LiveSlots(queue', v) \subseteq LiveSlots(queue, v)
                          /\ Serving(pather', v) = Serving(pather, v)
  /\ Single(queue', pather', u)
  /\ Wanted(queue', pather', u) => ai'[u] \in PathState
  /\ \A k \in Kind : pather'[k].open => pather'[k].status = "busy"
  /\ NoneLost => /\ \A v \in Unit \ {u} : LiveSlots(queue, v) \subseteq LiveSlots(queue', v)
                 /\ \/ ai'[u] \notin PathState \/ Wanted(queue', pather', u)
                    \/ ai[u] \in PathState /\ ~Wanted(queue, pather, u)

\* The invariant in the words of the lemmas.
LEMMA InvWords ==
  ASSUME IInv
  PROVE  /\ queue \in Queues /\ pather \in Pathers
         /\ \A u \in Unit : /\ Single(queue, pather, u)
                            /\ Wanted(queue, pather, u) => ai[u] \in PathState
         /\ \A k \in Kind : pather[k].open => pather[k].status = "busy"
BY DEF IInv, TypeOK, Queues, Pathers, OneRequestEach, PathsHaveOneWriter, HasRequest,
       Single, Wanted

\* A unit that neither asks nor gives up.
LEMMA StayLemma ==
  ASSUME IInv, NEW u \in Unit, queue' = queue, pather' = pather,
         NEW s \in AIState, Goto(u, s),
         s = ai[u] \/ (ai[u] \notin PathState /\ s \notin PathState)
  PROVE  UnitStep(u)
<1>1. ai \in [Unit -> AIState]
  BY DEF IInv, TypeOK
<1>2. ai' \in [Unit -> AIState] /\ ai'[u] = s /\ \A v \in Unit \ {u} : ai'[v] = ai[v]
  BY <1>1 DEF Goto
<1> QED BY <1>1, <1>2, InvWords DEF UnitStep

\* A unit that gives up its request, or just one that has been answered; p is what
\* its fetching has left of the generators.
LEMMA GiveUpLemma ==
  ASSUME IInv, NEW u \in Unit, NEW s \in AIState \ PathState, Goto(u, s),
         queue' \in Queues, pather' \in Pathers, ~Wanted(queue', pather', u),
         \A v \in Unit \ {u} : /\ LiveSlots(queue', v) = LiveSlots(queue, v)
                               /\ Serving(pather', v) = Serving(pather, v),
         \A k \in Kind : pather'[k].open => pather'[k].status = "busy"
  PROVE  UnitStep(u)
<1>1. ai \in [Unit -> AIState]
  BY DEF IInv, TypeOK
<1>2. ai' \in [Unit -> AIState] /\ ai'[u] = s /\ \A v \in Unit \ {u} : ai'[v] = ai[v]
  BY <1>1 DEF Goto
<1>3. Single(queue', pather', u)
  BY DEF Wanted, Single
<1> QED BY <1>1, <1>2, <1>3 DEF UnitStep

\* A unit that asks for a path when it has no request left.
LEMMA AskStep ==
  ASSUME IInv, NEW u \in Unit, NEW s \in PathState, Goto(u, s),
         NEW q \in Queues, NEW t \in RequestType, RequestPath(q, u, t),
         pather' \in Pathers, ~Wanted(q, pather', u),
         \A k \in Kind : Len(q[k]) = Len(queue[k]),
         \A v \in Unit \ {u} : /\ LiveSlots(q, v) = LiveSlots(queue, v)
                               /\ Serving(pather', v) = Serving(pather, v),
         \A k \in Kind : pather'[k].open => pather'[k].status = "busy"
  PROVE  UnitStep(u)
<1>1. ai \in [Unit -> AIState]
  BY DEF IInv, TypeOK
<1>2. ai' \in [Unit -> AIState] /\ ai'[u] = s /\ \A v \in Unit \ {u} : ai'[v] = ai[v]
  BY <1>1 DEF Goto, AIState
<1>3. PICK k \in Kind : queue' = WithRequest(q, k, u, t)
  BY DEF RequestPath, WithRequest
<1>10. AskOutcome(q, queue', k, u)
  BY <1>3, AskLemma
<1>4. /\ queue' \in Queues
      /\ \A v \in Unit \ {u} : LiveSlots(queue', v) \subseteq LiveSlots(q, v)
      /\ LiveSlots(q, u) = {} => \A x, z \in LiveSlots(queue', u) : x = z
      /\ LiveSlots(queue', u) # {} \/ (Len(q[k]) + 1 = QueueSize /\ queue'[k] = <<>>)
      /\ \/ \A v \in Unit \ {u} : LiveSlots(q, v) \subseteq LiveSlots(queue', v)
         \/ Len(q[k]) + 1 = QueueSize /\ queue'[k] = <<>>
  BY <1>10 DEF AskOutcome
<1>5. LiveSlots(q, u) = {} /\ Serving(pather', u) = {}
  BY DEF Wanted
<1>6. Single(queue', pather', u)
  BY <1>4, <1>5 DEF Single
<1>7. Len(q[k]) + 1 = QueueSize /\ queue'[k] = <<>> => ~NoneLost
  BY DEF NoneLost, Overflows
<1>8. NoneLost => /\ \A v \in Unit \ {u} : LiveSlots(queue, v) \subseteq LiveSlots(queue', v)
                 /\ Wanted(queue', pather', u)
  BY <1>4, <1>7 DEF Wanted
<1>9. \A v \in Unit \ {u} : LiveSlots(queue', v) \subseteq LiveSlots(queue, v)
  BY <1>4
<1> QED BY <1>2, <1>4, <1>6, <1>8, <1>9 DEF UnitStep

\* What killRequest leaves in a state of the invariant.
LEMMA KilledLemma ==
  ASSUME IInv, NEW u \in Unit
  PROVE  /\ KilledQueues(u) \in Queues /\ KilledPathers(u) \in Pathers
         /\ \A k \in Kind : Len(KilledQueues(u)[k]) = Len(queue[k])
         /\ ~Wanted(KilledQueues(u), KilledPathers(u), u)
         /\ \A v \in Unit \ {u} : /\ LiveSlots(KilledQueues(u), v) = LiveSlots(queue, v)
                                  /\ Serving(KilledPathers(u), v) = Serving(pather, v)
         /\ \A k \in Kind : KilledPathers(u)[k].open => KilledPathers(u)[k].status = "busy"
<1>1. KillOutcome(queue, pather, u, KilledQueues(u), KilledPathers(u))
  BY InvWords, KillLemma DEF KilledQueues, KilledPathers
<1> QED BY <1>1, InvWords DEF KillOutcome, Wanted

\* Fetching an answer leaves the unit without a request.
LEMMA FetchLemma ==
  ASSUME IInv, NEW u \in Unit, Answering(u) # {}
  PROVE  /\ AfterAnswer(u) \in Pathers
         /\ ~Wanted(queue, AfterAnswer(u), u)
         /\ \A v \in Unit \ {u} : Serving(AfterAnswer(u), v) = Serving(pather, v)
         /\ \A k \in Kind : AfterAnswer(u)[k].open => AfterAnswer(u)[k].status = "busy"
<1> DEFINE k == Answer(u)
           p2 == AfterAnswer(u)
<1>1. k \in Kind /\ Complete(pather[k], u)
  BY DEF Answering, Answer, Kind
<1>2. /\ p2[k] = Fetched(pather[k]) /\ \A j \in Kind \ {k} : p2[j] = pather[j]
      /\ p2 = [j \in Kind |-> p2[j]]
  BY <1>1, InvWords DEF AfterAnswer, Pathers
<1>3. /\ pather \in Pathers /\ Single(queue, pather, u)
      /\ \A j \in Kind : pather[j].open => pather[j].status = "busy"
  BY InvWords
<1> HIDE DEF k, p2
<1>4. /\ p2[k] \in Pather
      /\ p2[k].status = "free"
      /\ p2[k].unit = NoUnit
      /\ ~p2[k].open
  <2>1. pather[k] \in Pather /\ pather[k].status = "waiting" /\ ~pather[k].open
    BY <1>1, <1>3 DEF Complete, Pathers
  <2> QED BY <1>2, <2>1 DEF Fetched, Pather
<1>5. p2 \in Pathers
  <2>1. \A j \in Kind : p2[j] \in Pather
    BY <1>2, <1>3, <1>4 DEF Pathers
  <2> QED BY <2>1, <1>2 DEF Pathers
<1>6. Serving(pather, u) = {k} /\ LiveSlots(queue, u) = {}
  <2>1. k \in Serving(pather, u)
    BY <1>1 DEF Complete, Serving
  <2> QED BY <2>1, <1>3 DEF Single
<1>7. ~Wanted(queue, p2, u)
  BY <1>2, <1>4, <1>6 DEF Wanted, Serving
<1>8. \A v \in Unit \ {u} : Serving(p2, v) = Serving(pather, v)
  BY <1>1, <1>2, <1>4 DEF Serving, Complete
<1>9. \A j \in Kind : p2[j].open => p2[j].status = "busy"
  BY <1>2, <1>3, <1>4
<1> QED BY <1>5, <1>7, <1>8, <1>9 DEF p2

\* What else is to be shown of a step of unit u.
UnitFacts(u) ==
  /\ life' \in [Unit -> Life] /\ destruct' \in [Unit -> BOOLEAN]
  /\ pending' \in [Unit -> Command \cup {"none"}]
  /\ \/ life'[u] = "active"
     \/ ai'[u] = "idle"
     \/ life'[u] = "pending_destruct" /\ destruct'[u]
  /\ \A v \in Unit \ {u} : life'[v] = life[v] /\ destruct'[v] = destruct[v]

\* The invariant, step by step of a unit.
LEMMA UnitSound ==
  ASSUME IInv, NEW u \in Unit, UnitStep(u), UnitFacts(u)
  PROVE  IInv'
<1> USE DEF UnitStep, UnitFacts
<1>1. TypeOK'
  BY DEF TypeOK, Queues, Pathers
<1>2. DyingAreTold'
  BY DEF IInv, DyingAreTold
<1>3. \A v \in Unit : Single(queue', pather', v)
  <2>1. ASSUME NEW v \in Unit \ {u} PROVE Single(queue', pather', v)
    <3>1. Single(queue, pather, v)
      BY InvWords
    <3>2. /\ LiveSlots(queue', v) \subseteq LiveSlots(queue, v)
          /\ Serving(pather', v) = Serving(pather, v)
      OBVIOUS
    <3> QED BY <3>1, <3>2 DEF Single
  <2> QED BY <2>1
<1>4. OneRequestEach'
  BY <1>3 DEF OneRequestEach, Single
<1>5. \A v \in Unit : Wanted(queue', pather', v) => ai'[v] \in PathState
  BY InvWords DEF Wanted
<1>6. \A v \in Unit : ai'[v] \in PathState => life'[v] \in {"active", "pending_destruct"}
  BY <1>2 DEF DyingAreTold, PathState
<1>7. PathsHaveOneWriter'
  BY <1>5, <1>6 DEF PathsHaveOneWriter, HasRequest, Wanted
<1> QED BY <1>1, <1>2, <1>4, <1>7 DEF IInv

\* What RequestsAreKept says of a step.
Kept ==
  \A u \in Unit : \/ ai'[u] \notin PathState \/ HasRequest(u)'
                  \/ ai[u] \in PathState /\ ~HasRequest(u)
                  \/ \E k \in Kind : Overflows(k)

LEMMA UnitKeeps ==
  ASSUME IInv, NEW u \in Unit, UnitStep(u)
  PROVE  Kept
<1> SUFFICES ASSUME NoneLost, NEW v \in Unit
             PROVE  \/ ai'[v] \notin PathState \/ Wanted(queue', pather', v)
                    \/ ai[v] \in PathState /\ ~Wanted(queue, pather, v)
  BY DEF Kept, NoneLost, HasRequest, Wanted
<1>1. CASE v = u
  BY <1>1 DEF UnitStep
<1>2. CASE v # u
  BY <1>2 DEF UnitStep, Wanted
<1> QED BY <1>1, <1>2

----------------------------------------------------------------------------
(* The update of a unit.                                                   *)

\* What a machine leaves of a unit whose life goes on with l.
Leaves(u, l) ==
  /\ UnitStep(u)
  /\ destruct' \in [Unit -> BOOLEAN]
  /\ pending' \in [Unit -> Command \cup {"none"}]
  /\ l = "active" \/ ai'[u] = "idle" \/ (l = "pending_destruct" /\ destruct'[u])
  /\ \A v \in Unit \ {u} : destruct'[v] = destruct[v]

\* How a unit that is updated may be.
Alive(u, l) ==
  l = "active" \/ ai[u] = "idle" \/ (l = "pending_destruct" /\ destruct[u])

\* A machine that does nothing, or only changes between states without a request.
LEMMA RestLemma ==
  ASSUME IInv, NEW u \in Unit, NEW l, Alive(u, l),
         UNCHANGED <<destruct, pending, queue, pather>>,
         NEW s \in AIState, Goto(u, s),
         s = ai[u] \/ (ai[u] \notin PathState /\ s \notin PathState /\ ai[u] # "idle")
  PROVE  Leaves(u, l)
<1>1. UnitStep(u)
  BY StayLemma
<1>2. ai'[u] = s
  BY DEF IInv, TypeOK, Goto
<1> QED BY <1>1, <1>2 DEF IInv, TypeOK, Leaves, Alive

LEMMA NothingLemma ==
  ASSUME IInv, NEW u \in Unit, NEW l, Alive(u, l), Rest
  PROVE  Leaves(u, l)
<1>1. ai[u] \in AIState /\ Goto(u, ai[u])
  BY DEF IInv, TypeOK, Goto, Rest
<1> QED BY <1>1, RestLemma DEF Rest

\* A unit with no request left starts its pending command, or forgets it.
LEMMA CommandLemma ==
  ASSUME IInv, NEW u \in Unit, NEW l, l = "active" \/ ai[u] = "idle",
         NEW q \in Queues, NewCommand(u, l, q),
         pather' \in Pathers, ~Wanted(q, pather', u),
         \A k \in Kind : Len(q[k]) = Len(queue[k]),
         \A v \in Unit \ {u} : /\ LiveSlots(q, v) = LiveSlots(queue, v)
                               /\ Serving(pather', v) = Serving(pather, v),
         \A k \in Kind : pather'[k].open => pather'[k].status = "busy"
  PROVE  Leaves(u, l)
<1>1. /\ pending' \in [Unit -> Command \cup {"none"}] /\ destruct' = destruct
      /\ destruct \in [Unit -> BOOLEAN]
  BY DEF IInv, TypeOK, NewCommand
<1>2. CASE l = "active"
  <2> DEFINE s == IF pending[u] = "move" THEN "move_path" ELSE "attack_path"
  <2>1. Goto(u, s) /\ s \in PathState /\ RequestPath(q, u, "full") /\ "full" \in RequestType
    BY <1>2 DEF NewCommand, PathState, RequestType
  <2> HIDE DEF s
  <2>2. UnitStep(u)
    BY <2>1, AskStep
  <2> QED BY <1>1, <1>2, <2>2 DEF Leaves
<1>3. CASE l # "active"
  <2>1. ai[u] = "idle" /\ ai' = ai /\ queue' = q
    BY <1>3 DEF NewCommand
  <2>2. Goto(u, "idle") /\ "idle" \in AIState \ PathState
    BY <2>1 DEF Goto, AIState, PathState, IInv, TypeOK
  <2>3. UnitStep(u)
    BY <2>1, <2>2, GiveUpLemma
  <2> QED BY <1>1, <2>1, <2>3 DEF Leaves
<1> QED BY <1>2, <1>3

\* A unit in a state without a request.
LEMMA NoRequest ==
  ASSUME IInv, NEW u \in Unit, ai[u] \notin PathState
  PROVE  /\ queue \in Queues /\ pather \in Pathers /\ ~Wanted(queue, pather, u)
         /\ \A k \in Kind : pather[k].open => pather[k].status = "busy"
BY InvWords

LEMMA IdleLemma ==
  ASSUME IInv, NEW u \in Unit, NEW l, Alive(u, l), Idle(u, l)
  PROVE  Leaves(u, l)
<1>1. ai[u] = "idle" /\ ai[u] \notin PathState
  BY DEF Idle, PathState
<1>2. CASE pending[u] # "none"
  <2>1. NewCommand(u, l, queue) /\ pather' = pather
    BY <1>2 DEF Idle
  <2> QED BY <1>1, <2>1, NoRequest, CommandLemma
<1>3. CASE pending[u] = "none"
  BY <1>3, NothingLemma DEF Idle
<1> QED BY <1>2, <1>3

LEMMA DefendHoldLemma ==
  ASSUME IInv, NEW u \in Unit, NEW l, Alive(u, l), DefendHold(u, l)
  PROVE  Leaves(u, l)
<1>1. ai[u] = "hold" /\ ai[u] \notin PathState /\ ai[u] # "idle"
  BY DEF DefendHold, PathState
<1>2. CASE destruct[u]
  <2>1. /\ Goto(u, "idle") /\ destruct' = [destruct EXCEPT ![u] = FALSE]
        /\ UNCHANGED <<pending, queue, pather>>
    BY <1>2 DEF DefendHold
  <2>2. "idle" \in AIState /\ "idle" \notin PathState
    BY DEF AIState, PathState
  <2>3. UnitStep(u)
    BY <1>1, <2>1, <2>2, StayLemma
  <2> QED BY <2>1, <2>3 DEF Leaves, Goto, IInv, TypeOK
<1>3. CASE ~destruct[u] /\ pending[u] # "none"
  <2>1. NewCommand(u, l, queue) /\ pather' = pather /\ l = "active"
    BY <1>1, <1>3 DEF DefendHold, Alive
  <2> QED BY <1>1, <2>1, NoRequest, CommandLemma
<1>4. CASE ~destruct[u] /\ pending[u] = "none"
  BY <1>4, NothingLemma DEF DefendHold
<1> QED BY <1>2, <1>3, <1>4

\* The exits of the machines of a command.
LEMMA ExitLemma ==
  ASSUME IInv, NEW u \in Unit, NEW l, Alive(u, l), ai[u] # "idle",
         \/ destruct[u] /\ DestructExit(u)
         \/ ~destruct[u] /\ CommandExit(u, l)
  PROVE  Leaves(u, l)
<1>1. CASE destruct[u] /\ DestructExit(u)
  <2>1. /\ queue' = KilledQueues(u) /\ pather' = KilledPathers(u)
        /\ Goto(u, "idle") /\ destruct' = [destruct EXCEPT ![u] = FALSE] /\ pending' = pending
    BY <1>1 DEF DestructExit, KillRequest
  <2>2. "idle" \in AIState \ PathState
    BY DEF AIState, PathState
  <2>3. UnitStep(u)
    BY <2>1, <2>2, KilledLemma, GiveUpLemma
  <2> QED BY <2>1, <2>3 DEF Leaves, Goto, IInv, TypeOK
<1>2. CASE ~destruct[u] /\ CommandExit(u, l)
  <2>1. pather' = KilledPathers(u) /\ NewCommand(u, l, KilledQueues(u)) /\ l = "active"
    BY <1>2 DEF CommandExit, Alive
  <2> QED BY <2>1, KilledLemma, CommandLemma
<1> QED BY <1>1, <1>2

\* A unit at a square, with no request left: p is what it has left of the generators.
LEMMA CheckGoalLemma ==
  ASSUME IInv, NEW u \in Unit, NEW l, l = "active",
         NEW p \in Pathers, CheckGoal(u, p), ~Wanted(queue, p, u),
         \A v \in Unit \ {u} : Serving(p, v) = Serving(pather, v),
         \A k \in Kind : p[k].open => p[k].status = "busy"
  PROVE  Leaves(u, l)
<1>1. queue \in Queues
  BY InvWords
<1>2. /\ destruct' \in [Unit -> BOOLEAN] /\ destruct' = destruct
      /\ pending' \in [Unit -> Command \cup {"none"}]
  BY DEF IInv, TypeOK, CheckGoal
<1>3. CASE /\ Goto(u, "hold")
           /\ queue' = KilledQueues(u)
           /\ pather' = [k \in Kind |-> Terminated(p[k], u)]
  <2>1. KillOutcome(queue, p, u, queue', pather')
    BY <1>1, <1>3, KillLemma DEF KilledQueues
  <2>2. "hold" \in AIState \ PathState
    BY DEF AIState, PathState
  <2>3. /\ queue' \in Queues /\ pather' \in Pathers /\ ~Wanted(queue', pather', u)
        /\ \A v \in Unit \ {u} : /\ LiveSlots(queue', v) = LiveSlots(queue, v)
                                 /\ Serving(pather', v) = Serving(pather, v)
        /\ \A k \in Kind : pather'[k].open => pather'[k].status = "busy"
    BY <2>1 DEF KillOutcome, Wanted
  <2>4. UnitStep(u)
    BY <1>3, <2>2, <2>3, GiveUpLemma
  <2> QED BY <1>2, <2>4 DEF Leaves
<1>4. CASE Goto(u, "move_path") /\ RequestPath(queue, u, "full") /\ pather' = p
  <2>1. "move_path" \in PathState /\ "full" \in RequestType
    BY DEF PathState, RequestType
  <2>2. UnitStep(u)
    BY <1>1, <1>4, <2>1, AskStep
  <2> QED BY <1>2, <2>2 DEF Leaves
<1>5. CASE /\ \E s \in {"move_blocked", "move_wait"} : Goto(u, s)
           /\ queue' = queue /\ pather' = p
  <2>1. PICK s \in AIState \ PathState : Goto(u, s)
    BY <1>5 DEF AIState, PathState
  <2>2. UnitStep(u)
    BY <1>1, <1>5, <2>1, GiveUpLemma
  <2> QED BY <1>2, <2>2 DEF Leaves
<1> QED BY <1>3, <1>4, <1>5 DEF CheckGoal

LEMMA MoveToLocLemma ==
  ASSUME IInv, NEW u \in Unit, NEW l, Alive(u, l), MoveToLoc(u, l)
  PROVE  Leaves(u, l)
<1>1. ai[u] # "idle"
  BY DEF MoveToLoc
<1>2. CASE ai[u] = "move_wait"
  <2>1. Rest \/ (Goto(u, "move_check") /\ UNCHANGED <<destruct, pending, queue, pather>>)
    BY <1>2 DEF MoveToLoc
  <2>2. "move_check" \in AIState \ PathState /\ ai[u] \notin PathState
    BY <1>2 DEF AIState, PathState
  <2>3. CASE Rest
    BY <2>3, NothingLemma
  <2>4. CASE Goto(u, "move_check") /\ UNCHANGED <<destruct, pending, queue, pather>>
    BY <1>1, <2>2, <2>4, RestLemma
  <2> QED BY <2>1, <2>3, <2>4
<1>3. CASE ai[u] # "move_wait" /\ (destruct[u] \/ pending[u] # "none")
  <2>1. \/ destruct[u] /\ DestructExit(u)
        \/ ~destruct[u] /\ CommandExit(u, l)
    BY <1>3 DEF MoveToLoc
  <2> QED BY <1>1, <2>1, ExitLemma
<1>4. CASE ai[u] # "move_wait" /\ ~destruct[u] /\ pending[u] = "none"
  <2>1. l = "active"
    BY <1>1, <1>4 DEF Alive
  <2>2. CASE ai[u] = "move_path" /\ PathGenerate(u)
    <3>1. CASE Answering(u) # {}
      <4>1. CheckGoal(u, AfterAnswer(u))
        BY <2>2, <3>1 DEF PathGenerate
      <4> QED BY <2>1, <3>1, <4>1, FetchLemma, CheckGoalLemma
    <3>2. CASE Answering(u) = {}
      BY <2>2, <3>2, NothingLemma DEF PathGenerate
    <3> QED BY <3>1, <3>2
  <2>3. CASE ai[u] = "move_blocked" /\ WaitClearLoc(u)
    <3>1. ai[u] \notin PathState
      BY <2>3 DEF PathState
    <3>2. CASE Goto(u, "move_wait") /\ UNCHANGED <<destruct, pending, queue, pather>>
      <4>1. "move_wait" \in AIState \ PathState
        BY DEF AIState, PathState
      <4> QED BY <1>1, <3>1, <3>2, <4>1, RestLemma
    <3>3. CASE Rest
      BY <3>3, NothingLemma
    <3>4. CASE /\ Goto(u, "move_path")
               /\ \E t \in RequestType : RequestPath(queue, u, t)
               /\ UNCHANGED <<destruct, pending, pather>>
      <4>1. PICK t \in RequestType : RequestPath(queue, u, t)
        BY <3>4
      <4>2. "move_path" \in PathState
        BY DEF PathState
      <4>3. UnitStep(u)
        BY <3>1, <3>4, <4>1, <4>2, NoRequest, AskStep
      <4> QED BY <2>1, <3>4, <4>3 DEF Leaves, IInv, TypeOK
    <3> QED BY <2>3, <3>2, <3>3, <3>4 DEF WaitClearLoc
  <2>4. CASE ai[u] = "move_check" /\ CheckGoal(u, pather)
    <3>1. ai[u] \notin PathState
      BY <2>4 DEF PathState
    <3> QED BY <2>1, <2>4, <3>1, NoRequest, CheckGoalLemma
  <2> QED BY <1>4, <2>2, <2>3, <2>4 DEF MoveToLoc
<1> QED BY <1>2, <1>3, <1>4

LEMMA AttackUnitLemma ==
  ASSUME IInv, NEW u \in Unit, NEW l, Alive(u, l), AttackUnit(u, l)
  PROVE  Leaves(u, l)
<1>1. ai[u] # "idle"
  BY DEF AttackUnit
<1>2. CASE destruct[u] \/ pending[u] # "none"
  <2>1. \/ destruct[u] /\ DestructExit(u)
        \/ ~destruct[u] /\ CommandExit(u, l)
    BY <1>2 DEF AttackUnit
  <2> QED BY <1>1, <2>1, ExitLemma
<1>3. CASE ~destruct[u] /\ pending[u] = "none"
  <2>1. l = "active"
    BY <1>1, <1>3 DEF Alive
  <2>2. CASE ai[u] = "attack_path" /\ Answering(u) # {}
    <3>1. /\ Goto(u, "attack_idle") /\ pather' = AfterAnswer(u)
          /\ destruct' = destruct /\ pending' = pending /\ queue' = queue
      BY <1>3, <2>2 DEF AttackUnit
    <3>2. "attack_idle" \in AIState \ PathState
      BY DEF AIState, PathState
    <3>3. UnitStep(u)
      BY <2>2, <3>1, <3>2, FetchLemma, InvWords, GiveUpLemma
    <3> QED BY <2>1, <3>1, <3>3 DEF Leaves, IInv, TypeOK
  <2>3. CASE ~(ai[u] = "attack_path" /\ Answering(u) # {})
    <3>1. Rest
      BY <1>3, <2>3 DEF AttackUnit
    <3> QED BY <3>1, NothingLemma
  <2> QED BY <2>2, <2>3
<1> QED BY <1>2, <1>3

\* A whole update: the machine and the life of the unit.
LEMMA UpdateLemma ==
  ASSUME IInv, NEW u \in Unit, Update(u)
  PROVE  UnitStep(u) /\ UnitFacts(u)
<1>1. PICK l \in NextLife(u) :
        /\ life' = [life EXCEPT ![u] = l]
        /\ Idle(u, l) \/ DefendHold(u, l) \/ MoveToLoc(u, l) \/ AttackUnit(u, l)
  BY DEF Update
<1>2. life \in [Unit -> Life] /\ life[u] \in Life
  BY DEF IInv, TypeOK
<1>3. \/ life[u] = "active" \/ ai[u] = "idle"
      \/ life[u] = "pending_destruct" /\ destruct[u]
  BY DEF IInv, DyingAreTold
<1>4. l = life[u] \/ (l \in Life /\ ai[u] = "idle") \/ (life[u] = "destroyed" /\ l = "inactive")
  BY <1>1 DEF NextLife, Life
<1>5. l \in Life /\ Alive(u, l)
  BY <1>2, <1>3, <1>4 DEF Alive, Life
<1>6. Leaves(u, l)
  BY <1>1, <1>5, IdleLemma, DefendHoldLemma, MoveToLocLemma, AttackUnitLemma
<1>7. life' \in [Unit -> Life] /\ life'[u] = l /\ \A v \in Unit \ {u} : life'[v] = life[v]
  BY <1>1, <1>2, <1>5
<1> QED BY <1>6, <1>7 DEF Leaves, UnitFacts

----------------------------------------------------------------------------
(* The other steps.                                                        *)

\* A search goes on with its request, or ends with it.
LEMMA SearchedFacts ==
  ASSUME NEW p \in Pather, p.status = "busy", NEW p2 \in Searched(p)
  PROVE  /\ p2 \in Pather /\ p2.unit = p.unit /\ p2.status # "free"
         /\ p2.open => p2.status = "busy"
BY DEF Searched, Finished, Pather, Fsm

\* What a generator starts with is a generator at work on the request.
LEMMA StartedFacts ==
  ASSUME NEW k \in Kind, NEW r \in Request, NEW f \in Machines(k, r)
  PROVE  /\ Started(r, f) \in Pather /\ Started(r, f).unit = r.unit
         /\ Started(r, f).status = "busy"
<1>1. r.unit \in Unit \cup {NoUnit} /\ f \in Fsm
  BY DEF Request, RequestType, Machines, Fsm
<1> QED BY <1>1 DEF Started, Pather

\* The units and their lives are left alone, and each request is where it was, or has
\* moved on, for every unit alike.
RunStep ==
  /\ UNCHANGED unitVars
  /\ queue' \in Queues /\ pather' \in Pathers
  /\ \A v \in Unit : Single(queue', pather', v)
  /\ \A v \in Unit : Wanted(queue', pather', v) <=> Wanted(queue, pather, v)
  /\ \A k \in Kind : pather'[k].open => pather'[k].status = "busy"

\* Changing one generator.
LEMMA OnePather ==
  ASSUME pather \in Pathers, NEW k \in Kind, NEW p \in Pather,
         pather' = [pather EXCEPT ![k] = p]
  PROVE  /\ pather' \in Pathers /\ pather'[k] = p
         /\ \A j \in Kind \ {k} : pather'[j] = pather[j]
BY DEF Pathers

LEMMA SearchLemma ==
  ASSUME IInv, NEW k \in Kind, Search(k), UNCHANGED unitVars
  PROVE  RunStep
<1>1. /\ queue \in Queues /\ pather \in Pathers /\ queue' = queue
      /\ \A u \in Unit : Single(queue, pather, u)
      /\ \A j \in Kind : pather[j].open => pather[j].status = "busy"
  BY InvWords DEF Search
<1>2. PICK p \in Searched(pather[k]) : pather' = [pather EXCEPT ![k] = p]
  BY DEF Search
<1>3. pather[k] \in Pather /\ pather[k].status = "busy"
  BY <1>1 DEF Search, Pathers
<1>4. /\ p \in Pather /\ p.unit = pather[k].unit /\ p.status # "free"
      /\ p.open => p.status = "busy"
  BY <1>3, SearchedFacts
<1>5. /\ pather' \in Pathers /\ pather'[k] = p
      /\ \A j \in Kind \ {k} : pather'[j] = pather[j]
  BY <1>1, <1>2, <1>4, OnePather
<1>6. \A v \in Unit : Serving(pather', v) = Serving(pather, v)
  BY <1>3, <1>4, <1>5 DEF Serving
<1>7. \A v \in Unit : Single(queue', pather', v)
  BY <1>1, <1>6 DEF Single
<1>8. \A j \in Kind : pather'[j].open => pather'[j].status = "busy"
  BY <1>1, <1>4, <1>5
<1> QED BY <1>1, <1>5, <1>6, <1>7, <1>8 DEF RunStep, Wanted

LEMMA TakeStep ==
  ASSUME IInv, NEW k \in Kind, Take(k), UNCHANGED unitVars
  PROVE  RunStep
<1> DEFINE r == Head(queue[k])
<1>1. /\ queue \in Queues /\ pather \in Pathers
      /\ \A u \in Unit : Single(queue, pather, u)
      /\ \A j \in Kind : pather[j].open => pather[j].status = "busy"
  BY InvWords
<1>2. /\ queue' = [queue EXCEPT ![k] = Tail(@)] /\ queue[k] # <<>>
      /\ pather[k].status = "free"
  BY DEF Take
<1>3. /\ queue' \in Queues /\ r \in Request
      /\ \A v \in Unit :
           /\ (\A s, z \in LiveSlots(queue, v) : s = z) =>
                /\ \A s, z \in LiveSlots(queue', v) : s = z
                /\ ~r.flush /\ r.unit = v => LiveSlots(queue', v) = {}
           /\ LiveSlots(queue', v) # {} => LiveSlots(queue, v) # {}
           /\ \/ LiveSlots(queue, v) # {} => LiveSlots(queue', v) # {}
              \/ ~r.flush /\ r.unit = v
      /\ \A v \in Unit : ~r.flush /\ r.unit = v => <<k, 1>> \in LiveSlots(queue, v)
  <2>1. TakeOutcome(queue, k, queue')
    BY <1>1, <1>2, TakeLemma
  <2> QED BY <2>1 DEF TakeOutcome
<1> HIDE DEF r
<1>4. CASE r.flush
  <2>1. pather' = pather
    BY <1>4 DEF Take, r
  <2>2. \A v \in Unit : Single(queue', pather', v)
    <3>1. ASSUME NEW v \in Unit PROVE Single(queue', pather', v)
      <4>1. Single(queue, pather, v)
        BY <1>1
      <4>2. /\ (\A s, z \in LiveSlots(queue, v) : s = z) =>
                 \A s, z \in LiveSlots(queue', v) : s = z
            /\ LiveSlots(queue', v) # {} => LiveSlots(queue, v) # {}
        BY <1>3
      <4> QED BY <2>1, <4>1, <4>2 DEF Single
    <3> QED BY <3>1
  <2>3. \A v \in Unit : Wanted(queue', pather', v) <=> Wanted(queue, pather, v)
    BY <1>3, <1>4, <2>1 DEF Wanted
  <2> QED BY <1>1, <1>3, <2>1, <2>2, <2>3 DEF RunStep
<1>5. CASE ~r.flush
  <2>6. PICK f \in Machines(k, r) : \E p \in Searched(Started(r, f)) :
          pather' = [pather EXCEPT ![k] = p]
    BY <1>5 DEF Take, r
  <2>1. PICK p \in Searched(Started(r, f)) : pather' = [pather EXCEPT ![k] = p]
    BY <2>6
  <2>2. /\ p \in Pather /\ p.unit = r.unit /\ p.status # "free"
        /\ p.open => p.status = "busy"
    BY <1>3, StartedFacts, SearchedFacts
  <2>3. /\ pather' \in Pathers /\ pather'[k] = p
        /\ \A j \in Kind \ {k} : pather'[j] = pather[j]
    BY <1>1, <2>1, <2>2, OnePather
  <2>4. ASSUME NEW v \in Unit
        PROVE  Single(queue', pather', v) /\ (Wanted(queue', pather', v) <=> Wanted(queue, pather, v))
    <3>1. Single(queue, pather, v)
      BY <1>1
    <3>2. CASE r.unit = v
      <4>1. LiveSlots(queue', v) = {} /\ LiveSlots(queue, v) # {} /\ Serving(pather, v) = {}
        BY <1>3, <1>5, <3>1, <3>2 DEF Single
      <4>2. k \in Serving(pather', v) /\ \A j \in Serving(pather', v) : j = k
        BY <2>2, <2>3, <3>2, <4>1 DEF Serving
      <4> QED BY <4>1, <4>2 DEF Single, Wanted
    <3>3. CASE r.unit # v
      <4>1. Serving(pather', v) = Serving(pather, v)
        BY <1>2, <2>2, <2>3, <3>3 DEF Serving
      <4>2. /\ (\A s, z \in LiveSlots(queue, v) : s = z) =>
                 \A s, z \in LiveSlots(queue', v) : s = z
            /\ LiveSlots(queue', v) # {} <=> LiveSlots(queue, v) # {}
        BY <1>3, <3>3
      <4> QED BY <3>1, <4>1, <4>2 DEF Single, Wanted
    <3> QED BY <3>2, <3>3
  <2>5. \A j \in Kind : pather'[j].open => pather'[j].status = "busy"
    BY <1>1, <2>2, <2>3
  <2> QED BY <1>3, <2>3, <2>4, <2>5 DEF RunStep
<1> QED BY <1>4, <1>5

\* A run of a generator keeps the invariant and the requests.
LEMMA RunLemma ==
  ASSUME IInv, NEW k \in Kind, Run(k)
  PROVE  IInv' /\ Kept
<1>1. RunStep
  BY SearchLemma, TakeStep DEF Run
<1>2. life' = life /\ destruct' = destruct /\ ai' = ai /\ pending' = pending
  BY <1>1 DEF RunStep, unitVars
<1>3. TypeOK'
  BY <1>1, <1>2 DEF IInv, TypeOK, RunStep, Queues, Pathers
<1>4. OneRequestEach'
  BY <1>1 DEF RunStep, OneRequestEach, Single
<1>5. \A v \in Unit : HasRequest(v)' <=> HasRequest(v)
  BY <1>1 DEF RunStep, HasRequest, Wanted
<1>6. PathsHaveOneWriter'
  BY <1>1, <1>2, <1>5 DEF IInv, PathsHaveOneWriter, RunStep
<1>7. DyingAreTold'
  BY <1>2 DEF IInv, DyingAreTold
<1> QED BY <1>2, <1>3, <1>4, <1>5, <1>6, <1>7 DEF IInv, Kept

\* A step that leaves the queues and the generators alone.
LEMMA QuietLemma ==
  ASSUME IInv, UNCHANGED pathVars, TypeOK', DyingAreTold',
         \A u \in Unit : ai'[u] = ai[u] \/ (ai'[u] = "idle" /\ ai[u] = "idle")
  PROVE  IInv' /\ Kept
<1>1. queue' = queue /\ pather' = pather /\ \A u \in Unit : ai'[u] = ai[u]
  BY DEF pathVars
<1>2. \A u \in Unit : HasRequest(u)' <=> HasRequest(u)
  BY <1>1 DEF HasRequest
<1>3. OneRequestEach'
  BY <1>1 DEF IInv, OneRequestEach
<1>4. \A u \in Unit : ai'[u] \in PathState => life'[u] \in {"active", "pending_destruct"}
  BY DEF DyingAreTold, PathState
<1>5. PathsHaveOneWriter'
  BY <1>1, <1>2, <1>4 DEF IInv, PathsHaveOneWriter
<1> QED BY <1>1, <1>2, <1>3, <1>5 DEF IInv, Kept

\* The life of a unit and the orders given to it.
LEMMA LifeLemma ==
  ASSUME IInv, NEW u \in Unit,
         \/ RemoveUnit(u) \/ CreateUnit(u) \/ Destruct(u)
         \/ \E c \in Command : PlayerCommand(u, c)
  PROVE  IInv' /\ Kept
<1>1. TypeOK /\ DyingAreTold
  BY DEF IInv
<1>2. CASE RemoveUnit(u)
  <2>1. ai[u] = "idle"
    BY <1>1, <1>2 DEF RemoveUnit, DyingAreTold
  <2>2. TypeOK'
    BY <1>1, <1>2 DEF RemoveUnit, TypeOK, Life, AIState, pathVars
  <2>3. DyingAreTold'
    BY <1>1, <1>2 DEF RemoveUnit, TypeOK, DyingAreTold
  <2>4. \A v \in Unit : ai'[v] = ai[v]
    BY <1>1, <1>2, <2>1 DEF RemoveUnit, TypeOK
  <2> QED BY <1>2, <2>2, <2>3, <2>4, QuietLemma DEF RemoveUnit
<1>3. CASE CreateUnit(u)
  <2>1. TypeOK'
    BY <1>1, <1>3 DEF CreateUnit, TypeOK, Life
  <2>2. DyingAreTold'
    BY <1>1, <1>3 DEF CreateUnit, TypeOK, DyingAreTold
  <2> QED BY <1>3, <2>1, <2>2, QuietLemma DEF CreateUnit, pathVars
<1>4. CASE Destruct(u)
  <2>1. TypeOK'
    BY <1>1, <1>4 DEF Destruct, TypeOK, Life
  <2>2. DyingAreTold'
    BY <1>1, <1>4 DEF Destruct, TypeOK, DyingAreTold
  <2> QED BY <1>4, <2>1, <2>2, QuietLemma DEF Destruct, pathVars
<1>5. CASE \E c \in Command : PlayerCommand(u, c)
  <2>1. TypeOK'
    BY <1>1, <1>5 DEF PlayerCommand, TypeOK
  <2>2. DyingAreTold'
    BY <1>1, <1>5 DEF PlayerCommand, TypeOK, DyingAreTold
  <2> QED BY <1>5, <2>1, <2>2, QuietLemma DEF PlayerCommand, pathVars
<1> QED BY <1>2, <1>3, <1>4, <1>5

\* A scheduler made as new, with no units, satisfies the invariant.
Blank ==
  /\ life = [u \in Unit |-> "none"]
  /\ destruct = [u \in Unit |-> FALSE]
  /\ ai = [u \in Unit |-> "idle"]
  /\ pending = [u \in Unit |-> "none"]
  /\ queue = [k \in Kind |-> <<>>]
  /\ pather = [k \in Kind |-> FreePather]

LEMMA BlankLemma == Blank => IInv
<1> SUFFICES ASSUME Blank PROVE IInv
  OBVIOUS
<1> USE DEF Blank
<1>1. FreePather \in Pather /\ FreePather.status = "free" /\ ~FreePather.open
  BY DEF FreePather, Pather, Fsm
<1>2. TypeOK
  <2>1. <<>> \in Seq(Request) /\ Len(<<>>) = 0
    OBVIOUS
  <2>2. queue \in [Kind -> Seq(Request)] /\ \A k \in Kind : Len(queue[k]) < QueueSize
    BY <2>1
  <2>3. pather \in [Kind -> Pather]
    BY <1>1
  <2>4. /\ life \in [Unit -> Life] /\ destruct \in [Unit -> BOOLEAN] /\ ai \in [Unit -> AIState]
        /\ pending \in [Unit -> Command \cup {"none"}]
    BY DEF Life, AIState
  <2> QED BY <2>2, <2>3, <2>4 DEF TypeOK
<1>3. \A u \in Unit : LiveSlots(queue, u) = {} /\ Serving(pather, u) = {}
  <2>1. DOMAIN <<>> = {} /\ \A k \in Kind : queue[k] = <<>> /\ pather[k] = FreePather
    OBVIOUS
  <2>2. \A u \in Unit : LiveSlots(queue, u) = {}
    BY <2>1 DEF LiveSlots
  <2>3. \A u \in Unit : Serving(pather, u) = {}
    BY <1>1, <2>1 DEF Serving
  <2> QED BY <2>2, <2>3
<1>4. OneRequestEach
  BY <1>3 DEF OneRequestEach
<1>5. PathsHaveOneWriter
  BY <1>1, <1>3 DEF PathsHaveOneWriter, HasRequest
<1>6. DyingAreTold
  BY DEF DyingAreTold
<1> QED BY <1>2, <1>4, <1>5, <1>6 DEF IInv

LEMMA InitInv == Init => IInv
BY BlankLemma DEF Init, Blank

\* Every step keeps the invariant and the requests.
LEMMA StepLemma == IInv /\ [Next]_vars => IInv' /\ (Kept \/ UNCHANGED vars)
<1> SUFFICES ASSUME IInv, [Next]_vars PROVE IInv' /\ (Kept \/ UNCHANGED vars)
  OBVIOUS
<1>1. ASSUME NEW u \in Unit, Update(u) PROVE IInv' /\ Kept
  BY <1>1, UpdateLemma, UnitSound, UnitKeeps
<1>2. ASSUME NEW u \in Unit,
             \/ RemoveUnit(u) \/ CreateUnit(u) \/ Destruct(u)
             \/ \E c \in Command : PlayerCommand(u, c)
      PROVE  IInv' /\ Kept
  BY <1>2, LifeLemma
<1>3. ASSUME NEW k \in Kind, Run(k) PROVE IInv' /\ Kept
  BY <1>3, RunLemma
<1>4. CASE ResetGameLogic
  <2>1. Blank'
    BY <1>4 DEF ResetGameLogic, Blank
  <2>2. IInv'
    BY <2>1, BlankLemma, PTL
  <2>3. Kept
    BY <1>4 DEF ResetGameLogic, Kept, PathState
  <2> QED BY <2>2, <2>3
<1>5. CASE UNCHANGED vars
  <2>1. /\ life' = life /\ destruct' = destruct /\ ai' = ai /\ pending' = pending
        /\ queue' = queue /\ pather' = pather
    BY <1>5 DEF vars
  <2> QED BY <1>5, <2>1 DEF IInv, TypeOK, OneRequestEach, PathsHaveOneWriter, HasRequest,
                            DyingAreTold
<1> QED BY <1>1, <1>2, <1>3, <1>4, <1>5 DEF Next

LEMMA InvCorrect == Spec => []IInv
<1>1. IInv /\ [Next]_vars => IInv'
  BY StepLemma
<1> QED BY InitInv, <1>1, PTL DEF Spec

----------------------------------------------------------------------------
(* The theorems.                                                           *)

\* The variables of the units, the queues and the generators keep their types, and a
\* ring that is not empty has a slot to spare: enqueue's missing test for a full ring
\* (QueueTemplate.hpp:43) loses requests but never lets the ring be misread.
THEOREM TypeCorrect == Spec => []TypeOK
BY InvCorrect, PTL DEF IInv

\* Whatever is ordered, hit, created and reset, a unit has at most one request that
\* counts, so that the answer found under its id is the answer to its last one.
THEOREM RequestsCorrect == Spec => []OneRequestEach
BY InvCorrect, PTL DEF IInv

\* A generator only ever writes into the path of a unit that exists and waits for it,
\* and never goes on with the search of an earlier request.
THEOREM PathsCorrect == Spec => []PathsHaveOneWriter
BY InvCorrect, PTL DEF IInv

\* No step but one that overflows a ring drops the request of a unit that waits.
THEOREM RequestsKept == Spec => RequestsAreKept
<1>1. IInv /\ [Next]_vars => (Kept \/ UNCHANGED vars)
  BY StepLemma
<1>2. Kept \/ UNCHANGED vars => [Kept]_vars
  OBVIOUS
<1> QED BY InvCorrect, <1>1, <1>2, PTL DEF Spec, RequestsAreKept, Kept
=============================================================================
