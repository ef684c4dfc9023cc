------------------------ MODULE MasterServer_proofs ------------------------
(***************************************************************************)
(* Proofs about MasterServer for any number of requests, servers and games *)
(* and any time-outs.                                                      *)
(***************************************************************************)
EXTENDS MasterServer, TLAPS

USE ThreadAssumption, GameAssumption, TimeAssumption
    DEF ThreadAssumption, GameAssumption, TimeAssumption

----------------------------------------------------------------------------
(* The type invariant.                                                     *)

LEMMA TypeInit == Init => TypeOK
BY DEF Init, TypeOK, Thread, Clerk, Time, ToDo, Errand, RequestState,
       HeartbeatState, MainState

\* No step leaves the types.
LEMMA TypeStep == ASSUME TypeOK, [Next]_vars PROVE TypeOK'
<1> USE DEF TypeOK, Thread, Clerk, Time, vars, table, requests, pool, At, Goto
<1>0. CASE UNCHANGED vars
  BY <1>0
<1>1. CASE Tick
  BY <1>1 DEF Tick
<1>2. CASE Signal
  BY <1>2 DEF Signal
<1>7. CASE Accept
  BY <1>7 DEF Accept, MainState
<1>8. CASE Terminated
  BY <1>8 DEF Terminated
<1>3. ASSUME NEW s \in Server, AddServer(s) PROVE TypeOK'
  BY <1>3 DEF AddServer, Entry, EntryOf
<1>4. ASSUME NEW r \in Request, Ask(r) \/ Skip(r) \/ EndOfStream(r) PROVE TypeOK'
  BY <1>4 DEF Ask, Skip, EndOfStream, Consult, RequestState
<1>5. ASSUME NEW t \in Thread, Step(t) PROVE TypeOK'
  <2>1. CASE EraseExpired(t)
    BY <1>5, <2>1 DEF EraseExpired, RequestState, HeartbeatState, MainState
  <2>2. CASE Find(t)
    BY <1>5, <2>2 DEF Find, Matches, EntryOf, RequestState, HeartbeatState, MainState
  <2>3. CASE t = Main /\ MainStep
    <3>1. CASE StartHeartbeat
      BY <2>3, <3>1 DEF StartHeartbeat, MainState, HeartbeatState
    <3>8. CASE Run
      BY <2>3, <3>8 DEF Run, MainState
    <3>9. CASE StopHeartbeat
      BY <2>3, <3>9 DEF StopHeartbeat, MainState
    <3>2. CASE JoinHeartbeat
      BY <2>3, <3>2 DEF JoinHeartbeat, Consult, MainState, ToDo, Errand
    <3>3. CASE Sweep \/ TearDown
      BY <2>3, <3>3 DEF Sweep, TearDown, Doom, MainState
    <3>4. CASE Admit
      <4>1. CASE Cardinality(threads) > ConnectionLimit
        BY <2>3, <3>4, <4>1 DEF Admit, MainState
      <4>2. ASSUME NEW r \in Request, Create(r) PROVE TypeOK'
        <5>1. /\ pc' \in [Thread -> RequestState \cup HeartbeatState \cup MainState]
              /\ \A q \in Request : pc'[q] \in RequestState
              /\ pc'[Heartbeat] \in HeartbeatState /\ pc'[Main] \in MainState
          BY <4>2 DEF Create, MainState, RequestState
        <5>2. /\ stream' \in [Request -> {"none", "open", "cancelled"}]
              /\ running' \in [Thread -> BOOLEAN]
              /\ starttime' \in [Request -> Time]
              /\ threads' \subseteq Request
          BY <4>2 DEF Create
        <5>3. now' \in [Thread -> Time]
          BY <3>4 DEF Admit
        <5>4. QED
          BY <3>4, <5>1, <5>2, <5>3 DEF Admit
      <4>3. QED
        BY <3>4, <4>1, <4>2 DEF Admit
    <3>5. CASE Destroy
      <4>1. /\ pc' \in [Thread -> RequestState \cup HeartbeatState \cup MainState]
            /\ \A q \in Request : pc'[q] \in RequestState
            /\ pc'[Heartbeat] \in HeartbeatState /\ pc'[Main] \in MainState
        BY <3>5 DEF Destroy, MainState
      <4>2. running' \in [Thread -> BOOLEAN]
        BY <3>5 DEF Destroy
      <4>3. exit_sync' \in [Request -> Thread \cup {NoThread}]
        BY <3>5 DEF Destroy
      <4>4. QED
        BY <3>5, <4>1, <4>2, <4>3 DEF Destroy
    <3>10. CASE Cancel
      BY <2>3, <3>10 DEF Cancel, MainState
    <3>6. CASE Join
      <4>1. /\ pc' \in [Thread -> RequestState \cup HeartbeatState \cup MainState]
            /\ \A q \in Request : pc'[q] \in RequestState
            /\ pc'[Main] \in MainState
        BY <3>6 DEF Join, MainState, RequestState
      <4>2. pc'[Heartbeat] \in HeartbeatState
        <5>1. Heartbeat # victim /\ Heartbeat # Main /\ Heartbeat \in Thread
          OBVIOUS
        <5>2. pc'[Heartbeat] = pc[Heartbeat]
          BY <3>6, <5>1 DEF Join
        <5>3. QED
          BY <5>2
      <4>4. /\ starttime' = [starttime EXCEPT ![victim] = 0] /\ 0 \in Time
            /\ threads' = threads \ {victim} /\ victim' = NoThread
            /\ UNCHANGED <<clock, table, mutex, job, now, running, stream, exit_sync>>
        BY <3>6 DEF Join, Deleted
      <4>3. QED
        BY <4>1, <4>2, <4>4
    <3>7. QED
      BY <2>3, <3>1, <3>2, <3>3, <3>4, <3>5, <3>6, <3>8, <3>9, <3>10
         DEF MainStep
  <2>4. CASE t = Heartbeat /\ HeartbeatStep
    <3>1. CASE BeginHeartbeat
      BY <2>4, <3>1 DEF BeginHeartbeat, HeartbeatState
    <3>2. CASE Beat
      BY <2>4, <3>2 DEF Beat, Consult, HeartbeatState, ToDo, Errand
    <3>3. CASE Wake
      BY <2>4, <3>3 DEF Wake, Consult, HeartbeatState, ToDo, Errand
    <3>4. QED
      BY <2>4, <3>1, <3>2, <3>3 DEF HeartbeatStep
  <2>5. CASE t \in Clerk /\ UseList(t)
    BY <2>5 DEF UseList, Consult, HeartbeatState, MainState, ToDo, Errand
  <2>6. CASE t \in Request /\ RequestStep(t)
    <3>1. CASE Begin(t)
      BY <2>6, <3>1 DEF Begin, RequestState
    <3>8. CASE Loop(t) \/ GiveUp(t)
      BY <2>6, <3>8 DEF Loop, GiveUp, EndOfStream, RequestState
    <3>5. CASE LockExit(t)
      BY <2>6, <3>5 DEF LockExit, RequestState
    <3>6. CASE DeleteStream(t)
      BY <2>6, <3>6 DEF DeleteStream, RequestState
    <3>2. CASE ParseHeartbeat(t)
      BY <2>6, <3>2 DEF ParseHeartbeat, Reply, Replied, Entry, Query,
                        Errand, ToDo, RequestState
    <3>3. CASE ParseQuit(t)
      BY <2>6, <3>3 DEF ParseQuit, Reply, Replied, Errand, ToDo,
                        RequestState
    <3>7. CASE ParseList(t)
      BY <2>6, <3>7 DEF ParseList, Reply, Replied, Errand, ToDo, RequestState
    <3>4. QED
      BY <2>6, <3>1, <3>2, <3>3, <3>5, <3>6, <3>7, <3>8
         DEF RequestStep
  <2>7. QED
    BY <1>5, <2>1, <2>2, <2>3, <2>4, <2>5, <2>6 DEF Step
<1>6. QED
  BY <1>0, <1>1, <1>2, <1>3, <1>4, <1>5, <1>7, <1>8 DEF Next

THEOREM TypeCorrect == Spec => []TypeOK
<1>1. QED
  BY TypeInit, TypeStep, PTL DEF Spec

----------------------------------------------------------------------------
(* Threads, their mutexes and their streams.                               *)

Serving == {"loop", "read", "expire", "search", "reply", "ending", "deleting"}

\* Who is alive: the heartbeat thread ends before the farewell, and the
\* requests in the list are those that exist.
Life ==
  /\ MutexHeld
  /\ threads = {r \in Request : pc[r] # "none"}
  /\ pc[Main] \in {"destroy", "cancel", "join"} => victim \in threads
  /\ pc[Main] \in {"boot", "run"} => \A r \in Request : pc[r] = "none"
  /\ pc[Main] = "boot" => pc[Heartbeat] = "none"
  /\ (Leaving \/ pc[Main] \in {"expire", "search", "use", "teardown", "done"})
       => pc[Heartbeat] = "ended"
  /\ pc[Main] = "done" => threads = {}

\* Which thread holds exit_sync, and what has been done to the stream.
Streams ==
  /\ \A r \in Request : (stream[r] = "none") <=> (pc[r] \in {"none", "ended"})
  /\ \A r \in Request : exit_sync[r] \in {NoThread, r, Main}
  /\ \A r \in Request : exit_sync[r] = r <=> pc[r] = "deleting"
  /\ \A r \in Request : exit_sync[r] = Main <=> pc[Main] = "cancel" /\ victim = r
  /\ \A r \in Request : running[r] => pc[r] \in Serving
  /\ pc[Main] = "cancel" => pc[victim] \in Serving
  /\ \A r \in Request : pc[r] \in Serving /\ ~running[r] =>
       stream[r] = "cancelled" \/ (pc[Main] = "cancel" /\ victim = r)

LEMMA LifeInit == Init => Life /\ Streams
BY DEF Init, Life, Streams, MutexHeld, Leaving, ToDo, Thread, Serving, At

LEMMA LifeStep == ASSUME TypeOK, Life, [Next]_vars PROVE Life'
<1> USE DEF TypeOK, Life, Thread, Clerk, At, Goto, MutexHeld
<1> USE DEF vars, table, requests, pool
<1>0. CASE UNCHANGED vars
  BY <1>0 DEF Leaving
<1>1. CASE Tick
  BY <1>1 DEF Tick, Leaving
<1>2. CASE Signal
  BY <1>2 DEF Signal, Leaving
<1>3. CASE Accept
  BY <1>3 DEF Accept, Leaving
<1>4. CASE Terminated
  BY <1>4 DEF Terminated, Leaving
<1>5. ASSUME NEW s \in Server, AddServer(s) PROVE Life'
  BY <1>5 DEF AddServer, Leaving
<1>6. ASSUME NEW r \in Request, Ask(r) PROVE Life'
  BY <1>6 DEF Ask, Consult, Leaving
<1>7. ASSUME NEW r \in Request, Skip(r) \/ EndOfStream(r) PROVE Life'
  BY <1>7 DEF Skip, EndOfStream, Leaving
<1>8. ASSUME NEW t \in Thread, Step(t) PROVE Life'
  <2>1. CASE EraseExpired(t)
    BY <2>1 DEF EraseExpired, Leaving, Free
  <2>2. CASE Find(t)
    BY <2>2 DEF Find, Leaving, Free
  <2>3. CASE t = Main /\ MainStep
    <3>1. CASE StartHeartbeat
      BY <3>1 DEF StartHeartbeat, Leaving
    <3>2. CASE Run
      BY <3>2 DEF Run, Leaving
    <3>3. CASE StopHeartbeat
      BY <3>3 DEF StopHeartbeat, Leaving
    <3>4. CASE JoinHeartbeat
      BY <3>4 DEF JoinHeartbeat, Consult, ToDo, Leaving
    <3>5. CASE Sweep
      BY <3>5 DEF Sweep, Doom, Leaving
    <3>6. CASE Admit
      BY <3>6 DEF Admit, Create, Leaving
    <3>7. CASE Destroy
      BY <3>7 DEF Destroy, Leaving
    <3>8. CASE Cancel
      BY <3>8 DEF Cancel, Leaving
    <3>9. CASE Join
      BY <3>9 DEF Join, Deleted, Leaving
    <3>10. CASE TearDown
      BY <3>10 DEF TearDown, Doom, Leaving
    <3>11. QED
      BY <2>3, <3>1, <3>2, <3>3, <3>4, <3>5, <3>6, <3>7, <3>8, <3>9, <3>10
         DEF MainStep
  <2>4. CASE t = Heartbeat /\ HeartbeatStep
    <3>1. CASE BeginHeartbeat
      BY <3>1 DEF BeginHeartbeat, Leaving
    <3>2. CASE Beat
      BY <3>2 DEF Beat, Consult, Leaving
    <3>3. CASE Wake
      BY <3>3 DEF Wake, Consult, Leaving
    <3>4. QED
      BY <2>4, <3>1, <3>2, <3>3 DEF HeartbeatStep
  <2>5. CASE t \in Clerk /\ UseList(t)
    BY <2>5 DEF UseList, Consult, ToDo, Leaving
  <2>6. CASE t \in Request /\ RequestStep(t)
    <3>1. CASE Begin(t)
      BY <2>6, <3>1 DEF Begin, Leaving
    <3>2. CASE Loop(t) \/ GiveUp(t)
      BY <2>6, <3>2 DEF Loop, GiveUp, EndOfStream, Leaving
    <3>3. CASE LockExit(t)
      BY <2>6, <3>3 DEF LockExit, Leaving
    <3>4. CASE DeleteStream(t)
      BY <2>6, <3>4 DEF DeleteStream, Leaving
    <3>5. CASE ParseHeartbeat(t)
      BY <2>6, <3>5 DEF ParseHeartbeat, Reply, Replied, Leaving
    <3>6. CASE ParseQuit(t)
      BY <2>6, <3>6 DEF ParseQuit, Reply, Replied, Leaving
    <3>7. CASE ParseList(t)
      BY <2>6, <3>7 DEF ParseList, Reply, Replied, Leaving
    <3>8. QED
      BY <2>6, <3>1, <3>2, <3>3, <3>4, <3>5, <3>6, <3>7 DEF RequestStep
  <2>7. QED
    BY <1>8, <2>1, <2>2, <2>3, <2>4, <2>5, <2>6 DEF Step
<1>9. QED
  BY <1>0, <1>1, <1>2, <1>3, <1>4, <1>5, <1>6, <1>7, <1>8 DEF Next

LEMMA StreamStep == ASSUME TypeOK, Life, Streams, [Next]_vars PROVE Streams'
<1> USE DEF TypeOK, Streams, Thread, Clerk, At, Goto, Serving, Life
<1> USE DEF vars, table, requests, pool
<1>0. CASE UNCHANGED vars
  BY <1>0
<1>1. CASE Tick
  BY <1>1 DEF Tick
<1>2. CASE Signal
  BY <1>2 DEF Signal
<1>3. CASE Accept
  BY <1>3 DEF Accept
<1>4. CASE Terminated
  BY <1>4 DEF Terminated
<1>5. ASSUME NEW s \in Server, AddServer(s) PROVE Streams'
  BY <1>5 DEF AddServer
<1>6. ASSUME NEW r \in Request, Ask(r) PROVE Streams'
  BY <1>6 DEF Ask, Consult
<1>7. ASSUME NEW r \in Request, Skip(r) \/ EndOfStream(r) PROVE Streams'
  BY <1>7 DEF Skip, EndOfStream
<1>8. ASSUME NEW t \in Thread, Step(t) PROVE Streams'
  <2>1. CASE EraseExpired(t)
    BY <2>1 DEF EraseExpired, Free
  <2>2. CASE Find(t)
    BY <2>2 DEF Find, Free
  <2>3. CASE t = Main /\ MainStep
    <3>1. CASE StartHeartbeat
      BY <3>1 DEF StartHeartbeat
    <3>2. CASE Run
      BY <3>2 DEF Run
    <3>3. CASE StopHeartbeat
      BY <3>3 DEF StopHeartbeat
    <3>4. CASE JoinHeartbeat
      BY <3>4 DEF JoinHeartbeat, Consult, ToDo
    <3>5. CASE Sweep
      BY <3>5 DEF Sweep, Doom
    <3>6. CASE Admit
      BY <3>6 DEF Admit, Create
    <3>7. CASE Destroy
      BY <3>7 DEF Destroy
    <3>8. CASE Cancel
      BY <3>8 DEF Cancel
    <3>9. CASE Join
      BY <3>9 DEF Join, Deleted
    <3>10. CASE TearDown
      BY <3>10 DEF TearDown, Doom
    <3>11. QED
      BY <2>3, <3>1, <3>2, <3>3, <3>4, <3>5, <3>6, <3>7, <3>8, <3>9, <3>10
         DEF MainStep
  <2>4. CASE t = Heartbeat /\ HeartbeatStep
    <3>1. CASE BeginHeartbeat
      BY <3>1 DEF BeginHeartbeat
    <3>2. CASE Beat
      BY <3>2 DEF Beat, Consult
    <3>3. CASE Wake
      BY <3>3 DEF Wake, Consult
    <3>4. QED
      BY <2>4, <3>1, <3>2, <3>3 DEF HeartbeatStep
  <2>5. CASE t \in Clerk /\ UseList(t)
    BY <2>5 DEF UseList, Consult, ToDo
  <2>6. CASE t \in Request /\ RequestStep(t)
    <3>1. CASE Begin(t)
      BY <2>6, <3>1 DEF Begin
    <3>2. CASE Loop(t) \/ GiveUp(t)
      BY <2>6, <3>2 DEF Loop, GiveUp, EndOfStream
    <3>3. CASE LockExit(t)
      BY <2>6, <3>3 DEF LockExit
    <3>4. CASE DeleteStream(t)
      BY <2>6, <3>4 DEF DeleteStream
    <3>5. CASE ParseHeartbeat(t)
      BY <2>6, <3>5 DEF ParseHeartbeat, Reply, Replied
    <3>6. CASE ParseQuit(t)
      BY <2>6, <3>6 DEF ParseQuit, Reply, Replied
    <3>7. CASE ParseList(t)
      BY <2>6, <3>7 DEF ParseList, Reply, Replied
    <3>8. QED
      BY <2>6, <3>1, <3>2, <3>3, <3>4, <3>5, <3>6, <3>7 DEF RequestStep
  <2>7. QED
    BY <1>8, <2>1, <2>2, <2>3, <2>4, <2>5, <2>6 DEF Step
<1>9. QED
  BY <1>0, <1>1, <1>2, <1>3, <1>4, <1>5, <1>6, <1>7, <1>8 DEF Next

----------------------------------------------------------------------------
(* The list of servers.                                                    *)

\* What a request found stays what is there while it holds the mutex, and
\* what survived its time-out check stays alive to it.
Listed ==
  /\ \A e \in serverlist : e.last <= clock
  /\ \A t \in Thread : now[t] <= clock
  /\ UniqueServers
  /\ \A r \in Request : pc[r] = "reply" => found[r] = Matches(job[r])
  /\ \A t \in Thread : pc[t] \in {"search", "reply"} =>
       \A e \in serverlist : ~Expired(e, now[t])

\* The list after an entry is refreshed or appended keeps the invariant of a
\* list; the new entry is alive to everyone.
LEMMA NewEntry ==
  ASSUME TypeOK, Listed, NEW s \in Server, NEW g \in Game,
         serverlist' = (serverlist \ EntryOf(s)) \cup
                         {[addr |-> s, game |-> g, last |-> clock]}
  PROVE  /\ \A e \in serverlist' : e.last <= clock
         /\ UniqueServers'
         /\ \A t \in Thread : pc[t] \in {"search", "reply"} =>
              \A e \in serverlist' : ~Expired(e, now[t])
<1> DEFINE new == [addr |-> s, game |-> g, last |-> clock]
<1>1. new.addr = s /\ new.last = clock /\ clock \in Nat
  BY DEF TypeOK, Time
<1>2. \A e \in serverlist' : e = new \/ (e \in serverlist /\ e.addr # s)
  BY DEF EntryOf
<1> HIDE DEF new
<1>3. \A e \in serverlist' : e.last <= clock
  BY <1>1, <1>2 DEF Listed
<1>4. UniqueServers'
  BY <1>1, <1>2 DEF Listed, UniqueServers
<1>5. ASSUME NEW t \in Thread PROVE ~Expired(new, now[t])
  <2>1. now[t] <= clock /\ now[t] \in Nat
    BY DEF Listed, TypeOK, Time
  <2>2. QED
    BY <1>1, <2>1 DEF Expired
<1>6. QED
  BY <1>2, <1>3, <1>4, <1>5 DEF Listed

\* A list with entries taken out keeps it too.
LEMMA FewerEntries ==
  ASSUME Listed, serverlist' \subseteq serverlist
  PROVE  /\ \A e \in serverlist' : e.last <= clock
         /\ UniqueServers'
         /\ \A t \in Thread : pc[t] \in {"search", "reply"} =>
              \A e \in serverlist' : ~Expired(e, now[t])
BY DEF Listed, UniqueServers

\* What the finder of an address refreshes or removes is that address.
LEMMA FoundAddress ==
  ASSUME TypeOK, Listed, NEW r \in Request, pc[r] = "reply",
         job[r].kind \in {"heartbeat", "quit"}
  PROVE  found[r] = EntryOf(job[r].addr)
BY DEF Listed, Matches

LEMMA QueryHasAddress ==
  ASSUME TypeOK, NEW r \in Request, job[r].kind \in {"heartbeat", "quit"}
  PROVE  job[r].addr \in Server /\ job[r].game \in Game
<1>1. job[r] \in Query \cup Errand
  BY DEF TypeOK, Thread
<1>2. job[r] \notin Errand
  BY DEF Errand
<1>3. QED
  BY <1>1, <1>2 DEF Query

\* Steps that leave the list alone.
LEMMA ListedKept ==
  ASSUME TypeOK, Listed, UNCHANGED <<clock, serverlist>>,
         \A t \in Thread : now'[t] \in {now[t], 0, clock},
         \A t \in Thread : pc'[t] \in {"search", "reply"} =>
            pc[t] = pc'[t] /\ now'[t] = now[t],
         \A r \in Request : pc'[r] = "reply" =>
            found'[r] = found[r] /\ job'[r] = job[r]
  PROVE  Listed'
<1>1. \A t \in Thread : now'[t] <= clock'
  BY DEF Listed, TypeOK, Time
<1>2. \A r \in Request : pc'[r] = "reply" => found'[r] = Matches(job[r])
  BY DEF Listed, Thread
<1>3. \A r \in Request : Matches(job[r])' = Matches(job'[r])
  BY DEF Matches, EntryOf
<1>4. \A r \in Request : pc'[r] = "reply" => found'[r] = Matches(job[r])'
  BY <1>2, <1>3
<1>5. \A t \in Thread : pc'[t] \in {"search", "reply"} =>
         \A e \in serverlist' : ~Expired(e, now'[t])
  BY DEF Listed, Expired
<1>6. UniqueServers' /\ \A e \in serverlist' : e.last <= clock'
  BY DEF Listed, UniqueServers
<1>7. QED
  BY <1>1, <1>4, <1>5, <1>6 DEF Listed

LEMMA ListedInit == Init => Listed
BY DEF Init, Listed, UniqueServers, ToDo, Thread, Time

LEMMA ListedStep == ASSUME TypeOK, Life, Listed, [Next]_vars PROVE Listed'
<1> USE DEF Goto, At, vars, table, requests, pool
<1>0. CASE UNCHANGED vars
  BY <1>0, ListedKept
<1>1. CASE Tick
  <2>1. UNCHANGED <<serverlist, pc, now, found, job>> /\ clock' = clock + 1
    BY <1>1 DEF Tick
  <2>2. /\ clock \in Nat /\ now \in [Thread -> Nat]
        /\ \A e \in serverlist : e.last \in Nat
    BY DEF TypeOK, Time, Entry
  <2>3. /\ \A e \in serverlist : e.last <= clock + 1
        /\ \A t \in Thread : now[t] <= clock + 1
    BY <2>2 DEF Listed
  <2>4. QED
    BY <2>1, <2>3 DEF Listed, UniqueServers, Expired, Matches, EntryOf
<1>2. CASE Signal
  BY <1>2, ListedKept DEF Signal
<1>3. CASE Accept
  BY <1>3, ListedKept DEF Accept, TypeOK, Thread
<1>4. CASE Terminated
  BY <1>4, ListedKept DEF Terminated
<1>5. ASSUME NEW s \in Server, AddServer(s) PROVE Listed'
  <2>1. \A t \in Thread : pc[t] \notin {"search", "reply"}
    BY <1>5 DEF AddServer, Life, Thread
  <2>2. serverlist' = (serverlist \ EntryOf(s)) \cup
                        {[addr |-> s, game |-> Master, last |-> clock]}
    BY <1>5 DEF AddServer
  <2>3. UNCHANGED <<clock, pc, now, found, job>>
    BY <1>5 DEF AddServer
  <2>4. /\ \A e \in serverlist' : e.last <= clock
        /\ UniqueServers'
    BY <2>2, NewEntry
  <2>5. QED
    BY <2>1, <2>3, <2>4 DEF Listed, Thread
<1>6. ASSUME NEW r \in Request, Ask(r) PROVE Listed'
  BY <1>6, ListedKept DEF Ask, Consult, TypeOK, Thread
<1>7. ASSUME NEW r \in Request, Skip(r) \/ EndOfStream(r) PROVE Listed'
  BY <1>7, ListedKept DEF Skip, EndOfStream, TypeOK, Thread
<1>8. ASSUME NEW t \in Thread, Step(t) PROVE Listed'
  <2>1. CASE EraseExpired(t)
    <3>1. \A u \in Request : pc[u] # "reply"
      BY <2>1 DEF EraseExpired, Free, Life, MutexHeld, Thread
    <3>2. serverlist' = {e \in serverlist : ~Expired(e, now[t])}
      BY <2>1 DEF EraseExpired
    <3>3. /\ UNCHANGED <<clock, now, found, job>>
          /\ pc' = [pc EXCEPT ![t] = "search"]
      BY <2>1 DEF EraseExpired
    <3>4. /\ \A e \in serverlist' : e.last <= clock
          /\ UniqueServers'
          /\ \A u \in Thread : pc[u] \in {"search", "reply"} =>
               \A e \in serverlist' : ~Expired(e, now[u])
      BY <3>2, FewerEntries
    <3>5. \A u \in Thread : pc'[u] \in {"search", "reply"} =>
             u = t \/ pc[u] \in {"search", "reply"}
      BY <3>3 DEF TypeOK
    <3>6. \A u \in Request : pc'[u] # "reply"
      BY <3>1, <3>3 DEF TypeOK, Thread
    <3>7. \A u \in Thread : pc'[u] \in {"search", "reply"} =>
            \A e \in serverlist' : ~Expired(e, now[u])
      BY <3>2, <3>4, <3>5
    <3>8. QED
      BY <3>3, <3>4, <3>6, <3>7 DEF Listed, Expired
  <2>2. CASE Find(t)
    <3>1. /\ UNCHANGED <<clock, serverlist, now, job>>
          /\ found' = [found EXCEPT ![t] = Matches(job[t])]
          /\ pc[t] = "search"
          /\ \A u \in Thread : u # t => pc'[u] = pc[u]
      BY <1>8, <2>2 DEF Find, TypeOK
    <3>2. \A u \in Request : pc'[u] = "reply" => found'[u] = Matches(job[u])
      BY <3>1 DEF Listed, TypeOK, Thread
    <3>3. \A u \in Request : Matches(job[u])' = Matches(job[u])
      BY <3>1 DEF Matches, EntryOf
    <3>4. \A u \in Thread : pc'[u] \in {"search", "reply"} =>
            pc[u] \in {"search", "reply"}
      BY <3>1
    <3>5. QED
      BY <3>1, <3>2, <3>3, <3>4 DEF Listed, UniqueServers, Expired
  <2>3. CASE t = Main /\ MainStep
    <3>1. CASE StartHeartbeat
      BY ListedKept, <3>1 DEF StartHeartbeat, TypeOK, Thread
    <3>2. CASE Run
      BY ListedKept, <3>2 DEF Run, TypeOK, Thread
    <3>3. CASE StopHeartbeat
      BY ListedKept, <3>3 DEF StopHeartbeat, TypeOK, Thread
    <3>4. CASE JoinHeartbeat
      BY ListedKept, <3>4 DEF JoinHeartbeat, Consult, TypeOK, Thread
    <3>5. CASE Sweep
      BY ListedKept, <3>5 DEF Sweep, Doom, TypeOK, Thread
    <3>6. CASE Admit
      BY ListedKept, <3>6 DEF Admit, Create, TypeOK, Thread
    <3>7. CASE Destroy
      BY ListedKept, <3>7 DEF Destroy, TypeOK, Thread
    <3>8. CASE Cancel
      BY ListedKept, <3>8 DEF Cancel, TypeOK, Thread
    <3>9. CASE Join
      BY ListedKept, <3>9 DEF Join, Deleted, TypeOK, Thread
    <3>10. CASE TearDown
      BY ListedKept, <3>10 DEF TearDown, Doom, TypeOK, Thread
    <3>11. QED
      BY <2>3, <3>1, <3>2, <3>3, <3>4, <3>5, <3>6, <3>7, <3>8, <3>9, <3>10
         DEF MainStep
  <2>4. CASE t = Heartbeat /\ HeartbeatStep
    <3>1. CASE BeginHeartbeat
      BY ListedKept, <3>1 DEF BeginHeartbeat, TypeOK, Thread
    <3>2. CASE Beat
      BY ListedKept, <3>2 DEF Beat, Consult, TypeOK, Thread
    <3>3. CASE Wake
      BY ListedKept, <3>3 DEF Wake, Consult, TypeOK, Thread
    <3>4. QED
      BY <2>4, <3>1, <3>2, <3>3 DEF HeartbeatStep
  <2>5. CASE t \in Clerk /\ UseList(t)
    BY <2>5, ListedKept DEF UseList, Consult, TypeOK, Thread, Clerk
  <2>6. CASE t \in Request /\ RequestStep(t)
    <3>1. CASE Begin(t)
      BY <2>6, ListedKept, <3>1 DEF Begin, TypeOK, Thread
    <3>2. CASE Loop(t) \/ GiveUp(t)
      BY <2>6, ListedKept, <3>2 DEF Loop, GiveUp, EndOfStream, TypeOK, Thread
    <3>3. CASE LockExit(t)
      BY <2>6, ListedKept, <3>3 DEF LockExit, TypeOK, Thread
    <3>4. CASE DeleteStream(t)
      BY <2>6, ListedKept, <3>4 DEF DeleteStream, TypeOK, Thread
    <3>5. CASE ParseHeartbeat(t)
      <4>1. /\ pc[t] = "reply" /\ job[t].kind \in {"heartbeat", "quit"}
            /\ UNCHANGED clock
            /\ pc' = [pc EXCEPT ![t] = "ending"]
            /\ now' = [now EXCEPT ![t] = 0]
        BY <3>5 DEF ParseHeartbeat, Reply, Replied
      <4>2. found[t] = EntryOf(job[t].addr)
            /\ job[t].addr \in Server /\ job[t].game \in Game
        BY <2>6, <4>1, FoundAddress, QueryHasAddress
      <4>3. /\ \A e \in serverlist' : e.last <= clock
            /\ UniqueServers'
            /\ \A u \in Thread : pc[u] \in {"search", "reply"} =>
                 \A e \in serverlist' : ~Expired(e, now[u])
        BY <3>5, <4>2, NewEntry DEF ParseHeartbeat
      <4>4. \A u \in Request : pc'[u] # "reply"
        BY <2>6, <4>1 DEF Life, MutexHeld, TypeOK, Thread
      <4>5. \A u \in Thread : now'[u] <= clock
        BY <4>1 DEF Listed, TypeOK, Time
      <4>6. \A u \in Thread : pc'[u] \in {"search", "reply"} =>
               pc[u] \in {"search", "reply"} /\ now'[u] = now[u]
        BY <4>1 DEF TypeOK
      <4>7. QED
        BY <4>1, <4>3, <4>4, <4>5, <4>6 DEF Listed, Expired
    <3>6. CASE ParseQuit(t)
      <4>1. /\ pc[t] = "reply" /\ job[t].kind \in {"heartbeat", "quit"}
            /\ UNCHANGED clock
            /\ pc' = [pc EXCEPT ![t] = "ending"]
            /\ now' = [now EXCEPT ![t] = 0]
        BY <3>6 DEF ParseQuit, Reply, Replied
      <4>2. found[t] = EntryOf(job[t].addr)
            /\ job[t].addr \in Server /\ job[t].game \in Game
        BY <2>6, <4>1, FoundAddress, QueryHasAddress
      <4>3. /\ \A e \in serverlist' : e.last <= clock
            /\ UniqueServers'
            /\ \A u \in Thread : pc[u] \in {"search", "reply"} =>
                 \A e \in serverlist' : ~Expired(e, now[u])
        BY <3>6, FewerEntries DEF ParseQuit
      <4>4. \A u \in Request : pc'[u] # "reply"
        BY <2>6, <4>1 DEF Life, MutexHeld, TypeOK, Thread
      <4>5. \A u \in Thread : now'[u] <= clock
        BY <4>1 DEF Listed, TypeOK, Time
      <4>6. \A u \in Thread : pc'[u] \in {"search", "reply"} =>
               pc[u] \in {"search", "reply"} /\ now'[u] = now[u]
        BY <4>1 DEF TypeOK
      <4>7. QED
        BY <4>1, <4>3, <4>4, <4>5, <4>6 DEF Listed, Expired
    <3>7. CASE ParseList(t)
      <4>1. UNCHANGED <<clock, serverlist>>
            /\ (pc' = [pc EXCEPT ![t] = "loop"] \/ pc' = [pc EXCEPT ![t] = "ending"])
            /\ now' = [now EXCEPT ![t] = 0]
            /\ found' = [found EXCEPT ![t] = {}]
            /\ job' = [job EXCEPT ![t] = ToDo("cache")]
        BY <3>7 DEF ParseList, Replied
      <4>2. QED
        BY <2>6, <4>1, ListedKept DEF TypeOK, Thread
    <3>8. QED
      BY <2>6, <3>1, <3>2, <3>3, <3>4, <3>5, <3>6, <3>7 DEF RequestStep
  <2>7. QED
    BY <1>8, <2>1, <2>2, <2>3, <2>4, <2>5, <2>6 DEF Step
<1>9. QED
  BY <1>0, <1>1, <1>2, <1>3, <1>4, <1>5, <1>6, <1>7, <1>8 DEF Next
----------------------------------------------------------------------------
(* The safety properties.                                                  *)

IInv == TypeOK /\ Life /\ Streams /\ Listed

LEMMA Invariant == Spec => []IInv
<1>1. Init => IInv
  BY TypeInit, LifeInit, ListedInit DEF IInv
<1>2. IInv /\ [Next]_vars => IInv'
  BY TypeStep, LifeStep, StreamStep, ListedStep DEF IInv
<1>3. QED
  BY <1>1, <1>2, PTL DEF Spec

\* The mutex is released on every path and never owned twice.
THEOREM MutexCorrect == Spec => []MutexHeld
<1>1. IInv => MutexHeld
  BY DEF IInv, Life
<1>2. QED
  BY <1>1, Invariant, PTL

\* No server is ever listed twice, however many threads add servers.
THEOREM UniqueCorrect == Spec => []UniqueServers
<1>1. IInv => UniqueServers
  BY DEF IInv, Listed
<1>2. QED
  BY <1>1, Invariant, PTL

\* Every entry a request acts on was alive when the request was made.
THEOREM FreshCorrect == Spec => []FreshAnswers
<1>1. IInv => FreshAnswers
  BY DEF IInv, Listed, FreshAnswers, At, Matches, EntryOf, Thread
<1>2. QED
  BY <1>1, Invariant, PTL

\* No stream is used by its thread or cancelled by the destructor after its
\* deletion.
THEOREM StreamsCorrect == Spec => []StreamsOutliveUse
<1>1. IInv => StreamsOutliveUse
  BY DEF IInv, TypeOK, Life, Streams, StreamsOutliveUse, At, Serving
<1>2. QED
  BY <1>1, Invariant, PTL

\* The main thread never joins a request whose read waits for its client, unless
\* the request started after it was told to stop.
THEOREM JoinsCorrect == Spec => []JoinsAreAnswered
<1>1. IInv => JoinsAreAnswered
  BY DEF IInv, TypeOK, Life, MutexHeld, Streams, JoinsAreAnswered, StopLost,
         At, Serving, Thread
<1>2. QED
  BY <1>1, Invariant, PTL

\* At the end of the main thread all other threads have ended.
THEOREM ShutdownCorrect == Spec => []NothingOutlives
<1>1. IInv => NothingOutlives
  BY DEF IInv, Life, NothingOutlives, At
<1>2. QED
  BY <1>1, Invariant, PTL

----------------------------------------------------------------------------
(* The list implements the directory.                                      *)

\* Heard is what the list says, and Never for the others.
LEMMA HeardOf ==
  ASSUME UniqueServers, NEW s \in Server
  PROVE  /\ \A e \in serverlist : e.addr = s => Heard[s] = e.last
         /\ (\A e \in serverlist : e.addr # s) => Heard[s] = Never
<1>1. ASSUME NEW e \in serverlist, e.addr = s PROVE Heard[s] = e.last
  <2>1. e \in EntryOf(s)
    BY <1>1 DEF EntryOf
  <2>2. \A f \in EntryOf(s) : f = e
    BY <1>1 DEF EntryOf, UniqueServers
  <2>3. (CHOOSE f \in EntryOf(s) : TRUE) \in EntryOf(s)
    BY <2>1
  <2>4. QED
    BY <2>1, <2>2, <2>3 DEF Heard
<1>2. ASSUME \A e \in serverlist : e.addr # s PROVE Heard[s] = Never
  <2>1. EntryOf(s) = {}
    BY <1>2 DEF EntryOf
  <2>2. QED
    BY <2>1 DEF Heard
<1>3. QED
  BY <1>1, <1>2

\* The same of the next state.
LEMMA HeardOfNext ==
  ASSUME UniqueServers', NEW s \in Server
  PROVE  /\ \A e \in serverlist' : e.addr = s => Heard'[s] = e.last
         /\ (\A e \in serverlist' : e.addr # s) => Heard'[s] = Never
<1>1. ASSUME NEW e \in serverlist', e.addr = s PROVE Heard'[s] = e.last
  <2>1. e \in EntryOf(s)'
    BY <1>1 DEF EntryOf
  <2>2. \A f \in EntryOf(s)' : f = e
    BY <1>1 DEF EntryOf, UniqueServers
  <2>3. (CHOOSE f \in EntryOf(s)' : TRUE) \in EntryOf(s)'
    BY <2>1
  <2>4. QED
    BY <2>1, <2>2, <2>3 DEF Heard
<1>2. ASSUME \A e \in serverlist' : e.addr # s PROVE Heard'[s] = Never
  <2>1. EntryOf(s)' = {}
    BY <1>2 DEF EntryOf
  <2>2. QED
    BY <2>1 DEF Heard
<1>3. QED
  BY <1>1, <1>2

LEMMA HeardDomain == Heard = [s \in Server |-> Heard[s]]
                     /\ Heard' = [s \in Server |-> Heard'[s]]
BY DEF Heard

\* A refreshed or appended entry is a server that is heard.
LEMMA HearStep ==
  ASSUME UniqueServers, UniqueServers', NEW s \in Server, NEW g \in Game,
         UNCHANGED clock,
         serverlist' = (serverlist \ EntryOf(s)) \cup
                         {[addr |-> s, game |-> g, last |-> clock]}
  PROVE  Directory!Hear(s)
<1> DEFINE new == [addr |-> s, game |-> g, last |-> clock]
<1>1. new \in serverlist' /\ new.addr = s /\ new.last = clock
  OBVIOUS
<1>2. \A e \in serverlist' : e = new \/ (e \in serverlist /\ e.addr # s)
  BY DEF EntryOf
<1>3. \A e \in serverlist : e.addr # s => e \in serverlist'
  BY DEF EntryOf
<1> HIDE DEF new
<1>4. Heard'[s] = clock
  BY <1>1, HeardOfNext
<1>5. ASSUME NEW q \in Server, q # s PROVE Heard'[q] = Heard[q]
  <2>1. CASE \E e \in serverlist : e.addr = q
    BY <1>3, <1>5, <2>1, HeardOf, HeardOfNext
  <2>2. CASE \A e \in serverlist : e.addr # q
    BY <1>1, <1>2, <1>5, <2>2, HeardOf, HeardOfNext
  <2>3. QED
    BY <2>1, <2>2
<1>6. Heard' = [Heard EXCEPT ![s] = clock]
  BY <1>4, <1>5, HeardDomain
<1>7. QED
  BY <1>6 DEF Directory!Hear

\* A removed entry is a server that signs off.
LEMMA SignOffStep ==
  ASSUME UniqueServers, UniqueServers', NEW s \in Server, UNCHANGED clock,
         serverlist' = serverlist \ EntryOf(s)
  PROVE  Directory!SignOff(s)
<1>1. Heard'[s] = Never
  BY HeardOfNext DEF EntryOf
<1>2. ASSUME NEW q \in Server, q # s PROVE Heard'[q] = Heard[q]
  <2>1. CASE \E e \in serverlist : e.addr = q
    BY <1>2, <2>1, HeardOf, HeardOfNext DEF EntryOf
  <2>2. CASE \A e \in serverlist : e.addr # q
    BY <1>2, <2>2, HeardOf, HeardOfNext DEF EntryOf
  <2>3. QED
    BY <2>1, <2>2
<1>3. Heard' = [Heard EXCEPT ![s] = Never]
  BY <1>1, <1>2, HeardDomain
<1>4. QED
  BY <1>3 DEF Directory!SignOff

\* The time-out check forgets servers that have been silent long enough.
LEMMA ForgetStep ==
  ASSUME TypeOK, Listed, UniqueServers', NEW t \in Thread, EraseExpired(t)
  PROVE  Directory!Next
<1> DEFINE gone == {e \in serverlist : Expired(e, now[t])}
           S == {s \in Server : \E e \in gone : e.addr = s}
<1>1. serverlist' = serverlist \ gone /\ UNCHANGED clock
  BY DEF EraseExpired
<1>2. UniqueServers
  BY DEF Listed
<1>3. \A s \in S : Directory!Silent(s)
  <2> SUFFICES ASSUME NEW s \in S PROVE Directory!Silent(s)
    OBVIOUS
  <2>1. PICK e \in gone : e.addr = s
    OBVIOUS
  <2>2. Heard[s] = e.last
    BY <1>2, <2>1, HeardOf
  <2>3. e.last \in 0 .. MaxTime /\ now[t] <= clock /\ now[t] \in Nat /\ clock \in Nat
    BY <2>1 DEF Listed, TypeOK, Entry, Time
  <2>4. e.last + AliveTimeout <= clock
    BY <2>1, <2>3 DEF Expired
  <2>5. QED
    BY <2>2, <2>3, <2>4 DEF Directory!Silent, Never
<1>4. \A s \in Server : Heard'[s] = IF s \in S THEN Never ELSE Heard[s]
  <2> SUFFICES ASSUME NEW s \in Server
               PROVE  Heard'[s] = IF s \in S THEN Never ELSE Heard[s]
    OBVIOUS
  <2>1. CASE s \in S
    <3>1. PICK e \in gone : e.addr = s
      BY <2>1
    <3>2. \A f \in serverlist : f.addr = s => f = e
      BY <1>2, <3>1 DEF UniqueServers
    <3>3. \A f \in serverlist' : f.addr # s
      BY <1>1, <3>1, <3>2
    <3>4. QED
      BY <2>1, <3>3, HeardOfNext
  <2>2. CASE s \notin S
    <3>1. \A f \in serverlist : f.addr = s => f \in serverlist'
      BY <1>1, <2>2
    <3>2. CASE \E e \in serverlist : e.addr = s
      BY <1>2, <2>2, <3>1, <3>2, HeardOf, HeardOfNext
    <3>3. CASE \A e \in serverlist : e.addr # s
      BY <1>1, <1>2, <2>2, <3>3, HeardOf, HeardOfNext
    <3>4. QED
      BY <3>2, <3>3
  <2>3. QED
    BY <2>1, <2>2
<1>5. S \in SUBSET Server
  OBVIOUS
<1> HIDE DEF S, gone
<1>6. Heard' = [s \in Server |-> IF s \in S THEN Never ELSE Heard[s]]
  BY <1>4, HeardDomain
<1>7. Directory!Forget(S)
  BY <1>1, <1>3, <1>6 DEF Directory!Forget
<1>8. QED
  BY <1>5, <1>7 DEF Directory!Next

LEMMA Kept == UNCHANGED <<clock, serverlist>> => UNCHANGED <<clock, Heard>>
BY DEF Heard, EntryOf

\* Every step of the threads is a step of the directory or none.
LEMMA DirectoryStep ==
  ASSUME IInv, UniqueServers', [Next]_vars
  PROVE  [Directory!Next]_<<clock, Heard>>
<1> USE DEF vars, table, requests, pool
<1>u. TypeOK /\ Listed /\ UniqueServers
  BY DEF IInv, Listed
<1>0. CASE UNCHANGED vars
  BY <1>0, Kept
<1>1. CASE Tick
  <2>1. clock < MaxTime /\ clock' = clock + 1 /\ UNCHANGED Heard
    BY <1>1 DEF Tick, Heard, EntryOf
  <2>2. QED
    BY <2>1 DEF Directory!Next, Directory!Tick
<1>2. CASE Signal
  BY <1>2, Kept DEF Signal
<1>3. CASE Accept
  BY <1>3, Kept DEF Accept
<1>4. CASE Terminated
  BY <1>4, Kept DEF Terminated
<1>5. ASSUME NEW s \in Server, AddServer(s)
      PROVE  [Directory!Next]_<<clock, Heard>>
  <2>1. Directory!Hear(s)
    BY <1>5, <1>u, HearStep DEF AddServer
  <2>2. QED
    BY <2>1 DEF Directory!Next
<1>6. ASSUME NEW r \in Request, Ask(r) \/ Skip(r) \/ EndOfStream(r)
      PROVE  [Directory!Next]_<<clock, Heard>>
  BY <1>6, Kept DEF Ask, Skip, EndOfStream
<1>8. ASSUME NEW t \in Thread, Step(t)
      PROVE  [Directory!Next]_<<clock, Heard>>
  <2>1. CASE EraseExpired(t)
    BY <1>u, <2>1, ForgetStep
  <2>2. CASE Find(t)
    BY <2>2, Kept DEF Find
  <2>3. CASE t = Main /\ MainStep
    BY <2>3, Kept DEF MainStep, StartHeartbeat, Run, StopHeartbeat,
       JoinHeartbeat, Sweep, Admit, Create, Destroy, Cancel, Join, Deleted,
       TearDown, Doom
  <2>4. CASE t = Heartbeat /\ HeartbeatStep
    BY <2>4, Kept DEF HeartbeatStep, BeginHeartbeat, Beat, Wake
  <2>5. CASE t \in Clerk /\ UseList(t)
    BY <2>5, Kept DEF UseList
  <2>6. CASE t \in Request /\ RequestStep(t)
    <3>1. CASE Begin(t) \/ Loop(t) \/ GiveUp(t) \/ LockExit(t) \/ DeleteStream(t)
      BY <3>1, Kept DEF Begin, Loop, GiveUp, EndOfStream, LockExit, DeleteStream
    <3>2. CASE ParseHeartbeat(t)
      <4>1. /\ pc[t] = "reply" /\ job[t].kind = "heartbeat" /\ UNCHANGED clock
            /\ serverlist' = (serverlist \ found[t]) \cup
               {[addr |-> job[t].addr, game |-> job[t].game, last |-> clock]}
        BY <3>2 DEF ParseHeartbeat, Reply, Replied, At
      <4>2. /\ found[t] = EntryOf(job[t].addr)
            /\ job[t].addr \in Server /\ job[t].game \in Game
        BY <1>u, <2>6, <4>1, FoundAddress, QueryHasAddress
      <4>3. Directory!Hear(job[t].addr)
        BY <1>u, <4>1, <4>2, HearStep
      <4>4. QED
        BY <4>2, <4>3 DEF Directory!Next
    <3>3. CASE ParseQuit(t)
      <4>1. /\ pc[t] = "reply" /\ job[t].kind = "quit" /\ UNCHANGED clock
            /\ serverlist' = serverlist \ found[t]
        BY <3>3 DEF ParseQuit, Reply, Replied, At
      <4>2. found[t] = EntryOf(job[t].addr) /\ job[t].addr \in Server
        BY <1>u, <2>6, <4>1, FoundAddress, QueryHasAddress
      <4>3. Directory!SignOff(job[t].addr)
        BY <1>u, <4>1, <4>2, SignOffStep
      <4>4. QED
        BY <4>2, <4>3 DEF Directory!Next
    <3>4. CASE ParseList(t)
      BY <3>4, Kept DEF ParseList, Replied
    <3>5. QED
      BY <2>6, <3>1, <3>2, <3>3, <3>4 DEF RequestStep
  <2>7. QED
    BY <1>8, <2>1, <2>2, <2>3, <2>4, <2>5, <2>6 DEF Step
<1>9. QED
  BY <1>0, <1>1, <1>2, <1>3, <1>4, <1>5, <1>6, <1>8 DEF Next

\* The threads together keep the promise of ServerDirectory.
THEOREM DirectoryCorrect == Spec => DirectorySpec
<1>1. Init => Directory!Init
  BY DEF Init, Directory!Init, Heard, EntryOf
<1>2. IInv /\ IInv' /\ [Next]_vars => [Directory!Next]_<<clock, Heard>>
  BY DirectoryStep DEF IInv, Listed
<1>3. QED
  BY <1>1, <1>2, Invariant, PTL DEF Spec, DirectorySpec, Directory!Spec
=============================================================================
