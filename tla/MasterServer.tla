---------------------------- MODULE MasterServer ----------------------------
(***************************************************************************)
(* The master server (masterserver-0.2.9): the threads that share the list *)
(* of game servers, how they are started, and how they are taken down.     *)
(*                                                                         *)
(* The main thread accepts clients and gives each a RequestThread; the     *)
(* HeartbeatThread tells the other masters from time to time that this one *)
(* still runs.  All read and write serverlist under serverlist_mutex.  One *)
(* step is what a thread does between two places where another thread may  *)
(* come in between to any effect.                                          *)
(***************************************************************************)
EXTENDS Naturals, FiniteSets

CONSTANTS
  Request,          \* RequestThread objects: their memory is used again
  Main,             \* the main thread
  Heartbeat,        \* the heartbeat thread
  NoThread,         \* the owner of a free mutex
  Server,           \* addresses (IP and port) servers register under
  Self,             \* the address of this master server
  Game,             \* values of the key gamename
  Master,           \* the gamename of master servers
  AliveTimeout,     \* server-alive-timeout
  RequestTimeout,   \* client-request-timeout
  ConnectionLimit,  \* connection-limit
  WriteBack,        \* write-back-neighbour-list
  MaxTime           \* bound on the clock

ASSUME ThreadAssumption == /\ Main # Heartbeat
                           /\ {Main, Heartbeat} \cap Request = {}
                           /\ NoThread \notin Request \cup {Main, Heartbeat}
ASSUME GameAssumption == Master \in Game
ASSUME TimeAssumption == /\ AliveTimeout \in Nat \ {0} /\ RequestTimeout \in Nat
                         /\ ConnectionLimit \in Nat /\ MaxTime \in Nat
                         /\ WriteBack \in BOOLEAN

Thread == Request \cup {Main, Heartbeat}
Clerk == {Main, Heartbeat}       \* the threads that call getServerList
Time == 0 .. MaxTime

VARIABLES
  clock,        \* time(0)
  serverlist,   \* MasterServer::serverlist
  mutex,        \* owner of serverlist_mutex
  pc,           \* where each thread is
  job,          \* what the thread is at: the query, or why it wants the list
  now,          \* the local currenttime of each thread
  found,        \* the entries a thread found under the mutex
  running,      \* MasterServer::running, HeartbeatThread::running and
                \* RequestThread::running
  stream,       \* the SocketStream of each request
  exit_sync,    \* owner of RequestThread::exit_sync
  starttime,    \* RequestThread::starttime
  threads,      \* MasterServer::threads
  victim        \* the request whose destructor the main thread runs

table == <<serverlist, found>>
requests == <<stream, exit_sync, starttime>>
pool == <<threads, victim>>
vars == <<clock, table, mutex, pc, job, now, running, requests, pool>>

Entry == [addr : Server, game : Game, last : Time]
\* A heartbeat names a server and its game, a list a game, a quit a server.
Query == [kind : {"heartbeat"}, addr : Server, game : Game]
  \cup [kind : {"list"}, addr : {Self}, game : Game]
  \cup [kind : {"quit"}, addr : Server, game : {Master}]
\* Why the heartbeat and the main thread want the list of masters.
Errand == [kind : {"beat", "cache", "farewell"}, addr : {Self}, game : {Master}]
ToDo(kind) == [kind |-> kind, addr |-> Self, game |-> Master]

RequestState == {"none", "new", "loop", "read", "expire", "search", "reply",
                 "ending", "deleting", "ended"}
HeartbeatState == {"none", "new", "loop", "expire", "search", "use", "sleep",
                   "ended"}
MainState == {"boot", "run", "select", "sweep", "destroy", "cancel", "join",
              "join_hb", "expire", "search", "use", "teardown", "done"}

Init ==
  /\ clock = 0
  /\ serverlist = {}
  /\ mutex = NoThread
  /\ pc = [t \in Thread |-> IF t = Main THEN "boot" ELSE "none"]
  /\ job = [t \in Thread |-> ToDo("cache")]
  /\ now = [t \in Thread |-> 0]
  /\ found = [t \in Thread |-> {}]
  /\ running = [t \in Thread |-> FALSE]
  /\ stream = [r \in Request |-> "none"]
  /\ exit_sync = [r \in Request |-> NoThread]
  /\ starttime = [r \in Request |-> 0]
  /\ threads = {}
  /\ victim = NoThread

Goto(t, l) == pc' = [pc EXCEPT ![t] = l]
At(t, l) == pc[t] = l

Tick ==
  /\ clock < MaxTime
  /\ clock' = clock + 1
  /\ UNCHANGED <<table, mutex, pc, job, now, running, requests, pool>>

----------------------------------------------------------------------------
(* The list of servers.                                                    *)

Expired(e, time) == time >= e.last + AliveTimeout
EntryOf(addr) == {e \in serverlist : e.addr = addr}

\* addServer, called while the neighbours are read, before any other thread
\* runs: never its own address, and each address once.
AddServer(s) ==
  /\ At(Main, "boot")
  /\ s # Self
  /\ serverlist' = (serverlist \ EntryOf(s)) \cup
                   {[addr |-> s, game |-> Master, last |-> clock]}
  /\ UNCHANGED <<clock, mutex, pc, job, now, found, running, requests, pool>>

\* checkTimeouts reads the time before it takes the mutex; what comes before
\* in the same function is the thread's own.
Consult(t, query) ==
  /\ job' = [job EXCEPT ![t] = query]
  /\ now' = [now EXCEPT ![t] = clock]
  /\ Goto(t, "expire")

\* Nobody sees the list between the first and the last entry erased: lock,
\* loop and unlock are one step, as is the copy getServerList makes.
Free == mutex = NoThread

MutEraseExpired(t) ==
  /\ At(t, "expire")
  /\ Free
  /\ serverlist' = {e \in serverlist : now[t] <= e.last + AliveTimeout}
  /\ Goto(t, "search")
  /\ UNCHANGED <<clock, found, mutex, job, now, running, requests, pool>>
EraseExpired(t) ==
  /\ At(t, "expire")
  /\ Free
  /\ serverlist' = {e \in serverlist : ~Expired(e, now[t])}
  /\ Goto(t, "search")
  /\ UNCHANGED <<clock, found, mutex, job, now, running, requests, pool>>

\* A heartbeat and a quit look for the address, a query for the game.
Matches(q) ==
  IF q.kind \in {"heartbeat", "quit"} THEN EntryOf(q.addr)
  ELSE {e \in serverlist : e.game = q.game}

MutFind(t) ==
  /\ At(t, "search")
  /\ found' = [found EXCEPT ![t] = Matches(job[t])]
  /\ IF t \in Clerk THEN Goto(t, "use") /\ UNCHANGED mutex
     ELSE Goto(t, "reply") /\ mutex' = t
  /\ UNCHANGED <<clock, serverlist, job, now, running, requests, pool>>
\* A request goes on under the mutex; getServerList unlocks and hands out
\* pointers into the vector.
Find(t) ==
  /\ At(t, "search")
  /\ Free
  /\ found' = [found EXCEPT ![t] = Matches(job[t])]
  /\ IF t \in Clerk THEN Goto(t, "use") /\ UNCHANGED mutex
     ELSE Goto(t, "reply") /\ mutex' = t
  /\ UNCHANGED <<clock, serverlist, job, now, running, requests, pool>>

Reply(t, kind) == At(t, "reply") /\ job[t].kind = kind
MutReplied(t, l) ==
  /\ UNCHANGED mutex
  /\ Goto(t, l)
  /\ found' = [found EXCEPT ![t] = {}]
  /\ now' = [now EXCEPT ![t] = 0]
  /\ job' = [job EXCEPT ![t] = ToDo("cache")]
  /\ UNCHANGED <<clock, running, requests, pool>>
Replied(t, l) ==
  /\ mutex' = NoThread
  /\ Goto(t, l)
  /\ found' = [found EXCEPT ![t] = {}]
  /\ now' = [now EXCEPT ![t] = 0]
  /\ job' = [job EXCEPT ![t] = ToDo("cache")]
  /\ UNCHANGED <<clock, running, requests, pool>>

MutParseHeartbeat(r) ==
  /\ Reply(r, "heartbeat")
  /\ serverlist' = (serverlist \ found[r]) \cup
       {[addr |-> job[r].addr, game |-> job[r].game, last |-> clock + AliveTimeout]}
  /\ Replied(r, "ending")
\* parseHeartbeat refreshes the entry it found, or appends one.
ParseHeartbeat(r) ==
  /\ Reply(r, "heartbeat")
  /\ serverlist' = (serverlist \ found[r]) \cup
       {[addr |-> job[r].addr, game |-> job[r].game, last |-> clock]}
  /\ Replied(r, "ending")

MutParseQuit(r) ==
  /\ Reply(r, "quit")
  /\ serverlist' = serverlist \ {e \in serverlist : e.game = job[r].game}
  /\ Replied(r, "ending")
ParseQuit(r) ==
  /\ Reply(r, "quit")
  /\ serverlist' = serverlist \ found[r]
  /\ Replied(r, "ending")

\* The answer is written while the mutex is held; a gamespy client leaves.
ParseList(r) ==
  /\ Reply(r, "list")
  /\ UNCHANGED serverlist
  /\ Replied(r, "loop") \/ Replied(r, "ending")

----------------------------------------------------------------------------
(* A request: its thread, and the destructor the main thread runs on it.   *)

\* The first line of RequestThread::run comes when the thread is scheduled.
Begin(r) ==
  /\ At(r, "new")
  /\ running' = [running EXCEPT ![r] = TRUE]
  /\ Goto(r, "loop")
  /\ UNCHANGED <<clock, table, mutex, job, now, requests, pool>>

\* The flag is looked at before the read, which may then wait for the client.
Loop(r) ==
  /\ At(r, "loop")
  /\ Goto(r, IF running[r] THEN "read" ELSE "ending")
  /\ UNCHANGED <<clock, table, mutex, job, now, running, requests, pool>>

\* The client asks, and is served what was read even if the request has been told
\* to stop meanwhile.
Ask(r) ==
  /\ At(r, "read")
  /\ \E q \in Query : Consult(r, q)
  /\ UNCHANGED <<clock, table, mutex, running, requests, pool>>

\* An unknown query is answered with an error and skipped.
Skip(r) ==
  /\ At(r, "read")
  /\ Goto(r, "loop")
  /\ UNCHANGED <<clock, table, mutex, job, now, running, requests, pool>>

\* The stream ends because the client is done or refused ...
EndOfStream(r) ==
  /\ At(r, "read")
  /\ Goto(r, "ending")
  /\ UNCHANGED <<clock, table, mutex, job, now, running, requests, pool>>

\* ... or, within a second after cancel(), because the read is given up.
GiveUp(r) == stream[r] = "cancelled" /\ EndOfStream(r)

MutLockExit(r) ==
  /\ At(r, "ending")
  /\ exit_sync' = [exit_sync EXCEPT ![r] = r]
  /\ Goto(r, "deleting")
  /\ UNCHANGED <<clock, table, mutex, job, now, running, stream, starttime, pool>>
LockExit(r) ==
  /\ At(r, "ending")
  /\ exit_sync[r] = NoThread
  /\ exit_sync' = [exit_sync EXCEPT ![r] = r]
  /\ Goto(r, "deleting")
  /\ UNCHANGED <<clock, table, mutex, job, now, running, stream, starttime, pool>>

DeleteStream(r) ==
  /\ At(r, "deleting")
  /\ stream' = [stream EXCEPT ![r] = "none"]
  /\ running' = [running EXCEPT ![r] = FALSE]
  /\ exit_sync' = [exit_sync EXCEPT ![r] = NoThread]
  /\ Goto(r, "ended")
  /\ UNCHANGED <<clock, table, mutex, job, now, starttime, pool>>

\* ~RequestThread: under exit_sync, a running thread is told to stop ...
Destroy ==
  /\ At(Main, "destroy")
  /\ exit_sync[victim] = NoThread
  /\ IF running[victim]
     THEN /\ running' = [running EXCEPT ![victim] = FALSE]
          /\ exit_sync' = [exit_sync EXCEPT ![victim] = Main]
          /\ Goto(Main, "cancel")
     ELSE /\ Goto(Main, "join")
          /\ UNCHANGED <<running, exit_sync>>
  /\ UNCHANGED <<clock, table, mutex, job, now, stream, starttime, pool>>

\* ... and its read is given up if the stream is still there;
MutCancel ==
  /\ At(Main, "cancel")
  /\ stream' = [stream EXCEPT ![victim] = IF @ = "none" THEN @ ELSE "cancelled"]
  /\ Goto(Main, "join")
  /\ UNCHANGED <<clock, table, mutex, job, now, running, exit_sync, starttime, pool>>
Cancel ==
  /\ At(Main, "cancel")
  /\ stream' = [stream EXCEPT ![victim] = IF @ = "none" THEN @ ELSE "cancelled"]
  /\ exit_sync' = [exit_sync EXCEPT ![victim] = NoThread]
  /\ Goto(Main, "join")
  /\ UNCHANGED <<clock, table, mutex, job, now, running, starttime, pool>>

\* then the main thread waits for its end and frees the object.
Leaving == job[Main].kind = "farewell"
Deleted ==
  /\ threads' = threads \ {victim}
  /\ victim' = NoThread
  /\ starttime' = [starttime EXCEPT ![victim] = 0]
  /\ UNCHANGED <<clock, table, mutex, job, now, running, stream, exit_sync>>
MutJoin ==
  /\ At(Main, "join")
  /\ Goto(Main, IF Leaving THEN "teardown" ELSE "sweep")
  /\ Deleted
Join ==
  /\ At(Main, "join")
  /\ At(victim, "ended")
  /\ pc' = [pc EXCEPT ![victim] = "none",
                      ![Main] = IF Leaving THEN "teardown" ELSE "sweep"]
  /\ Deleted

----------------------------------------------------------------------------
(* The main thread: main() and MasterServer::run.                          *)

StartHeartbeat ==
  /\ At(Main, "boot")
  /\ pc' = [pc EXCEPT ![Main] = "run", ![Heartbeat] = "new"]
  /\ UNCHANGED <<clock, table, mutex, job, now, running, requests, pool>>

Run ==
  /\ At(Main, "run")
  /\ running' = [running EXCEPT ![Main] = TRUE]
  /\ Goto(Main, "select")
  /\ UNCHANGED <<clock, table, mutex, job, now, requests, pool>>

\* SIGTERM calls cancel(); before run() it is overwritten.
Signal ==
  /\ running[Main]
  /\ running' = [running EXCEPT ![Main] = FALSE]
  /\ UNCHANGED <<clock, table, mutex, pc, job, now, requests, pool>>

Accept ==
  /\ At(Main, "select") /\ running[Main]
  /\ now' = [now EXCEPT ![Main] = clock]
  /\ Goto(Main, "sweep")
  /\ UNCHANGED <<clock, table, mutex, job, running, requests, pool>>

TooOld(r) == now[Main] > starttime[r] + RequestTimeout

Doom(S) ==
  /\ \E r \in S : victim' = r
  /\ Goto(Main, "destroy")
  /\ UNCHANGED <<clock, table, mutex, job, now, running, requests, threads>>

Sweep ==
  /\ At(Main, "sweep")
  /\ Doom({r \in threads : TooOld(r)})

Create(r) ==
  /\ At(r, "none")
  /\ pc' = [pc EXCEPT ![r] = "new", ![Main] = "select"]
  /\ running' = [running EXCEPT ![r] = FALSE]
  /\ stream' = [stream EXCEPT ![r] = "open"]
  /\ starttime' = [starttime EXCEPT ![r] = clock]
  /\ threads' = threads \cup {r}

\* With more than connection-limit requests the client is dropped.
Admit ==
  /\ At(Main, "sweep")
  /\ \A r \in threads : ~TooOld(r)
  /\ now' = [now EXCEPT ![Main] = 0]
  /\ IF Cardinality(threads) > ConnectionLimit
     THEN Goto(Main, "select") /\ UNCHANGED <<running, stream, starttime, threads>>
     ELSE \E r \in Request : Create(r)
  /\ UNCHANGED <<clock, table, mutex, job, exit_sync, victim>>

StopHeartbeat ==
  /\ At(Main, "select") /\ ~running[Main]
  /\ running' = [running EXCEPT ![Heartbeat] = FALSE]
  /\ Goto(Main, "join_hb")
  /\ UNCHANGED <<clock, table, mutex, job, now, requests, pool>>

\* The neighbours are written back, if at all, before they are told.
JoinHeartbeat ==
  /\ At(Main, "join_hb")
  /\ At(Heartbeat, "ended")
  /\ Consult(Main, ToDo(IF WriteBack THEN "cache" ELSE "farewell"))
  /\ UNCHANGED <<clock, table, mutex, running, requests, pool>>

TearDown ==
  /\ At(Main, "teardown")
  /\ \/ Doom(threads)
     \/ threads = {} /\ Goto(Main, "done")
        /\ UNCHANGED <<clock, table, mutex, job, now, running, requests, pool>>

----------------------------------------------------------------------------
(* The heartbeat thread, and the use of the pointers it shares.            *)

BeginHeartbeat ==
  /\ At(Heartbeat, "new")
  /\ running' = [running EXCEPT ![Heartbeat] = TRUE]
  /\ Goto(Heartbeat, "loop")
  /\ UNCHANGED <<clock, table, mutex, job, now, requests, pool>>

Beat ==
  /\ At(Heartbeat, "loop")
  /\ IF running[Heartbeat]
     THEN Consult(Heartbeat, ToDo("beat"))
     ELSE Goto(Heartbeat, "ended") /\ UNCHANGED <<job, now>>
  /\ UNCHANGED <<clock, table, mutex, running, requests, pool>>

\* The sleep ends with the interval or within a moment after the stop.
Wake ==
  /\ At(Heartbeat, "sleep")
  /\ IF WriteBack THEN Consult(Heartbeat, ToDo("cache"))
     ELSE Goto(Heartbeat, "loop") /\ UNCHANGED <<job, now>>
  /\ UNCHANGED <<clock, table, mutex, running, requests, pool>>

\* sendPacket and writeNeighborCache read through the pointers, without the mutex;
\* what they find if the vector has moved meanwhile is left out.
UseList(c) ==
  /\ At(c, "use")
  /\ found' = [found EXCEPT ![c] = {}]
  /\ UNCHANGED <<clock, serverlist, mutex, running, requests, pool>>
  /\ \/ /\ c = Main /\ ~Leaving
        /\ Consult(c, ToDo("farewell"))
     \/ /\ c = Main /\ Leaving
        /\ Goto(c, "teardown")
        /\ now' = [now EXCEPT ![c] = 0]
        /\ UNCHANGED job
     \/ /\ c = Heartbeat
        /\ Goto(c, IF job[c].kind = "beat" THEN "sleep" ELSE "loop")
        /\ now' = [now EXCEPT ![c] = 0]
        /\ job' = [job EXCEPT ![c] = ToDo("cache")]

Terminated == At(Main, "done") /\ UNCHANGED vars

\* What a thread does by itself: everything but taking in a client, reading
\* a query and noticing that the client is done.
MainStep ==
  \/ StartHeartbeat \/ Run \/ StopHeartbeat \/ JoinHeartbeat
  \/ Sweep \/ Admit \/ Destroy \/ Cancel \/ Join \/ TearDown
HeartbeatStep == BeginHeartbeat \/ Beat \/ Wake
RequestStep(r) ==
  \/ Begin(r) \/ Loop(r) \/ GiveUp(r) \/ LockExit(r) \/ DeleteStream(r)
  \/ ParseHeartbeat(r) \/ ParseQuit(r) \/ ParseList(r)

Step(t) ==
  \/ EraseExpired(t) \/ Find(t)
  \/ t = Main /\ MainStep
  \/ t = Heartbeat /\ HeartbeatStep
  \/ t \in Clerk /\ UseList(t)
  \/ t \in Request /\ RequestStep(t)

Next ==
  \/ Tick \/ Signal \/ Accept \/ Terminated
  \/ \E s \in Server : AddServer(s)
  \/ \E r \in Request : Ask(r) \/ Skip(r) \/ EndOfStream(r)
  \/ \E t \in Thread : Step(t)

Spec == Init /\ [][Next]_vars

----------------------------------------------------------------------------
(* Properties.                                                             *)

\* Every variable has values of its type.
TypeOK ==
  /\ clock \in Time
  /\ serverlist \subseteq Entry
  /\ mutex \in Thread \cup {NoThread}
  /\ pc \in [Thread -> RequestState \cup HeartbeatState \cup MainState]
  /\ \A r \in Request : pc[r] \in RequestState
  /\ pc[Heartbeat] \in HeartbeatState /\ pc[Main] \in MainState
  /\ job \in [Thread -> Query \cup Errand]
  /\ \A c \in Clerk : job[c] \in Errand
  /\ now \in [Thread -> Time]
  /\ found \in [Thread -> SUBSET Entry]
  /\ running \in [Thread -> BOOLEAN]
  /\ stream \in [Request -> {"none", "open", "cancelled"}]
  /\ exit_sync \in [Request -> Thread \cup {NoThread}]
  /\ starttime \in [Request -> Time]
  /\ threads \subseteq Request
  /\ victim \in Request \cup {NoThread}

\* No server is in the list twice, whichever threads look it up and append
\* it at the same time (parseHeartbeat, addServer).
UniqueServers ==
  \A e, f \in serverlist : e.addr = f.addr => e = f

\* The mutex is held exactly by the one request that acts on what it found:
\* no path leaves it locked and no two threads are inside.
MutexHeld == \A t \in Thread : At(t, "reply") <=> (mutex = t)

\* What a thread finds was alive when its query was made, although the list
\* is unlocked and changed between the time-out check and the search.
FreshAnswers ==
  \A r \in Request : At(r, "reply") =>
     \A e \in found[r] : e \in serverlist /\ ~Expired(e, now[r])

\* The destructor cancels only a stream that exists, and a request reads and
\* writes only its own stream: exit_sync keeps the end of the thread and the
\* destructor apart.
StreamsOutliveUse ==
  /\ At(Main, "cancel") => stream[victim] # "none"
  /\ \A r \in Request :
       (stream[r] = "none") <=> (pc[r] \in {"none", "ended"})

\* The master server object is gone only when nobody can call it any more.
NothingOutlives ==
  At(Main, "done") =>
    At(Heartbeat, "ended") /\ \A r \in Request : At(r, "none")

\* A list nobody can lose an entry of: as ServerDirectory.
Never == MaxTime + 1
Heard == [s \in Server |->
  IF EntryOf(s) = {} THEN Never ELSE (CHOOSE e \in EntryOf(s) : TRUE).last]
Directory == INSTANCE ServerDirectory WITH heard <- Heard
DirectorySpec == Directory!Spec

\* A request sets its running flag when its thread starts: a stop that comes first
\* is lost, and the main thread then waits for the client.
StopLost == At(Main, "join") /\ running[victim]

\* Otherwise no join of a request waits for its client: a read that may block has
\* been given up, nobody keeps the request's exit_sync, and the list's mutex is with
\* a request that only has to write its answer (~RequestThread, SocketStream::cancel).
JoinsAreAnswered ==
  At(Main, "join") /\ ~StopLost =>
    /\ At(victim, "read") => stream[victim] = "cancelled"
    /\ exit_sync[victim] \in {NoThread, victim}
    /\ exit_sync[victim] = victim => At(victim, "deleting")
    /\ mutex # NoThread => At(mutex, "reply")
=============================================================================
