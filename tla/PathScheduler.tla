--------------------------- MODULE PathScheduler ---------------------------
(***************************************************************************)
(* The path finding of a game server: the units that ask for paths         *)
(* (Units/Vehicle.cpp, Units/UnitInterface.cpp), the two queues of         *)
(* requests and the two path generators that serve them                    *)
(* (Interfaces/PathScheduler.cpp, Classes/AI/Astar.cpp).                   *)
(*                                                                         *)
(* A unit that needs a path puts a request into the queue for short or for *)
(* long distances and waits in its path_generate state.  A generator that  *)
(* is free takes the next request and searches for some ticks, writing     *)
(* into the path list INSIDE the unit through a pointer; it then waits     *)
(* until the unit fetches the answer, and nothing else leaves its queue    *)
(* before that.  Requests and answers are told apart by the id of the unit *)
(* alone.  Orders, hits, deaths, the creation of units and a change of map *)
(* come at any time between those steps.                                   *)
(*                                                                         *)
(* Left out: the map, so that which squares a path has, whether the next   *)
(* one is free and whether the goal is reached are free choices; weapons   *)
(* and turrets; the opcodes sent to clients.                               *)
(***************************************************************************)
EXTENDS Naturals, Sequences

CONSTANTS
  Unit,        \* ids of units; an id is used again once its unit is deleted
  NoUnit,      \* the generator works for nobody
  QueueSize    \* slots of a request queue (200 in the code)

\* A ring of one slot would be full with its first request.
UnitAssumption == NoUnit \notin Unit
QueueAssumption == QueueSize \in Nat \ {0, 1}
ASSUME UnitAssumption
ASSUME QueueAssumption

VARIABLES
  life,      \* unit_state.lifecycle_state, "none" for an id without a unit
  destruct,  \* external_ai_event = _external_event_pending_unit_destruct
  ai,        \* ai_command_state with the state its machine rests in
  pending,   \* pending_command if pending_AI_comm, else "none"
  queue,     \* short_request_queue and long_request_queue, oldest first
  pather     \* short_pather[0] and long_pather[0]

unitVars == <<life, destruct, ai, pending>>
pathVars == <<queue, pather>>
vars == <<life, destruct, ai, pending, queue, pather>>

Kind == {"short", "long"}
Life == {"none", "active", "pending_destruct", "destroyed", "inactive"}
Command == {"move", "attack"}

\* The states in which a unit waits for a path.
PathState == {"move_path", "attack_path"}
AIState == PathState \cup {"idle", "hold", "move_blocked", "move_wait",
                           "move_check", "attack_idle"}

\* PathRequest, by what the properties tell apart.
RequestType == {"full", "update"}
Request == [unit : Unit \cup {NoUnit}, type : RequestType, flush : BOOLEAN]

\* PathGenerator: its status, the unit of path_request, pathing_fsm with the
\* part it is in, and whether the search's open list holds nodes.
Fsm == {"none", "full_path", "update_path", "cache_path_a", "cache_path_b"}
Pather == [status : {"free", "busy", "waiting"}, unit : Unit \cup {NoUnit},
           fsm : Fsm, open : BOOLEAN]

----------------------------------------------------------------------------
(* The request queues.                                                     *)

MutEnqueued(q, r) == Append(q, r)
\* enqueue does not look whether the ring is full: the request that fills the
\* last slot makes rear meet front, and the queue is empty.
Enqueued(q, r) == IF Len(q) + 1 = QueueSize THEN <<>> ELSE Append(q, r)

\* PathRequestQueue::killRequest marks the slots of u, which stay in the queue;
\* what else they hold is not looked at again.
FlushedSlot == [unit |-> NoUnit, type |-> "full", flush |-> TRUE]
Flushed(q, u) == [i \in DOMAIN q |-> IF q[i].unit = u THEN FlushedSlot ELSE q[i]]

----------------------------------------------------------------------------
(* The path generators.                                                    *)

FreePather == [status |-> "free", unit |-> NoUnit, fsm |-> "none", open |-> FALSE]

MutTerminated(p, u) ==
  IF p.status = "busy" /\ p.unit = u
  THEN [p EXCEPT !.status = "free", !.unit = NoUnit, !.fsm = "none", !.open = FALSE]
  ELSE p
\* terminatePathGeneration, for a search in progress and for an answer that
\* waits; Astar::cleanUp empties the open list.
Terminated(p, u) ==
  IF p.status \in {"busy", "waiting"} /\ p.unit = u
  THEN [p EXCEPT !.status = "free", !.unit = NoUnit, !.fsm = "none", !.open = FALSE]
  ELSE p

\* generationComplete is true.
Complete(p, u) == p.status = "waiting" /\ p.unit = u

\* generationComplete frees the generator that it finds complete.
Fetched(p) == [p EXCEPT !.status = "free", !.unit = NoUnit]

\* A search that has ended, at its goal or not, has cleaned up, and its machine
\* does nothing more.
Finished(p) == [p EXCEPT !.status = "waiting", !.fsm = "none", !.open = FALSE]

\* What one call of run leaves of a search: it goes on in the next tick, the
\* first part of a cached path is joined and the second is searched, or the
\* answer waits for its unit.
Searched(p) ==
  {p, Finished(p)} \cup IF p.fsm = "cache_path_a" THEN {[p EXCEPT !.fsm = "cache_path_b"]}
                                                 ELSE {}

\* initializePathGeneration; the cache of the short generator has no entries.
Machines(k, r) ==
  CASE r.type = "update" -> {"update_path"}
    [] r.type = "full" -> {"full_path"} \cup IF k = "long" THEN {"cache_path_a"} ELSE {}

Started(r, f) == [status |-> "busy", unit |-> r.unit, fsm |-> f, open |-> TRUE]

\* PathScheduler::run for one generator: a free one takes the next request,
\* and one that has something to search searches in the same call.
Take(k) ==
  /\ pather[k].status = "free"
  /\ queue[k] # <<>>
  /\ queue' = [queue EXCEPT ![k] = Tail(@)]
  /\ LET r == Head(queue[k]) IN
       IF r.flush
       THEN pather' = pather
       ELSE \E f \in Machines(k, r) : \E p \in Searched(Started(r, f)) :
              pather' = [pather EXCEPT ![k] = p]

Search(k) ==
  /\ pather[k].status = "busy"
  /\ \E p \in Searched(pather[k]) : pather' = [pather EXCEPT ![k] = p]
  /\ queue' = queue

Run(k) == (Take(k) \/ Search(k)) /\ UNCHANGED unitVars

----------------------------------------------------------------------------
(* What a unit does with them.                                             *)

\* PathScheduler::killRequest, by every exit from the machines of a command.
KilledQueues(u) == [k \in Kind |-> Flushed(queue[k], u)]
KilledPathers(u) == [k \in Kind |-> Terminated(pather[k], u)]
KillRequest(u) == queue' = KilledQueues(u) /\ pather' = KilledPathers(u)

\* requestPath: the distance decides on the queue.
RequestPath(q, u, t) ==
  \E k \in Kind :
    queue' = [q EXCEPT ![k] = Enqueued(@, [unit |-> u, type |-> t, flush |-> FALSE])]

\* queryPath asks the short generator first and fetches at most one answer.
Answering(u) == {k \in Kind : Complete(pather[k], u)}
Answer(u) == IF Complete(pather["short"], u) THEN "short" ELSE "long"
AfterAnswer(u) == LET k == Answer(u) IN [pather EXCEPT ![k] = Fetched(@)]

Goto(u, s) == ai' = [ai EXCEPT ![u] = s]

\* checkPendingAICommStatus after a state that lets go (setCommandMoveToLoc,
\* setCommandAttackUnit); q is the queue that state has left.  A unit that is no
\* longer active forgets the order.
NewCommand(u, l, q) ==
  /\ pending' = [pending EXCEPT ![u] = "none"]
  /\ IF l = "active"
     THEN /\ Goto(u, IF pending[u] = "move" THEN "move_path" ELSE "attack_path")
          /\ RequestPath(q, u, "full")
     ELSE ai' = ai /\ queue' = q
  /\ UNCHANGED destruct

MutDestructExit(u) ==
  /\ Goto(u, "idle")
  /\ destruct' = [destruct EXCEPT ![u] = FALSE]
  /\ UNCHANGED <<pending, queue, pather>>
\* The unit is about to be deleted: leave the machine and go idle.
DestructExit(u) ==
  /\ KillRequest(u)
  /\ Goto(u, "idle")
  /\ destruct' = [destruct EXCEPT ![u] = FALSE]
  /\ UNCHANGED pending

MutCommandExit(u, l) ==
  /\ KillRequest(u)
  /\ Goto(u, IF pending[u] = "move" THEN "move_path" ELSE "attack_path")
  /\ pending' = [pending EXCEPT ![u] = "none"]
  /\ UNCHANGED destruct
\* A command is pending: leave the machine and start the command.
CommandExit(u, l) ==
  /\ pather' = KilledPathers(u)
  /\ NewCommand(u, l, KilledQueues(u))

Rest == UNCHANGED <<destruct, ai, pending, queue, pather>>

\* aiFsmIdle
Idle(u, l) ==
  /\ ai[u] = "idle"
  /\ IF pending[u] # "none" THEN NewCommand(u, l, queue) /\ UNCHANGED pather ELSE Rest

\* aiFsmDefendHold, for both its states; it has no requests to kill.
DefendHold(u, l) ==
  /\ ai[u] = "hold"
  /\ \/ /\ destruct[u]
        /\ Goto(u, "idle")
        /\ destruct' = [destruct EXCEPT ![u] = FALSE]
        /\ UNCHANGED <<pending, queue, pather>>
     \/ ~destruct[u] /\ pending[u] # "none" /\ NewCommand(u, l, queue) /\ UNCHANGED pather
     \/ ~destruct[u] /\ pending[u] = "none" /\ Rest

\* From check_goal on: the goal is reached and the unit holds; or its path is at
\* its end and it asks for another; or there is a next square, free or not.
CheckGoal(u, p) ==
  /\ UNCHANGED <<destruct, pending>>
  /\ \/ /\ Goto(u, "hold")
        /\ queue' = KilledQueues(u)
        /\ pather' = [k \in Kind |-> Terminated(p[k], u)]
     \/ /\ Goto(u, "move_path")
        /\ RequestPath(queue, u, "full")
        /\ pather' = p
     \/ /\ \E s \in {"move_blocked", "move_wait"} : Goto(u, s)
        /\ queue' = queue
        /\ pather' = p

\* path_generate, once nothing else is to be done
PathGenerate(u) ==
  IF Answering(u) # {} THEN CheckGoal(u, AfterAnswer(u)) ELSE Rest

\* wait_clear_loc: the square is free; or it is not, until the wait timer runs
\* out and a new path is asked for, or an update of this one.
WaitClearLoc(u) ==
  \/ Goto(u, "move_wait") /\ UNCHANGED <<destruct, pending, queue, pather>>
  \/ Rest
  \/ /\ Goto(u, "move_path")
     /\ \E t \in RequestType : RequestPath(queue, u, t)
     /\ UNCHANGED <<destruct, pending, pather>>

\* aiFsmMoveToLoc: in move_wait the low-level move has to end first.
MoveToLoc(u, l) ==
  \/ /\ ai[u] = "move_wait"
     /\ Rest \/ (Goto(u, "move_check") /\ UNCHANGED <<destruct, pending, queue, pather>>)
  \/ /\ ai[u] \in {"move_path", "move_blocked", "move_check"}
     /\ \/ destruct[u] /\ DestructExit(u)
        \/ ~destruct[u] /\ pending[u] # "none" /\ CommandExit(u, l)
        \/ /\ ~destruct[u] /\ pending[u] = "none"
           /\ \/ ai[u] = "move_path" /\ PathGenerate(u)
              \/ ai[u] = "move_blocked" /\ WaitClearLoc(u)
              \/ ai[u] = "move_check" /\ CheckGoal(u, pather)

\* aiFsmAttackUnit.  playerCommand_AttackUnit passes the unit's own id for the
\* target (UnitInterface.cpp:141), so the target is always in range and the
\* machine never gets past its idle state.
AttackUnit(u, l) ==
  /\ ai[u] \in {"attack_path", "attack_idle"}
  /\ \/ destruct[u] /\ DestructExit(u)
     \/ ~destruct[u] /\ pending[u] # "none" /\ CommandExit(u, l)
     \/ /\ ~destruct[u] /\ pending[u] = "none"
        /\ IF ai[u] = "attack_path" /\ Answering(u) # {}
           THEN /\ Goto(u, "attack_idle")
                /\ pather' = AfterAnswer(u)
                /\ UNCHANGED <<destruct, pending, queue>>
           ELSE Rest

\* updateUnitStateProperties, if its timer has run out; the ticks that
\* death_counter counts are left to chance.
NextLife(u) ==
  {life[u]} \cup
  CASE life[u] = "pending_destruct" /\ ai[u] = "idle" -> {"destroyed"}
    [] life[u] = "destroyed" -> {"inactive"}
    [] OTHER -> {}

\* Vehicle::updateState on the server
Update(u) ==
  /\ life[u] \notin {"none", "inactive"}
  /\ \E l \in NextLife(u) :
       /\ life' = [life EXCEPT ![u] = l]
       /\ Idle(u, l) \/ DefendHold(u, l) \/ MoveToLoc(u, l) \/ AttackUnit(u, l)

\* updateUnitStatus deletes the units that are inactive.
RemoveUnit(u) ==
  /\ life[u] = "inactive"
  /\ life' = [life EXCEPT ![u] = "none"]
  /\ ai' = [ai EXCEPT ![u] = "idle"]
  /\ destruct' = [destruct EXCEPT ![u] = FALSE]
  /\ pending' = [pending EXCEPT ![u] = "none"]
  /\ UNCHANGED pathVars

----------------------------------------------------------------------------
(* What happens to units.                                                  *)

\* createUnit and the constructor of Vehicle
CreateUnit(u) ==
  /\ life[u] = "none"
  /\ life' = [life EXCEPT ![u] = "active"]
  /\ UNCHANGED <<destruct, ai, pending, queue, pather>>

\* playerCommand_MoveUnit, playerCommand_AttackUnit
PlayerCommand(u, c) ==
  /\ life[u] # "none"
  /\ pending' = [pending EXCEPT ![u] = c]
  /\ UNCHANGED <<life, destruct, ai, queue, pather>>

\* weaponHit, when it takes the last hit point of an active unit, and
\* selfDestruct, which does not look at the state the unit is in
WeaponHit(u) == life[u] = "active"
SelfDestruct(u) == life[u] # "none"

Destruct(u) ==
  /\ WeaponHit(u) \/ SelfDestruct(u)
  /\ life' = [life EXCEPT ![u] = "pending_destruct"]
  /\ destruct' = [destruct EXCEPT ![u] = TRUE]
  /\ UNCHANGED <<ai, pending, queue, pather>>

MutResetGameLogic ==
  /\ life' = [u \in Unit |-> "none"]
  /\ destruct' = [u \in Unit |-> FALSE]
  /\ ai' = [u \in Unit |-> "idle"]
  /\ pending' = [u \in Unit |-> "none"]
  /\ UNCHANGED pathVars
\* resetGameLogic deletes all units without a word to the scheduler and then
\* makes it as new.
ResetGameLogic ==
  /\ life' = [u \in Unit |-> "none"]
  /\ destruct' = [u \in Unit |-> FALSE]
  /\ ai' = [u \in Unit |-> "idle"]
  /\ pending' = [u \in Unit |-> "none"]
  /\ queue' = [k \in Kind |-> <<>>]
  /\ pather' = [k \in Kind |-> FreePather]

Init ==
  /\ life = [u \in Unit |-> "none"]
  /\ destruct = [u \in Unit |-> FALSE]
  /\ ai = [u \in Unit |-> "idle"]
  /\ pending = [u \in Unit |-> "none"]
  /\ queue = [k \in Kind |-> <<>>]
  /\ pather = [k \in Kind |-> FreePather]

Next ==
  \/ \E u \in Unit :
       \/ Update(u) \/ RemoveUnit(u) \/ CreateUnit(u) \/ Destruct(u)
       \/ \E c \in Command : PlayerCommand(u, c)
  \/ \E k \in Kind : Run(k)
  \/ ResetGameLogic

Spec == Init /\ [][Next]_vars

\* Every tick updates or deletes every unit and runs both generators;
\* unit_state_timer runs out every tenth of a second, whatever else the updates
\* do; and a search is bounded: each square of the map is closed once and the
\* nodes of the generator are counted.
FairSpec ==
  /\ Spec
  /\ \A u \in Unit : /\ WF_vars(Update(u)) /\ WF_vars(RemoveUnit(u))
                     /\ WF_vars(Update(u) /\ life'[u] # life[u])
  /\ \A k \in Kind : WF_vars(Run(k))

----------------------------------------------------------------------------
(* Properties.                                                             *)

\* The values of the variables; a ring that is not empty has a slot to spare.
TypeOK ==
  /\ life \in [Unit -> Life]
  /\ destruct \in [Unit -> BOOLEAN]
  /\ ai \in [Unit -> AIState]
  /\ pending \in [Unit -> Command \cup {"none"}]
  /\ queue \in [Kind -> Seq(Request)]
  /\ \A k \in Kind : Len(queue[k]) < QueueSize
  /\ pather \in [Kind -> Pather]

\* The requests of unit u in the queues q that count, and the generators of p that
\* work for it or hold its answer.
LiveSlots(q, u) ==
  {s \in Kind \X (1 .. QueueSize) :
     s[2] \in DOMAIN q[s[1]] /\ q[s[1]][s[2]].unit = u /\ ~q[s[1]][s[2]].flush}
Serving(p, u) == {k \in Kind : p[k].status # "free" /\ p[k].unit = u}
HasRequest(u) == LiveSlots(queue, u) # {} \/ Serving(pather, u) # {}

\* A unit has at most one request that counts, in a queue or with a generator:
\* since an answer is known by the unit's id alone (PathScheduler.hpp:122), a
\* second one would be the answer to an earlier command.
OneRequestEach ==
  \A u \in Unit :
    /\ \A s, t \in LiveSlots(queue, u) : s = t
    /\ \A k, j \in Serving(pather, u) : k = j
    /\ LiveSlots(queue, u) = {} \/ Serving(pather, u) = {}

\* A request holds a pointer into its unit (Astar.hpp:44), through which the
\* generator writes the path: the unit exists, and it waits for that path, so it
\* does not read it.  And a generator that is not busy has no search left over:
\* its next request would go on with it, into the path of another unit
\* (assert(open.size() == 0), Astar.cpp:147).
PathsHaveOneWriter ==
  /\ \A u \in Unit :
       HasRequest(u) => life[u] \in {"active", "pending_destruct"} /\ ai[u] \in PathState
  /\ \A k \in Kind : pather[k].open => pather[k].status = "busy"

\* The full ring of kind k drops all its requests.
Overflows(k) == Len(queue[k]) + 1 = QueueSize /\ queue'[k] = <<>>

\* A unit that waits for a path has a request for it, and loses it only when a
\* ring overflows: no other step drops a request and leaves its unit waiting.
RequestsAreKept ==
  [][\A u \in Unit :
       \/ ai'[u] \notin PathState \/ HasRequest(u)'
       \/ ai[u] \in PathState /\ ~HasRequest(u)
       \/ \E k \in Kind : Overflows(k)]_vars

\* A request that counts is answered, unless it is lost or given up or a new
\* command replaces it.
Answered(u) == \E k \in Kind : Complete(pather[k], u)
PathArrives(u) == []<>(Answered(u) \/ ~HasRequest(u) \/ pending[u] # "none")

\* A unit whose end has come is deleted, unless it is told again and again.
UnitDies(u) ==
  <>[][~Destruct(u)]_vars => []<>(life[u] \in {"none", "active"})

\* Every unit is served: its path arrives, a command given to it does not stay
\* pending for ever, and it is deleted when its end has come, whichever state it
\* is in; and no generator waits for ever with an answer that nobody fetches, as
\* nothing else would leave its queue.
UnitsAreServed ==
  /\ \A u \in Unit : PathArrives(u) /\ []<>(pending[u] = "none") /\ UnitDies(u)
  /\ \A k \in Kind : []<>(pather[k].status # "waiting")
=============================================================================
