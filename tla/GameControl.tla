---------------------------- MODULE GameControl ----------------------------
(***************************************************************************)
(* The rounds of a netPanzer server: the map cycle of                      *)
(* GameControlRulesDaemon, the teams of TeamManager and the surrender vote *)
(* of VoteManager.  Everything here runs in the one thread of the server;  *)
(* what interleaves is the order in which ticks, requests of players,      *)
(* joins, losses and console commands arrive.                              *)
(*                                                                         *)
(* A request carries the slot of its sender from the moment it was read.   *)
(* A player may be lost between that moment and the routing of the         *)
(* request, so requests also come for slots vacated since the last tick    *)
(* (`left').  The team 0xFF indexes past the end of Teams_lists; what is   *)
(* read there is any team id.                                              *)
(*                                                                         *)
(* Timers are not clocks: whenever one is looked at it may have run out.   *)
(***************************************************************************)
EXTENDS Integers, FiniteSets

CONSTANTS
  Players,     \* the player slots
  Host,        \* the slot of the player who runs a loop-back server
  NoPlayer,    \* no slot
  NumUnitTypes,\* UnitProfileInterface::getNumUnitTypes
  Modes,       \* the kinds of server examined
  MaxCalls     \* bound: forced ends and votes in a behaviour

ASSUME PlayersAssumption == /\ IsFiniteSet(Players)
                            /\ Host \in Players
                            /\ NoPlayer \notin Players
                            /\ Cardinality(Players) < 256
ASSUME BoundsAssumption == /\ NumUnitTypes \in Nat \ {0}
                           /\ MaxCalls \in Nat
                           /\ Modes \subseteq {"teams", "dedicated", "loopback"}

Teams == {0, 1}
NoTeam == 255
Choices == {"yes", "no", "nothing"}

MapCycle == {"idle", "display_endgame_views", "cycle_next_map", "load_map",
             "wait_for_client_map_load", "load_unit_profiles", "sync_profiles",
             "respawn_players", "restart_team", "prepare_team"}

VARIABLES
  mode,        \* game_teammode and execution_mode
  fsm,         \* map_cycle_fsm_server_state
  game_state,
  locked,      \* connection_lock_state of the connect daemon
  connecting,  \* the slot of the handshake in progress
  active,      \* the slots whose PlayerState is active
  left,        \* slots vacated since received packets were last drained
  team,        \* team_id of each slot
  sync_profile_index,
  synced,      \* profiles broadcast since the clients were told to reset them
  vote,        \* the statics of VoteManager
  boxes,       \* the vote boxes the client of each slot has yet to answer
  alive,       \* the process has not died
  calls        \* forced ends and votes so far

cycle == <<fsm, game_state, locked>>
people == <<connecting, active, left>>
profiles == <<sync_profile_index, synced>>
ballot == <<vote, boxes>>
vars == <<mode, cycle, people, team, profiles, ballot, alive, calls>>

teammode == mode = "teams"
MaxPlayers == Cardinality(Players)

TypeOK ==
  /\ mode \in Modes
  /\ fsm \in MapCycle
  /\ game_state \in {"in_progress", "completed", "prepare_team"}
  /\ locked \in BOOLEAN
  /\ connecting \in Players \cup {NoPlayer}
  /\ active \subseteq Players
  /\ left \subseteq Players
  /\ team \in [Players -> Teams \cup {NoTeam}]
  /\ sync_profile_index \in 0..NumUnitTypes
  /\ synced \subseteq 0..NumUnitTypes
  /\ vote \in [in_progress : BOOLEAN, team : Teams \cup {NoTeam}, counter : 0..255,
               players : 0..255, of : [Players -> Choices]]
  /\ boxes \in [Players -> Nat]
  /\ alive \in BOOLEAN
  /\ calls \in 0..MaxCalls

NoVote == [in_progress |-> FALSE, team |-> NoTeam, counter |-> 0, players |-> 0,
           of |-> [p \in Players |-> "nothing"]]
NoBoxes == [p \in Players |-> 0]

\* A PlayerState is created without a team_id; what is in the memory is anything.
Init ==
  /\ mode \in Modes
  /\ fsm = IF teammode THEN "prepare_team" ELSE "idle"
  /\ game_state = IF teammode THEN "prepare_team" ELSE "in_progress"
  /\ locked = FALSE
  /\ connecting = NoPlayer
  /\ active = IF mode = "loopback" THEN {Host} ELSE {}
  /\ left = {}
  /\ IF teammode THEN team \in [Players -> Teams \cup {NoTeam}]
                 ELSE team = [p \in Players |-> NoTeam]
  /\ sync_profile_index = 0
  /\ synced = {}
  /\ vote = NoVote
  /\ boxes = NoBoxes
  /\ alive = TRUE
  /\ calls = 0

-----------------------------------------------------------------------------
(* Teams. *)

Members(tm, act, t) == {p \in act : tm[p] = t}
CountPlayers(tm, act, t) == Cardinality(Members(tm, act, t))

\* The team ids that Teams_lists[t].teamID may be read as.
Read(t) == IF t \in Teams THEN {t} ELSE Teams \cup {NoTeam}

Smallest(tm, act) ==
  CHOOSE t \in Teams : \A u \in Teams \ {t} :
     LET n == CountPlayers(tm, act, t) IN
     n < CountPlayers(tm, act, u) \/ (n = CountPlayers(tm, act, u) /\ t < u)

\* The new player is active and counted in the team its slot had before.
AddPlayer(tm, act, p) == [tm EXCEPT ![p] = Smallest(tm, act)]

MutChangeTeam(tm, act, p, t) == {[tm EXCEPT ![p] = t]}

MutChangeInRound(tm, act, p, t) ==
  {IF MaxPlayers \div 2 > CountPlayers(tm, act, t) THEN [tm EXCEPT ![p] = t] ELSE tm}

ChangeTeam(tm, act, p, t) ==
  LET n == CountPlayers(tm, act, t)
      may(g) == /\ MaxPlayers \div 2 > n
                /\ game_state = "prepare_team" \/ n < CountPlayers(tm, act, g)
  IN {IF may(g) THEN [tm EXCEPT ![p] = t] ELSE tm : g \in Read(tm[p])}

\* Moves one random player of the larger team, if a change of team allows it.
BalancedTeam(tm, act) ==
  LET low == Smallest(tm, act)
      high == 1 - low
  IN IF CountPlayers(tm, act, high) - CountPlayers(tm, act, low) > 1
       THEN UNION {ChangeTeam(tm, act, p, low) : p \in Members(tm, act, high)}
       ELSE {tm}

-----------------------------------------------------------------------------
(* Players come and go. *)

StartConnect(p) ==
  /\ ~locked
  /\ connecting = NoPlayer
  /\ p \notin active
  /\ connecting' = p
  /\ UNCHANGED <<mode, cycle, active, left, team, profiles, ballot, alive, calls>>

\* A handshake takes several ticks, each of which drains the queue.
FinishConnect ==
  /\ connecting \in Players \ left
  /\ active' = active \cup {connecting}
  /\ team' = IF teammode THEN AddPlayer(team, active', connecting) ELSE team
  /\ connecting' = NoPlayer
  /\ UNCHANGED <<mode, cycle, left, profiles, ballot, alive, calls>>

\* A time-out frees the slot without a word to the teams.
DropConnecting ==
  /\ connecting # NoPlayer
  /\ connecting' = NoPlayer
  /\ UNCHANGED <<mode, cycle, active, left, team, profiles, ballot, alive, calls>>

\* The team list is told after the slot was freed, so the player is not counted.
Leave(p) ==
  /\ p \in active \cup {connecting}
  /\ ~(mode = "loopback" /\ p = Host)
  /\ active' = active \ {p}
  /\ connecting' = IF p = connecting THEN NoPlayer ELSE connecting
  /\ left' = left \cup {p}
  /\ IF teammode THEN team' \in BalancedTeam([team EXCEPT ![p] = NoTeam], active')
                 ELSE team' = team
  /\ UNCHANGED <<mode, cycle, profiles, ballot, alive, calls>>

Senders == active \cup left

RequestTeam(p) ==
  /\ teammode
  /\ p \in Senders
  /\ \E t \in Teams : team' \in ChangeTeam(team, active, p, t)
  /\ UNCHANGED <<mode, cycle, people, profiles, ballot, alive, calls>>

-----------------------------------------------------------------------------
(* The map cycle. *)

\* forceMapChange, forceEndRound and the on...GameCompleted handlers.
EndRound == /\ fsm' = "display_endgame_views"
            /\ game_state' = "completed"

ForceEnd ==
  /\ calls < MaxCalls
  /\ calls' = calls + 1
  /\ EndRound
  /\ UNCHANGED <<mode, locked, people, team, profiles, ballot, alive>>

\* Every tick routes all received packets before it looks at the cycle.  What is
\* left of a closed vote is never read again, since resetVote comes first.
Drained == /\ left' = {}
           /\ boxes' = [p \in Players |-> IF p \in left THEN 0 ELSE boxes[p]]
           /\ vote' = IF vote.in_progress THEN vote ELSE NoVote
           /\ UNCHANGED <<mode, connecting, active, alive, calls>>

DisplayEndgameViews ==
  /\ fsm = "display_endgame_views"
  /\ fsm' = "cycle_next_map"
  /\ locked' = TRUE
  /\ UNCHANGED <<game_state, team, profiles>>

MutCycleNextMap ==
  /\ fsm = "cycle_next_map"
  /\ IF mode = "loopback" THEN fsm' \in {"load_map", "idle"}
                          ELSE fsm' = "wait_for_client_map_load"
  /\ UNCHANGED <<game_state, locked, team, profiles>>

\* A loop-back server that cannot load the map gives up, and stays locked.
CycleNextMap ==
  /\ fsm = "cycle_next_map"
  /\ connecting = NoPlayer
  /\ IF mode = "loopback" THEN fsm' \in {"load_map", "idle"}
                          ELSE fsm' = "wait_for_client_map_load"
  /\ UNCHANGED <<game_state, locked, team, profiles>>

LoadMap ==
  /\ fsm \in {"load_map", "wait_for_client_map_load"}
  /\ fsm' = "load_unit_profiles"
  /\ UNCHANGED <<game_state, locked, team, profiles>>

MutLoadUnitProfiles ==
  /\ fsm = "load_unit_profiles"
  /\ fsm' = "sync_profiles"
  /\ synced' = {}
  /\ UNCHANGED <<game_state, locked, team, sync_profile_index>>

LoadUnitProfiles ==
  /\ fsm = "load_unit_profiles"
  /\ fsm' = "sync_profiles"
  /\ sync_profile_index' = 0
  /\ synced' = {}
  /\ UNCHANGED <<game_state, locked, team>>

MutSyncProfiles ==
  /\ fsm = "sync_profiles"
  /\ synced' = synced \cup {sync_profile_index}
  /\ sync_profile_index' = sync_profile_index + 1
  /\ fsm' = IF sync_profile_index' > NumUnitTypes THEN "respawn_players" ELSE fsm
  /\ UNCHANGED <<game_state, locked, team>>

SyncProfiles ==
  /\ fsm = "sync_profiles"
  /\ IF sync_profile_index <= NumUnitTypes
       THEN /\ synced' = synced \cup {sync_profile_index}
            /\ sync_profile_index' = sync_profile_index + 1
       ELSE UNCHANGED profiles
  /\ fsm' = IF sync_profile_index' >= NumUnitTypes THEN "respawn_players" ELSE fsm
  /\ UNCHANGED <<game_state, locked, team>>

MutRespawnPlayers ==
  /\ fsm = "respawn_players"
  /\ fsm' = IF teammode THEN "restart_team" ELSE "idle"
  /\ locked' = ~teammode
  /\ UNCHANGED <<game_state, team, profiles>>

RespawnPlayers ==
  /\ fsm = "respawn_players"
  /\ fsm' = IF teammode THEN "restart_team" ELSE "idle"
  /\ locked' = FALSE
  /\ UNCHANGED <<game_state, team, profiles>>

MutRestartTeam ==
  /\ fsm = "restart_team"
  /\ fsm' = "idle"
  /\ UNCHANGED <<game_state, locked, team, profiles>>

RestartTeam ==
  /\ fsm = "restart_team"
  /\ fsm' = "prepare_team"
  /\ game_state' = "prepare_team"
  /\ UNCHANGED <<locked, team, profiles>>

\* The teams are balanced while the game is still being prepared, and the rules
\* are applied to the new round in the tick that starts it.
PrepareTeam ==
  /\ fsm = "prepare_team"
  /\ team' \in BalancedTeam(team, active)
  /\ EndRound \/ (fsm' = "idle" /\ game_state' = "in_progress")
  /\ UNCHANGED <<locked, profiles>>

CheckGameRules ==
  /\ fsm = "idle"
  /\ game_state = "in_progress"
  /\ EndRound
  /\ UNCHANGED <<locked, team, profiles>>

KeepPlaying ==
  /\ fsm = "idle"
  /\ UNCHANGED <<cycle, team, profiles>>

\* A timer that has not run out, a handshake in progress, a map half loaded.
KeepWaiting ==
  /\ fsm \in {"cycle_next_map", "load_map", "wait_for_client_map_load", "prepare_team"}
  /\ UNCHANGED <<cycle, team, profiles>>

Advance ==
  \/ DisplayEndgameViews \/ CycleNextMap \/ LoadMap \/ LoadUnitProfiles
  \/ SyncProfiles \/ RespawnPlayers \/ RestartTeam \/ PrepareTeam

UpdateGameControlFlow ==
  /\ Advance \/ KeepWaiting \/ CheckGameRules \/ KeepPlaying
  /\ Drained

-----------------------------------------------------------------------------
(* The surrender vote. *)

Asked(t) == IF teammode THEN Members(team, active, t) ELSE active

Voters(t) ==
  IF teammode THEN {CountPlayers(team, active, g) : g \in Read(t)}
              ELSE {Cardinality(active)}

StartSurrenderVote(p) ==
  /\ calls < MaxCalls
  /\ p \in Senders
  /\ ~vote.in_progress
  /\ \E n \in Voters(team[p]) :
        vote' = [in_progress |-> TRUE, team |-> team[p], counter |-> n,
                 players |-> n, of |-> NoVote.of]
  /\ boxes' = [q \in Players |-> boxes[q] + (IF q \in Asked(team[p]) THEN 1 ELSE 0)]
  /\ calls' = calls + 1
  /\ UNCHANGED <<mode, cycle, people, team, profiles, alive>>

Cast(v, choice) == Cardinality({p \in Players : v.of[p] = choice})

\* Integer division; a vote nobody was counted for divides by zero.
Accepted(v) == ((v.players - Cast(v, "no")) * 100) \div v.players > 80

CheckPlayersVote(v) ==
  IF v.players = 0
    THEN /\ alive' = FALSE
         /\ vote' = v
         /\ UNCHANGED cycle
    ELSE /\ vote' = [v EXCEPT !.in_progress = FALSE]
         /\ IF Accepted(v) THEN EndRound /\ UNCHANGED locked ELSE UNCHANGED cycle
         /\ UNCHANGED alive

MutCount(v, p, choice) ==
  LET c == [v EXCEPT !.counter = (@ + 255) % 256, !.of[p] = choice]
  IN IF c.counter = 255 THEN CheckPlayersVote(c) ELSE vote' = c /\ UNCHANGED <<cycle, alive>>

Count(v, p, choice) ==
  LET c == [v EXCEPT !.counter = (@ + 255) % 256, !.of[p] = choice]
  IN IF c.counter < 1 THEN CheckPlayersVote(c) ELSE vote' = c /\ UNCHANGED <<cycle, alive>>

\* A client answers each box once.  No answer names its vote: it may come after
\* that vote is over, and be counted in the next.
VoteSelected(p) ==
  /\ p \in Senders
  /\ boxes[p] > 0
  /\ boxes' = [boxes EXCEPT ![p] = @ - 1]
  /\ IF vote.in_progress THEN \E choice \in Choices : Count(vote, p, choice)
                         ELSE UNCHANGED <<vote, cycle, alive>>
  /\ UNCHANGED <<mode, people, team, profiles, calls>>

MutCheckVoteTimer ==
  /\ boxes = NoBoxes
  /\ vote.in_progress
  /\ CheckPlayersVote(vote)
  /\ UNCHANGED <<mode, people, team, profiles, boxes, calls>>

\* Only the dedicated server looks at the timer.
CheckVoteTimer ==
  /\ mode # "loopback"
  /\ vote.in_progress
  /\ CheckPlayersVote(vote)
  /\ UNCHANGED <<mode, people, team, profiles, boxes, calls>>

-----------------------------------------------------------------------------
EndHandshake == FinishConnect \/ DropConnecting

Requests == \E p \in Players : \/ StartConnect(p) \/ Leave(p) \/ RequestTeam(p)
                               \/ StartSurrenderVote(p) \/ VoteSelected(p)

Run == EndHandshake \/ Requests \/ ForceEnd \/ UpdateGameControlFlow \/ CheckVoteTimer

\* A process that divided by zero is gone.
Dead == ~alive /\ UNCHANGED vars

Next == (alive /\ Run) \/ Dead

Spec == Init /\ [][Next]_vars

\* The timers run out and a map is loaded in the end; an idle server may stay so.
Fairness == /\ WF_vars(alive /\ Advance /\ Drained)
            /\ WF_vars(alive /\ EndHandshake)
            /\ WF_vars(alive /\ CheckVoteTimer)

FairSpec == Spec /\ Fairness

-----------------------------------------------------------------------------
(* Properties. *)

\* The connect process is locked for a map change and never longer: whenever the
\* cycle is over or the teams are forming, players can join again.  Only a loop-back
\* server whose map failed to load stays locked (lockConnectProcess,
\* unlockConnectProcess against every path back to idle, forced ends included).
LockIsReleased ==
  fsm \in {"idle", "restart_team", "prepare_team"} /\ locked => mode = "loopback"

\* When the players respawn, the clients have had the profile of every unit type
\* since they were told to reset them, and none beyond the last
\* (sync_profile_index, tested with <= and reset in another state).
ProfilesAreSynced ==
  /\ synced \subseteq 0..NumUnitTypes - 1
  /\ fsm = "respawn_players" => synced = 0..NumUnitTypes - 1

\* In a game of teams everyone who plays has a team, and no team has more than half
\* of the slots and one: changes of team stop at half, but a new player is counted in
\* the team its slot had before (addPlayer, BalancedTeam, playerRequest_changeTeam).
TeamsAreFair ==
  teammode => /\ \A p \in active : team[p] \in Teams
              /\ \A t \in Teams : CountPlayers(team, active, t) <= MaxPlayers \div 2 + 1

\* By how many players one team is ahead of the other.
Lead(tm, act) ==
  LET d == CountPlayers(tm, act, 0) - CountPlayers(tm, act, 1)
  IN IF d < 0 THEN -d ELSE d

\* While a round is played nobody who comes, goes or changes sides makes the lead of
\* a team grow past two.  It may start with more, since one player is moved before
\* the start, and two only because of how a new player is counted.
LeadsDoNotGrow ==
  [][teammode /\ game_state = "in_progress" /\ game_state' = "in_progress"
       => Lead(team, active)' <= 2 \/ Lead(team, active)' <= Lead(team, active)]_vars

\* An open vote waits for somebody: the counter, one byte that is decremented for
\* every answer, late ones included, is never zero and never wraps, as long as
\* anybody was counted when the vote began (vote_counter).
VoteWaitsForSomebody ==
  vote.in_progress /\ alive /\ vote.players > 0 => vote.counter \in 1..vote.players

\* A dedicated server ends every vote, whoever leaves without an answer
\* (checkVoteTimer in the main loop).
VotesEnd == mode # "loopback" /\ vote.in_progress ~> ~vote.in_progress \/ ~alive

\* In a game of teams the next round is always prepared, whatever ends are forced in
\* the middle of the cycle (mapCycleFsmServer, forceMapChange, forceEndRound).
RoundsGoOn ==
  teammode /\ game_state = "completed" ~> game_state = "prepare_team" \/ ~alive

Phase == CASE fsm = "idle" -> "playing"
           [] fsm \in {"display_endgame_views", "cycle_next_map"} -> "ending"
           [] fsm \in {"restart_team", "prepare_team"} -> "forming"
           [] OTHER -> "loading"

Cycle == INSTANCE RoundCycle WITH phase <- Phase, members <- active

\* The server keeps the promise of RoundCycle: rounds follow each other in order
\* and nobody is let in while a map is loaded (isConnecting and the lock).
RoundCycleSpec == Cycle!Spec
=============================================================================
