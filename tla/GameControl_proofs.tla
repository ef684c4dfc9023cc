------------------------ MODULE GameControl_proofs ------------------------
(***************************************************************************)
(* Proofs about GameControl for any number of slots below 256, any number  *)
(* of unit types, every kind of server and any number of forced ends: the  *)
(* rounds first, then the votes and what the teams are counted by.         *)
(***************************************************************************)
EXTENDS GameControl, FiniteSetTheorems, TLAPS

USE PlayersAssumption, BoundsAssumption DEF PlayersAssumption, BoundsAssumption

----------------------------------------------------------------------------
(* The helpers. *)

\* A set of slots has a size, and it fits into the byte that counts voters.
LEMMA SlotsCount ==
  ASSUME NEW S \in SUBSET Players
  PROVE  Cardinality(S) \in 0..255
<1>1. IsFiniteSet(S) /\ Cardinality(S) <= Cardinality(Players)
  BY FS_Subset
<1>2. Cardinality(S) \in Nat /\ Cardinality(Players) \in Nat
  BY <1>1, FS_CardinalityType
<1>3. QED
  BY <1>1, <1>2

LEMMA TeamCount ==
  ASSUME NEW tm, NEW act \in SUBSET Players, NEW t
  PROVE  CountPlayers(tm, act, t) \in 0..255
<1>1. Members(tm, act, t) \in SUBSET Players
  BY DEF Members
<1>2. QED
  BY <1>1, SlotsCount DEF CountPlayers

\* Some team is the first of the smallest ones.
LEMMA SmallestIsTeam ==
  ASSUME NEW tm, NEW act \in SUBSET Players
  PROVE  /\ Smallest(tm, act) \in Teams
         /\ \A u \in Teams :
              CountPlayers(tm, act, Smallest(tm, act)) <= CountPlayers(tm, act, u)
<1> DEFINE n0 == CountPlayers(tm, act, 0)
           n1 == CountPlayers(tm, act, 1)
<1>1. n0 \in Int /\ n1 \in Int
  BY TeamCount
<1>2. \E t \in Teams : \A u \in Teams \ {t} :
         LET n == CountPlayers(tm, act, t) IN
         n < CountPlayers(tm, act, u) \/ (n = CountPlayers(tm, act, u) /\ t < u)
  <2> DEFINE First(t) == \A u \in Teams \ {t} :
                LET n == CountPlayers(tm, act, t) IN
                n < CountPlayers(tm, act, u) \/ (n = CountPlayers(tm, act, u) /\ t < u)
  <2>1. CASE n0 <= n1
    <3>1. First(0)
      BY <1>1, <2>1 DEF Teams
    <3>2. QED
      BY <3>1 DEF Teams
  <2>2. CASE n1 < n0
    <3>1. First(1)
      BY <1>1, <2>2 DEF Teams
    <3>2. QED
      BY <3>1 DEF Teams
  <2>3. QED
    BY <1>1, <2>1, <2>2
<1>3. /\ Smallest(tm, act) \in Teams
      /\ \A u \in Teams \ {Smallest(tm, act)} :
           LET n == CountPlayers(tm, act, Smallest(tm, act)) IN
           n < CountPlayers(tm, act, u)
             \/ (n = CountPlayers(tm, act, u) /\ Smallest(tm, act) < u)
  BY <1>2 DEF Smallest
<1>4. \A u \in Teams : CountPlayers(tm, act, u) \in Int
  BY TeamCount
<1>5. QED
  BY <1>3, <1>4

Sides == [Players -> Teams \cup {NoTeam}]

\* Whatever a change of team or the balancing decides, every slot keeps a team id.
LEMMA ChangeTeamType ==
  ASSUME NEW tm \in Sides, NEW act \in SUBSET Players, NEW p \in Players, NEW t \in Teams
  PROVE  ChangeTeam(tm, act, p, t) \subseteq Sides
BY DEF ChangeTeam, Sides

LEMMA BalancedTeamType ==
  ASSUME NEW tm \in Sides, NEW act \in SUBSET Players
  PROVE  BalancedTeam(tm, act) \subseteq Sides
<1>1. \A t : Members(tm, act, t) \subseteq Players
  BY DEF Members
<1>2. QED
  BY <1>1, SmallestIsTeam, ChangeTeamType DEF BalancedTeam

LEMMA AddPlayerType ==
  ASSUME NEW tm \in Sides, NEW act \in SUBSET Players, NEW p \in Players
  PROVE  AddPlayer(tm, act, p) \in Sides
BY SmallestIsTeam DEF AddPlayer, Sides

Votes == [in_progress : BOOLEAN, team : Teams \cup {NoTeam}, counter : 0..255,
          players : 0..255, of : [Players -> Choices]]

\* Counting an answer or closing a vote keeps the records of VoteManager in range.
LEMMA CloseType ==
  ASSUME TypeOK, NEW v \in Votes, CheckPlayersVote(v)
  PROVE  /\ vote' \in Votes /\ alive' \in BOOLEAN
         /\ fsm' \in MapCycle /\ locked' = locked
         /\ game_state' \in {"in_progress", "completed", "prepare_team"}
<1>1. CASE v.players = 0
  <2>1. vote' = v /\ alive' = FALSE /\ UNCHANGED cycle
    BY <1>1 DEF CheckPlayersVote
  <2>2. QED
    BY <2>1 DEF TypeOK, cycle
<1>2. CASE v.players # 0
  <2>1. vote' = [v EXCEPT !.in_progress = FALSE] /\ alive' = alive
    BY <1>2 DEF CheckPlayersVote
  <2>2. (EndRound /\ locked' = locked) \/ UNCHANGED cycle
    BY <1>2 DEF CheckPlayersVote
  <2>3. QED
    BY <2>1, <2>2 DEF TypeOK, Votes, EndRound, MapCycle, cycle
<1>3. QED
  BY <1>1, <1>2

LEMMA CountType ==
  ASSUME TypeOK, NEW v \in Votes, NEW p \in Players, NEW choice \in Choices,
         Count(v, p, choice)
  PROVE  /\ vote' \in Votes /\ alive' \in BOOLEAN
         /\ fsm' \in MapCycle /\ locked' = locked
         /\ game_state' \in {"in_progress", "completed", "prepare_team"}
<1> DEFINE c == [v EXCEPT !.counter = (@ + 255) % 256, !.of[p] = choice]
<1>1. c \in Votes
  <2> DEFINE k == (v.counter + 255) % 256
  <2>1. k \in 0..255
    BY DEF Votes
  <2>2. c = [v EXCEPT !.counter = k, !.of[p] = choice]
    OBVIOUS
  <2> HIDE DEF k, c
  <2>3. QED
    BY <2>1, <2>2 DEF Votes
<1>2. CASE c.counter < 1
  BY <1>1, <1>2, CloseType DEF Count
<1>3. CASE ~(c.counter < 1)
  BY <1>1, <1>3 DEF Count, TypeOK, cycle
<1>4. QED
  BY <1>2, <1>3

----------------------------------------------------------------------------
(* The type invariant. *)

LEMMA TypeInit == Init => TypeOK
<1> SUFFICES ASSUME Init PROVE TypeOK
  OBVIOUS
<1>1. NoVote \in Votes
  BY DEF NoVote, Votes, Choices, NoTeam
<1>2. team \in Sides
  BY DEF Init, Sides
<1>3. QED
  <2>1. /\ mode \in Modes /\ fsm \in MapCycle
        /\ game_state \in {"in_progress", "completed", "prepare_team"}
        /\ locked \in BOOLEAN /\ connecting \in Players \cup {NoPlayer}
        /\ active \subseteq Players /\ left \subseteq Players
    BY DEF Init, MapCycle
  <2>2. /\ sync_profile_index \in 0..NumUnitTypes
        /\ synced \subseteq 0..NumUnitTypes
        /\ boxes \in [Players -> Nat] /\ alive \in BOOLEAN /\ calls \in 0..MaxCalls
    BY DEF Init, NoBoxes
  <2>3. vote \in Votes
    BY <1>1 DEF Init
  <2>4. QED
    BY <1>2, <2>1, <2>2, <2>3 DEF TypeOK, Votes, Sides

\* While the profiles are sent, exactly those below the index have been sent, and
\* one is left; this is what keeps the index in its range.
Sent == /\ synced \subseteq 0..NumUnitTypes - 1
        /\ fsm = "sync_profiles" => /\ sync_profile_index < NumUnitTypes
                                    /\ synced = 0..sync_profile_index - 1
        /\ fsm = "respawn_players" => synced = 0..NumUnitTypes - 1

\* One step of the map cycle.
LEMMA CycleType ==
  ASSUME TypeOK, Sent, UpdateGameControlFlow
  PROVE  TypeOK'
<1>1. /\ UNCHANGED <<mode, connecting, active, alive, calls>>
      /\ left' \subseteq Players /\ boxes' \in [Players -> Nat]
      /\ vote' \in Votes
  BY DEF UpdateGameControlFlow, Drained, TypeOK, Votes, NoVote, Choices, NoTeam
<1>2. /\ fsm' \in MapCycle /\ locked' \in BOOLEAN
      /\ game_state' \in {"in_progress", "completed", "prepare_team"}
      /\ team' \in Sides
      /\ sync_profile_index' \in 0..NumUnitTypes
      /\ synced' \subseteq 0..NumUnitTypes
  <2>0. /\ fsm \in MapCycle /\ locked \in BOOLEAN
        /\ game_state \in {"in_progress", "completed", "prepare_team"}
        /\ team \in Sides /\ active \subseteq Players
        /\ sync_profile_index \in 0..NumUnitTypes
        /\ synced \subseteq 0..NumUnitTypes
        /\ 0 \in 0..NumUnitTypes
    BY DEF TypeOK, Sides
  <2>1. CASE DisplayEndgameViews \/ CycleNextMap \/ LoadMap
    BY <2>0, <2>1 DEF DisplayEndgameViews, CycleNextMap, LoadMap, MapCycle, profiles
  <2>2. CASE LoadUnitProfiles
    BY <2>0, <2>2 DEF LoadUnitProfiles, MapCycle
  <2>3. CASE RespawnPlayers
    BY <2>0, <2>3 DEF RespawnPlayers, MapCycle, profiles
  <2>4. CASE RestartTeam
    BY <2>0, <2>4 DEF RestartTeam, MapCycle, profiles
  <2>5. CASE SyncProfiles
    <3>1. /\ fsm = "sync_profiles" /\ UNCHANGED <<game_state, locked, team>>
          /\ fsm' \in {fsm, "respawn_players"}
      BY <2>5 DEF SyncProfiles
    <3>2. sync_profile_index' = sync_profile_index + 1
          /\ synced' = synced \cup {sync_profile_index}
      BY <2>0, <2>5 DEF SyncProfiles
    <3>3. sync_profile_index < NumUnitTypes
      BY <3>1 DEF Sent
    <3>4. QED
      BY <2>0, <3>1, <3>2, <3>3 DEF MapCycle
  <2>6. CASE PrepareTeam
    BY <2>0, <2>6, BalancedTeamType DEF PrepareTeam, MapCycle, profiles, EndRound
  <2>7. CASE CheckGameRules \/ KeepPlaying \/ KeepWaiting
    BY <2>0, <2>7 DEF CheckGameRules, KeepPlaying, KeepWaiting, MapCycle, profiles, cycle, EndRound
  <2>8. QED
    BY <2>1, <2>2, <2>3, <2>4, <2>5, <2>6, <2>7 DEF UpdateGameControlFlow, Advance
<1>3. QED
  BY <1>1, <1>2 DEF TypeOK, Votes, Sides

LEMMA TypeStep == ASSUME TypeOK, Sent, [Next]_vars PROVE TypeOK'
<1> USE DEF TypeOK, cycle, people, profiles, ballot
<1>0. CASE UNCHANGED vars
  BY <1>0 DEF vars
<1>1. CASE FinishConnect
  <2>1. active' \subseteq Players
    BY <1>1 DEF FinishConnect
  <2>2. team' \in Sides
    BY <1>1, <2>1, AddPlayerType DEF FinishConnect, Sides
  <2>3. QED
    BY <1>1, <2>1, <2>2 DEF FinishConnect, Sides
<1>2. CASE DropConnecting
  BY <1>2 DEF DropConnecting
<1>3. ASSUME NEW p \in Players, StartConnect(p) PROVE TypeOK'
  BY <1>3 DEF StartConnect
<1>4. ASSUME NEW p \in Players, Leave(p) PROVE TypeOK'
  <2>1. active' \subseteq Players /\ [team EXCEPT ![p] = NoTeam] \in Sides
    BY <1>4 DEF Leave, Sides
  <2>2. team' \in Sides
    BY <1>4, <2>1, BalancedTeamType DEF Leave, Sides
  <2>3. QED
    BY <1>4, <2>1, <2>2 DEF Leave, Sides
<1>5. ASSUME NEW p \in Players, RequestTeam(p) PROVE TypeOK'
  <2>1. team' \in Sides
    BY <1>5, ChangeTeamType DEF RequestTeam, Sides
  <2>2. QED
    BY <1>5, <2>1 DEF RequestTeam, Sides
<1>6. ASSUME NEW p \in Players, StartSurrenderVote(p) PROVE TypeOK'
  <2>1. Voters(team[p]) \subseteq 0..255
    BY SlotsCount, TeamCount DEF Voters
  <2>2. PICK n \in 0..255 :
          vote' = [in_progress |-> TRUE, team |-> team[p], counter |-> n,
                   players |-> n, of |-> NoVote.of]
    BY <1>6, <2>1 DEF StartSurrenderVote
  <2>3. vote' \in Votes
    BY <2>2 DEF Votes, NoVote, Choices
  <2>4. Asked(team[p]) \subseteq Players
    BY DEF Asked, Members
  <2>5. calls' \in 0..MaxCalls
    BY <1>6 DEF StartSurrenderVote
  <2>6. QED
    BY <1>6, <2>3, <2>4, <2>5 DEF StartSurrenderVote, Votes
<1>7. ASSUME NEW p \in Players, VoteSelected(p) PROVE TypeOK'
  <2>1. /\ vote' \in Votes /\ alive' \in BOOLEAN
        /\ fsm' \in MapCycle /\ locked' = locked
        /\ game_state' \in {"in_progress", "completed", "prepare_team"}
    <3>1. CASE vote.in_progress
      BY <1>7, <3>1, CountType DEF VoteSelected, Votes
    <3>2. CASE ~vote.in_progress
      BY <1>7, <3>2 DEF VoteSelected, Votes
    <3>3. QED
      BY <3>1, <3>2
  <2>2. QED
    BY <1>7, <2>1 DEF VoteSelected, Votes
<1>8. CASE ForceEnd
  <2>1. calls' \in 0..MaxCalls
    BY <1>8 DEF ForceEnd
  <2>2. fsm' \in MapCycle /\ game_state' = "completed"
    BY <1>8 DEF ForceEnd, EndRound, MapCycle
  <2>3. QED
    BY <1>8, <2>1, <2>2 DEF ForceEnd
<1>9. CASE CheckVoteTimer
  <2>1. /\ vote' \in Votes /\ alive' \in BOOLEAN
        /\ fsm' \in MapCycle /\ locked' = locked
        /\ game_state' \in {"in_progress", "completed", "prepare_team"}
    BY <1>9, CloseType DEF CheckVoteTimer, Votes
  <2>2. QED
    BY <1>9, <2>1 DEF CheckVoteTimer, Votes
<1>10. CASE Dead
  BY <1>10 DEF Dead, vars
<1>11. QED
  BY <1>0, <1>1, <1>2, <1>3, <1>4, <1>5, <1>6, <1>7, <1>8, <1>9, <1>10, CycleType
     DEF Next, Run, EndHandshake, Requests

----------------------------------------------------------------------------
(* The profiles, the lock and the order of the rounds. *)

\* What every step but those of the cycle does to the state of the map cycle.
LEMMA Outside ==
  ASSUME Next, ~UpdateGameControlFlow
  PROVE  /\ UNCHANGED <<mode, locked, profiles>>
         /\ EndRound \/ UNCHANGED <<fsm, game_state>>
<1> USE DEF cycle, people, profiles, ballot
<1>1. ASSUME NEW v, CheckPlayersVote(v)
      PROVE  UNCHANGED locked /\ (EndRound \/ UNCHANGED <<fsm, game_state>>)
  BY <1>1 DEF CheckPlayersVote
<1>2. CASE EndHandshake
  BY <1>2 DEF EndHandshake, FinishConnect, DropConnecting
<1>3. ASSUME NEW p \in Players, StartConnect(p) \/ Leave(p) \/ RequestTeam(p)
      PROVE  UNCHANGED <<mode, locked, profiles, fsm, game_state>>
  BY <1>3 DEF StartConnect, Leave, RequestTeam
<1>4. ASSUME NEW p \in Players, StartSurrenderVote(p)
      PROVE  UNCHANGED <<mode, locked, profiles, fsm, game_state>>
  BY <1>4 DEF StartSurrenderVote
<1>5. ASSUME NEW p \in Players, VoteSelected(p)
      PROVE  /\ UNCHANGED <<mode, locked, profiles>>
             /\ EndRound \/ UNCHANGED <<fsm, game_state>>
  <2>1. CASE vote.in_progress
    <3>1. PICK choice \in Choices : Count(vote, p, choice)
      BY <1>5, <2>1 DEF VoteSelected
    <3>2. UNCHANGED locked /\ (EndRound \/ UNCHANGED <<fsm, game_state>>)
      BY <1>1, <3>1 DEF Count
    <3>3. QED
      BY <1>5, <3>2 DEF VoteSelected
  <2>2. CASE ~vote.in_progress
    BY <1>5, <2>2 DEF VoteSelected
  <2>3. QED
    BY <2>1, <2>2
<1>6. CASE ForceEnd
  BY <1>6 DEF ForceEnd
<1>7. CASE CheckVoteTimer
  BY <1>1, <1>7 DEF CheckVoteTimer
<1>8. CASE Dead
  BY <1>8 DEF Dead, vars
<1>9. QED
  BY <1>2, <1>3, <1>4, <1>5, <1>6, <1>7, <1>8 DEF Next, Run, Requests

LEMMA SentStep == ASSUME TypeOK, Sent, [Next]_vars PROVE Sent'
<1>1. CASE UNCHANGED vars
  BY <1>1 DEF Sent, vars, cycle, profiles
<1>2. CASE Next /\ ~UpdateGameControlFlow
  BY <1>2, Outside DEF Sent, profiles, EndRound
<1>3. CASE LoadUnitProfiles
  BY <1>3 DEF Sent, LoadUnitProfiles
<1>4. CASE SyncProfiles
  <2>1. /\ fsm = "sync_profiles"
        /\ fsm' = IF sync_profile_index' >= NumUnitTypes THEN "respawn_players" ELSE fsm
    BY <1>4 DEF SyncProfiles
  <2>2. /\ sync_profile_index \in Nat /\ sync_profile_index < NumUnitTypes
        /\ synced = 0..sync_profile_index - 1
    BY <2>1 DEF Sent, TypeOK
  <2>3. /\ sync_profile_index' = sync_profile_index + 1
        /\ synced' = synced \cup {sync_profile_index}
    BY <1>4, <2>2 DEF SyncProfiles
  <2>4. synced' = 0..sync_profile_index' - 1
    BY <2>2, <2>3
  <2>5. QED
    BY <2>1, <2>2, <2>3, <2>4 DEF Sent
<1>5. CASE DisplayEndgameViews \/ CycleNextMap \/ LoadMap
  BY <1>5 DEF Sent, DisplayEndgameViews, CycleNextMap, LoadMap, profiles
<1>6. CASE RespawnPlayers \/ RestartTeam \/ PrepareTeam
  BY <1>6 DEF Sent, RespawnPlayers, RestartTeam, PrepareTeam, profiles, EndRound
<1>7. CASE CheckGameRules \/ KeepPlaying \/ KeepWaiting
  BY <1>7 DEF Sent, CheckGameRules, KeepPlaying, KeepWaiting, profiles, cycle, EndRound
<1>8. QED
  BY <1>1, <1>2, <1>3, <1>4, <1>5, <1>6, <1>7 DEF UpdateGameControlFlow, Advance

LEMMA SentInit == Init => Sent
BY DEF Init, Sent

\* The records and the counters of the rounds, teams and votes stay in their types:
\* no index passes the last profile and no byte that counts votes leaves its range.
THEOREM TypeCorrect == Spec => []TypeOK
<1>1. TypeOK /\ Sent /\ [Next]_vars => TypeOK' /\ Sent'
  BY TypeStep, SentStep
<1>2. QED
  BY TypeInit, SentInit, <1>1, PTL DEF Spec

\* When the players respawn, every client has been sent the profile of every unit type
\* since the reset, whatever ends were forced in between, and none beyond the last.
THEOREM ProfilesCorrect == Spec => []ProfilesAreSynced
<1>1. TypeOK /\ Sent /\ [Next]_vars => TypeOK' /\ Sent'
  BY TypeStep, SentStep
<1>2. Sent => ProfilesAreSynced
  BY DEF Sent, ProfilesAreSynced
<1>3. QED
  BY TypeInit, SentInit, <1>1, <1>2, PTL DEF Spec

Loading == {"load_map", "wait_for_client_map_load", "load_unit_profiles",
            "sync_profiles", "respawn_players"}

\* The lock is taken before the wait for the handshake in progress begins, so none can
\* begin after that wait is over.
LockHeld == /\ fsm \in Loading \cup {"cycle_next_map"} => locked
            /\ fsm \in Loading => connecting = NoPlayer

LockInv == LockHeld /\ LockIsReleased

\* Outside the cycle, a handshake begins only without the lock.
LEMMA Joining ==
  ASSUME Next, ~UpdateGameControlFlow
  PROVE  connecting' \in {connecting, NoPlayer} \/ ~locked
<1>1. ASSUME NEW p \in Players, StartConnect(p) \/ Leave(p)
      PROVE  connecting' \in {connecting, NoPlayer} \/ ~locked
  BY <1>1 DEF StartConnect, Leave
<1>2. ASSUME NEW p \in Players,
             RequestTeam(p) \/ StartSurrenderVote(p) \/ VoteSelected(p)
      PROVE  connecting' = connecting
  BY <1>2 DEF RequestTeam, StartSurrenderVote, VoteSelected, people
<1>3. CASE EndHandshake
  BY <1>3 DEF EndHandshake, FinishConnect, DropConnecting
<1>4. CASE ForceEnd \/ CheckVoteTimer \/ Dead
  BY <1>4 DEF ForceEnd, CheckVoteTimer, Dead, people, vars
<1>5. QED
  BY <1>1, <1>2, <1>3, <1>4 DEF Next, Run, Requests

LEMMA LockInit == Init => LockInv
BY DEF Init, LockInv, LockHeld, LockIsReleased, Loading

LEMMA LockStep == ASSUME TypeOK, LockInv, [Next]_vars PROVE LockInv'
<1> USE DEF LockInv, LockHeld, LockIsReleased, Loading
<1>1. CASE UNCHANGED vars
  BY <1>1 DEF vars, cycle, people
<1>2. CASE Next /\ ~UpdateGameControlFlow
  BY <1>2, Outside, Joining DEF EndRound
<1>3. CASE UpdateGameControlFlow
  <2>0. UNCHANGED <<mode, connecting>>
    BY <1>3 DEF UpdateGameControlFlow, Drained
  <2>1. CASE DisplayEndgameViews \/ CycleNextMap \/ LoadMap
    BY <2>0, <2>1 DEF DisplayEndgameViews, CycleNextMap, LoadMap
  <2>2. CASE LoadUnitProfiles \/ SyncProfiles
    BY <2>0, <2>2 DEF LoadUnitProfiles, SyncProfiles
  <2>3. CASE RespawnPlayers
    BY <2>0, <2>3 DEF RespawnPlayers
  <2>4. CASE RestartTeam
    BY <2>0, <2>4 DEF RestartTeam
  <2>5. CASE PrepareTeam
    BY <2>0, <2>5 DEF PrepareTeam, EndRound
  <2>6. CASE CheckGameRules \/ KeepPlaying \/ KeepWaiting
    BY <2>0, <2>6 DEF CheckGameRules, KeepPlaying, KeepWaiting, cycle, EndRound
  <2>7. QED
    BY <1>3, <2>1, <2>2, <2>3, <2>4, <2>5, <2>6 DEF UpdateGameControlFlow, Advance
<1>4. QED
  BY <1>1, <1>2, <1>3

IInv == TypeOK /\ Sent /\ LockInv

LEMMA IInvCorrect == Spec => []IInv
<1>1. Init => IInv
  BY TypeInit, SentInit, LockInit DEF IInv
<1>2. IInv /\ [Next]_vars => IInv'
  BY TypeStep, SentStep, LockStep DEF IInv
<1>3. QED
  BY <1>1, <1>2, PTL DEF Spec

\* Whatever ends are forced, when the cycle is over or the teams are forming the server
\* takes players again, except for the loop-back server whose map did not load.
THEOREM LockCorrect == Spec => []LockIsReleased
<1>1. IInv => LockIsReleased
  BY DEF IInv, LockInv
<1>2. QED
  BY IInvCorrect, <1>1, PTL

----------------------------------------------------------------------------
(* The refinement of RoundCycle. *)

\* What every step but those of the cycle does to the set of players.
LEMMA Crowd ==
  ASSUME TypeOK, LockInv, Next, ~UpdateGameControlFlow
  PROVE  \/ active' = active
         \/ /\ UNCHANGED fsm
            /\ \E p \in Players : /\ fsm \notin Loading
                                  /\ active' = active \cup {p}
         \/ /\ UNCHANGED fsm
            /\ \E p \in Players : active' = active \ {p}
<1>1. CASE FinishConnect
  <2>1. connecting \in Players /\ fsm \notin Loading
    BY <1>1 DEF FinishConnect, LockInv, LockHeld
  <2>2. QED
    BY <1>1, <2>1 DEF FinishConnect, cycle
<1>2. ASSUME NEW p \in Players, Leave(p)
      PROVE  UNCHANGED fsm /\ active' = active \ {p}
  BY <1>2 DEF Leave, cycle
<1>3. ASSUME NEW p \in Players,
             \/ StartConnect(p) \/ RequestTeam(p)
             \/ StartSurrenderVote(p) \/ VoteSelected(p)
      PROVE  active' = active
  BY <1>3 DEF StartConnect, RequestTeam, StartSurrenderVote, VoteSelected, people
<1>4. CASE DropConnecting \/ ForceEnd \/ CheckVoteTimer \/ Dead
  BY <1>4 DEF DropConnecting, ForceEnd, CheckVoteTimer, Dead, people, vars
<1>5. QED
  BY <1>1, <1>2, <1>3, <1>4 DEF Next, Run, EndHandshake, Requests

LEMMA PhaseOf ==
  ASSUME fsm \in MapCycle
  PROVE  /\ fsm = "idle" <=> Phase = "playing"
         /\ fsm \in {"display_endgame_views", "cycle_next_map"} <=> Phase = "ending"
         /\ fsm \in {"restart_team", "prepare_team"} <=> Phase = "forming"
         /\ fsm \in Loading <=> Phase = "loading"
BY DEF Phase, MapCycle, Loading

LEMMA PhaseOfNext ==
  ASSUME fsm' \in MapCycle
  PROVE  /\ fsm' = "idle" => Phase' = "playing"
         /\ fsm' \in {"display_endgame_views", "cycle_next_map"} => Phase' = "ending"
         /\ fsm' \in {"restart_team", "prepare_team"} => Phase' = "forming"
         /\ fsm' \in Loading => Phase' = "loading"
BY DEF Phase, MapCycle, Loading

LEMMA CycleInit == Init => Cycle!Init
BY DEF Init, Cycle!Init, Phase

LEMMA CycleStep ==
  ASSUME IInv, IInv', [Next]_vars
  PROVE  [Cycle!Next]_(Cycle!vars)
<1> USE DEF Cycle!vars
<1>0. fsm \in MapCycle /\ fsm' \in MapCycle /\ TypeOK /\ LockInv /\ active \subseteq Players
  BY DEF IInv, TypeOK
<1>1. CASE UNCHANGED vars
  BY <1>1 DEF vars, cycle, people, Phase
<1>2. CASE Next /\ ~UpdateGameControlFlow
  <2>1. EndRound \/ UNCHANGED fsm
    BY <1>2, Outside
  <2>2. CASE active' = active
    <3>1. CASE EndRound
      BY <1>0, <2>2, <3>1, PhaseOfNext DEF EndRound, Cycle!Next, Cycle!End
    <3>2. CASE UNCHANGED fsm
      BY <2>2, <3>2 DEF Phase
    <3>3. QED
      BY <2>1, <3>1, <3>2
  <2>3. ASSUME UNCHANGED fsm, NEW p \in Players,
               fsm \notin Loading, active' = active \cup {p}
        PROVE  [Cycle!Next]_(Cycle!vars)
    <3>1. Phase' = Phase /\ Phase # "loading"
      BY <1>0, <2>3, PhaseOf DEF Phase
    <3>2. CASE p \in active
      BY <2>3, <3>1, <3>2
    <3>3. CASE p \notin active
      BY <2>3, <3>1, <3>3 DEF Cycle!Next, Cycle!Join
    <3>4. QED
      BY <3>2, <3>3
  <2>4. ASSUME UNCHANGED fsm, NEW p \in Players, active' = active \ {p}
        PROVE  [Cycle!Next]_(Cycle!vars)
    <3>1. Phase' = Phase
      BY <2>4 DEF Phase
    <3>2. CASE p \in active
      BY <2>4, <3>1, <3>2 DEF Cycle!Next, Cycle!Go
    <3>3. CASE p \notin active
      BY <2>4, <3>1, <3>3
    <3>4. QED
      BY <3>2, <3>3
  <2>5. QED
    BY <1>0, <1>2, <2>2, <2>3, <2>4, Crowd
<1>3. CASE UpdateGameControlFlow
  <2>0. active' = active
    BY <1>3 DEF UpdateGameControlFlow, Drained
  <2>1. CASE DisplayEndgameViews
    BY <1>0, <2>0, <2>1, PhaseOf, PhaseOfNext DEF DisplayEndgameViews
  <2>2. CASE CycleNextMap
    BY <1>0, <2>0, <2>2, PhaseOf, PhaseOfNext
       DEF CycleNextMap, Loading, Cycle!Next, Cycle!Load, Cycle!LoadFails
  <2>3. CASE LoadMap \/ LoadUnitProfiles
    BY <1>0, <2>0, <2>3, PhaseOf, PhaseOfNext DEF LoadMap, LoadUnitProfiles, Loading
  <2>4. CASE SyncProfiles
    BY <1>0, <2>0, <2>4, PhaseOf, PhaseOfNext DEF SyncProfiles, Loading
  <2>5. CASE RespawnPlayers
    BY <1>0, <2>0, <2>5, PhaseOf, PhaseOfNext
       DEF RespawnPlayers, Loading, Cycle!Next, Cycle!Form
  <2>6. CASE RestartTeam
    BY <1>0, <2>0, <2>6, PhaseOf, PhaseOfNext DEF RestartTeam
  <2>7. CASE PrepareTeam
    BY <1>0, <2>0, <2>7, PhaseOf, PhaseOfNext
       DEF PrepareTeam, EndRound, Cycle!Next, Cycle!Start
  <2>8. CASE CheckGameRules
    BY <1>0, <2>0, <2>8, PhaseOfNext DEF CheckGameRules, EndRound, Cycle!Next, Cycle!End
  <2>9. CASE KeepPlaying \/ KeepWaiting
    BY <2>0, <2>9 DEF KeepPlaying, KeepWaiting, cycle, Phase
  <2>10. QED
    BY <1>3, <2>1, <2>2, <2>3, <2>4, <2>5, <2>6, <2>7, <2>8, <2>9
       DEF UpdateGameControlFlow, Advance
<1>4. QED
  BY <1>1, <1>2, <1>3

\* The server implements RoundCycle: its rounds follow each other in order and no
\* player enters a game whose map is being loaded.
THEOREM CycleCorrect == Spec => RoundCycleSpec
<1>1. IInv /\ IInv' /\ [Next]_vars => [Cycle!Next]_(Cycle!vars)
  BY CycleStep
<1>2. QED
  BY IInvCorrect, CycleInit, <1>1, PTL DEF Spec, RoundCycleSpec, Cycle!Spec

----------------------------------------------------------------------------
(* The votes. *)

HIDE BoundsAssumption DEF BoundsAssumption

\* An answer that does not close the vote leaves somebody to wait for.
LEMMA VoteStep ==
  ASSUME TypeOK, VoteWaitsForSomebody, [Next]_vars
  PROVE  VoteWaitsForSomebody'
<1> USE DEF VoteWaitsForSomebody
<1>0. vote \in Votes
  BY DEF TypeOK, Votes
<1>1. ASSUME NEW v, v.players = vote.players, v \in Votes, CheckPlayersVote(v)
      PROVE  VoteWaitsForSomebody'
  <2>1. CASE v.players = 0
    BY <1>1, <2>1 DEF CheckPlayersVote
  <2>2. CASE v.players # 0
    BY <1>1, <2>2 DEF CheckPlayersVote, Votes
  <2>3. QED
    BY <2>1, <2>2
<1>2. ASSUME NEW p \in Players, NEW choice \in Choices, vote.in_progress,
             Count(vote, p, choice), alive
      PROVE  VoteWaitsForSomebody'
  <2> DEFINE k == (vote.counter + 255) % 256
             c == [vote EXCEPT !.counter = (@ + 255) % 256, !.of[p] = choice]
  <2>1. k \in 0..255 /\ (vote.counter > 0 => k = vote.counter - 1)
    BY <1>0 DEF Votes
  <2>2. c.counter = k /\ c.players = vote.players /\ c \in Votes
    <3>1. c = [vote EXCEPT !.counter = k, !.of[p] = choice]
      OBVIOUS
    <3> HIDE DEF k, c
    <3>2. QED
      BY <1>0, <2>1, <3>1 DEF Votes
  <2>3. CASE c.counter < 1
    BY <1>1, <1>2, <2>2, <2>3 DEF Count
  <2>4. CASE ~(c.counter < 1)
    <3>1. vote' = c
      BY <1>2, <2>4 DEF Count
    <3>2. QED
      BY <1>0, <1>2, <2>1, <2>2, <2>4, <3>1 DEF Votes
  <2>5. QED
    BY <2>3, <2>4
<1>3. ASSUME NEW p \in Players, StartSurrenderVote(p)
      PROVE  VoteWaitsForSomebody'
  <2>1. Voters(team[p]) \subseteq 0..255
    BY SlotsCount, TeamCount DEF Voters, TypeOK
  <2>2. PICK n \in 0..255 :
          vote' = [in_progress |-> TRUE, team |-> team[p], counter |-> n,
                   players |-> n, of |-> NoVote.of]
    BY <1>3, <2>1 DEF StartSurrenderVote
  <2>3. QED
    BY <2>2
<1>4. ASSUME NEW p \in Players, VoteSelected(p), alive
      PROVE  VoteWaitsForSomebody'
  BY <1>2, <1>4 DEF VoteSelected
<1>5. ASSUME NEW p \in Players, StartConnect(p) \/ Leave(p) \/ RequestTeam(p)
      PROVE  UNCHANGED <<vote, alive>>
  BY <1>5 DEF StartConnect, Leave, RequestTeam, ballot
<1>6. CASE EndHandshake \/ ForceEnd
  BY <1>6 DEF EndHandshake, FinishConnect, DropConnecting, ForceEnd, ballot
<1>7. CASE UpdateGameControlFlow
  BY <1>7 DEF UpdateGameControlFlow, Drained, NoVote
<1>8. CASE CheckVoteTimer
  BY <1>0, <1>1, <1>8 DEF CheckVoteTimer
<1>9. CASE UNCHANGED vars
  BY <1>9 DEF vars, ballot
<1>10. QED
  BY <1>3, <1>4, <1>5, <1>6, <1>7, <1>8, <1>9 DEF Next, Run, Requests, Dead

\* As long as anybody was counted when a vote began, an open vote waits for at least
\* one answer: its byte never wraps, whatever late answers are counted in it.
THEOREM VoteCorrect == Spec => []VoteWaitsForSomebody
<1>1. TypeOK /\ VoteWaitsForSomebody /\ [Next]_vars => VoteWaitsForSomebody'
  BY VoteStep
<1>2. Init => VoteWaitsForSomebody
  BY DEF Init, VoteWaitsForSomebody, NoVote
<1>3. QED
  BY <1>1, <1>2, TypeCorrect, PTL DEF Spec

----------------------------------------------------------------------------
(* The sizes of the teams. *)

Assigned(tm, act) == \A p \in act : tm[p] \in Teams

\* How a slot changes the count of a team when it is set to another team, leaves or
\* comes.
LEMMA CountMoved ==
  ASSUME NEW tm \in Sides, NEW act \in SUBSET Players, NEW p \in Players,
         NEW t \in Teams \cup {NoTeam}, NEW u \in Teams
  PROVE  CountPlayers([tm EXCEPT ![p] = t], act, u) =
           CountPlayers(tm, act, u)
             + (IF p \in act /\ u = t /\ tm[p] # t THEN 1
                ELSE IF p \in act /\ tm[p] = u /\ u # t THEN -1 ELSE 0)
<1> DEFINE old == Members(tm, act, u)
           new == Members([tm EXCEPT ![p] = t], act, u)
<1>1. IsFiniteSet(old)
  BY FS_Subset DEF Members
<1>2. new = IF p \in act /\ u = t THEN old \cup {p} ELSE old \ {p}
  BY DEF Members, Sides
<1>3. p \in old <=> p \in act /\ tm[p] = u
  BY DEF Members
<1>4. /\ Cardinality(old \cup {p}) =
            IF p \in old THEN Cardinality(old) ELSE Cardinality(old) + 1
      /\ Cardinality(old \ {p}) =
            IF p \in old THEN Cardinality(old) - 1 ELSE Cardinality(old)
      /\ Cardinality(old) \in Nat
  BY <1>1, FS_AddElement, FS_RemoveElement, FS_CardinalityType
<1>5. /\ CountPlayers(tm, act, u) = Cardinality(old)
      /\ CountPlayers([tm EXCEPT ![p] = t], act, u) = Cardinality(new)
  BY DEF CountPlayers
<1> HIDE DEF old, new
<1>6. QED
  BY <1>2, <1>3, <1>4, <1>5

LEMMA CountLeft ==
  ASSUME NEW tm, NEW act \in SUBSET Players, NEW p, NEW u
  PROVE  CountPlayers(tm, act \ {p}, u) =
           CountPlayers(tm, act, u) - (IF p \in act /\ tm[p] = u THEN 1 ELSE 0)
<1> DEFINE old == Members(tm, act, u)
<1>1. IsFiniteSet(old)
  BY FS_Subset DEF Members
<1>2. Members(tm, act \ {p}, u) = old \ {p} /\ (p \in old <=> p \in act /\ tm[p] = u)
  BY DEF Members
<1>3. /\ Cardinality(old \ {p}) =
            IF p \in old THEN Cardinality(old) - 1 ELSE Cardinality(old)
      /\ Cardinality(old) \in Nat
  BY <1>1, FS_RemoveElement, FS_CardinalityType
<1>4. /\ CountPlayers(tm, act, u) = Cardinality(old)
      /\ CountPlayers(tm, act \ {p}, u) = Cardinality(old \ {p})
  BY <1>2 DEF CountPlayers
<1> HIDE DEF old
<1>5. QED
  BY <1>2, <1>3, <1>4

LEMMA CountCame ==
  ASSUME NEW tm, NEW act \in SUBSET Players, NEW p, NEW u
  PROVE  CountPlayers(tm, act \cup {p}, u) =
           CountPlayers(tm, act, u) + (IF p \notin act /\ tm[p] = u THEN 1 ELSE 0)
<1> DEFINE old == Members(tm, act, u)
<1>1. IsFiniteSet(old)
  BY FS_Subset DEF Members
<1>2. Members(tm, act \cup {p}, u) = IF tm[p] = u THEN old \cup {p} ELSE old
  BY DEF Members
<1>3. p \in old <=> p \in act /\ tm[p] = u
  BY DEF Members
<1>4. /\ Cardinality(old \cup {p}) =
            IF p \in old THEN Cardinality(old) ELSE Cardinality(old) + 1
      /\ Cardinality(old) \in Nat
  BY <1>1, FS_AddElement, FS_CardinalityType
<1>5. QED
  BY <1>2, <1>3, <1>4 DEF CountPlayers

\* The teams share the slots.
LEMMA BothTeams ==
  ASSUME NEW tm, NEW act \in SUBSET Players
  PROVE  /\ CountPlayers(tm, act, 0) \in Nat /\ CountPlayers(tm, act, 1) \in Nat
         /\ MaxPlayers \in Nat
         /\ CountPlayers(tm, act, 0) + CountPlayers(tm, act, 1) <= MaxPlayers
<1> DEFINE a == Members(tm, act, 0)
           b == Members(tm, act, 1)
<1>1. /\ a \subseteq Players /\ b \subseteq Players
      /\ a \cup b \in SUBSET Players /\ a \cap b = {}
  BY DEF Members
<1> HIDE DEF a, b
<1>2. IsFiniteSet(a) /\ IsFiniteSet(b) /\ Cardinality(a \cup b) <= Cardinality(Players)
  BY <1>1, FS_Subset
<1>3. /\ Cardinality(a \cup b) = Cardinality(a) + Cardinality(b) - Cardinality({})
      /\ Cardinality({}) = 0
  BY <1>1, <1>2, FS_Union, FS_EmptySet
<1>4. Cardinality(a) \in Nat /\ Cardinality(b) \in Nat /\ Cardinality(Players) \in Nat
  BY <1>2, FS_CardinalityType
<1>5. QED
  BY <1>2, <1>3, <1>4 DEF a, b, CountPlayers, MaxPlayers

\* A change of team moves nobody, or one player to a team of less than half of the
\* slots and, unless the game is being prepared, to the smaller team.
LEMMA Changed ==
  ASSUME NEW tm \in Sides, NEW act \in SUBSET Players, Assigned(tm, act),
         NEW p \in Players, NEW t \in Teams, NEW new \in ChangeTeam(tm, act, p, t)
  PROVE  /\ new \in Sides /\ Assigned(new, act)
         /\ \/ \A u \in Teams : CountPlayers(new, act, u) = CountPlayers(tm, act, u)
            \/ /\ p \in act /\ tm[p] # t
               /\ MaxPlayers \div 2 > CountPlayers(tm, act, t)
               /\ \/ game_state = "prepare_team"
                  \/ CountPlayers(tm, act, t) < CountPlayers(tm, act, tm[p])
               /\ CountPlayers(new, act, t) = CountPlayers(tm, act, t) + 1
               /\ CountPlayers(new, act, tm[p]) = CountPlayers(tm, act, tm[p]) - 1
<1> DEFINE moved == [tm EXCEPT ![p] = t]
           n(u) == CountPlayers(tm, act, u)
<1>1. PICK g \in Read(tm[p]) :
        new = IF /\ MaxPlayers \div 2 > n(t)
                 /\ game_state = "prepare_team" \/ n(t) < n(g)
              THEN moved ELSE tm
  BY DEF ChangeTeam
<1>2. moved \in Sides /\ Assigned(moved, act)
  BY DEF Sides, Assigned
<1>3. new \in Sides /\ Assigned(new, act)
  BY <1>1, <1>2
<1>4. \A u \in Teams : n(u) \in Int
  BY TeamCount
<1>5. \A u \in Teams :
        CountPlayers(moved, act, u) =
          n(u) + (IF p \in act /\ u = t /\ tm[p] # t THEN 1
                  ELSE IF p \in act /\ tm[p] = u /\ u # t THEN -1 ELSE 0)
  BY CountMoved
<1>6. CASE new = tm
  BY <1>3, <1>6
<1>7. CASE new # tm /\ p \notin act
  <2>1. new = moved
    BY <1>1, <1>7
  <2> HIDE DEF moved, n
  <2>2. \A u \in Teams : CountPlayers(new, act, u) = n(u)
    BY <1>4, <1>5, <1>7, <2>1
  <2>3. QED
    BY <1>3, <2>2 DEF n
<1>8. CASE new # tm /\ p \in act
  <2>1. tm[p] \in Teams /\ g = tm[p]
    BY <1>8 DEF Assigned, Read
  <2>2. tm[p] # t
    BY <1>1, <1>8 DEF Sides
  <2>3. CountPlayers(moved, act, t) = n(t) + 1
        /\ CountPlayers(moved, act, tm[p]) = n(tm[p]) - 1
    BY <1>4, <1>5, <1>8, <2>1, <2>2
  <2>4. QED
    BY <1>1, <1>3, <1>8, <2>1, <2>2, <2>3
<1>9. QED
  BY <1>6, <1>7, <1>8

\* The balancing always finds a player it may move when a team is ahead by two.
LEMMA Balanced ==
  ASSUME NEW tm \in Sides, NEW act \in SUBSET Players, Assigned(tm, act),
         NEW new \in BalancedTeam(tm, act),
         NEW a0, a0 = CountPlayers(tm, act, 0), NEW a1, a1 = CountPlayers(tm, act, 1),
         NEW b0, b0 = CountPlayers(new, act, 0), NEW b1, b1 = CountPlayers(new, act, 1)
  PROVE  /\ Assigned(new, act)
         /\ \/ b0 = a0 /\ b1 = a1 /\ a0 - a1 <= 1 /\ a1 - a0 <= 1
            \/ a0 - a1 > 1 /\ b0 = a0 - 1 /\ b1 = a1 + 1
            \/ a1 - a0 > 1 /\ b1 = a1 - 1 /\ b0 = a0 + 1
<1> DEFINE low == Smallest(tm, act)
           high == 1 - low
           n(u) == CountPlayers(tm, act, u)
<1>1. low \in Teams /\ high \in Teams /\ low # high /\ n(low) <= n(high)
  BY SmallestIsTeam DEF Teams
<1>2. /\ n(low) \in Nat /\ n(high) \in Nat /\ MaxPlayers \in Nat
      /\ n(low) + n(high) <= MaxPlayers
  <2>1. /\ n(0) \in Nat /\ n(1) \in Nat /\ MaxPlayers \in Nat
        /\ n(0) + n(1) <= MaxPlayers
    BY BothTeams
  <2>2. low = 0 \/ low = 1
    BY <1>1 DEF Teams
  <2> HIDE DEF n, low
  <2>3. QED
    BY <2>1, <2>2
<1>3. CASE ~(n(high) - n(low) > 1)
  <2>1. new = tm
    BY <1>3 DEF BalancedTeam
  <2>2. low = 0 \/ low = 1
    BY <1>1 DEF Teams
  <2> HIDE DEF low
  <2>3. QED
    BY <1>1, <1>2, <1>3, <2>1, <2>2
<1>4. CASE n(high) - n(low) > 1
  <2>1. PICK p \in Members(tm, act, high) : new \in ChangeTeam(tm, act, p, low)
    BY <1>4 DEF BalancedTeam
  <2>2. p \in act /\ p \in Players /\ tm[p] = high
    BY <2>1 DEF Members
  <2>3. MaxPlayers \div 2 > n(low) /\ n(low) < n(high)
    <3> HIDE DEF low, high, n
    <3>1. QED
      BY <1>2, <1>4
  <2>4. new = [tm EXCEPT ![p] = low]
    <3>1. Read(tm[p]) = {high}
      BY <1>1, <2>2 DEF Read
    <3>2. QED
      BY <2>1, <2>3, <3>1 DEF ChangeTeam
  <2>5. Assigned(new, act)
    BY <1>1, <2>1, <2>2, Changed
  <2>6. /\ CountPlayers(new, act, low) = n(low) + 1
        /\ CountPlayers(new, act, high) = n(high) + (-1)
    <3>1. \A u \in Teams :
            CountPlayers([tm EXCEPT ![p] = low], act, u) =
              n(u) + (IF p \in act /\ u = low /\ tm[p] # low THEN 1
                      ELSE IF p \in act /\ tm[p] = u /\ u # low THEN -1 ELSE 0)
      BY <1>1, <2>2, CountMoved
    <3> HIDE DEF low, high, n
    <3>2. QED
      BY <1>1, <2>2, <2>4, <3>1
  <2>7. (low = 0 /\ high = 1) \/ (low = 1 /\ high = 0)
    BY <1>1 DEF Teams
  <2> HIDE DEF low, high
  <2>8. QED
    BY <1>2, <1>4, <2>5, <2>6, <2>7
<1>5. QED
  BY <1>3, <1>4

Sized(tm, act) ==
  \A t \in Teams : CountPlayers(tm, act, t) <= MaxPlayers \div 2 + 1
Fair(tm, act) == Assigned(tm, act) /\ Sized(tm, act)

\* What a step of a round may do to the lead.
Calm(tm, act, new, now) == Lead(new, now) <= 2 \/ Lead(new, now) <= Lead(tm, act)

LEMMA LeadOf ==
  ASSUME NEW tm, NEW act \in SUBSET Players,
         NEW a0, a0 = CountPlayers(tm, act, 0), NEW a1, a1 = CountPlayers(tm, act, 1)
  PROVE  /\ a0 \in Nat /\ a1 \in Nat
         /\ a0 >= a1 => Lead(tm, act) = a0 - a1
         /\ a1 >= a0 => Lead(tm, act) = a1 - a0
<1>1. a0 \in Nat /\ a1 \in Nat
  BY BothTeams
<1>2. Lead(tm, act) = IF a0 - a1 < 0 THEN -(a0 - a1) ELSE a0 - a1
  BY DEF Lead
<1>3. QED
  BY <1>1, <1>2

LEMMA LeadInt ==
  ASSUME NEW tm, NEW act \in SUBSET Players
  PROVE  Lead(tm, act) \in Int
<1>1. PICK a0, a1 : a0 = CountPlayers(tm, act, 0) /\ a1 = CountPlayers(tm, act, 1)
  OBVIOUS
<1>2. /\ a0 \in Nat /\ a1 \in Nat
      /\ a0 >= a1 => Lead(tm, act) = a0 - a1
      /\ a1 >= a0 => Lead(tm, act) = a1 - a0
  BY <1>1, LeadOf
<1>3. QED
  BY <1>2

\* A round starts with balanced teams, or with one lead that is smaller by two.
LEMMA BalancedFair ==
  ASSUME NEW tm \in Sides, NEW act \in SUBSET Players, Fair(tm, act),
         NEW new \in BalancedTeam(tm, act)
  PROVE  /\ Fair(new, act)
         /\ Lead(new, act) <= 1 \/ Lead(new, act) <= Lead(tm, act) - 2
<1>1. PICK a0, a1, b0, b1 :
        /\ a0 = CountPlayers(tm, act, 0) /\ a1 = CountPlayers(tm, act, 1)
        /\ b0 = CountPlayers(new, act, 0) /\ b1 = CountPlayers(new, act, 1)
  OBVIOUS
<1>2. /\ Assigned(new, act)
      /\ \/ b0 = a0 /\ b1 = a1 /\ a0 - a1 <= 1 /\ a1 - a0 <= 1
         \/ a0 - a1 > 1 /\ b0 = a0 - 1 /\ b1 = a1 + 1
         \/ a1 - a0 > 1 /\ b1 = a1 - 1 /\ b0 = a0 + 1
  BY <1>1, Balanced DEF Fair
<1>3. /\ a0 \in Nat /\ a1 \in Nat
      /\ a0 >= a1 => Lead(tm, act) = a0 - a1
      /\ a1 >= a0 => Lead(tm, act) = a1 - a0
  BY <1>1, LeadOf
<1>4. /\ b0 \in Nat /\ b1 \in Nat
      /\ b0 >= b1 => Lead(new, act) = b0 - b1
      /\ b1 >= b0 => Lead(new, act) = b1 - b0
  BY <1>1, LeadOf
<1>5. PICK half \in Nat : half = MaxPlayers \div 2
  BY BothTeams
<1>6. a0 <= half + 1 /\ a1 <= half + 1
  BY <1>1, <1>5 DEF Fair, Sized, Teams
<1>7. b0 <= half + 1 /\ b1 <= half + 1
  BY <1>2, <1>3, <1>5, <1>6
<1>8. Sized(new, act)
  BY <1>1, <1>5, <1>7 DEF Sized, Teams
<1>9. Lead(new, act) <= 1 \/ Lead(new, act) <= Lead(tm, act) - 2
  BY <1>2, <1>3, <1>4
<1>10. QED
  BY <1>2, <1>8, <1>9 DEF Fair

LEMMA ChangedFair ==
  ASSUME NEW tm \in Sides, NEW act \in SUBSET Players, Fair(tm, act),
         NEW p \in Players, NEW t \in Teams, NEW new \in ChangeTeam(tm, act, p, t)
  PROVE  /\ Fair(new, act)
         /\ game_state # "prepare_team" => Calm(tm, act, new, act)
<1>1. PICK a0, a1, b0, b1 :
        /\ a0 = CountPlayers(tm, act, 0) /\ a1 = CountPlayers(tm, act, 1)
        /\ b0 = CountPlayers(new, act, 0) /\ b1 = CountPlayers(new, act, 1)
  OBVIOUS
<1>2. /\ a0 \in Nat /\ a1 \in Nat
      /\ a0 >= a1 => Lead(tm, act) = a0 - a1
      /\ a1 >= a0 => Lead(tm, act) = a1 - a0
  BY <1>1, LeadOf
<1>3. /\ b0 \in Nat /\ b1 \in Nat
      /\ b0 >= b1 => Lead(new, act) = b0 - b1
      /\ b1 >= b0 => Lead(new, act) = b1 - b0
  BY <1>1, LeadOf
<1>4. PICK half \in Nat : half = MaxPlayers \div 2
  BY BothTeams
<1>5. a0 <= half + 1 /\ a1 <= half + 1
  BY <1>1, <1>4 DEF Fair, Sized, Teams
<1>6. Assigned(tm, act)
  BY DEF Fair
<1>7. /\ Assigned(new, act)
      /\ \/ b0 = a0 /\ b1 = a1
         \/ /\ half > a0 /\ b0 = a0 + 1 /\ b1 = a1 - 1
            /\ game_state # "prepare_team" => a0 < a1
         \/ /\ half > a1 /\ b1 = a1 + 1 /\ b0 = a0 - 1
            /\ game_state # "prepare_team" => a1 < a0
  <2>1. /\ Assigned(new, act)
        /\ \/ \A u \in Teams : CountPlayers(new, act, u) = CountPlayers(tm, act, u)
           \/ /\ p \in act /\ tm[p] # t
              /\ half > CountPlayers(tm, act, t)
              /\ \/ game_state = "prepare_team"
                 \/ CountPlayers(tm, act, t) < CountPlayers(tm, act, tm[p])
              /\ CountPlayers(new, act, t) = CountPlayers(tm, act, t) + 1
              /\ CountPlayers(new, act, tm[p]) = CountPlayers(tm, act, tm[p]) - 1
    BY <1>4, <1>6, Changed
  <2>2. /\ t = 0 \/ t = 1
        /\ p \in act => tm[p] = 0 \/ tm[p] = 1
    BY <1>6 DEF Teams, Assigned
  <2>3. QED
    BY <1>1, <2>1, <2>2 DEF Teams
<1>8. b0 <= half + 1 /\ b1 <= half + 1
  BY <1>2, <1>4, <1>5, <1>7
<1>9. Sized(new, act)
  BY <1>1, <1>4, <1>8 DEF Sized, Teams
<1>10. game_state # "prepare_team" => Calm(tm, act, new, act)
  BY <1>2, <1>3, <1>7 DEF Calm
<1>11. QED
  BY <1>7, <1>9, <1>10 DEF Fair

\* Who leaves is made up for by the balancing.
LEMMA LeftFair ==
  ASSUME NEW tm \in Sides, NEW act \in SUBSET Players, Fair(tm, act),
         NEW p \in Players,
         NEW new \in BalancedTeam([tm EXCEPT ![p] = NoTeam], act \ {p})
  PROVE  Fair(new, act \ {p}) /\ Calm(tm, act, new, act \ {p})
<1> DEFINE rest == act \ {p}
           without == [tm EXCEPT ![p] = NoTeam]
<1>1. without \in Sides /\ rest \in SUBSET Players /\ Assigned(without, rest)
  BY DEF Sides, Assigned, Fair
<1>2. PICK a0, a1, b0, b1 :
        /\ a0 = CountPlayers(tm, act, 0) /\ a1 = CountPlayers(tm, act, 1)
        /\ b0 = CountPlayers(without, rest, 0)
        /\ b1 = CountPlayers(without, rest, 1)
  OBVIOUS
<1>3. /\ a0 \in Nat /\ a1 \in Nat
      /\ a0 >= a1 => Lead(tm, act) = a0 - a1
      /\ a1 >= a0 => Lead(tm, act) = a1 - a0
  BY <1>2, LeadOf
<1>4. /\ b0 \in Nat /\ b1 \in Nat
      /\ b0 >= b1 => Lead(without, rest) = b0 - b1
      /\ b1 >= b0 => Lead(without, rest) = b1 - b0
  BY <1>1, <1>2, LeadOf
<1>5. \A u \in Teams :
        CountPlayers(without, rest, u) =
          CountPlayers(tm, act, u) - (IF p \in act /\ tm[p] = u THEN 1 ELSE 0)
  <2>1. \A u \in Teams : Members(without, rest, u) = Members(tm, rest, u)
    BY DEF Members, Sides
  <2>2. \A u \in Teams : CountPlayers(without, rest, u) = CountPlayers(tm, rest, u)
    BY <2>1 DEF CountPlayers
  <2>3. \A u \in Teams :
          CountPlayers(tm, rest, u) =
            CountPlayers(tm, act, u) - (IF p \in act /\ tm[p] = u THEN 1 ELSE 0)
    BY CountLeft
  <2> HIDE DEF without, rest
  <2>4. QED
    BY <2>2, <2>3
<1>6. /\ b0 = a0 - (IF p \in act /\ tm[p] = 0 THEN 1 ELSE 0)
      /\ b1 = a1 - (IF p \in act /\ tm[p] = 1 THEN 1 ELSE 0)
  BY <1>2, <1>5 DEF Teams
<1>7. PICK half \in Nat : half = MaxPlayers \div 2
  BY BothTeams
<1>8. a0 <= half + 1 /\ a1 <= half + 1
  BY <1>2, <1>7 DEF Fair, Sized, Teams
<1>9. b0 <= half + 1 /\ b1 <= half + 1
  BY <1>3, <1>6, <1>7, <1>8
<1>10. Fair(without, rest)
  BY <1>1, <1>2, <1>7, <1>9 DEF Fair, Sized, Teams
<1> HIDE DEF without, rest
<1>11. /\ Fair(new, rest)
       /\ Lead(new, rest) <= 1 \/ Lead(new, rest) <= Lead(without, rest) - 2
  BY <1>1, <1>10, BalancedFair DEF without, rest
<1>12. Lead(without, rest) <= Lead(tm, act) + 1
  BY <1>3, <1>4, <1>6
<1>13. Lead(new, rest) \in Int /\ Lead(without, rest) \in Int /\ Lead(tm, act) \in Int
  BY <1>1, LeadInt
<1>14. Calm(tm, act, new, rest)
  BY <1>11, <1>12, <1>13 DEF Calm
<1>15. QED
  BY <1>11, <1>14 DEF rest

\* Who comes joins the smaller team, counted with the team the slot had before.
LEMMA AddedFair ==
  ASSUME NEW tm \in Sides, NEW act \in SUBSET Players, Fair(tm, act),
         NEW p \in Players, NEW now \in SUBSET Players, now = act \cup {p},
         NEW new, new = AddPlayer(tm, now, p)
  PROVE  Fair(new, now) /\ Calm(tm, act, new, now)
<1>1. PICK s, o, a, b, k, m, x, y :
        /\ s = Smallest(tm, now) /\ o = 1 - s
        /\ a = CountPlayers(tm, act, s) /\ b = CountPlayers(tm, act, o)
        /\ k = CountPlayers(tm, now, s) /\ m = CountPlayers(tm, now, o)
        /\ x = CountPlayers(new, now, s) /\ y = CountPlayers(new, now, o)
  OBVIOUS
<1>2. /\ (s = 0 /\ o = 1) \/ (s = 1 /\ o = 0)
      /\ s \in Teams /\ o \in Teams /\ s # o /\ k <= m
  BY <1>1, SmallestIsTeam DEF Teams
<1>3. new = [tm EXCEPT ![p] = s] /\ new \in Sides /\ Assigned(new, now)
  BY <1>1, <1>2 DEF AddPlayer, Sides, Assigned, Fair
<1>4. PICK half \in Nat :
        half = MaxPlayers \div 2 /\ k + m <= 2 * half + 1
  <2>1. MaxPlayers \in Nat /\ k \in Nat /\ m \in Nat /\ k + m <= MaxPlayers
    BY <1>1, <1>2, BothTeams
  <2>2. QED
    BY <2>1
<1>5. a \in Nat /\ b \in Nat /\ k \in Nat /\ m \in Nat /\ x \in Nat /\ y \in Nat
  BY <1>1, <1>2, BothTeams
<1>6. a <= half + 1 /\ b <= half + 1
  BY <1>1, <1>2, <1>4 DEF Fair, Sized
<1>7. /\ k = a + (IF p \notin act /\ tm[p] = s THEN 1 ELSE 0)
      /\ m = b + (IF p \notin act /\ tm[p] = o THEN 1 ELSE 0)
  BY <1>1, CountCame
<1>8. /\ x = k + (IF tm[p] # s THEN 1 ELSE 0)
      /\ y = m + (IF tm[p] = o THEN -1 ELSE 0)
  <2>1. \A set \in SUBSET Players, u \in Teams :
          CountPlayers([tm EXCEPT ![p] = s], set, u) =
            CountPlayers(tm, set, u)
              + (IF p \in set /\ u = s /\ tm[p] # s THEN 1
                 ELSE IF p \in set /\ tm[p] = u /\ u # s THEN -1 ELSE 0)
    BY <1>2, CountMoved
  <2>2. p \in now
    OBVIOUS
  <2>3. \A u \in Teams :
          CountPlayers(new, now, u) =
            CountPlayers(tm, now, u)
              + (IF p \in now /\ u = s /\ tm[p] # s THEN 1
                 ELSE IF p \in now /\ tm[p] = u /\ u # s THEN -1 ELSE 0)
    BY <1>3, <2>1
  <2>4. QED
    BY <1>1, <1>2, <1>5, <2>2, <2>3
<1>9. p \in act => tm[p] = s \/ tm[p] = o
  BY <1>2 DEF Fair, Assigned, Teams
<1>10. x <= half + 1 /\ y <= half + 1
  BY <1>2, <1>4, <1>5, <1>6, <1>7, <1>8
<1>11. Sized(new, now)
  BY <1>1, <1>2, <1>4, <1>10 DEF Sized, Teams
<1>12. /\ a >= b => Lead(tm, act) = a - b
       /\ b >= a => Lead(tm, act) = b - a
       /\ x >= y => Lead(new, now) = x - y
       /\ y >= x => Lead(new, now) = y - x
  BY <1>1, <1>2, LeadOf
<1>13. Calm(tm, act, new, now)
  BY <1>2, <1>5, <1>7, <1>8, <1>9, <1>12 DEF Calm
<1>14. QED
  BY <1>3, <1>11, <1>13 DEF Fair

\* Teams and leads under every step, the lead in a round only.
LEMMA TeamStep ==
  ASSUME TypeOK, TeamsAreFair, [Next]_vars
  PROVE  /\ TeamsAreFair'
         /\ teammode /\ game_state = "in_progress" /\ game_state' = "in_progress"
              => Calm(team, active, team', active')
<1> DEFINE quiet == game_state = "in_progress" /\ game_state' = "in_progress"
           Kept == /\ teammode' => Fair(team', active')
                   /\ teammode /\ quiet => Calm(team, active, team', active')
<1> SUFFICES Kept
  BY DEF TeamsAreFair, Fair, Assigned, Sized
<1>1. team \in Sides /\ active \in SUBSET Players /\ mode' = mode
      /\ teammode' = teammode
  BY DEF TypeOK, Sides, teammode, Next, Run, EndHandshake, FinishConnect,
     DropConnecting, Requests, StartConnect, Leave, RequestTeam, StartSurrenderVote,
     VoteSelected, ForceEnd, UpdateGameControlFlow, Drained, CheckVoteTimer, Dead, vars
<1>2. teammode => Fair(team, active)
  BY DEF TeamsAreFair, Fair, Assigned, Sized
<1>3. Lead(team, active) \in Int
  BY <1>1, LeadInt
<1>4. ASSUME UNCHANGED <<team, active>>
      PROVE  Kept
  BY <1>1, <1>2, <1>3, <1>4 DEF Calm
<1>5. ASSUME ~teammode
      PROVE  Kept
  BY <1>1, <1>5
<1>6. CASE FinishConnect
  <2>1. CASE teammode
    BY <1>1, <1>2, <1>6, <2>1, AddedFair DEF FinishConnect
  <2>2. QED
    BY <1>5, <2>1
<1>7. ASSUME NEW p \in Players, Leave(p)
      PROVE  Kept
  <2>1. CASE teammode
    BY <1>1, <1>2, <1>7, <2>1, LeftFair DEF Leave
  <2>2. QED
    BY <1>5, <2>1
<1>8. ASSUME NEW p \in Players, RequestTeam(p)
      PROVE  Kept
  <2>1. PICK t \in Teams : team' \in ChangeTeam(team, active, p, t)
    BY <1>8 DEF RequestTeam
  <2>2. active' = active /\ game_state' = game_state /\ teammode
    BY <1>8 DEF RequestTeam, people, cycle
  <2>3. QED
    BY <1>1, <1>2, <2>1, <2>2, ChangedFair
<1>9. CASE PrepareTeam /\ Drained
  <2>1. CASE teammode
    <3>1. active' = active /\ team' \in BalancedTeam(team, active)
      BY <1>9 DEF PrepareTeam, Drained
    <3>2. Fair(team', active')
          /\ (Lead(team', active') <= 1 \/ Lead(team', active') <= Lead(team, active) - 2)
      BY <1>1, <1>2, <2>1, <3>1, BalancedFair
    <3>3. Lead(team', active') \in Int
      BY <1>1, <3>1, LeadInt
    <3>4. QED
      BY <1>3, <3>2, <3>3 DEF Calm
  <2>2. QED
    BY <1>5, <2>1
<1>10. CASE UpdateGameControlFlow
  <2>1. CASE PrepareTeam
    BY <1>9, <1>10, <2>1 DEF UpdateGameControlFlow, Advance
  <2>2. CASE ~PrepareTeam
    <3>1. UNCHANGED <<team, active>>
      BY <1>10, <2>2 DEF UpdateGameControlFlow, Drained, Advance, DisplayEndgameViews,
         CycleNextMap, LoadMap, LoadUnitProfiles, SyncProfiles, RespawnPlayers,
         RestartTeam, CheckGameRules, KeepPlaying, KeepWaiting
    <3>2. QED
      BY <1>4, <3>1
  <2>3. QED
    BY <2>1, <2>2
<1>11. ASSUME NEW p \in Players,
              StartConnect(p) \/ StartSurrenderVote(p) \/ VoteSelected(p)
       PROVE  Kept
  BY <1>4, <1>11 DEF StartConnect, StartSurrenderVote, VoteSelected, people
<1>12. CASE DropConnecting \/ ForceEnd \/ CheckVoteTimer
  BY <1>4, <1>12 DEF DropConnecting, ForceEnd, CheckVoteTimer, people
<1>13. CASE UNCHANGED vars
  BY <1>4, <1>13 DEF vars, people
<1>14. QED
  BY <1>6, <1>7, <1>8, <1>10, <1>11, <1>12, <1>13
     DEF Next, Run, EndHandshake, Requests, Dead

\* In a game of teams everyone who plays has a team, and no team has more than half
\* of the slots and one, whoever comes, goes or asks for another team.
THEOREM TeamsCorrect == Spec => []TeamsAreFair
<1>1. Init => TeamsAreFair
  <2>1. SUFFICES ASSUME Init, teammode PROVE TeamsAreFair
    BY DEF TeamsAreFair
  <2>2. active = {}
    BY <2>1 DEF Init, teammode
  <2>3. \A t \in Teams : Members(team, active, t) = {}
    BY <2>2 DEF Members
  <2>4. \A t \in Teams : CountPlayers(team, active, t) = 0
    BY <2>3, FS_EmptySet DEF CountPlayers
  <2>5. MaxPlayers \in Nat
    BY BothTeams
  <2>6. QED
    BY <2>2, <2>4, <2>5 DEF TeamsAreFair
<1>2. TypeOK /\ TeamsAreFair /\ [Next]_vars => TeamsAreFair'
  BY TeamStep
<1>3. QED
  BY <1>1, <1>2, TypeCorrect, PTL DEF Spec

\* While a round is played no step makes the lead of a team grow past two.
THEOREM LeadsCorrect == Spec => LeadsDoNotGrow
<1>1. TypeOK /\ TeamsAreFair /\ [Next]_vars =>
        [teammode /\ game_state = "in_progress" /\ game_state' = "in_progress"
           => Lead(team, active)' <= 2 \/ Lead(team, active)' <= Lead(team, active)]_vars
  BY TeamStep DEF Calm
<1>2. QED
  BY <1>1, TypeCorrect, TeamsCorrect, PTL DEF Spec, LeadsDoNotGrow
============================================================================
