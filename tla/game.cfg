SPECIFICATION FairSpec
CONSTANTS
  p1 = p1
  p2 = p2
  p3 = p3
  p4 = p4
  p5 = p5
  p6 = p6
  p7 = p7
  p8 = p8
  p9 = p9
  p10 = p10
  Players <- TwoPlayers
  Host = p1
  NoPlayer = NoPlayer
  NumUnitTypes = 2
  Modes <- AllModes
  MaxCalls = 2
INVARIANTS
  TypeOK
  LockIsReleased
  ProfilesAreSynced
  VoteWaitsForSomebody
PROPERTIES
  RoundCycleSpec
  VotesEnd
  RoundsGoOn
CHECK_DEADLOCK TRUE
