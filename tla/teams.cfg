SPECIFICATION Spec
CONSTANTS
  p1 = p1
  p2 = p2
  p3 = p3
  p4 = p4
  p5 = p5
  p6 = p6
  p7 = p7
  p8 = p8
  p9 = p9
  p10 = p10
  Players <- TenPlayers
  Host = p1
  NoPlayer = NoPlayer
  NumUnitTypes = 1
  Modes <- OnlyTeams
  MaxCalls = 0
VIEW View
INVARIANTS
  TeamsAreFair
PROPERTIES
  LeadsDoNotGrow
CHECK_DEADLOCK TRUE
