SPECIFICATION FairSpec
CONSTANTS
  u1 = u1
  u2 = u2
  Unit <- TwoUnits
  NoUnit = NoUnit
  QueueSize = 3
INVARIANTS
  TypeOK
  OneRequestEach
  PathsHaveOneWriter
PROPERTIES
  RequestsAreKept
  UnitsAreServed
CHECK_DEADLOCK TRUE
