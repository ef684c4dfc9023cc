SPECIFICATION Spec
CONSTANTS
  r1 = r1
  r2 = r2
  self = self
  s1 = s1
  Request <- TwoRequests
  Main = Main
  Heartbeat = Heartbeat
  NoThread = NoThread
  Server <- TwoServers
  Self = self
  Game <- OneGame
  Master = Master
  AliveTimeout = 1
  RequestTimeout = 0
  ConnectionLimit = 1
  WriteBack = TRUE
  MaxTime = 1
SYMMETRY Symmetry
INVARIANTS
  TypeOK
  UniqueServers
  MutexHeld
  FreshAnswers
  StreamsOutliveUse
  NothingOutlives
  JoinsAreAnswered

  
CHECK_DEADLOCK TRUE
