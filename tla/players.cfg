SPECIFICATION Spec
CONSTANTS
  c1 = c1
  c2 = c2
  c3 = c3
  h1 = h1
  h2 = h2
  Client <- ThreeClients
  Slot <- OneSlot
  NoClient = NoClient
  NoPlayer = NoPlayer
  Host <- TwoHosts
  HostOf <- SharedHost
  AllowMultiIp = TRUE
  Refused <- Nobody
  FlakyClient <- ThreeClients
  MaxQueue = 3
  NumProfiles = 1
  NumChunks = 1
  MaxRetries = 0
  MaxPings = 1
  QMax = 3
  RoundsEnd = FALSE
SYMMETRY Symmetry
INVARIANTS
  TypeOK
  OneOwnerPerSlot
  NoLimbo
  QueueIsSound
  JoinersExist
PROPERTY
  JoinServiceSpec
CHECK_DEADLOCK FALSE
