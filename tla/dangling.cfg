SPECIFICATION Spec
CONSTANTS
  c1 = c1
  c2 = c2
  c3 = c3
  h1 = h1
  h2 = h2
  Client <- TwoClients
  Slot <- TwoSlots
  NoClient = NoClient
  NoPlayer = NoPlayer
  Host <- TwoHosts
  HostOf <- SharedHost
  AllowMultiIp = TRUE
  Refused <- Nobody
  FlakyClient <- OnlyC1
  MaxQueue = 1
  NumProfiles = 1
  NumChunks = 1
  MaxRetries = 0
  MaxPings = 1
  QMax = 2
  RoundsEnd = FALSE
INVARIANT
  ConnectClientExists
CHECK_DEADLOCK FALSE
