SPECIFICATION Spec
CONSTANTS
  c1 = c1
  c2 = c2
  c3 = c3
  h1 = h1
  h2 = h2
  Client <- TwoClients
  Slot <- TwoSlots
  NoClient = NoClient
  NoPlayer = NoPlayer
  Host <- TwoHosts
  HostOf <- SharedHost
  AllowMultiIp = FALSE
  Refused <- Nobody
  FlakyClient <- OnlyC1
  MaxQueue = 1
  NumProfiles = 2
  NumChunks = 2
  MaxRetries = 1
  MaxPings = 2
  QMax = 2
  RoundsEnd = TRUE
INVARIANTS
  MapChangeIsQuiet
  OnePerHost
  SeatedHaveSlots
CHECK_DEADLOCK FALSE
