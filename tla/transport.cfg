SPECIFICATION FairSpec
CONSTANTS
  Sizes <- TwoSizes
  AlertSize = 1
  MaxSize = 6
  BufferSize = 9
  QueueSize = 3
  RoomSize = 5
  MaxSent = 4
  MaxSessions = 2
INVARIANTS
  TypeOK
  PacketsAreSound
  FramesAreWhole
PROPERTIES
  ChannelSpec
  MessagesMove
CHECK_DEADLOCK TRUE
