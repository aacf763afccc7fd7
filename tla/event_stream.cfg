SPECIFICATION FairSpec
CONSTANTS
  Clients = {c1}
  Writers = {w1}
  MaxEvents = 3
  ReplayLimit = 1
  ConnectionLimit = 1
  MaxFrames = 2
INVARIANTS
  TypeOK
  FramesInOrder
  NothingSkipped
  RevocationBoundsReplays
PROPERTIES
  MonitorSeesRevocation
  EventsAreReached
  RevokedStreamsEnd
CHECK_DEADLOCK FALSE
