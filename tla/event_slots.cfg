SPECIFICATION Spec
CONSTANTS
  Clients = {c1, c2, c3}
  Writers = {}
  MaxEvents = 0
  ReplayLimit = 1
  ConnectionLimit = 2
  MaxFrames = 2
INVARIANTS
  ConnectionsAreCounted
SYMMETRY Interchangeable
CHECK_DEADLOCK FALSE
