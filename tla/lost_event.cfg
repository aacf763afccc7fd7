SPECIFICATION Spec
CONSTANTS
  Clients = {c1}
  Writers = {w1, w2}
  MaxEvents = 2
  ReplayLimit = 1
  ConnectionLimit = 1
  MaxFrames = 2
INVARIANTS
  NothingSkipped
SYMMETRY Interchangeable
CHECK_DEADLOCK FALSE
