SPECIFICATION Spec
CONSTANTS
  Reader = {c1,c2}
  MaxSize = 2
  MaxEvents = 4
  MaxStreams = 2
SYMMETRY Symmetry
INVARIANT WaitersAreReachable
PROPERTY ImplementsReplayLog
CHECK_DEADLOCK FALSE
