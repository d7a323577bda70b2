\* Pure Data: what it sends with a release.
SPECIFICATION Spec
CONSTANTS
  Setups <- MCPd
  RingSize = 2
  BatchMax = 2
  Frames = 2
  MaxEdges = 3
  HeldMax = 2
  ChanCounts = {1, 2}
  PollMax = 2
INVARIANT ReleaseTellsHold
CHECK_DEADLOCK FALSE
