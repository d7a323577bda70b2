\* One gate; a change asked for ahead, then an immediate one.
SPECIFICATION Spec
CONSTANTS
  NumGates = 1
  Frames = 1
  MaxTime = 2
  MaxCalls = 2
  HalMayFail = FALSE
INVARIANT ImmediateSetCancels
CHECK_DEADLOCK FALSE
