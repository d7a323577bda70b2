\* Two gates, blocks of two frames, two calls, lines that may refuse a write.
SPECIFICATION FairSpec
CONSTANTS
  NumGates = 2
  Frames = 2
  MaxTime = 2
  MaxCalls = 2
  HalMayFail = TRUE
INVARIANTS
  CleanRequestsHonoured
  ClosedIsQuiet
  GateFollowsSignal
 
CHECK_DEADLOCK FALSE
