\* Three edges, a ring, a batch, a held array and a host's array of two.
SPECIFICATION Spec
CONSTANTS
  Setups <- MCSetups
  RingSize = 2
  BatchMax = 2
  Frames = 2
  MaxEdges = 3
  HeldMax = 2
  ChanCounts = {1, 2}
  PollMax = 2
INVARIANTS
  RenderPathIntact
  PollPathIntact
  StateNotBehindEvents
  EdgesOnTheirFrames
  EdgesDealtOnce
  HoldIsNotStale
PROPERTY RefusedOnlyAcrossButtons
CHECK_DEADLOCK FALSE
