\* A ring of four slots, scans one or two units apart, blocks of three frames
\* of one channel or of more than there are.
SPECIFICATION Spec
CONSTANTS
  Size = 4
  Frames = 3
  Period = 1
  Gaps = {1, 2}
  MaxScans = 6
  Slack = 1
  NumCv = 2
  ChanCounts = {1, 3}
INVARIANTS
  FindIsNewest
  FramesBracketed
  SmoothedSinceSet
CHECK_DEADLOCK FALSE
