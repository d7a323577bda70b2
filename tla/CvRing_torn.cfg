\* Even on a machine that keeps stores in order.
SPECIFICATION Spec
CONSTANTS
  k1 = k1
  k2 = k2
  r1 = r1
  Words <- MCWords
  Readers <- MCReaders
  Size = 4
  MaxScans = 8
  Slack = 0
INVARIANT GetIsExact
CHECK_DEADLOCK FALSE
