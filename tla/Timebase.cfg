\* One caller or eight opcodes; a callback late by 2.5 or by 14 periods of the small
\* block, the burst behind it, stalls of more than ten periods, other block sizes.
SPECIFICATION Spec
CONSTANTS
  PerFrame = 10000
  Sizes = {4, 6, 12}
  Jitters = {0, 100000, 560000}
  Stalls = {0, 600000}
  Reinits = {TRUE, FALSE}
  CallerCounts = {1, 8}
  BDen = 40
  CDen = 3200
  MaxBlocks = 15
  MaxUpsets = 2
INVARIANTS
  PeriodPositive
  StartsAdvance
  JitterRejected
CHECK_DEADLOCK FALSE
