\* JACK's client on Linux, one line, one edge: the second read waits.
SPECIFICATION Spec
CONSTANTS
  o1 = o1
  o2 = o2
  o3 = o3
  Objects <- MCOneObject
  NumIn = 1
  NumGates = 1
  QueueMax = 1
  BatchMax = 2
  Backends = {"linux"}
  Bindings = {"jack"}
PROPERTY ScansContinue
CHECK_DEADLOCK FALSE
