\* Three objects share a context, by reference count or until the reset, or JACK's
\* main holds it; two lines, queues and batches of two.
SPECIFICATION Spec
CONSTANTS
  o1 = o1
  o2 = o2
  o3 = o3
  Objects <- MCObjects
  NumIn = 2
  NumGates = 2
  QueueMax = 2
  BatchMax = 2
  Backends = {"linux", "sim"}
  Bindings = {"refs", "reset", "jack"}
INVARIANTS
  AllOrNothing
  NoUseAfterRelease
  ContextOutlivesObjects
PROPERTY CloseFinishes
CHECK_DEADLOCK FALSE
