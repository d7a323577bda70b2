\* A CV ring of four slots on a machine that lets data stores overtake the index
\* store (Armv7); an event ring of two, whose counters, four wide, wrap twice.
SPECIFICATION RingsSpec
CONSTANTS
  k1 = k1
  k2 = k2
  r1 = r1
  Words <- MCWords
  Readers <- MCReaders
  Size = 4
  MaxScans = 8
  Slack = 1
  EvSize = 2
  Width = 4
  MaxOffers = 9
INVARIANTS
  TypeOK
  AcceptedIsExact
  SlotsNotShared
  ExactlyOnceInOrder
PROPERTY ImplementsQueue
CHECK_DEADLOCK FALSE
