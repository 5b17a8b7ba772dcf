SPECIFICATION FairSpec
CONSTANTS
  c1 = c1  c2 = c2  NoConn = NoConn
  Conns = {c1, c2}
  MaxRaw = 0  Cap = 1  MaxSends = 2
CHECK_DEADLOCK FALSE
INVARIANTS ReceivesInOrder HandlersBounded
PROPERTIES SlotsComeBack BusyPumpEnds
