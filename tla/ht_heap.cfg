SPECIFICATION FairSpec
CONSTANTS
  Ids = {a, b, c, d}
  Timeout = 3
  Ms = 2
  MaxNow = 3
INVARIANTS RefExact HeapOrdered
PROPERTIES TableSpec TickComplete NextTickInTime CallsReturn
CHECK_DEADLOCK FALSE
