SPECIFICATION FairSpec
CONSTANTS
  Writers = {w1}
  None = none
  MaxQueueSize = 2
  DefaultCapacity = 2
  LinesPerFile = 9
  MaxLog = 2
  MaxDay = 0
CHECK_DEADLOCK FALSE
PROPERTIES ExitReturns
