SPECIFICATION FairSpec
CONSTANTS
  Writers = {w1, w2}
  None = none
  MaxQueueSize = 2
  DefaultCapacity = 2
  LinesPerFile = 2
  MaxLog = 4
  MaxDay = 1
CHECK_DEADLOCK FALSE
INVARIANTS PushNeverBlocks LinesOnce AsyncInOrder
PROPERTIES LinesWritten
