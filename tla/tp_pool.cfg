SPECIFICATION FairSpec
CONSTANTS
  Workers = {w1, w2, w3}
  Producers = {p1, p2}
  Tasks = {t1, t2, t3}
  None = none
CHECK_DEADLOCK FALSE
INVARIANTS NoTaskSleeps DrainedOnExit
PROPERTIES QueueSpec EveryTaskStarts WorkersLeave
