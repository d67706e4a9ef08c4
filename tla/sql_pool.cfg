SPECIFICATION FairSpec
CONSTANTS
  Workers = {w1, w2, w3}
  Conns = {c1}
  NoConn = null
  Names = {n1}
  Pwds = {p1, p2}
  MaxVerify = 3
  ConnectFails = TRUE
  QueryFails = TRUE
CHECK_DEADLOCK FALSE
INVARIANTS TypeOK SemCountsQueue RegisteredOnce
PROPERTIES GetConnReturns
