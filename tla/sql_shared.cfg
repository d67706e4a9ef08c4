SPECIFICATION Spec
CONSTANTS
  Workers = {w1, w2}
  Conns = {c1, c2}
  NoConn = null
  Names = {n1}
  Pwds = {p1}
  MaxVerify = 3
  ConnectFails = FALSE
  QueryFails = FALSE
CHECK_DEADLOCK FALSE
INVARIANTS ConnExclusive
