SPECIFICATION Spec
CONSTANTS
  Fds = {f1, f2}
  ListenFd = listen
  Workers = {w1, w2}
  Main = main
  MaxConns = 2
  MaxUsers = 2
  HdrChunks = 2
  FileChunks = 1
  ListenET = TRUE
  ConnET = TRUE
  TimeoutOn = TRUE
  SlowTasks = FALSE
  LateTick = TRUE
  AnyOpening = FALSE
CHECK_DEADLOCK FALSE
SYMMETRY Symmetry
INVARIANTS ExclusiveOwner NoStaleTask UserCountExact ResponsesNotMixed NeverForgotten ListenDrained TimerCovers
