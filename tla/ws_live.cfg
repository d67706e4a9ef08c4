SPECIFICATION FairSpec
CONSTANTS
  Fds = {f1, f2}
  ListenFd = listen
  Workers = {w1}
  Main = main
  MaxConns = 3
  MaxUsers = 1
  HdrChunks = 2
  FileChunks = 0
  ListenET = TRUE
  ConnET = FALSE
  TimeoutOn = TRUE
  SlowTasks = FALSE
  LateTick = FALSE
  AnyOpening = FALSE
CHECK_DEADLOCK FALSE
PROPERTIES GoneClientsClosed BacklogServed ConnSpec
