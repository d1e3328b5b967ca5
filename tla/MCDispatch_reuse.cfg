SPECIFICATION Spec
CONSTANTS
  f1 = f1
  f2 = f2
  w1 = w1
  w2 = w2
  Fds <- MCFds
  Workers <- MCWorkers
  Main = Main
  Listen = Listen
  None = None
  MaxConnects = 2
  MaxSends = 2
  MaxCloses = 1
  MaxStalls = 0
  SetupMayFail = FALSE
  EpollAddMayFail = FALSE
INVARIANTS
  WatchedHasLock
CHECK_DEADLOCK FALSE
