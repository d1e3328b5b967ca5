SPECIFICATION Spec
CONSTANTS
  f1 = f1
  f2 = f2
  w1 = w1
  w2 = w2
  Fds <- MCFds
  Workers <- MCWorkers
  Main = Main
  Listen = Listen
  None = None
  MaxConnects = 3
  MaxSends = 2
  MaxCloses = 2
  MaxStalls = 1
  SetupMayFail = TRUE
  EpollAddMayFail = TRUE
SYMMETRY Symmetric
INVARIANTS
  TypeOK
  OneWorkerPerClient
  LockNodeAlive
  NoLostWakeup
PROPERTIES
  ServesSerially
CHECK_DEADLOCK FALSE
