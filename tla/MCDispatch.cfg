SPECIFICATION FairSpec
CONSTANTS
  f1 = f1
  f2 = f2
  w1 = w1
  w2 = w2
  Fds <- MCFds
  Workers <- MCWorkers
  Main = Main
  Listen = Listen
  None = None
  MaxConnects = 2
  MaxSends = 3
  MaxCloses = 0
  MaxStalls = 1
  SetupMayFail = FALSE
  EpollAddMayFail = FALSE
PROPERTIES
  MessagesHandled
  MainLoopReturns
CHECK_DEADLOCK FALSE
