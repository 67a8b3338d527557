SPECIFICATION BgFairSpec
CONSTANTS
  wed = wed
  c1 = c1
  Static <- MCStatic
  NeverRestart <- MCNever
  Client <- MCClient
  MaxReg = 2
  MaxWorkers = 1
  MaxPid = 1
  Failures <- MCFailures
  MaxFault = 1
  Shutdowns <- MCShutdowns
CHECK_DEADLOCK FALSE
INVARIANTS
    SlotsMatchList
    NeverMeansOnce
    TerminateHitsItsOwn
PROPERTIES
    
    SystemSettles
