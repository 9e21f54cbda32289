SPECIFICATION FairSpec
CONSTANTS
  Threads = {t1, t2}
  Ports = {p1, p2, p3}
  MACH_PORT_NULL = null
  MACH_PORT_DEAD = dead
  InitialValues <- MCInitialValues
  LONG_MAX = 2
  MaxAborts = 0
PROPERTIES TimedWaitReturns
CHECK_DEADLOCK FALSE
