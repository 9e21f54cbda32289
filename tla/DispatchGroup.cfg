SPECIFICATION FairSpec
CONSTANTS
  Threads = {t1, t2}
  Ports = {p1, p2}
  MACH_PORT_NULL = null
  MACH_PORT_DEAD = dead
  Blocks = {b1, b2}
  Timeouts = {"finite", "forever"}
  NULL = nil
  LONG_MAX = 2
  MaxGroups = 1
INVARIANTS NoUseAfterFree WaitersConserved GroupAtRest NotifyListSafe
PROPERTIES EmptyGroupDrains
CHECK_DEADLOCK FALSE
