SPECIFICATION ReuseSpec
CONSTANTS
  Threads = {t1, t2, t3}
  Ports = {p1, p2, p3}
  MACH_PORT_NULL = null
  MACH_PORT_DEAD = dead
  Blocks = {b1}
  Timeouts = {}
  NULL = nil
  LONG_MAX = 2
  MaxGroups = 1
PROPERTIES NotifySawEmpty
CHECK_DEADLOCK FALSE
