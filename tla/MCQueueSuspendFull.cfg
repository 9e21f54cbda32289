SPECIFICATION Spec
CONSTANTS
  Threads = {t1, t2}
  NO_OWNER = none
  HALF = 2
  UINT32_MAX = 5
  MaxSuspends = 4
  SetterLimit = 3
SYMMETRY Symmetry
INVARIANTS SettersSafeBelowLimit
CHECK_DEADLOCK FALSE
