SPECIFICATION Spec
CONSTANTS
  Threads = {t1, t2}
  Objects = {a}
  NULL = null
  CacheSlots = 1
  MaxData = 1
  MaxDepth = 1
  MaxBadExits = 1
SYMMETRY Symmetry
INVARIANTS ThreadCountIsUsers
CHECK_DEADLOCK FALSE
