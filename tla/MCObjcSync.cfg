SPECIFICATION Spec
CONSTANTS
  Threads = {t1, t2}
  Objects = {a, b, c}
  NULL = null
  CacheSlots = 1
  MaxData = 3
  MaxDepth = 3
  MaxBadExits = 1
SYMMETRY Symmetry
INVARIANTS MutualExclusion OneDataPerObject ThreadCountConserved LockCountsAgree
CHECK_DEADLOCK FALSE
