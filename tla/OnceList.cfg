SPECIFICATION FairSpec
CONSTANTS
  Threads = {t1, t2, t3}
  UINT32_MAX = 3
  NULL = nil
  DISPATCH_ONCE_DONE = done
INVARIANTS RecordsExist OverridesBalanced
PROPERTIES ImplementsOnce CallsReturn
CHECK_DEADLOCK FALSE
