SPECIFICATION FairSpec
CONSTANTS
  Threads = {t1, t2, t3, t4}
  NO_OWNER = none
  ALL_ONES = ones
INVARIANTS SleepersWillBeWoken CrashOnlyOnRecursion
PROPERTIES ImplementsOnce CallsReturn
CHECK_DEADLOCK FALSE
