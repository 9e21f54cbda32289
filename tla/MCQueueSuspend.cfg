SPECIFICATION FairSpec
CONSTANTS
  Threads = {t1, t2}
  NO_OWNER = none
  HALF = 2
  UINT32_MAX = 5
  MaxSuspends = 8
  SetterLimit = 2
INVARIANTS TypeOK NoForgottenWaiter SuspensionsConserved NoSpuriousCrash ActivatedOnce QueueOutlivesCalls
PROPERTIES CallsReturn
CHECK_DEADLOCK FALSE
