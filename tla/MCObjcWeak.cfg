SPECIFICATION FairSpec
CONSTANTS
  Threads = {t1, t2}
  o1 = o1
  o2 = o2
  Objects = {o1, o2}
  Locations = {l1}
  nil = nil
  SideTables <- MCSideTables
  RC_HALF = 2
  MaxRetains <- MCMaxRetains
INVARIANTS TypeOK RetainsConserved WeakTableExact NoDanglingAccess
PROPERTIES CallsReturn
CHECK_DEADLOCK FALSE
