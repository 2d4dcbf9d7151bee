SPECIFICATION FairSpec
CONSTANTS
  Threads = {t1, t2, t3}
  MaxOps = 2
INVARIANTS MutualExclusion WakeUpsExact
PROPERTY EveryoneFinishes
CHECK_DEADLOCK FALSE
