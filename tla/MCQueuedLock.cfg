SPECIFICATION FairSpec
CONSTANTS
  Threads = {t1, t2, t3}
  NULL = NULL
  MaxOps = 2
INVARIANT ListSound
PROPERTIES ImplementsRWLock EveryoneFinishes
CHECK_DEADLOCK FALSE
