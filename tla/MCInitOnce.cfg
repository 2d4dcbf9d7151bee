SPECIFICATION OnceSpec
CONSTANTS
  Threads = {t1, t2, t3}
  NULL = NULL
  MaxCalls = 4
  MaxResets = 1
INVARIANTS HandleKept TrueMeansSet InitializedBeforeUse
PROPERTY SetReleasesWaiters
CHECK_DEADLOCK FALSE
