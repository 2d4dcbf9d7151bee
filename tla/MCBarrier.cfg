SPECIFICATION Spec
CONSTANTS
  Threads = {t1, t2, t3}
  NULL = NULL
  MaxPhases = 2
INVARIANTS PhaseComplete BlocksLive
PROPERTIES ImplementsWakeEvent EveryoneFinishes
CHECK_DEADLOCK FALSE
