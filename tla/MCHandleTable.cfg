SPECIFICATION Spec
CONSTANTS
  Threads = {t1, t2}
  NULL = NULL
  LevelEntries = 2
  Locks = 2
  FreeCount = 2
  MaxOps = 4
INVARIANTS HandlesApart EntryIsMine
PROPERTY CallsReturn
CHECK_DEADLOCK FALSE
