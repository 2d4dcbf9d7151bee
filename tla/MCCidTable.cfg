SPECIFICATION Spec
CONSTANTS
  NULL = NULL
  Trackers = {3}
  Readers = {r}
  Enumerators = {e}
  Unloader = u
  Actors = {3, r, e, u}
  Cids = {3, 6}
  Objects = {o1, o2}
  Types = {"process", "thread"}
  TrackedTypes = {"process"}
  Slots = {0, 1, 2, 3, 4, 5, 6, 7, 8, 9, 10, 11}
  SharedMax = 1
  L0Count = 2
  L1Count = 2
  L2Count = 2
  MaxTables = 6
  MaxTracks = 2
  MaxReads = 1
INVARIANTS ReferencesExact NothingMissed EverythingFreed
