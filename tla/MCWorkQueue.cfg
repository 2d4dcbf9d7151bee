SPECIFICATION WorkQueueFairSpec
CONSTANTS
  Clients = {c1, c2}
  Workers = {w1, w2, w3}
  Items = {i1, i2, i3}
  None = None
  MinimumThreads = 1
  MaximumThreads = 2
  MaxFailures = 1
INVARIANTS CountersAgree DeletedClean
PROPERTIES DeleteReturns EveryItemRuns
CHECK_DEADLOCK FALSE
