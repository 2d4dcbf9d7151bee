SPECIFICATION CallbackSpec
CONSTANTS
  Clients = {c1, c2}
  Invokers = {i1, i2}
  NULL = NULL
  MaxRounds = 2
  MaxInvokes = 1
INVARIANTS NotInUseOnceUnregistered EveryoneIsNotified
PROPERTY UnregisterReturns
CHECK_DEADLOCK FALSE
