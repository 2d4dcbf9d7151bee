SPECIFICATION RundownFairSpec
CONSTANTS
  Users = {u1, u2, u3}
  Waiters = {w1, w2}
  None = None
  AddressCount = 9
  MaxWaits = 2
INVARIANTS RundownComplete CountConserved
PROPERTIES NoAcquireAfterRundown WaiterReturns
CHECK_DEADLOCK FALSE
