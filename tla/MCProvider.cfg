SPECIFICATION ProviderFairSpec
CONSTANTS
  Providers = {p1, p2}
  Clients = {c1, c2}
  None = None
  MaxCalls = 3
  MaxTicks = 1
  Modulus = 16
INVARIANTS InOneList BoostsCounted
PROPERTIES BoostRuns NotRunUnregistered
CHECK_DEADLOCK FALSE
