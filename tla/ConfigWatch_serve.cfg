SPECIFICATION FairSpec
CONSTANTS
  k1 = k1  k2 = k2  g1 = g1  v1 = v1  v2 = v2  x = x  b1 = b1  b2 = b2
  None = None
  CacheEnabled = TRUE
  EnvKeys = {k1}
  GlobalKeys = {g1}
  Values = {v1, x}
  Builds = {b1}
  Loads <- MCLoads
  MaxWrites = 2
  MaxBatch = 2
  MaxFaults = 1
  MaxRestarts = 1
INVARIANTS ServedIsAccounted RestartServesSame CacheIsCurrent
PROPERTIES VersionTellsServed NeverOlder Converges
CHECK_DEADLOCK FALSE
