SPECIFICATION FairSpec
CONSTANTS
  r1 = r1  r2 = r2  r3 = r3  h1 = h1  h2 = h2
  None = None
  Reqs = {r1, r2}
  Replicas = {h1, h2}
  Home <- MCHome
  Caps = {1, 2}
  Ttl = 3
  RefreshEvery = 1
  Budget = 1
  Misses = 0
INVARIANTS TypeOK CapHolds EveryoneCounted LossIsReal
PROPERTIES NoResurrection NothingLeaks
CHECK_DEADLOCK FALSE
