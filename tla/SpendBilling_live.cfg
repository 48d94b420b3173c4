SPECIFICATION FairSpec
CONSTANTS
  s1 = s1  s2 = s2  i1 = i1  i2 = i2  p1 = p1  p2 = p2
  None = None
  Series = {s1}
  Portals = {i1, i2}
  Proms = {p1}
  MaxEpoch = 2
  MaxSpend = 1
  MaxTime = 2
  Exposing = {1, 2}
  Legacy = FALSE
  Stale = 9
  ScrapeGap = 9
  SweepGap = 9
  RoundGap = 9
  SeedGrace = 0
  Retention = 9
  IdleEvery = 1
PROPERTIES EverythingCharged
CHECK_DEADLOCK FALSE
