SPECIFICATION Spec
CONSTANTS
  s1 = s1  s2 = s2  i1 = i1  i2 = i2  p1 = p1  p2 = p2
  None = None
  Series = {s1}
  Portals = {i1, i2}
  Proms = {p1}
  MaxEpoch = 2
  MaxSpend = 1
  MaxTime = 6
  Exposing = {1, 2}
  Legacy = TRUE
  Stale = 0
  ScrapeGap = 2
  SweepGap = 1
  RoundGap = 1
  SeedGrace = 3
  Retention = 9
  IdleEvery = 1
SYMMETRY PortalSymm
INVARIANTS NoOvercharge
CHECK_DEADLOCK FALSE
