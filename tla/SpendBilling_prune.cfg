SPECIFICATION Spec
CONSTANTS
  s1 = s1  s2 = s2  i1 = i1  i2 = i2  p1 = p1  p2 = p2
  None = None
  Series = {s1, s2}
  Portals = {i1}
  Proms = {p1}
  MaxEpoch = 2
  MaxSpend = 1
  MaxTime = 3
  Exposing = {2}
  Legacy = FALSE
  Stale = 0
  ScrapeGap = 1
  SweepGap = 1
  RoundGap = 1
  SeedGrace = 0
  Retention = 1
  IdleEvery = 1
SYMMETRY SeriesSymm
INVARIANTS NoOvercharge
CHECK_DEADLOCK FALSE
