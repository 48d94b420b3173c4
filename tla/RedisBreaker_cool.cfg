SPECIFICATION FairSpec
CONSTANTS
  c1 = c1  c2 = c2  c3 = c3  k1 = k1  k2 = k2  k3 = k3
  None = None
  Cmds = {c1, c2, c3}
  Probers = {k1, k2, k3}
  Window = 3
  Budget = 2
  ProbeBudget = 2
  Prompt = TRUE
INVARIANTS ClosedHasNoProber OneProbeAtATime
PROPERTIES ClosesOnNewerEvidence Recovers
