SPECIFICATION FairSpec
CONSTANTS
  e1 = e1  e2 = e2  s1 = s1
  m0 = m0  m1 = m1  m2 = m2  m3 = m3  m4 = m4  m5 = m5
  p1 = p1  p2 = p2  console = console
  None = None
  Hosts = {p1, p2, console}
  Edits = {e1, e2}
  Saves = {s1}
  Blind = {}
  Host <- MCHost
  Marks = {m0, m1, m2, m3, m4, m5}
  Kind <- MCKind
  Changes <- MCChanges
  InitDocs = {{m0}, {m4}, {m0, m5}}
  MaxTries = 2
  MaxRestarts = 1
  MaxCrashes = 2
INVARIANTS ReloadSeesFile RefusedFileIsAdmitted
PROPERTIES EditsAreAtomic AppliedIsTrue EveryCallReturns FileIsRead
CHECK_DEADLOCK FALSE
