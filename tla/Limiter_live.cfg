SPECIFICATION FairSpec
CONSTANTS
  r1 = r1  r2 = r2  r3 = r3
  b1 = b1  b2 = b2  b3 = b3  b4 = b4
  Reqs = {r1, r2}
  Buckets = {b1, b2, b3}
  None = None
  NoLimit = NoLimit
  ReqLen <- Second
  TokLen <- Second
  IdleFor = 1
  NumLayers = 2
  Limit <- SlotAndAllowance
  Unit <- TwoUnits
  Bills <- MCBills
  MaxTime = 2
  PromptLock = TRUE
PROPERTIES NoAdmitPastUsage SlotsFreed
CHECK_DEADLOCK FALSE
