SPECIFICATION Spec
CONSTANTS
  r1 = r1  r2 = r2  r3 = r3
  b1 = b1  b2 = b2  b3 = b3  b4 = b4
  Reqs = {r1, r2, r3}
  Buckets = {b1, b2, b3, b4}
  None = None
  NoLimit = NoLimit
  ReqLen <- MCReqLen
  TokLen <- MCTokLen
  IdleFor = 2
  NumLayers = 1
  Limit <- OneLayer
  Unit <- OneUnit
  Bills <- FreeOrNot
  MaxTime = 3
  PromptLock = TRUE
SYMMETRY Symm
INVARIANTS TypeOK LiveHoldersWithinCap WindowCap
PROPERTIES RejectIsFree
CHECK_DEADLOCK FALSE
