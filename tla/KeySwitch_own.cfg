SPECIFICATION FairSpec
CONSTANTS
  k1 = k1  k2 = k2  u1 = u1  u2 = u2  i1 = i1  i2 = i2
  Keys = {k1}
  Users = {u1}
  Owner <- OneOwner
  Portals = {i1}
  Unseeded = Unseeded
INVARIANTS TypeOK OwnershipKept
PROPERTIES FreeHoldRespected BrokeCutOff ComesBack
CHECK_DEADLOCK FALSE
