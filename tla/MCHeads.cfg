SPECIFICATION Spec
CONSTANTS
  k1 = k1
  k2 = k2
  NoKey = NoKey
  Keys = {k1, k2}
  Environments <- AllEnvironments
  MaxRecords = 6
  MaxSeals = 2
INVARIANTS
  TypeOK
  TreeServesLog
  HeadVerifies
PROPERTIES
  HeadCatchesUp
CHECK_DEADLOCK FALSE
