SPECIFICATION Spec
CONSTANTS
  Producers = {src}
  src = src
  Pipeline = pipeline
  pipeline = pipeline
  Times = {1, 4}
  SealInterval = 1
  HotMax = 2
  NoFile = NoFile
  Environments <- OnlySealCrash
  MaxRecords = 3
  MaxSegments = 2
INVARIANTS
  NothingSealedIsLost
CHECK_DEADLOCK FALSE
