SPECIFICATION Spec
CONSTANTS
  Producers = {src}
  src = src
  Pipeline = pipeline
  pipeline = pipeline
  Times = {1, 4}
  SealInterval = 1
  HotMax = 2
  NoFile = NoFile
  Environments <- SoundAndNot
  MaxRecords = 4
  MaxSegments = 2
INVARIANTS
  TypeOK
  CheckpointTrue
  RecoveryExact
  BootNeverRefused
  VerifierFindsLog
PROPERTIES
  ColdIsPermanent
  ImplementsDurableLog
CHECK_DEADLOCK FALSE
