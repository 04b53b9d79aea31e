SPECIFICATION FairSpec
CONSTANTS
  Producers = {src}
  src = src
  Pipeline = pipeline
  pipeline = pipeline
  Times = {1, 4}
  SealInterval = 1
  HotMax = 2
  NoFile = NoFile
  Environments <- RetriesNeeded
  MaxRecords = 3
  MaxSegments = 2
PROPERTIES
  SealedReachesCold
CHECK_DEADLOCK FALSE
