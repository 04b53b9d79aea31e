SPECIFICATION FairSpec
CONSTANTS
  Environments <- Mixed
  MaxRecords = 3
  MaxCrashes = 2
  MaxTorn = 1
INVARIANTS
  TypeOK
  NothingMissedSilently
  RepeatsHarmless
  GapsOnRecord
  EvidenceTruthful
PROPERTIES
  EverythingArrives
CHECK_DEADLOCK FALSE
