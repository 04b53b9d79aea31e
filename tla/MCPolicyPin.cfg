SPECIFICATION PinSpec
CONSTANTS
  FlagPolicies <- SmallPolicies
  FloorMinimum = 7
  Ceiling = 3
  NoFile = NoFile
  FailureSets <- SoundAndNot
  MaxChanges = 3
INVARIANTS
  PinTypeOK
  TrailLeadsToPin
PROPERTIES
  FloorOnlyGrows
CHECK_DEADLOCK FALSE
