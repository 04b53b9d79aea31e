SPECIFICATION FairSpec
CONSTANTS
  Producers = {p}
  p = p
  Handlers = {h1, h2}
  h1 = h1
  h2 = h2
  Emitters = {e}
  e = e
  Nobody = Nobody
  Burst = 2
  RefillEvery = 2
  Environments <- Mixed
  Step = 1
  MaxSequence = 2
  MaxRestarts = 1
  MaxEvidence = 2
INVARIANTS
  TypeOK
  ShareExact
  EmitNeverRegresses
  ConformingNeverRefused
PROPERTIES
  SaturationReported
  EverythingAcknowledged
CHECK_DEADLOCK FALSE
