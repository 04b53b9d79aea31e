SPECIFICATION FairSpec
CONSTANTS
  Width <- MCWidth
  Environments <- MCEnvironments
  MaxLines = 4
  MaxRotations = 2
  MaxRestarts = 2
INVARIANTS TypeOK LinesAccountedFor CommittedOnceInOrder
PROPERTIES EverythingBridged
