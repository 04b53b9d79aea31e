SPECIFICATION FairSpec
CONSTANTS
  Width <- MCWidth
  Environments <- MCDeny
  MaxLines = 2
  MaxRotations = 0
  MaxRestarts = 0
PROPERTIES NothingHoldsUpBridge
