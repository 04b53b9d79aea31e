SPECIFICATION Spec
CONSTANTS
  Policies <- MCPolicies
  Environments <- MCEnvironments
  MaxSegments = 5
INVARIANTS TypeOK CeilingKept StuckIsEvidenced
CHECK_DEADLOCK FALSE
