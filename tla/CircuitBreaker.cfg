SPECIFICATION LiveSpec
CONSTANTS
  Calls = {c1, c2, c3}
  FailureThreshold = 2
  RecoveryTimeout = 2
INVARIANTS
  TypeOK
  StateMatchesCount
PROPERTY OpenEnds
