CONSTANTS
  N = 3
  MaxAttempts = 3
SPECIFICATION Spec
INVARIANT OneFailureSparesTheRest
