CONSTANTS
  N = 3
  MaxAttempts = 3
SPECIFICATION FairSpec
INVARIANTS RetriesAreDue CountsFinals
PROPERTY RunEnds
