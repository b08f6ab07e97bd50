SPECIFICATION Spec
CONSTANTS
  Capacity = 5
  Versions = 8
  MaxTail = 7
INVARIANT CommitMeansSaved
CHECK_DEADLOCK FALSE
