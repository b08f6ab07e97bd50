SPECIFICATION Spec
CONSTANTS
  Capacity = 5
  Versions = 8
  MaxTail = 7
INVARIANT StopKeepsRoot
CHECK_DEADLOCK FALSE
