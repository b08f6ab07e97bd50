SPECIFICATION Spec
CONSTANTS
  RegionCnt = 2
  IdsInBuffer = 3
  Generations = 2
  Orderly = FALSE
INVARIANT IdsInRange
CHECK_DEADLOCK FALSE
