SPECIFICATION Spec
CONSTANTS
  RegionCnt = 2
  IdsInBuffer = 3
  Generations = 2
  Orderly = TRUE
PROPERTY NoIdMeansNoneFree
CHECK_DEADLOCK FALSE
