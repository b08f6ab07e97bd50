SPECIFICATION Spec
CONSTANTS
  RegionCnt = 2
  IdsInBuffer = 3
  Generations = 3
  Orderly = TRUE
INVARIANTS
  TypeOK
  RamMapExact
  MapEncodesPool
  IdsInRange
PROPERTY PoolSpec
CHECK_DEADLOCK FALSE
