SPECIFICATION Spec
CONSTANTS
  RegionNum = 5
  RegionSize = 2
  OneScan = TRUE
  RoomAtStop = TRUE
INVARIANTS
  TypeOK
  MapsExact
  RegionsDisjoint
PROPERTY PoolSpec
CHECK_DEADLOCK FALSE
