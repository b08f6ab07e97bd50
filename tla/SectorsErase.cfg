SPECIFICATION Spec
CONSTANTS
  RegionNum = 4
  RegionSize = 2
  OneScan = TRUE
  RoomAtStop = TRUE
INVARIANT EraseMapExact
CHECK_DEADLOCK FALSE
