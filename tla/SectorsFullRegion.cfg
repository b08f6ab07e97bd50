SPECIFICATION Spec
CONSTANTS
  RegionNum = 4
  RegionSize = 2
  OneScan = TRUE
  RoomAtStop = FALSE
PROPERTY NoDoubleAllocation
CHECK_DEADLOCK FALSE
