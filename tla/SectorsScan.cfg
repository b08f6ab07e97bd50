SPECIFICATION Spec
CONSTANTS
  RegionNum = 4
  RegionSize = 2
  OneScan = FALSE
  RoomAtStop = TRUE
PROPERTY NoDoubleAllocation
CHECK_DEADLOCK FALSE
