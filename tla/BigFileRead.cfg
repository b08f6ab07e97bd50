SPECIFICATION Spec
CONSTANTS
  SectorCnt = 4
  RegionSize = 2
  SectorSize = 5
  DataOff = 2
  IndexOff = 1
  Threshold = 1
  IndexNum = 3
  IndexMax = 5
  MaxSize = 4
  Lengths = {1, 2, 4}
  Null = Null
  AppendsFit = TRUE
  RewritesApart = TRUE
INVARIANT ReadsBack
CHECK_DEADLOCK FALSE
