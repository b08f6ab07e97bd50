SPECIFICATION Spec
CONSTANTS
  SectorCnt = 6
  RegionSize = 3
  SectorSize = 5
  DataOff = 2
  IndexOff = 1
  Threshold = 1
  IndexNum = 3
  IndexMax = 5
  MaxSize = 9
  Lengths = {1, 9}
  Null = Null
  AppendsFit = TRUE
  RewritesApart = FALSE
INVARIANT LiveTaken
CHECK_DEADLOCK FALSE
