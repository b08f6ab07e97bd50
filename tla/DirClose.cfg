SPECIFICATION Spec
CONSTANTS
  Files = {a, b}
  SectorSize = 5
  HeadLen = 1
  NameLen = 2
  SmallLens = {1, 2}
  IndexLen = 2
  OspaceLen = 1
  CacheSize = 4
  HeadSize = 1
  GcFactor = 1
  ListMax = 1
  MaxOldSpace = 6
  Null = Null
  QuietGc = TRUE
  IndexesMove = TRUE
  ShortClosed = FALSE
INVARIANT DeadCounted
CHECK_DEADLOCK FALSE
