SPECIFICATION Spec
CONSTANTS
  Sectors = {s1, s2}
  SectorSize = 13
  CacheSize = 8
  HeadSize = 2
  Lengths = {3, 4, 8}
  Null = null
INVARIANTS
  TypeOK
  PcacheAtTail
  RcacheCoherent
PROPERTY LogSpec
CHECK_DEADLOCK FALSE
