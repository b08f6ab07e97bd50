SPECIFICATION FairSpec
CONSTANTS
  Names = {file1, file2, sub}
  Dirs = {sub}
  NameLens = {2}
  OtherLens = {5}
  CacheSize = 6
  HeadSize = 1
  HeadLen = 2
  MaxSectors = 2
  MaxEntries = 3
  Null = Null
  StillDirs = FALSE
INVARIANT ListedAll
CHECK_DEADLOCK FALSE
