SPECIFICATION Spec
CONSTANTS
  Names = {x, y}
  Begins <- LongerNames
  Ids = {Root, i1, i2, i3}
  Root = Root
  TreeMax = 4
  FileListMax = 2
  DirListMax = 3
  PathLen = 2
  ChainMax = 2
  Null = Null
  EmptyOnly = TRUE
  RoomInTree = TRUE
INVARIANT FilesReachable
CHECK_DEADLOCK FALSE
