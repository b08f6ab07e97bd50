SPECIFICATION Spec
CONSTANTS
  Names = {x, y}
  Begins = {}
  Ids = {Root, i1, i2, i3}
  Root = Root
  TreeMax = 3
  FileListMax = 2
  DirListMax = 3
  PathLen = 2
  ChainMax = 2
  Null = Null
  EmptyOnly = TRUE
  RoomInTree = TRUE
INVARIANTS TypeOK TailsAgree IdsExact FilesReachable FilesOnce
CHECK_DEADLOCK FALSE
SYMMETRY TreeSymmetry
