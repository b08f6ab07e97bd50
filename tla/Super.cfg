SPECIFICATION Spec
CONSTANTS
  Capacity = 4
  Versions = 4
  MaxTail = 7
INVARIANTS
  TypeOK
  UpMeansNoCommit
  MountedNewest
CHECK_DEADLOCK FALSE
