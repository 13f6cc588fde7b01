SPECIFICATION Spec
CONSTANTS
  Components = {a, b}
  MaxDepth = 2
  MAX_INODES = 3
  MaxIno = 4
  MAX_FDS = 4
  Block = 2
  MaxSize = 2
  Counts = {1}
  Offsets <- MCOffsets
  Bytes = {x}
  JUNK = JUNK
  NULL = NULL
VIEW State
CONSTRAINT Small
INVARIANT TreeConsistent
PROPERTIES ResolutionStable ErrorIsNoOp ContentKept OpenRenameKeepNamesUnique
CHECK_DEADLOCK FALSE
