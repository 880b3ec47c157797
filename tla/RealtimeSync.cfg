SPECIFICATION Spec
CONSTANTS
  MaxBlocks = 2
  MaxSegments = 2
  MaxLines = 3
  Chars = {}
  HardLimits = FALSE
  LaserMode = TRUE
  Starves = FALSE
INVARIANT SyncExecutesAll
CHECK_DEADLOCK FALSE
