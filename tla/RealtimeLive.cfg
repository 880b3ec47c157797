SPECIFICATION FairSpec
CONSTANTS
  MaxBlocks = 1
  MaxSegments = 1
  MaxLines = 2
  Chars = {"hold", "start", "door"}
  HardLimits = FALSE
  LaserMode = TRUE
  Starves = TRUE
PROPERTIES HoldCompletes MotionStarts
CHECK_DEADLOCK FALSE
