SPECIFICATION Spec
CONSTANTS
  MaxBlocks = 1
  MaxSegments = 1
  MaxLines = 2
  Chars = {"hold", "start", "jog_cancel", "door", "reset"}
  HardLimits = TRUE
  LaserMode = TRUE
  Starves = TRUE
INVARIANTS CycleIsStepped PenRestoredBeforeMotion
  ReportedRestIsRest InAlarmNothingMoves PositionLostIsFlagged
PROPERTIES ResumeIsDeliberate
CHECK_DEADLOCK FALSE
