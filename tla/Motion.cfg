SPECIFICATION MotionSpec
CONSTANTS
  Blocks <- MCBlocks
  SEGMENT_BUFFER_SIZE = 3
  MAX_AMASS_LEVEL = 2
  MaxBlocks = 3
  Travel = 9
  Pulloff = 3
  Lag = 1
  Inverted = {"Y"}
  Switches = {"works", "open", "closed"}
  Span = 3
  Sub = 2
  Moves <- MCMoves
  BLOCK_BUFFER_SIZE = 3
  BYTE = 2
  StepsPerMm = 3
  PerMm = 10
  WorkOffset <- MCWorkOffset
  ShowsMachine = FALSE
  MaxLines = 4
INVARIANTS OnTheLine MotorsFollow HomedUnlessMisled PlaceIsKept
CHECK_DEADLOCK FALSE
