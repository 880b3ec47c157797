SPECIFICATION HomingSpec
CONSTANTS
  Travel = 3
  Pulloff = 2
  Lag = 1
  Inverted = {"Y"}
  Switches = {"works", "open", "closed"}
INVARIANT HomedIsTrue
CHECK_DEADLOCK FALSE
