SPECIFICATION PinsSpec
CONSTANTS
  Wired <- MCWired
  Typed <- MCTyped
  IdleLock = TRUE
  MaxInputs = 3
  MaxCommands = 2
  MaxSegments = 1
INVARIANT KilledStaysOff
CHECK_DEADLOCK FALSE
