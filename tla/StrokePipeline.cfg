SPECIFICATION FairSpec
CONSTANTS
  MaxStrokes = 2
  MaxEvents = 3
  MaxMillis = 3
  MaxToggles = 2
  Keys = {"s"}
  MaxFaults = 1
INVARIANTS PlotsWhatWasWritten InkStaysInStrokes
  CalibrationIsDeliberate
PROPERTY EveryStrokePlotted
CHECK_DEADLOCK FALSE
