SPECIFICATION ControlSpec
CONSTANTS
  BLOCK_BUFFER_SIZE = 4
  Lengths = {1, 3}
  Junctions = {3}
  FeedRate = 1
  RapidRate = 4
  FeedOverrides = {1, 2}
  RapidOverrides = {1}
  Rates <- MCRates
  Pulses <- MCPulses
  Lasts <- MCLasts
  Offsets <- MCOffsets
  StoreLines <- MCLines
  MaxPercent = 3
  MinPercent = 2
  DefaultPercent = 2
  CoarseStep = 2
  FineStep = 1
  Modulus = 8
  BusyCount = 3
  IdleCount = 2
  Requests <- MCRequests
  MaxPending = 2
INVARIANTS JunctionsRespected PlanIsOptimal
  StepperKnowsExit StoredIsInForce
PROPERTIES NoSpeedJump ReportsKeepUp OverridesObey
CHECK_DEADLOCK FALSE
