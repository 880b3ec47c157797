SPECIFICATION LinesSpec
CONSTANTS
  InchFactor = 2
  MAX_LINE_NUMBER = 10000000
  MAX_TOOL_NUMBER = 255
  Lines <- MCLines
  MaxLines = 3
  MaxCoord = 2
  BlockBuffer = 3
  RpmMin = 0
  RpmMax = 1000
  PwmMin = 7
  PwmMax = 38
  Typed <- MCTyped
  SETTING_INDEX_NCOORD = 1
  Sent <- MCSent
  StoredLines <- MCStoredLines
  StoredInfos <- MCStoredInfos
  MaxSent = 2
  MaxAborts = 1
INVARIANTS ParserInSync CoordSystemIsStored NoStalePower BackupRestores
  AnswersMatchLines
PROPERTY ZeroingWorks
