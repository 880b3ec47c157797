SPECIFICATION FairSpec
CONSTANTS
  bfrSizeMx = 3
  RX_BUFFER_SIZE = 3
  LineLen <- MCLineLen
  SettingLines <- MCSettingLines
  MaxOpens = 2
  MaxResets = 1
INVARIANTS NoOverrun AnswerIsForHead
CHECK_DEADLOCK FALSE
PROPERTIES EveryLineExecuted CountingSpec
