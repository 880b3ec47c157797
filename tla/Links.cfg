SPECIFICATION LinksSpec
CONSTANTS
  RX_BUFFER_SIZE = 3
  TX_BUFFER_SIZE = 3
  Bytes = {a, b}
  NoData = NoData
  Hosts = {A, B}
  MaxPresses = 2
  MaxFaults = 1
  Wired <- MCWired
  Typed <- MCTyped
  IdleLock = TRUE
  MaxInputs = 3
  MaxCommands = 2
  MaxSegments = 1
INVARIANTS Agreement CachesFollow ButtonsHeard
PROPERTIES FifoSpec TxFifoSpec WriterReturns FallsQuiet
CHECK_DEADLOCK FALSE
