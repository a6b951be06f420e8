SPECIFICATION PersistentSpec
CONSTANTS
  None = None
  Logs = {1, 2, 3, 4, 5}
  Bad = {1, 2, 3}
  Pending0 = {1, 2, 4}
  BatchSize = 3
  IdleExit = TRUE
  Writable = TRUE
  CaptureRuns = FALSE
  StoreErrors = FALSE
  LongTimeout = TRUE
  Abandons = FALSE
  MaxConnections = 2
  MaxOutages = 0
  MaxKills = 1
  MaxStops = 1
PROPERTIES
  BadAreSetAside
  GoodAreExtracted
  StopStops
CHECK_DEADLOCK FALSE
