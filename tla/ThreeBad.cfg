SPECIFICATION PersistentSpec
CONSTANTS
  None = None
  Logs = {1, 2, 3, 4}
  Bad = {1, 2, 3}
  Pending0 = {1, 2, 3, 4}
  BatchSize = 3
  IdleExit = TRUE
  Writable = TRUE
  CaptureRuns = FALSE
  StoreErrors = FALSE
  LongTimeout = TRUE
  Abandons = FALSE
  MaxConnections = 0
  MaxOutages = 0
  MaxKills = 1
  MaxStops = 0
PROPERTIES
  NoneIsRetriedForever
CHECK_DEADLOCK FALSE
