SPECIFICATION Spec
CONSTANTS
  None = None
  Logs = {1, 2, 3}
  Bad = {1}
  Pending0 = {1, 2}
  BatchSize = 1
  IdleExit = TRUE
  Writable = FALSE
  CaptureRuns = TRUE
  StoreErrors = TRUE
  LongTimeout = FALSE
  Abandons = TRUE
  MaxConnections = 1
  MaxOutages = 1
  MaxKills = 1
  MaxStops = 1
INVARIANTS
  TypeOK
  NothingHidden
  LadderOK
PROPERTIES
  BatchIsFull
CHECK_DEADLOCK FALSE
