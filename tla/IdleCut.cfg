SPECIFICATION Spec
CONSTANTS
  None = None
  Logs = {1}
  Bad = {}
  Pending0 = {}
  BatchSize = 2
  IdleExit = TRUE
  Writable = TRUE
  CaptureRuns = TRUE
  StoreErrors = FALSE
  LongTimeout = TRUE
  Abandons = FALSE
  MaxConnections = 0
  MaxOutages = 0
  MaxKills = 0
  MaxStops = 0
INVARIANTS
  IdleCutsNoUnit
CHECK_DEADLOCK FALSE
