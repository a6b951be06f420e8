SPECIFICATION Spec
CONSTANTS
  d0 = d0  d1 = d1  d2 = d2  d3 = d3
  h1 = h1  h2 = h2  h3 = h3
  a1 = a1  a2 = a2  a3 = a3
  None = None  Gone = Gone
  Daemons = {d1, d2}
  Hot = {h1, h2}
  Admins = {a1, a2}
  Outdated = {}
  Retryable = {h1}
  Role <- ExclusiveAndRebuild
  Killable = {}
  Timers = {"start", "admin"}
  IdleExit = TRUE
  Debris = FALSE
  MaxConnectRounds = 1
  MaxStopRounds = 2
INVARIANTS
  TypeOK
  StoreHeldWhileUsed
CHECK_DEADLOCK FALSE
