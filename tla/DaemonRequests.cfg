SPECIFICATION Spec
CONSTANTS
  d0 = d0  d1 = d1  d2 = d2  d3 = d3
  h1 = h1  h2 = h2  h3 = h3
  a1 = a1  a2 = a2  a3 = a3
  None = None  Gone = Gone
  Daemons = {d0, d1}
  Hot = {h1, h2}
  Admins = {a1}
  Outdated = {d0}
  Retryable = {h1}
  Role <- AllExclusive
  Killable = {d1, h1}
  Timers = {"call", "release"}
  IdleExit = TRUE
  Debris = FALSE
  MaxConnectRounds = 2
  MaxStopRounds = 2
INVARIANTS
  NeverRepeated
  PublishedIsServing
PROPERTIES
  ImplementsOwnership
CHECK_DEADLOCK FALSE
