SPECIFICATION Spec
CONSTANTS
  port = port
  host = host
  tool = tool
  v1 = v1
  v2 = v2
  None = None
  Sessions = {1, 2, 3}
  Keys = {port, host, tool}
  EdgeKeys = {tool}
  Values = {v1, v2}
  Stories <- SeveralStories
  ServerStories <- OverlapStories
  Switches <- AllOn
  MaxVerdicts = 1
  MaxTroubles = 1
INVARIANTS
  TypeOK
  CountedOnce
  OneCurrentValue
PROPERTIES
  NothingForgotten
  NeverEmpty
  OwnRowsStay
CHECK_DEADLOCK FALSE
