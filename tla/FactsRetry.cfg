SPECIFICATION Spec
CONSTANTS
  port = port
  host = host
  tool = tool
  v1 = v1
  v2 = v2
  None = None
  Sessions = {1, 2, 3}
  Keys = {port}
  EdgeKeys = {}
  Values = {v1, v2}
  Stories <- ReleaseStories
  ServerStories <- NoStories
  Switches <- AllOn
  MaxVerdicts = 0
  MaxTroubles = 1
PROPERTIES
  RetryMovesNothing
CHECK_DEADLOCK FALSE
