SPECIFICATION Spec
CONSTANTS
  port = port
  host = host
  tool = tool
  v1 = v1
  v2 = v2
  None = None
  Sessions = {1, 2, 3}
  Keys = {port, host}
  EdgeKeys = {}
  Values = {v1, v2}
  Stories <- NoStories
  ServerStories <- OverlapStories
  Switches <- AllOn
  MaxVerdicts = 1
  MaxTroubles = 0
PROPERTIES
  NothingEverForgotten
CHECK_DEADLOCK FALSE
