SPECIFICATION FairSpec
CONSTANTS
  None = None
  Sessions = {1, 2, 3}
  Empty = {1}
  Broken = {2}
  Worker = w
  Importers = {}
  Hooks = {}
  BATCH_SIZE = 2
  Settle = 2
  Pauses = FALSE
  Coarse = FALSE
  LastTurn = 3
  MaxTurns = 1
  MaxKills = 2
  MaxImports = 0
  MaxCheckpoints = 0
PROPERTIES
  EverySessionArchived
CHECK_DEADLOCK FALSE
