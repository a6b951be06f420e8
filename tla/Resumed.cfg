SPECIFICATION Spec
CONSTANTS
  None = None
  Sessions = {1, 2}
  Empty = {}
  Broken = {}
  Worker = w
  Importers = {}
  Hooks = {}
  BATCH_SIZE = 5
  Settle = 2
  Pauses = TRUE
  Coarse = FALSE
  LastTurn = 3
  MaxTurns = 2
  MaxKills = 0
  MaxImports = 0
  MaxCheckpoints = 0
INVARIANTS
  CompleteArchives
CHECK_DEADLOCK FALSE
