SPECIFICATION Spec
CONSTANTS
  None = None
  Sessions = {1, 2}
  Empty = {}
  Broken = {}
  Worker = w
  Importers = {}
  Hooks = {h1}
  BATCH_SIZE = 5
  Settle = 2
  Pauses = FALSE
  Coarse = FALSE
  LastTurn = 3
  MaxTurns = 1
  MaxKills = 0
  MaxImports = 0
  MaxCheckpoints = 0
INVARIANTS
  NothingReplaced
CHECK_DEADLOCK FALSE
