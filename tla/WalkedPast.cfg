SPECIFICATION Spec
CONSTANTS
  None = None
  Sessions = {1, 2}
  Empty = {}
  Broken = {}
  Worker = w
  Importers = {}
  Hooks = {}
  BATCH_SIZE = 5
  Settle = 2
  Pauses = FALSE
  Coarse = FALSE
  LastTurn = 3
  MaxTurns = 1
  MaxKills = 1
  MaxImports = 0
  MaxCheckpoints = 0
INVARIANTS
  NothingWalkedPast
CHECK_DEADLOCK FALSE
