SPECIFICATION Spec
CONSTANTS
  None = None
  Sessions = {1, 2}
  Empty = {}
  Broken = {1}
  Worker = w
  Importers = {i1}
  Hooks = {h1}
  BATCH_SIZE = 1
  Settle = 2
  Pauses = FALSE
  Coarse = FALSE
  LastTurn = 3
  MaxTurns = 2
  MaxKills = 0
  MaxImports = 1
  MaxCheckpoints = 1
INVARIANTS
  TypeOK
  NothingSkipped
  CompleteArchives
CHECK_DEADLOCK FALSE
