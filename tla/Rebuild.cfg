SPECIFICATION FairSpec
CONSTANTS
  None = None
  r1 = r1  r2 = r2
  Logs = {1, 2}
  Chunks <- TwoAndNone
  Archived = {2}
  Rebuilders = {r1, r2}
  Breaks <- Everything
  MaxTroubles = 2
  MaxRebuilds = 1
  MaxStarts = 1
INVARIANTS
  TypeOK
  StoresKept
  NothingLeftBehind
  FinishedIsWhole
  PipelineAgrees
PROPERTIES
  RebuildsFinish
CHECK_DEADLOCK FALSE
