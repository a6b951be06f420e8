SPECIFICATION Spec
CONSTANTS
  None = None
  r1 = r1  r2 = r2
  Logs = {1, 2}
  Chunks <- TwoAndNone
  Archived = {2}
  Rebuilders = {r1, r2}
  Breaks = {"budget"}
  MaxTroubles = 1
  MaxRebuilds = 1
  MaxStarts = 0
INVARIANTS
  OnlyUnfinished
CHECK_DEADLOCK FALSE
