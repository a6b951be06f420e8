SPECIFICATION Spec
CONSTANTS
  None = None
  r1 = r1  r2 = r2
  Logs = {1, 2}
  Chunks <- TwoAndNone
  Archived = {2}
  Rebuilders = {r1}
  Breaks = {}
  MaxTroubles = 0
  MaxRebuilds = 1
  MaxStarts = 1
INVARIANTS
  NothingSlipsPast
CHECK_DEADLOCK FALSE
