SPECIFICATION Spec
CONSTANTS
  None = None
  r1 = r1  r2 = r2
  Logs = {1, 2}
  Chunks <- TwoAndNone
  Archived = {2}
  Rebuilders = {r1}
  Breaks = {"crash", "budget"}
  MaxTroubles = 2
  MaxRebuilds = 2
  MaxStarts = 1
PROPERTIES
  HalfSwapNamesLast
CHECK_DEADLOCK FALSE
