SPECIFICATION Spec
CONSTANTS
  Threads = {"replay", "keyer"}
  Parts = 2
  Keep = 3
  MaxSizes = {0, 3, 4}
  MaxLines = 6
  MaxStarts = 3
INVARIANTS
  LinesWhole
  LogRotated
PROPERTIES
  StatementEnds
CHECK_DEADLOCK FALSE
