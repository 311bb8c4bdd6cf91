SPECIFICATION Spec
CONSTANTS
  Threads = {"replay", "keyer"}
  Parts = 2
  Keep = 3
  MaxSizes = {3}
  MaxLines = 3
  MaxStarts = 2
PROPERTIES
  RestartKeepsLog
CHECK_DEADLOCK FALSE
