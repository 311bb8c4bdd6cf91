SPECIFICATION Spec
CONSTANTS
  Pattern <- MCPattern
  BufSize = 12
  Impulse = 8
  U32 = 1000
  Mantissa = 1000
  MaxTransitions = 6
  StartTime = 20
  Conversations <- MCSessions
  InitialSpeed = 4
  RecvTimeout = 1
  TuneUnit = 4
  CheckEvery = 3
  KeyerLag = 1
  ClientLag = 1
  MaxTime = 24
  MaxClock = 48
  MaxPlugEvents = 2
  MayStop = TRUE
INVARIANT KeyDownAccounted
PROPERTY BufferDrains
PROPERTY PortReopened
PROPERTY StopJoins
CHECK_DEADLOCK FALSE
