SPECIFICATION Spec
CONSTANTS
  Pattern <- MCPattern
  BufSize = 12
  Impulse = 8
  U32 = 1000
  Mantissa = 1000
  MaxTransitions = 6
  StartTime = 20
  Conversations <- MCExit
  InitialSpeed = 4
  RecvTimeout = 2
  TuneUnit = 4
  CheckEvery = 2
  KeyerLag = 1
  ClientLag = 1
  MaxTime = 30
  MaxClock = 200
  MaxPlugEvents = 0
  MayStop = FALSE
INVARIANT TuneBounded
CHECK_DEADLOCK FALSE
