SPECIFICATION Spec
CONSTANTS
  Pattern <- MCPattern
  BufSize = 16
  Impulse = 12
  U32 = 1000
  Mantissa = 1000
  MaxTransitions = 6
  StartTime = 60
  Conversations <- MCTextsOrCommands
  InitialSpeed = 4
  RecvTimeout = 1
  TuneUnit = 3
  CheckEvery = 2
  KeyerLag = 1
  ClientLag = 1
  MaxTime = 62
  MaxClock = 200
  MaxPlugEvents = 0
  MayStop = FALSE
INVARIANT TextInOrder
INVARIANT TuneBounded
PROPERTY ElementOnTime
PROPERTY SpacingKept
PROPERTY DrainCapUnused
CHECK_DEADLOCK FALSE
