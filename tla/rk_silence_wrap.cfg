SPECIFICATION Spec
CONSTANTS
  Packets <- OneElement
  Playout = 2
  Silence = 3
  MaxKeyDown = 4
  PttLead = 1
  PttTail = 2
  WatchdogTick = 2
  RetryGap = 1
  U64 = 1000
  MaxLag = 1
  RxLag = 1
  MaxTime = 9
  DevInit = {TRUE}
  MaxPlugEvents = 0
INVARIANTS
  SilenceTripIsGenuine
CHECK_DEADLOCK FALSE
