SPECIFICATION Spec
CONSTANTS
  Packets <- OneElement
  Playout = 1
  Silence = 3
  MaxKeyDown = 4
  PttLead = 1
  PttTail = 2
  WatchdogTick = 2
  RetryGap = 1
  U64 = 1000
  MaxLag = 1
  RxLag = 0
  MaxTime = 10
  DevInit = {TRUE, FALSE}
  MaxPlugEvents = 2
INVARIANTS
  DeviceReconnected
CHECK_DEADLOCK FALSE
