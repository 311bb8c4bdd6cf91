SPECIFICATION Spec
CONSTANTS
  Packets <- Keepalive
  Playout = 1
  Silence = 2
  MaxKeyDown = 2
  PttLead = 1
  PttTail = 2
  WatchdogTick = 1
  RetryGap = 0
  U64 = 1000
  MaxLag = 1
  RxLag = 0
  MaxTime = 6
  DevInit = {TRUE, FALSE}
  MaxPlugEvents = 1
INVARIANTS
  LinesTracked
  LateDeviceOpened
  KeyDownBounded
  SilenceForcesSafe
CHECK_DEADLOCK FALSE
PROPERTIES
  StopReleases
