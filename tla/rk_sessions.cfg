SPECIFICATION Spec
CONSTANTS
  Packets <- TwoSessions
  Playout = 2
  Silence = 4
  MaxKeyDown = 4
  PttLead = 1
  PttTail = 2
  WatchdogTick = 1
  RetryGap = 1
  U64 = 1000
  MaxLag = 1
  RxLag = 1
  MaxTime = 9
  DevInit = {TRUE}
  MaxPlugEvents = 0
INVARIANTS
  QueueOrdered
  KeyOnlyUnderPtt
  NoEdgeOverdue
PROPERTIES
  ResetServedFirst
CHECK_DEADLOCK FALSE
