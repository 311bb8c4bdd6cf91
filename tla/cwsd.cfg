SPECIFICATION Spec
CONSTANTS
  L1 = L1
  Listeners = {L1}
  U32 = 5
  Timeout = 3
  Period = 1
  MaxGap = 1
  MaxUnplugs = 1
  DevInit = {TRUE}
  Faulty = FALSE
  Enabled = {"rigctld", "audio"}
INVARIANTS
  SilenceBounded
  DeletedOnlyEnded
PROPERTIES
  KeepaliveSuffices
  SilentDropped
  Subscribed
  DeviceReopened
  SignalExits
CHECK_DEADLOCK FALSE
