CONSTANTS
  NConns = 2
  Commands <- MCAll
  Model = "IC7300"
  Junk <- MCJunk
  MaxSends = 2
  Window = 2
  MaxFaults = 1
  PluggedAtStart = TRUE
  MayReset = TRUE
  MayStop = TRUE
  StopEarly = FALSE
SPECIFICATION Spec
INVARIANTS ClientTablesAgree RepliesInOrder AnsweredBeforeClose NeverWithoutRig
PROPERTIES StandbyKeepsClients Answered ImplementsService
CHECK_DEADLOCK FALSE
