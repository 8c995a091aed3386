CONSTANTS
  EventId = {}
  Callback = {"on_sp_event"}
  NoCallback = none
  NamedCount = 2
  MaxDelay = 3
  MaxTick = 2
  MaxTime = 5
  MaxInsns = 2
  CpuStatusWrite <- CpuWrites
  RspStatusWrite <- RspWrites
SPECIFICATION RspFairSpec
INVARIANTS
  RunningHasEvent
PROPERTIES
  HaltedStaysIdle
  TickReturns
  BreakIsShown
