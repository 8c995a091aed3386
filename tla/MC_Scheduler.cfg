CONSTANTS
  NoCallback = none
  EventId = {e1, e2}
  Callback = {cbA}
  NamedCount = 2
  MaxDelay = 2
  MaxTick = 2
  MaxTime = 4
SPECIFICATION SchedSpec
SYMMETRY CellSymmetry
INVARIANTS
  NothingOverdue
PROPERTIES
  IdleWarpIsSilent
  ImplementsTimerService
