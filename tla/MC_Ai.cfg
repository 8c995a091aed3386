CONSTANTS
  EventId = {e1, e2}
  Callback = {"on_dma_complete"}
  NoCallback = none
  NamedCount = 0
  MaxDelay = 16
  MaxTick = 9
  MaxTime = 20
  AiAddress = {0, 8}
  AiLength = {0, 8, 16}
  AiRate = {0, 2}
  DefaultDacrate = 1
  CpuClock = 3
  DacClock = 3
  PageSize = 16
SPECIFICATION AiSpec
INVARIANTS
  AiTimerMatchesFifo
  AiLengthTellsIdle
PROPERTIES
  AiLengthCountsDown
  ImplementsAudioFifo
