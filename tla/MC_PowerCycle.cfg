CONSTANTS
  EventId = {e1, e2}
  Callback = {"on_dma_write_completed", "on_dma_read_completed", "on_dma_complete"}
  NoCallback = none
  NamedCount = 0
  MaxDelay = 4
  MaxTick = 4
  MaxTime = 4
  DramSize = 16
  PiAddress = {0, 6}
  PiLength = {5, 7, 15}
  AiAddress = {0}
  AiLength = {8}
  AiRate = {0}
  DefaultDacrate = 1
  CpuClock = 1
  DacClock = 1
  PageSize = 8
  MaskWrite <- MaskWrites
SYMMETRY CellSymmetry
SPECIFICATION PartsSpec
INVARIANTS
  Ip2NeverSpurious
  EveryEventHasAnOwner
  BusyHasCompletion
  PiStatusIsMi
PROPERTIES
  LinesFallOnlyByAck
