CONSTANTS
  EventId = {e1, e2}
  Callback = {"on_dma_write_completed", "on_dma_read_completed"}
  NoCallback = none
  NamedCount = 0
  MaxDelay = 2
  MaxTick = 2
  MaxTime = 4
  DramSize = 16
  PiAddress = {0}
  PiLength = {15}
SPECIFICATION PiSpec
PROPERTY
  StoppedTransferIsSilent
