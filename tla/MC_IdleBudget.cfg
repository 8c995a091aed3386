CONSTANTS
  NumPages = 3
  PageWords = 2
  MaxBlockInsns = 2
  Word <- Words
  Kind <- Kinds
  Image <- Images
  EntryAddr = {0, 1, 2, 3}
  BusAddr = {0, 3}
  HelperAddr = {5}
  InlineAddr = {5}
  DmaRange <- Dmas
  SiRange <- SiDmas
  NoWord = none
  NumWords = 5
  Refill = 3
  General = 4
  NoPc = none
  MaxOps = 3
  LikelyIn = {"jit"}
  NestedFpu = FALSE
  LikelyFpu = FALSE
  NumEntries = 2
  NumVPages = 4
  KernelBase = 2
  Asid = {0, 1}
  Setting <- Settings
  WiredValue = {1, 3}
  RdramPage = {0, 1, 5, 7}
  SoftSize = 1
  AnyRead = FALSE
  NoEntry = none
  AdvanceEvery = 3
  MinWarp = 2
  MaxWarp = 7
  BlockMax = 2
  Budget = {2, 6}
  Delay = {0, 6}
  CountMod = 10
  CompareAt = {0, 4}
  NoTimer = none
  Infinite = 1000
  VSync = {0, 4, 7}
  VIntr = {0, 1, 2, 4, 6}
SPECIFICATION CpuPartsSpec
INVARIANT WarpWithinBudget
