CONSTANTS
  ByteBits = 1
  LastReg = 3
  RamSize = 8
  PageBytes = 4
  NoPage = NoPage
  Tlb <- TlbSet
  StartValue = {1, 255}
  StartRam <- Rams
  Instruction <- Programs
  WideSra = FALSE
  MaxSteps = 2
  FpuRegs = 4
  MaxWord = 15
  FpuSample = {0, 3, 8, 13}
  FpuImage <- FpuImages
  FpuProgram <- FpuPrograms
  MaxFpuOps = 3
  LaneBits = 3
  Quantum = 4
  VuRegs = {0, 1, 2, 3, 4, 5}
  Reciprocal <- Tables
  VuStart <- RotatedStarts
  VuProgram <- VuPrograms
  DmemSize = 128
  VuMemImage <- VuMemImages
  VuMemProgram <- VuMemPrograms
  SpSize = 16
  RspRam = 16
  DramSpan = 32
  RspDecode <- Decoded
  RspRegister = {2, 9, 15}
  RspImage <- RspImages
  RspTransfer <- RspTransfers
  MaxRspSteps = 2
SPECIFICATION AlgorithmsSpec
INVARIANTS
  EnginesAgree
  RdramIsBigEndian
  HalvesMakeDoubles
  FormatsAgree
  VuEnginesAgree
  PairsAreWords
  PairedMoves
  DecodedIsImem
  RspAluIsCpuAlu
CHECK_DEADLOCK FALSE
