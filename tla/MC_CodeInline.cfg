CONSTANTS
  NumPages = 3
  PageWords = 2
  MaxBlockInsns = 2
  Word <- Words
  Kind <- Kinds
  Image <- Images
  EntryAddr = {0, 1, 2, 3}
  BusAddr = {0, 3}
  HelperAddr = {}
  InlineAddr = {0}
  DmaRange <- Dmas
  SiRange <- SiDmas
  NoWord = none
SPECIFICATION Spec
INVARIANT
  OwnPageFresh
