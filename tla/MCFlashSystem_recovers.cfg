SPECIFICATION FairSpec
CONSTANTS
  Jobs <- EveryKind
  FileSize = 2
  ImageSize = 2
  MaxLen = 1
  BlockSize = 1
  AsciiCap = 3
  RetryCap = 4
  Pages <- SomePages
  Blocks <- SomeBlocks
  Prompt = TRUE
  LinkCap = 2
  Faults = {"lose", "corrupt", "restart", "repeat", "split", "connect", "reset"}
  MaxFaults = 2
PROPERTIES
  Recovers
