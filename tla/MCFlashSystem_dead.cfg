SPECIFICATION FairSpec
CONSTANTS
  Jobs <- OneConBee1
  FileSize = 2
  ImageSize = 2
  MaxLen = 1
  BlockSize = 1
  AsciiCap = 3
  RetryCap = 4
  Pages <- SomePages
  Blocks <- SomeBlocks
  Prompt = TRUE
  LinkCap = 2
  Faults = {"die"}
  MaxFaults = 1
PROPERTIES
  EndsAfterWindow
