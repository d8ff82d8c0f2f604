SPECIFICATION FairSpec
CONSTANTS
  Jobs <- UsbAndReset
  FileSize = 2
  ImageSize = 2
  MaxLen = 1
  BlockSize = 1
  AsciiCap = 3
  RetryCap = 4
  Pages <- SomePages
  Blocks <- SomeBlocks
  Prompt = FALSE
  LinkCap = 2
  Faults = {"lose", "repeat", "connect"}
  MaxFaults = 1
PROPERTIES
  EndsAfterWindow
  ResetEnds
