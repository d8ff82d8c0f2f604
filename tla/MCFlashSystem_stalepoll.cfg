SPECIFICATION SysSpec
CONSTANTS
  Jobs <- OneRaspBee2
  FileSize = 2
  ImageSize = 2
  MaxLen = 1
  BlockSize = 1
  AsciiCap = 3
  RetryCap = 4
  Pages <- SomePages
  Blocks <- SomeBlocks
  Prompt = FALSE
  LinkCap = 2
  Faults = {"restart"}
  MaxFaults = 1
INVARIANTS
  ReadNeverBlocks
