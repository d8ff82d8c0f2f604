SPECIFICATION Spec
CONSTANTS
  Jobs <- ConBee1
  FileSize = 2
  MaxLen = 2
  AsciiCap = 2
  RetryCap = 4
  Pages <- AnyPages
  Blocks <- AnyBlocks
PROPERTIES
  ServesOnlyTheFile
