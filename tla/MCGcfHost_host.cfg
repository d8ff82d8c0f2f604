SPECIFICATION Spec
CONSTANTS
  Jobs <- EveryPath
  FileSize = 2
  MaxLen = 2
  AsciiCap = 2
  RetryCap = 4
  Pages <- AnyPages
  Blocks <- AnyBlocks
INVARIANTS
  TypeOK
  NeverStranded
  QueryBudget
PROPERTIES
  VerifyAfterTheEnd
  EndsForAReason
