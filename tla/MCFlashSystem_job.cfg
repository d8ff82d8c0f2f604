SPECIFICATION SysSpec
CONSTANTS
  Jobs <- EveryKind
  FileSize = 2
  ImageSize = 2
  MaxLen = 1
  BlockSize = 1
  AsciiCap = 3
  RetryCap = 4
  Pages <- SomePages
  Blocks <- SomeBlocks
  Prompt = TRUE
  LinkCap = 4
  Faults = {"lose", "corrupt", "restart", "repeat", "split", "poll", "connect", "reset", "unplug", "die"}
  MaxFaults = 3
INVARIANTS
  SysTypeOK
  PraiseImpliesImage
PROPERTIES
  ImplementsJob
CHECK_DEADLOCK FALSE
