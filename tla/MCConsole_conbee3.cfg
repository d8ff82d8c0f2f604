SPECIFICATION Spec
CONSTANTS
  Argvs <- Listing
  Machines <- AllMachines
  Desks <- OneDesk
  Chars <- AllChars
  Starts <- NoLine
  Word = 2097152
  Small = 115200
  MaxDevices = 2
  PathCap = 12
  MaxAttempts = 1
  MaxLine = 11
  EchoCap = 10
  ArgCap = 2
  Apis <- Builds
  MaxChips = 2
  MaxKeys = 0
INVARIANT SerialsTrue
CHECK_DEADLOCK FALSE
