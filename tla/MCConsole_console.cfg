SPECIFICATION Spec
CONSTANTS
  Argvs <- AllArgvs
  Machines <- AllMachines
  Desks <- OneDesk
  Chars <- AllChars
  Starts <- AllStarts
  Word = 2097152
  Small = 115200
  MaxDevices = 2
  PathCap = 12
  MaxAttempts = 2
  MaxLine = 11
  EchoCap = 10
  ArgCap = 2
  Apis <- Builds
  MaxChips = 2
  MaxKeys = 4
INVARIANTS
  CommandTypeOK
  RightBaud
  NumbersAsTyped
  FileWithinRead
  LineTypeOK
  CommandIsTyped
  GpioPaired
PROPERTIES
  NoMemory
  EditsLine
CHECK_DEADLOCK FALSE
