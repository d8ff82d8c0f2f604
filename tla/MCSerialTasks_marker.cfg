SPECIFICATION Spec
CONSTANTS
  Jobs <- OnlySniff
  Script <- OneFrame
  Bytes <- SmallBytes
  MinLength = 3
  DataLength = 4
  AsciiCap = 12
  RxCap = 14
  FlashSteps = 2
  DevCap = 2
  MaxFaults = 0
INVARIANT
  EveryFrameForwarded
