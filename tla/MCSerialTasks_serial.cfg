SPECIFICATION FairSpec
CONSTANTS
  Jobs <- EveryTask
  Script <- ThreeFrames
  Bytes <- SmallBytes
  MinLength = 3
  DataLength = 4
  AsciiCap = 12
  RxCap = 14
  FlashSteps = 2
  DevCap = 2
  MaxFaults = 2
INVARIANTS
  SerialTypeOK
  SerialNeverStranded
  SocketPaired
  ForwardedIsSent
  NothingElseDropped
  DumpComplete
PROPERTIES
  DumpEnds
  Resumes
