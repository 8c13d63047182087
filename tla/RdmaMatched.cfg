SPECIFICATION ResultsFairSpec
CONSTANTS
  ClientMetric = "all"
  ServerMetric = "all"
  ClientData = 5
  ServerData = 5
  Metric <- MCMetric
  DataSize <- MCDataSize
  BufferSizes <- MCBufferSizes
  LatencySizes <- MCLatencySizes
  NumLoops = 2
  MaxBufferSize = 4
  Junk = Junk
  Old = Old
INVARIANTS
  IInv
  TypeOK
  NoDanglingReceive
  Agreement
  ExclusiveRegion
  RegionAlive
  RequestInRegion
  NoFailure
  NoDeadlock
  TransferComplete
  AnnouncedMessagesReceived
  FilesComplete
  GenuineResults
PROPERTIES
  Promise
  Termination
