SPECIFICATION FairSpec
CONSTANTS
  CommonMetric = "all"
  ClientData = 9
  ServerData = 9
  Metric <- MCMetric
  DataSize <- MCDataSize
  BufferSizes <- MCBufferSizes
  LatencySizes <- MCLatencySizes
  NumLoops = 3
  Capacity = 6
  SizeMax = 256
  MaxErrors = 0
  MayReset = TRUE
  MayFail = TRUE
INVARIANTS
  DataIntact
  ResultsAnswered
  HandInv
  NoDeadlock
PROPERTIES
  Promise
  Ends
CHECK_DEADLOCK FALSE
