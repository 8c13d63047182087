SPECIFICATION ResultsSpec
CONSTANTS
  ClientMetric = "latency"
  ServerMetric = "all"
  ClientData = 3
  ServerData = 1
  Metric <- MCMetric
  DataSize <- MCDataSize
  BufferSizes <- MCBufferSizes
  LatencySizes <- MCLatencySizes
  NumLoops = 2
  MaxBufferSize = 4
  Junk = Junk
  Old = Old
INVARIANTS
  PairInv
PROPERTIES
  StopsAtFailure
CHECK_DEADLOCK FALSE
