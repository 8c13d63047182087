SPECIFICATION Spec
CONSTANTS
  CommonMetric = "all"
  ClientData = 9
  ServerData = 9
  Metric <- MCMetric
  DataSize <- MCDataSize
  BufferSizes <- MCBufferSizes
  LatencySizes <- MCLatencySizes
  NumLoops = 3
  Capacity = 6
  SizeMax = 256
  MaxErrors = 0
  MayReset = FALSE
  MayFail = FALSE
INVARIANTS
  TypeOK
  NothingLeftOver
CHECK_DEADLOCK FALSE
