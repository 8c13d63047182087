SPECIFICATION Spec
CONSTANTS
  CommonMetric = "all"
  ClientData = 9
  ServerData = 9
  Metric <- MCMetric
  DataSize <- MCDataSize
  BufferSizes <- MCBufferSizes
  LatencySizes <- MCLatencySizes
  NumLoops = 3
  Capacity = 6
  SizeMax = 256
  MaxErrors = 3
  MayReset = FALSE
  MayFail = TRUE
INVARIANTS
  NoResultWithoutAnswer
CHECK_DEADLOCK FALSE
