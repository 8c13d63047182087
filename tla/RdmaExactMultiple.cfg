SPECIFICATION ResultsSpec
CONSTANTS
  ClientMetric = "throughput"
  ServerMetric = "throughput"
  ClientData = 4
  ServerData = 4
  Metric <- MCMetric
  DataSize <- MCDataSize
  BufferSizes <- MCBufferSizes
  LatencySizes <- MCLatencySizes
  NumLoops = 2
  MaxBufferSize = 4
  Junk = Junk
  Old = Old
INVARIANTS
  AnnouncedMessagesReceived
