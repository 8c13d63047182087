SPECIFICATION Spec
CONSTANTS
  Words = {"5", "-5", "99", "l", "tcp", "rpc", "all", "rdma", "127.0.0.1"}
  NotANumber = NotANumber
  Missing = Missing
  Number <- MCNumber
  Default <- MCDefault
  IntMax = 63
  SizeMax = 256
  Offered <- MCOffered
  MaxGroups = 5
INVARIANTS
  ReadsSettings
  StartAlike
  LinesInv
CHECK_DEADLOCK FALSE
