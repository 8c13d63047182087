SPECIFICATION FairSpec
CONSTANTS
  Chosen <- AnyTwo
  NumLoops = 2
  Capacity = 3
  SizeMax = 256
  MaxErrors = 0
  MayReset = FALSE
  MayFail = FALSE
INVARIANTS
  NoResultWithoutAnswer
PROPERTIES
  EndsIfServerWantsLess
CHECK_DEADLOCK FALSE
