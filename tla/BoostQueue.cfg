SPECIFICATION FairSpec
CONSTANTS
  NProcs = 2
PROPERTIES
  AllEnd
CHECK_DEADLOCK FALSE
