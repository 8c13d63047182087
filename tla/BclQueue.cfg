SPECIFICATION FairSpec
CONSTANTS
  MaxProcs = 3
  Count = 3
  QueueSize = 9
  Garbage = Garbage
INVARIANTS
  NoPopFails
  EachElementOnce
  QueueInv
PROPERTIES
  AllEnd
CHECK_DEADLOCK FALSE
