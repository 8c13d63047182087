SPECIFICATION Spec
CONSTANTS
  Chosen <- AnyTwo
  NumLoops = 2
  MaxBufferSize = 4
  Junk = Junk
  Old = Old
INVARIANTS
  StuckOnlyThere
  RefillsOnlyThere
  NoSilentMismatch
CHECK_DEADLOCK FALSE
