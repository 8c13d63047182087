SPECIFICATION Spec
CONSTANTS
  MaxData = 40
  MaxBuffer = 12
INVARIANTS
  Covered
  StepCounts
CHECK_DEADLOCK FALSE
