SPECIFICATION Spec
CONSTANTS
  Amount = 2
  Chunks = 2
  MaxSignals = 1
  Environments <- OneOrder
CHECK_DEADLOCK FALSE
INVARIANT ExposureWithinOrder
