SPECIFICATION Spec
CONSTANTS
  Threshold = 2
  MaxDelay = 4
  MaxTrades = 3
  MaxDrops = 1
  MaxEntries = 2
  MaxStarts = 2
  Environments <- OneCrash
CHECK_DEADLOCK FALSE
INVARIANT NoDuplicatePosition
