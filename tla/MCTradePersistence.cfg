SPECIFICATION FairSpec
CONSTANTS
  Orders = {o1, o2}
  MaxRepeats = 1
  MaxFaults = 1
  MaxBacklog = 1
  MaxReplays = 1
  Environments <- MCEnvironments
INVARIANTS TypeOK FillKept OrderKept RowIsBook
PROPERTIES Drains
CHECK_DEADLOCK FALSE
