SPECIFICATION Spec
CONSTANTS
  Amount = 2
  Chunks = 2
  MaxSignals = 1
  Environments <- OneKill
CHECK_DEADLOCK FALSE
PROPERTY KillFlattens
