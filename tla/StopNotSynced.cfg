SPECIFICATION Spec
CONSTANTS
  Amount = 2
  Chunks = 2
  MaxSignals = 1
  Environments <- OneRenamed
CHECK_DEADLOCK FALSE
PROPERTY TriggerClosesBook
