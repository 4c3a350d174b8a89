SPECIFICATION FairSpec
CONSTANTS
  Threshold = 2
  MaxDelay = 4
  MaxTrades = 3
  MaxDrops = 1
  MaxEntries = 2
  MaxStarts = 2
  Environments <- MCEnvironments
CHECK_DEADLOCK FALSE
INVARIANTS TypeOK ProtectedAtStart FillOnce
PROPERTIES LossAnnounced DriftNoticed
