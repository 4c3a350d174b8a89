SPECIFICATION FairSpec
CONSTANTS
  Clients = {c1}
  Generated = g
  Amount = 2
  FillTimeout = 1
  SelfTradeWindow = 2
  SaveInterval = 1
  OrderTtl = 2
  MaxOrders = 3
  MaxTime = 4
  MaxRestarts = 1
  Environments <- MCEnvironments
CHECK_DEADLOCK FALSE
INVARIANTS TypeOK NoOverfill OneOrderPerClient NoSelfTrade PositionMatchesFill PositionIsDurable
PROPERTIES ReservationSettles
