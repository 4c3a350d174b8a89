SPECIFICATION FairSpec
CONSTANTS
  Keys = {k1}
  Capacity = 1
  MaxEvents = 4
  Mixes <- MCMixes
CHECK_DEADLOCK FALSE
INVARIANTS TypeOK OneAtATime
PROPERTIES TicksInOrder DeliverySpec EventSettles
