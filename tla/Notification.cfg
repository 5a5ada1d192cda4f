\* One delivery and three workers.
SPECIFICATION FairDeliverySpec
CONSTANTS
  Deliveries = {d1}
  Passes = {x1, x2, x3}
  MaxDeliveryAttempts = 3
  NoDelivery = NoDelivery
INVARIANTS
  OneSender
PROPERTIES
  DeliveriesEnd
CHECK_DEADLOCK FALSE
