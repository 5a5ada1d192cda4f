\* Two workers, one of which stalls in the middle of a send.
SPECIFICATION DeliverySpec
CONSTANTS
  Deliveries = {d1}
  Passes = {x1, x2}
  MaxDeliveryAttempts = 3
  NoDelivery = NoDelivery
PROPERTIES
  InterruptedNotReplayed
CHECK_DEADLOCK FALSE
