CONSTANTS
  Frac = 2
  MaxSec = 2
  Timeouts = {0, 1}
  Limits = {1, 2}
  FineClock = TRUE
SPECIFICATION Spec
INVARIANTS
  LeaseExclusive
  DequeueCountExact
  FirstDeliveryInOrder
PROPERTY
  ImplementsExclusiveLease
