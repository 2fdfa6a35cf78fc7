CONSTANTS
  Frac = 1
  MaxSec = 3
  Queues = {3}
  Subscriptions = {1, 2}
  Timeouts = {1}
  Limits = {2}
SPECIFICATION Spec
INVARIANTS
  TypeOK
  FanOut
PROPERTY
  EachEntityLeases
