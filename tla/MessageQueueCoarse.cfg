CONSTANTS
  Frac = 1
  MaxSec = 2
  Timeouts = {1}
  Limits = {1, 2}
  FineClock = FALSE
SPECIFICATION FairSpec
PROPERTIES
  AttemptsNeverReset
  LeaseEnds
