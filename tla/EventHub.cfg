CONSTANTS
  MaxPublish = 3
  MaxEpoch = 2
  MaxCrash = 1
  PageSizes = {1, 2}
SPECIFICATION FairSpec
INVARIANTS
  Dense
  NoneSkipped
PROPERTY
  EveryEventRead
