SPECIFICATION FairSpec
CONSTANTS
  MaxThreads = 2
  MaxSignals = 1
PROPERTIES
  StopsWhileServing
CHECK_DEADLOCK FALSE
