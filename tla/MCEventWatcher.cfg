SPECIFICATION Spec
CONSTANTS
  Confirmations = 1
  MaxBlocks = 2
  Concurrency = 2
  MaxHead = 4
  EventNames = {7}
  Depth = 1
  MaxReorgs = 1
  Lag = 1
  MaxFaults = 2
INVARIANTS NoneMissed NoneReverted InOrderOnce ResumeLosesNothing
PROPERTIES EventuallyDelivered
CHECK_DEADLOCK FALSE
