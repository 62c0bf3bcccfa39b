CONSTANTS
  Handlers = {loop, consumer}
  MaxSignals = 2
  MaxFaults = 2
SPECIFICATION Spec
INVARIANT WorkerIsHonest
PROPERTIES
  CloseIsShared
  Returns
CHECK_DEADLOCK FALSE
