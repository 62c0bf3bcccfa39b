SPECIFICATION Spec
CONSTANTS
  b1 = b1
  b2 = b2
  d1 = d1
  d2 = d2
  d3 = d3
  m1 = m1
  m2 = m2
  Bindings <- MCBindings
  Callers <- MCCallers
  Queue <- MCQueue
  MessageOf <- MCMessageOf
  Retriable <- MCRetriable
  Prefetch = 3
  Concurrency = 2
  MaxFaults = 2
INVARIANTS AcksAreSound StopIsClean
PROPERTY StopSettles
CHECK_DEADLOCK FALSE
