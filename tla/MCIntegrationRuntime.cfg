CONSTANTS
  reader = reader
  Calls = {reader, c1, c2}
  Limit = 2
  MaxQueue = 1
  FailureThreshold = 2
  HalfOpenMaxCalls = 2
  RateLimit = 1
  MaxAttempts <- OneRetry
  Stubborn = {c1}
SPECIFICATION FairSpec
INVARIANT LimitsAreSound
PROPERTIES AbortedStartsNothing EveryCallEnds
CHECK_DEADLOCK FALSE
