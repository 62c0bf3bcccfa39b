CONSTANTS
  Messages = {m1, m2}
  Payloads = {s1}
  Publishers = {p1, p2}
  Operators = {o1}
  MaxAttempts = 2
  BatchSize = 2
  MaxCrashes = 1
  MaxOverruns = 1
  MaxLostConfirms = 0
  MaxReplays = 0
SPECIFICATION FairSpec
PROPERTY EventuallySettled
CHECK_DEADLOCK FALSE
