CONSTANTS
  Messages = {m1}
  Payloads = {s1}
  Publishers = {p1, p2}
  Operators = {o1}
  MaxAttempts = 2
  BatchSize = 1
  MaxCrashes = 1
  MaxOverruns = 0
  MaxLostConfirms = 0
  MaxReplays = 0
SPECIFICATION Spec
INVARIANT ConfirmedNotIsolated
CHECK_DEADLOCK FALSE
