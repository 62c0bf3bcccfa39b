CONSTANTS
  Messages = {m1, m2}
  Payloads = {s1, s2}
  Publishers = {p1, p2}
  Operators = {o1}
  MaxAttempts = 2
  BatchSize = 2
  MaxCrashes = 1
  MaxOverruns = 1
  MaxLostConfirms = 1
  MaxReplays = 1
SPECIFICATION Spec
SYMMETRY Symmetry
INVARIANTS ClaimsAreSound RepeatsAreOwed
PROPERTY KeepsPromise
CHECK_DEADLOCK FALSE
