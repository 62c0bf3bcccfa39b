\* One event for one consumer: three copies that may disagree on the payload,
\* one of them left over from a longer retry policy.
CONSTANTS
  stranger = stranger
  Events = {e1}
  Jobs = {}
  Payloads = {s1, s2}
  Consumers = {c1}
  Supported <- SupportedPairs
  Workers = {w1, w2}
  MaxAttempts = 2
  StaleAttempts = {3}
  MaxCopies = 3
  MaxCrashes = 1
SPECIFICATION FairSpec
INVARIANTS OneEffect NothingVanishes
PROPERTY EventuallyDrained
CHECK_DEADLOCK FALSE
