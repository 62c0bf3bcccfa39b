\* One job wanted by two consumers while it may be cancelled, and delivered to a
\* third that does not know it.
CONSTANTS
  stranger = stranger
  Events = {}
  Jobs = {j1}
  Payloads = {s1, s2}
  Consumers = {c1, c2, stranger}
  Supported <- SupportedPairs
  Workers = {w1, w2}
  MaxAttempts = 2
  StaleAttempts = {}
  MaxCopies = 1
  MaxCrashes = 1
SPECIFICATION Spec
SYMMETRY Symmetry
INVARIANT OneExecution
PROPERTY JobIsFinal
CHECK_DEADLOCK FALSE
