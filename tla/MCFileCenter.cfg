\* One version: two completions, two scans and two clean-ups of it, each retried
\* at will, with a reconciliation and a link, by three concurrent requests.
CONSTANTS
  v1 = v1
  create = create
  complete1 = complete1
  complete2 = complete2
  scan1 = scan1
  scan2 = scan2
  cleanup1 = cleanup1
  cleanup2 = cleanup2
  reconcile = reconcile
  linking = linking
  unlinking = unlinking
  good = good
  other = other
  Versions = {v1}
  Operations <- AllOperations
  Command <- Commands
  Requests = {r1, r2, r3}
  Bytes = {good, other}
  Fitting = {good}
SPECIFICATION Spec
SYMMETRY Symmetry
INVARIANTS VersionsAreSound EventsTellHistory
PROPERTY SettledStays
CHECK_DEADLOCK FALSE
