SPECIFICATION Safe
CONSTANTS
  c1 = c1
  c2 = c2
  Call = {c1}
INVARIANTS
  ErrorReachesPromise
CHECK_DEADLOCK FALSE
