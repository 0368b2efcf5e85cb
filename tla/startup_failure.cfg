SPECIFICATION Spec
CONSTANTS
  r1 = r1
  r2 = r2
  r3 = r3
  Request <- TwoRequests
  MaxConns = 1
INVARIANTS
  FailureIsExported
