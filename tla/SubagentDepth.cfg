SPECIFICATION DepthSpec
CONSTANTS
  a = a
  b = b
  c = c
  s1 = s1
  s2 = s2
  Dispatches = {a, b, c}
  Sessions = {s1, s2}
  Owner <- MCOwner
  LockFails = TRUE
  WriteFails = TRUE
  MaxLeaks = 1
  MaxDepth = 3
INVARIANTS DepthTypeOK DepthIsExact
SYMMETRY Parallel
