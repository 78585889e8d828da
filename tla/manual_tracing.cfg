SPECIFICATION Spec
CONSTANTS
  r = r
  n = n
  d = d
  a = a
  c = c
  m = m
  None = None
  Runs = {r, n, d}
  Steps = {a, c, m}
  Outer <- NestedOuter
  Awaited = {a, d, n, m}
  Disabled = {d}
  MaxFaults = 2
INVARIANTS RowsPlaced RowsInOrder
CHECK_DEADLOCK FALSE
