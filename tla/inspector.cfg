SPECIFICATION ISpec
CONSTANTS
  r = r
  a = a
  o = o
  s = s
  c1 = c1
  c2 = c2
  None = None
  Runs = {r}
  Steps = {a, s}
  Outcomes = {o}
  Outer <- MCOuter
  Callers = {c1, c2}
  MaxEvents = 8
  MaxFlushes = 1
  Files = {"f"}
  FileOf <- OneFile
INVARIANTS
  ConsistentTrace
PROPERTIES
  QuietAfterClose
SYMMETRY Signals
CHECK_DEADLOCK FALSE
