SPECIFICATION Spec
CONSTANTS
  k1 = k1
  k2 = k2
  t = t
  outer = outer
  inner = inner
  Trace = {t}
  Span = {outer, inner}
  TraceOf <- OneTrace
  Parent <- InnerInOuter
  Repeated = {inner}
  Child = {k1, k2}
  MaxFaults = 1
  None = None
INVARIANTS
  FilesAsDelivered
  NothingIgnored
  StatsAccount
PROPERTIES
  EndsOnce
SYMMETRY Writers
CHECK_DEADLOCK FALSE
