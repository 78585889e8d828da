SPECIFICATION TSpec
CONSTANTS
  r = r
  a = a
  b = b
  c = c
  None = None
  Runs = {r}
  Steps = {a, b, c}
  Outer <- TreeOuter
  Awaited = {a, b, c}
  Disabled = {}
  First <- ThenC
  MaxFaults = 1
  MaxClock = 1
  Orders <- TwoOrders
INVARIANTS ReadBack ReadsGrow CausalOrder PassMeansSettled RetriesJudged
CHECK_DEADLOCK FALSE
