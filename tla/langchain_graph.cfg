SPECIFICATION FairSpec
CONSTANTS
  g = g
  a = a
  b = b
  s = s
  group = group
  Runs = {g, a, b, s}
  None = None
  User = User
  Parent <- GraphParent
  Labels = {group}
  Label <- GraphLabel
  Llm = {}
  Agents = {}
  ParallelRoots = FALSE
  LateEnds = {a}
  MaxFinalizes = 0
  MaxEnvelopes = 2
INVARIANTS
  WellFormed
  CompletesWhenAllEnded
  ClosedAtRest
  StatusObserved
  CallsNotMixed
PROPERTIES
  HandlersReturn
CHECK_DEADLOCK FALSE
