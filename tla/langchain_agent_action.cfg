SPECIFICATION Spec
CONSTANTS
  g = g
  a = a
  b = b
  s = s
  group = group
  Runs = {g, a}
  None = None
  User = User
  Parent <- AgentParent
  Labels = {group}
  Label <- NoLabel
  Llm = {a}
  Agents = {g}
  ParallelRoots = FALSE
  LateEnds = {}
  MaxFinalizes = 0
  MaxEnvelopes = 2
INVARIANTS
  CompletesWhenAllEnded
CHECK_DEADLOCK FALSE
