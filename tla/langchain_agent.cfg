SPECIFICATION Spec
CONSTANTS
  g = g
  a = a
  b = b
  s = s
  group = group
  Runs = {g, a}
  None = None
  User = User
  Parent <- AgentParent
  Labels = {group}
  Label <- NoLabel
  Llm = {a}
  Agents = {g}
  ParallelRoots = FALSE
  LateEnds = {a}
  MaxFinalizes = 1
  MaxEnvelopes = 4
INVARIANTS
  AtMostOneEnvelope
CHECK_DEADLOCK FALSE
