SPECIFICATION Spec
CONSTANTS
  t = t
  Generations = 3
  Steps <- ModelCalls
  MaxFailures = 1
  Concurrent = {3}
  Tool = {t}
  Caller <- ToolOfSecond
  Closer = Closer
  None = None
INVARIANTS
  OwnRows
  RecordedWhole
  NothingLeftOpen
PROPERTIES
  EndsOnce
CHECK_DEADLOCK FALSE
