CONSTANTS
  MaxEvents = 5
  Files = {"f1", "f2"}
  FileOf <- MCFileOf
  Callers = {"a"}
  MaxFlushes = 2
  MaxQueueSize = 3
  MaxBatchSize = 2
SPECIFICATION FairSpec
INVARIANTS Ledger NothingStranded FlushBarrier
PROPERTIES OverflowPolicy AcceptedSettles CallsReturn ImplementsSink
CHECK_DEADLOCK FALSE
