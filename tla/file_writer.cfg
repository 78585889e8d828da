CONSTANTS
  MaxEvents = 5
  Files = {"f1", "f2"}
  FileOf <- MCFileOf
  Callers = {"a", "b"}
  MaxFlushes = 2
SPECIFICATION FairSpec
INVARIANTS Ledger CloseCuts FlushBarrier
PROPERTIES EventsSettle ImplementsSink
CHECK_DEADLOCK FALSE
