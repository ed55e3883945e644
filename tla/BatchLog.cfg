SPECIFICATION Spec
CONSTANTS
  Producers = {p1}
  Flushers = {f1}
  Patient = {}
  Stoppers = {s1, s2}
  MaxQueueSize = 2
  BatchSize = 1
  MaxCalls = 3
  Worker = Worker
  Nobody = Nobody
SYMMETRY Symmetry
INVARIANTS FlushDelivers ShutdownDrains QueueBounded BInv
PROPERTIES NoExportAfterShutdown
