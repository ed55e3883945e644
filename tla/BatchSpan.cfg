SPECIFICATION LiveSpec
CONSTANTS
  Producers = {p1}
  Flushers = {f1}
  Patient = {f1}
  Stoppers = {s1}
  MaxQueueSize = 2
  OptionsBatchSize = 5
  BatchSize = 2
  MaxCalls = 2
  Worker = Worker
  Nobody = Nobody
INVARIANTS BInv
PROPERTIES FullQueueWakes FlushReturns ShutdownReturns EventuallyExported
