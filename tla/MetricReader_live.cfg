SPECIFICATION TimedSpec
CONSTANTS
  Flushers = {f1}
  Stoppers = {s1}
  Patient = {f1, s1}
  MaxRecords = 1
  Nobody = Nobody
PROPERTIES FlushReturns ShutdownReturns EventuallyExported
