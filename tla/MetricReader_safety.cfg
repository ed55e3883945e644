SPECIFICATION Spec
CONSTANTS
  Flushers = {f1}
  Stoppers = {s1, s2}
  Patient = {}
  MaxRecords = 2
  Nobody = Nobody
SYMMETRY Symmetry
INVARIANTS FlushDelivers ShutdownBarrier RInv
PROPERTIES NoExportAfterShutdown
