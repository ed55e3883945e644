SPECIFICATION SpecAny
CONSTANTS
  Attributes = {a1, a2, a3}
  Overflow = Overflow
  Limit = 2
  Collectors = {c1, c2, c3}
  Late = {c2, c3}
  Delta = {c1, c2}
  MaxRecords = 3
  MaxObserves = 3
  MaxSeries = 1
  MaxValue = 2
  Nobody = Nobody
SYMMETRY Symmetry
CHECK_DEADLOCK FALSE
INVARIANTS AsyncTypeOK ReportedOnce WithinLimit SyncNeverOverReports
PROPERTY CounterNeverDecreases
