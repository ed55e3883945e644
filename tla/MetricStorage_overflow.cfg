SPECIFICATION Spec
CONSTANTS
  Attributes = {a1, a2, a3}
  Overflow = Overflow
  Limit = 1
  Collectors = {c1}
  Late = {}
  Delta = {}
  MaxRecords = 3
  Nobody = Nobody
SYMMETRY Symmetry
INVARIANTS OverflowCombines
