SPECIFICATION Spec
CONSTANTS
  Attributes = {a1}
  Overflow = Overflow
  Limit = 2
  Collectors = {c1, c2}
  Late = {c2}
  Delta = {c2}
  MaxRecords = 2
  Nobody = Nobody
INVARIANTS NothingTakenAway
