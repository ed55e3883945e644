------------------------- MODULE MCSyncMetricStorage -------------------------
(* Small instances of SyncMetricStorage.                                   *)
EXTENDS SyncMetricStorage

\* Attribute sets are alike, and so are late collectors of one temporality.
Symmetry ==
  Permutations(Attributes) \union Permutations(Late \intersect Delta)
    \union Permutations(Late \ Delta)
=============================================================================
