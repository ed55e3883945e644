------------------------ MODULE MCAsyncMetricStorage ------------------------
(* Small instances of AsyncMetricStorage.                                  *)
EXTENDS AsyncMetricStorage

\* Attribute sets are alike.
Symmetry == Permutations(Attributes)
=============================================================================
