------------------- MODULE MCPeriodicExportingMetricReader -------------------
(* Small instances of PeriodicExportingMetricReader.                       *)
EXTENDS PeriodicExportingMetricReader, TLC

\* Patient callers of a kind are alike, and so are the others.
Symmetry ==
  Permutations(Flushers \intersect Patient) \union Permutations(Flushers \ Patient)
    \union Permutations(Stoppers \intersect Patient) \union Permutations(Stoppers \ Patient)
=============================================================================
