---------------------- MODULE MCBatchLogRecordProcessor ----------------------
(* Small instances of BatchLogRecordProcessor.                             *)
EXTENDS BatchLogRecordProcessor, TLC

\* Patient flushers are alike, and so are the others.
Symmetry ==
  Permutations(Producers) \union Permutations(Stoppers)
    \union Permutations(Patient) \union Permutations(Flushers \ Patient)
=============================================================================
