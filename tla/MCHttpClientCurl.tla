-------------------------- MODULE MCHttpClientCurl --------------------------
(* HttpClientCurl on a small instance.                                     *)
EXTENDS HttpClientCurl, TLC

\* Sessions, with their owners, are interchangeable.
Symmetry == Permutations(Sessions)
=============================================================================
