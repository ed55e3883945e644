-------------------------- MODULE MCOtlpHttpClient --------------------------
(* OtlpHttpClient on a small instance.                                     *)
EXTENDS OtlpHttpClient
=============================================================================
