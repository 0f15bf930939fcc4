--------------------------- MODULE MCObservability ---------------------------
(* An instance of Observability for TLC.                                   *)
EXTENDS Observability
=============================================================================
