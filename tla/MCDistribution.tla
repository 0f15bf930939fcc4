---------------------------- MODULE MCDistribution ----------------------------
(* Instances of Distribution for TLC.                                      *)
EXTENDS Distribution, TLC
=============================================================================
