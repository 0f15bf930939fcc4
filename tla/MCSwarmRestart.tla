---------------------------- MODULE MCSwarmRestart ----------------------------
(* Instances of SwarmRestart for TLC.                                      *)
EXTENDS SwarmRestart, TLC

\* Inbound requests are interchangeable.
Symmetry == Permutations(Req)
=============================================================================
