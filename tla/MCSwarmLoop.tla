----------------------------- MODULE MCSwarmLoop -----------------------------
(* Instances of SwarmLoop for TLC.                                         *)
EXTENDS SwarmLoop, TLC

\* Inbound requests are interchangeable.
Symmetry == Permutations(Req)
=============================================================================
