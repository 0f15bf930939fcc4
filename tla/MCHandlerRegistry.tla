-------------------------- MODULE MCHandlerRegistry --------------------------
(* Instances of HandlerRegistry for TLC.                                   *)
EXTENDS HandlerRegistry, TLC

\* Nodes are interchangeable, and so are subscribers.
Symmetry == Permutations(Node) \cup Permutations(Pid)
=============================================================================
