--------------------------- MODULE MCFileStorage ---------------------------
(* An instance of FileStorage for TLC. *)
EXTENDS FileStorage, TLC

CONSTANTS w1, w2, r1, r2, k1, k2

MCReaders == {r1, r2}
MCValues  == {k1, k2}
MCInodes  == 1 .. 6

MCSymmetry == Permutations(MCValues) \cup Permutations(MCReaders)
=============================================================================
