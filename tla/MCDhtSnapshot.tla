---------------------------- MODULE MCDhtSnapshot ----------------------------
(* An instance of DhtSnapshot for TLC: with Base 2 a length field holds    *)
(* 0..3.                                                                   *)
EXTENDS DhtSnapshot

\* A small entry, one with fields at both ends of their range, and one with
\* more addresses than the field of their number holds.  The first together with
\* either of the others makes 35 bytes.
MCEntries ==
  { [peer_id |-> <<1>>, addresses |-> <<<<0, 1>>>>],
    [peer_id |-> <<1, 0, 1>>, addresses |-> <<<<>>, <<1>>, <<1, 1, 0>>>>],
    [peer_id |-> <<0>>, addresses |-> <<<<0>>, <<1>>, <<0>>, <<1>>>>] }
=============================================================================
