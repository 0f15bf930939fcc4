----------------------------- MODULE MCEventPath -----------------------------
(* An instance of EventPath for TLC. *)
EXTENDS EventPath

CONSTANTS p1, p2

MCPeers == {p1, p2}

\* One peer, two peers, and one peer under two addresses.
MCBatches ==
  { <<<<p1, "a">>>>, <<<<p1, "a">>, <<p2, "a">>>>, <<<<p2, "a">>, <<p2, "b">>>> }

\* Nobody, one peer, two peers.
R(p, as) == [peer |-> p, addrs |-> as]

MCRegistrations == { <<>>, <<R(p2, <<"b">>)>>, <<R(p2, <<"a", "b">>), R(p1, <<>>)>> }
=============================================================================
