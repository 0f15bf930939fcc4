----------------------------- MODULE MCStartNode -----------------------------
(* An instance of StartNode for TLC: u32 is reduced to 0..7. *)
EXTENDS StartNode

CONSTANTS n1, n2, Bad

\* The limits of the two directions vary; of the others, one is a number and
\* one does not decode.
C(in, out, flags, addrs) ==
  [lists |-> "ok", keypair |-> "generate", idle |-> 60, flags |-> flags, addrs |-> addrs,
   max |-> [pending_incoming |-> 3, pending_outgoing |-> 1, established_incoming |-> in,
            established_outgoing |-> out, established_per_peer |-> Bad]]

MCDEFAULT == [pending_incoming |-> 3, pending_outgoing |-> 2, established_incoming |-> 4,
              established_outgoing |-> 4, established_per_peer |-> 1]

\* Ordinary limits, limits that wrap, limits that do not decode, maps that
\* are refused.
MCConfigs ==
  { C(2, 3, {"mdns", "kademlia"}, {"a", "b"}),
    C(7, 2, {}, {"a"}),
    C(9, Bad, {"relay"}, {"b"}),
    C(1, 1, {}, {}),
    [C(1, 1, {}, {"a"}) EXCEPT !.idle = 0],
    [C(1, 1, {}, {"a"}) EXCEPT !.lists = "invalid"],
    [C(1, 1, {}, {"a"}) EXCEPT !.keypair = "invalid"] }

MCWebsocket == { C(2, 3, {"mdns", "kademlia", "websocket"}, {"a"}) }
=============================================================================
