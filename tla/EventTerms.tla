------------------------------ MODULE EventTerms ------------------------------
(***************************************************************************)
(* The terms in which libp2p events cross from the swarm loop to Elixir:   *)
(* encoded by events.rs, parsed by Node.Event.from_raw and routed by       *)
(* event_type_for.  A term is a sequence, its tag first; a peer id is a    *)
(* peer, nil stands for a missing one.                                     *)
(***************************************************************************)
EXTENDS Naturals, Sequences

CONSTANTS Peers, nil

NOOP == <<"libp2p_noop">>

Event(term) == <<"libp2p_event", term>>

Peer(r) == <<"peer_discovered", r.peer, r.addrs>>

\* A single event or a batch.
Discovery(list) ==
  IF Len(list) = 1 THEN Event(Peer(list[1]))
  ELSE Event(<<"peers_discovered", [i \in DOMAIN list |-> Peer(list[i])]>>)

\* mDNS: messages, none for an empty list.
send_peers_discovered(list) == IF list = <<>> THEN <<>> ELSE <<Discovery(list)>>

\* Rendezvous: one term, a noop for an empty list.
rendezvous_discovered(list) == IF list = <<>> THEN NOOP ELSE Discovery(list)

\* Only some results of a query become an event.
encode_kad_event(q, result) ==
  IF result \in {"found_record", "not_found", "put_record_ok", "found_providers",
                 "bootstrap_ok"}
    THEN Event(<<"dht_query_result", q, result>>)
    ELSE NOOP

connection_event(e) ==
  CASE e.kind = "ConnectionEstablished" ->
         Event(<<"connection_established", e.peer, e.num, e.endpoint>>)
    [] e.kind = "ConnectionClosed" ->
         Event(<<"connection_closed", e.peer, e.num, "cause">>)
    [] e.kind = "NewListenAddr"          -> Event(<<"new_listen_addr", "addr", "id">>)
    [] e.kind = "ExternalAddrConfirmed"  -> Event(<<"external_addr_confirmed", "addr">>)
    [] e.kind = "OutgoingConnectionError" -> Event(<<"dial_failure", e.peer, "error">>)

behaviour_event(e) ==
  CASE e.kind = "GossipsubMessage" ->
         Event(<<"gossipsub_message", "topic", "data", e.peer, "id">>)
    [] e.kind = "Kademlia"               -> encode_kad_event("id", e.result)
    [] e.kind = "OutboundFailure"        -> Event(<<"dial_failure", e.peer, "rpc outbound">>)
    [] e.kind = "InboundFailure"         -> Event(<<"dial_failure", e.peer, "rpc inbound">>)
    [] e.kind = "StatusChanged"          -> Event(<<"nat_status_changed", e.status, e.addr>>)
    [] e.kind = "Dcutr"                  -> Event(<<"hole_punch_outcome", e.peer, "result">>)
    [] e.kind = "ReservationReqAccepted" ->
         Event(<<"relay_reservation_accepted", e.peer, "">>)
    [] e.kind = "UpnpNewExternalAddr"    -> Event(<<"external_addr_confirmed", "addr">>)
    [] e.kind = "RendezvousDiscovered"   -> rendezvous_discovered(e.list)
    [] OTHER                             -> NOOP

\* Request and response messages and mDNS events never come here.
handle_swarm_event(e) ==
  IF e.kind \in {"ConnectionEstablished", "ConnectionClosed", "NewListenAddr",
                 "ExternalAddrConfirmed", "OutgoingConnectionError"}
    THEN connection_event(e)
    ELSE behaviour_event(e)

send_inbound_request(e) == Event(<<"inbound_request", "id", "channel", e.peer, "data">>)

send_outbound_response(e) == Event(<<"outbound_response", "id", e.peer, "data">>)

-----------------------------------------------------------------------------
(* Elixir.                                                                 *)

\* The clauses of from_raw: tag, size of the tuple, and the position of a
\* field that PeerId.new! parses (0: none).
Clauses ==
  { <<"connection_established", 4, 2>>, <<"connection_closed", 4, 2>>,
    <<"new_listen_addr", 3, 0>>, <<"gossipsub_message", 5, 4>>,
    <<"peer_discovered", 3, 2>>, <<"dht_query_result", 3, 0>>,
    <<"inbound_request", 5, 4>>, <<"outbound_response", 4, 3>>,
    <<"nat_status_changed", 3, 0>>, <<"relay_reservation_accepted", 3, 2>>,
    <<"hole_punch_outcome", 3, 2>>, <<"external_addr_confirmed", 2, 0>>,
    <<"dial_failure", 3, 2>> }

\* Mutant: no clause for a message without a source.
NilAllowed_DialOnly == {"dial_failure"}

\* Tags with a clause of their own for nil in the place of the peer.
NilAllowed == {"gossipsub_message", "dial_failure"}

\* The clause takes the term.
Matches(clause, term) == clause[1] = term[1] /\ clause[2] = Len(term)

\* PeerId.new! raises.
Raises(clause, term) ==
  clause[3] > 0 /\ term[clause[3]] = nil /\ term[1] \notin NilAllowed

\* The struct (its type and the whole term), unknown_event, or a raise.
from_raw(term) ==
  IF ~\E c \in Clauses : Matches(c, term) THEN "unknown_event"
  ELSE IF \E c \in Clauses : Matches(c, term) /\ Raises(c, term) THEN "raise"
  ELSE "ok"

\* Every struct is routed under the tag it was made from.
event_type_for(term) == term[1]
===============================================================================
