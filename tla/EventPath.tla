------------------------------ MODULE EventPath ------------------------------
(***************************************************************************)
(* The way of a swarm event to the subscribers of a node: the event branch *)
(* of the swarm loop (node.rs) with the mDNS interception, the terms of    *)
(* EventTerms, the GenServer's mailbox and its handle_info with the        *)
(* fan-out of batches (node.ex), up to HandlerRegistry.dispatch.           *)
(***************************************************************************)
EXTENDS EventTerms, SequencesExt

CONSTANTS Addrs,
          Batches,       \* of mDNS: lists of pairs <<peer, addr>>
          Registrations, \* of rendezvous: lists of [peer, addrs]
          MaxEvents      \* bound on events of the swarm

ASSUME EventAssumption ==
  /\ nil \notin Peers
  /\ Batches \subseteq Seq(Peers \X Addrs)
  /\ Registrations \subseteq Seq([peer : Peers, addrs : Seq(Addrs)])
  /\ MaxEvents \in Nat

VARIABLES
  kademlia,     \* is the DHT enabled
  auto_dial,    \* mdns_auto_dial
  handler,      \* RegisterEventHandler has been received
  connected, dialing,
  routes,       \* (peer, addr) pairs that mDNS gave to the routing table
  mailbox,      \* of the GenServer
  genserver,    \* running or crashed
  delivered,    \* terms dispatched to HandlerRegistry
  emitted,      \* history: events since the handler was registered
  events        \* number of events so far

settings == <<kademlia, auto_dial>>
swarm    == <<connected, dialing, routes>>
pathVars == <<settings, swarm, handler, mailbox, genserver, delivered, emitted, events>>

PathInit ==
  /\ kademlia \in BOOLEAN
  /\ auto_dial \in BOOLEAN
  /\ handler = FALSE
  /\ connected = {}
  /\ dialing = {}
  /\ routes = {}
  /\ mailbox = <<>>
  /\ genserver = "running"
  /\ delivered = <<>>
  /\ emitted = <<>>
  /\ events = 0

RegisterEventHandler ==
  /\ ~handler
  /\ handler' = TRUE
  /\ UNCHANGED <<settings, swarm, mailbox, genserver, delivered, emitted, events>>

-----------------------------------------------------------------------------
(* The event branch of the loop.                                           *)

\* The messages of an event go to the handler, if there is one; send_and_clear
\* to a dead process is ignored.
Send(e, msgs) ==
  /\ events < MaxEvents
  /\ events' = events + 1
  /\ emitted' = IF handler THEN Append(emitted, e) ELSE emitted
  /\ mailbox' = IF handler THEN mailbox \o msgs ELSE mailbox
  /\ UNCHANGED <<settings, handler, genserver, delivered>>

\* "All other events go through the generic handler."
Forward(e) == Send(e, <<handle_swarm_event(e)>>)

\* Each pair becomes a peer with one address.
WithAddrs(pairs) ==
  [i \in DOMAIN pairs |-> [peer |-> pairs[i][1], addrs |-> <<pairs[i][2]>>]]

\* Every pair is offered to the routing table and is dialled, unless the peer is
\* connected (or already being dialled, which libp2p refuses).
Discovered(pairs) ==
  /\ routes' = IF kademlia THEN routes \cup Range(pairs) ELSE routes
  /\ dialing' = IF auto_dial
                  THEN dialing \cup ({x[1] : x \in Range(pairs)} \ connected)
                  ELSE dialing
  /\ UNCHANGED connected
  /\ Send([kind |-> "MdnsDiscovered", list |-> WithAddrs(pairs)],
          send_peers_discovered(WithAddrs(pairs)))

\* The arm has no body: nothing is sent, not even a noop.
Expired == UNCHANGED swarm /\ Send([kind |-> "MdnsExpired"], <<>>)

Established(p) ==
  /\ p \notin connected
  /\ connected' = connected \cup {p}
  /\ dialing' = dialing \ {p}
  /\ UNCHANGED routes
  /\ \E end \in {"dialer", "listener"} :
       Forward([kind |-> "ConnectionEstablished", peer |-> p, num |-> 1, endpoint |-> end])

DialFails(p) ==
  /\ p \in dialing
  /\ dialing' = dialing \ {p}
  /\ UNCHANGED <<connected, routes>>
  /\ Forward([kind |-> "OutgoingConnectionError", peer |-> p])

Closed(p) ==
  /\ p \in connected
  /\ connected' = connected \ {p}
  /\ UNCHANGED <<dialing, routes>>
  /\ Forward([kind |-> "ConnectionClosed", peer |-> p, num |-> 0])

\* Of Kademlia queries, those with an event and one of those without.
QueryResults ==
  {"found_record", "not_found", "put_record_ok", "found_providers", "bootstrap_ok",
   "closest_peers"}

\* Events of the behaviours that change nothing in the loop.
Protocol ==
  [kind : {"GossipsubMessage"}, peer : Peers \cup {nil}]
    \cup [kind : {"Dcutr", "ReservationReqAccepted", "OutboundFailure",
                  "InboundFailure"}, peer : Peers]
    \cup [kind : {"NewListenAddr", "ExternalAddrConfirmed", "UpnpNewExternalAddr",
                  "Ping"}]
    \cup {[kind |-> "OutgoingConnectionError", peer |-> nil]}
    \cup [kind : {"StatusChanged"}, status : {"public"}, addr : {"addr"}]
    \cup [kind : {"StatusChanged"}, status : {"private", "unknown"}, addr : {nil}]
    \cup [kind : {"RendezvousDiscovered"}, list : Registrations]
    \cup [kind : {"Kademlia"}, result : QueryResults]

ProtocolEvent(e) ==
  /\ e \in Protocol
  /\ e.kind = "Kademlia" => kademlia
  /\ UNCHANGED swarm
  /\ Forward(e)

Response(p) ==
  LET e == [kind |-> "Response", peer |-> p]
  IN  UNCHANGED swarm /\ Send(e, <<send_outbound_response(e)>>)

\* The ResponseChannel stays in the loop (SwarmLoop).
Request(p) ==
  LET e == [kind |-> "Request", peer |-> p]
  IN  UNCHANGED swarm /\ Send(e, <<send_inbound_request(e)>>)

-----------------------------------------------------------------------------
(* The GenServer.                                                          *)

\* Mutant: the peers of a batch are dispatched last first.
Unbatched_Reversed(msg) ==
  IF msg = NOOP THEN <<>>
  ELSE IF msg[2][1] = "peers_discovered" THEN Reverse(msg[2][2])
  ELSE <<msg[2]>>

\* The terms a message carries: handle_info splits a batch.
Unbatched(msg) ==
  IF msg = NOOP THEN <<>>
  ELSE IF msg[2][1] = "peers_discovered" THEN msg[2][2]
  ELSE <<msg[2]>>

\* What is dispatched for a term: nothing when it is unknown.
dispatch_event(term) == IF from_raw(term) = "ok" THEN <<term>> ELSE <<>>

\* Mutant: the messages are collected and handled two at a time.
HandleInfo_InPairs ==
  /\ genserver = "running"
  /\ Len(mailbox) >= 2
  /\ delivered' = delivered \o Unbatched(mailbox[1]) \o Unbatched(mailbox[2])
  /\ mailbox' = Tail(Tail(mailbox))
  /\ UNCHANGED <<settings, swarm, handler, genserver, emitted, events>>

\* A raise ends the GenServer; what came before it is dispatched.
HandleInfo ==
  /\ genserver = "running"
  /\ mailbox # <<>>
  /\ \E terms \in {Unbatched(Head(mailbox))} :
       LET raises == {i \in DOMAIN terms : from_raw(terms[i]) = "raise"}
           done   == {i \in DOMAIN terms : \A j \in raises : i < j}
       IN  /\ delivered' = delivered \o FlattenSeq([i \in done |-> dispatch_event(terms[i])])
           /\ genserver' = IF raises = {} THEN genserver ELSE "crashed"
  /\ mailbox' = Tail(mailbox)
  /\ UNCHANGED <<settings, swarm, handler, emitted, events>>

-----------------------------------------------------------------------------
PathNext ==
  \/ RegisterEventHandler
  \/ \E pairs \in Batches : Discovered(pairs)
  \/ Expired
  \/ \E p \in Peers : Established(p) \/ DialFails(p) \/ Closed(p) \/ Response(p)
                       \/ Request(p)
  \/ \E e \in Protocol : ProtocolEvent(e)
  \/ HandleInfo

\* The GenServer handles its mailbox; the loop receives the command.
PathSpec ==
  /\ PathInit /\ [][PathNext]_pathVars
  /\ WF_pathVars(HandleInfo) /\ WF_pathVars(RegisterEventHandler)

-----------------------------------------------------------------------------
(* Properties.                                                             *)

PathTypeOK ==
  /\ {kademlia, auto_dial, handler} \subseteq BOOLEAN
  /\ connected \subseteq Peers /\ dialing \subseteq Peers
  /\ \A x \in routes : x[1] \in Peers
  /\ \A i \in DOMAIN mailbox : mailbox[i] = NOOP \/ mailbox[i][1] = "libp2p_event"
  /\ genserver \in {"running", "crashed"}
  /\ \A i \in DOMAIN delivered : \E c \in Clauses : delivered[i][1] = c[1]

\* What each event owes to the subscribers, in the vocabulary of the public
\* API: a type and the peer it is about.  The expiry of an mDNS record owes
\* nothing, as the body of its arm says (node.rs:784-785: "not currently
\* surfaced to Elixir"), against the comment above it (ExpiryForwarded).
Owed(e) ==
  LET one(type, peer) == <<<<type, peer>>>>
  IN  CASE e.kind = "ConnectionEstablished"  -> one("connection_established", e.peer)
        [] e.kind = "ConnectionClosed"       -> one("connection_closed", e.peer)
        [] e.kind = "OutgoingConnectionError" -> one("dial_failure", e.peer)
        [] e.kind \in {"OutboundFailure", "InboundFailure"} -> one("dial_failure", e.peer)
        [] e.kind = "GossipsubMessage"       -> one("gossipsub_message", e.peer)
        [] e.kind = "Dcutr"                  -> one("hole_punch_outcome", e.peer)
        [] e.kind = "ReservationReqAccepted" -> one("relay_reservation_accepted", e.peer)
        [] e.kind = "Response"               -> one("outbound_response", e.peer)
        [] e.kind = "Request"                -> one("inbound_request", e.peer)
        [] e.kind = "NewListenAddr"          -> one("new_listen_addr", nil)
        [] e.kind = "StatusChanged"          -> one("nat_status_changed", nil)
        [] e.kind = "Kademlia" /\ e.result # "closest_peers" ->
             one("dht_query_result", nil)
        [] e.kind \in {"ExternalAddrConfirmed", "UpnpNewExternalAddr"} ->
             one("external_addr_confirmed", nil)
        [] e.kind \in {"MdnsDiscovered", "RendezvousDiscovered"} ->
             [i \in DOMAIN e.list |-> <<"peer_discovered", e.list[i].peer>>]
        [] e.kind = "MdnsExpired" -> <<>>
        [] OTHER -> <<>>

AllOwed == FlattenSeq([i \in DOMAIN emitted |-> Owed(emitted[i])])

\* A term that was dispatched, and all of them, in the same vocabulary.
Tells(term) ==
  LET pos == (CHOOSE c \in Clauses : c[1] = term[1])[3]
  IN  <<event_type_for(term), IF pos = 0 THEN nil ELSE term[pos]>>

Told == [i \in DOMAIN delivered |-> Tells(delivered[i])]

\* What subscribers are told, at every moment, is a beginning of what the swarm
\* owes them since the handler was registered: in the order in which it
\* happened, each discovered peer of a batch once, and nothing else.
ToldInOrder == IsPrefix(Told, AllOwed)

\* Nothing is dropped on the way: no event is of a shape that from_raw does not
\* know or raises on (event.ex:178-283), so none crashes the GenServer, and
\* when the mailbox is empty (node.ex:231-266) everything owed has been told.
NothingLost ==
  /\ PathTypeOK
  /\ genserver = "running"
  /\ mailbox = <<>> => Told = AllOwed

\* And everything owed is told in the end.
EventuallyTold == <>[](Told = AllOwed)

\* "we forward the event so Elixir handlers can react" (node.rs:777-780): once
\* the mailbox is empty somebody has heard of the expiry.
ExpiryForwarded ==
  \A i \in DOMAIN emitted :
    emitted[i].kind = "MdnsExpired" /\ mailbox = <<>> => Told # <<>>

\* "Event emitted when an outbound dial attempt fails." (event.ex:161): a
\* dial_failure that names a peer follows the failure of a dial to that peer.
DialFailureMeansDial ==
  \A i \in DOMAIN Told : Told[i][1] = "dial_failure" /\ Told[i][2] # nil =>
    \E j \in DOMAIN emitted :
      emitted[j] = [kind |-> "OutgoingConnectionError", peer |-> Told[i][2]]
===============================================================================
