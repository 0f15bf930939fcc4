------------------------------ MODULE SwarmLoop ------------------------------
(***************************************************************************)
(* One incarnation of a libp2p node: the Rust task swarm_loop (node.rs),   *)
(* the bounded command channel into it, the NIFs that feed that channel    *)
(* (lib.rs), and the Node GenServer (node.ex), the only caller of the      *)
(* NIFs.                                                                   *)
(*                                                                         *)
(* The GenServer sends commands with try_send, which fails when the        *)
(* channel is full or closed.  A query carries a oneshot sender and blocks *)
(* the GenServer until the loop answers or drops it.  The loop interleaves *)
(* commands, network events and the eviction timer.  An inbound request    *)
(* leaves its ResponseChannel in pending_responses under a channel id, the *)
(* application answers by that id, and entries older than the TTL are      *)
(* evicted.  The loop ends on Shutdown, when every sender is gone, or by a *)
(* panic.                                                                  *)
(*                                                                         *)
(* Commands are distinguished by how the caller and the loop's own state   *)
(* take part in them; what they ask of libp2p (dial, publish, DHT,         *)
(* rendezvous) lies outside the loop.                                      *)
(***************************************************************************)
EXTENDS Naturals, Sequences, FiniteSets

CONSTANTS Req,         \* inbound requests that peers may send
          Capacity,    \* slots of the command channel (512 in the code)
          MaxPending,  \* MAX_PENDING_RESPONSES (1024 in the code)
          TTL          \* response_ttl, in units of the clock

ASSUME ConstantsAssumption ==
  /\ Capacity \in Nat \ {0}
  /\ MaxPending \in Nat \ {0}
  /\ TTL \in Nat \ {0}

NoAnswer == "no answer"
ASSUME NoAnswerAssumption == NoAnswer \notin Req

VARIABLES
  chan,          \* the command channel, oldest command first
  handleLive,    \* the NodeHandle, and with it the sender, still exists
  loop,          \* the swarm task: running or exited
  event_handler, \* a process is registered to receive events
  pending,       \* pending_responses: channel id -> [req, age]
  counter,       \* channel_counter
  node,          \* the Node GenServer: starting and registered (in init), up,
                 \* terminating and stopping (in terminate), down
  waiting,       \* the query it is blocked on, or "none"
  crashed,       \* a callback of the GenServer has raised
  req,           \* what became of each inbound request
  answer,        \* the answer the peer received: the request it was made for
  seen           \* requests surfaced to the application, with channel id

vars == <<chan, handleLive, loop, event_handler, pending, counter, node,
          waiting, crashed, req, answer, seen>>

genserver == <<node, waiting, crashed, handleLive>>
network   == <<req, answer, seen>>

Query == {"connected_peers", "typed"}

Command == [op : {"register_event_handler", "fire", "shutdown"}]
             \cup [op : {"query"}, kind : Query]
             \cup [op : {"respond"}, ch : Nat, req : Req]

ReqState == {"new", "held", "gone", "answered", "dropped"}

Init ==
  /\ chan = <<>>
  /\ handleLive = TRUE
  /\ loop = "running"
  /\ event_handler = FALSE
  /\ pending = [c \in {} |-> 0]
  /\ counter = 0
  /\ node = "starting"
  /\ waiting = "none"
  /\ crashed = FALSE
  /\ req = [r \in Req |-> "new"]
  /\ answer = [r \in Req |-> NoAnswer]
  /\ seen = {}

-----------------------------------------------------------------------------
(* The NIF boundary.                                                       *)

\* Mutant: the unbounded channel the code once had.
CanSend_Unbounded == loop = "running" /\ Len(chan) < Capacity + 2

CanSend == loop = "running" /\ Len(chan) < Capacity

\* mpsc::Sender::try_send with the result ignored.
TrySend(cmd) == chan' = IF CanSend THEN Append(chan, cmd) ELSE chan

\* Mutant: the future of an async send is dropped, nothing is sent.
RegisterEventHandler_Unpolled ==
  /\ node = "starting"
  /\ node' = "registered"
  /\ UNCHANGED <<chan, handleLive, loop, event_handler, pending, counter,
                 waiting, crashed, network>>

\* Node.init hands its pid to the loop that start_node has spawned.
RegisterEventHandler ==
  /\ node = "starting"
  /\ TrySend([op |-> "register_event_handler"])
  /\ node' = "registered"
  /\ UNCHANGED <<handleLive, loop, event_handler, pending, counter, waiting,
                 crashed, network>>

\* With a dht_state_path init/1 then imports the routing table, a query whose
\* failure is logged; without one, or without a readable file, it goes on.
ImportDhtState ==
  /\ node = "registered"
  /\ node' = "up"
  /\ \/ CanSend /\ chan' = Append(chan, [op |-> "query", kind |-> "typed"])
                /\ waiting' = "typed"
     \/ UNCHANGED <<chan, waiting>>
  /\ UNCHANGED <<handleLive, loop, event_handler, pending, counter, crashed,
                 network>>

\* The GenServer serves its next call.
Serving == node = "up" /\ waiting = "none"

\* Fire-and-forget commands.  channel_full and node_stopped go to the caller
\* as errors and change nothing.
Fire ==
  /\ Serving
  /\ CanSend
  /\ chan' = Append(chan, [op |-> "fire"])
  /\ UNCHANGED <<handleLive, loop, event_handler, pending, counter, node,
                 waiting, crashed, network>>

\* rpc_send_response, for a request the application has seen, as often as the
\* application likes.
Respond(s) ==
  /\ Serving
  /\ CanSend
  /\ chan' = Append(chan, [op |-> "respond", ch |-> s.ch, req |-> s.req])
  /\ UNCHANGED <<handleLive, loop, event_handler, pending, counter, node,
                 waiting, crashed, network>>

\* What an error from a query does to the GenServer.  NetworkOps maps over the
\* result of connected_peers without looking for an error tuple: it raises, and
\* the GenServer terminates.  The other queries pass the error on.
QueryError(kind) ==
  IF kind = "connected_peers" /\ node = "up"
  THEN node' = "terminating" /\ crashed' = TRUE
  ELSE UNCHANGED <<node, crashed>>

\* Mutant: the caller does not wait for the oneshot.
AskQuery_NoWait(kind) ==
  /\ CanSend
  /\ chan' = Append(chan, [op |-> "query", kind |-> kind])
  /\ UNCHANGED <<node, crashed, waiting>>

\* query_typed: the command goes out and the caller blocks on the oneshot.
AskQuery(kind) ==
  /\ CanSend
  /\ chan' = Append(chan, [op |-> "query", kind |-> kind])
  /\ waiting' = kind
  /\ UNCHANGED <<node, crashed>>

\* query_typed: try_send fails and the error returns at once.
RefuseQuery(kind) ==
  /\ ~CanSend
  /\ QueryError(kind)
  /\ UNCHANGED <<chan, waiting>>

CallQuery(kind) ==
  /\ Serving
  /\ AskQuery(kind) \/ RefuseQuery(kind)
  /\ UNCHANGED <<handleLive, loop, event_handler, pending, counter, network>>

\* Mutant: the export of terminate/2 is not released when the loop has ended.
QueryDropped_Serving ==
  /\ waiting # "none"
  /\ loop = "exited"
  /\ node = "up"
  /\ waiting' = "none"
  /\ QueryError(waiting)
  /\ UNCHANGED <<chan, handleLive, loop, event_handler, pending, counter,
                 network>>

\* blocking_recv fails: the loop ended and dropped the oneshot.
QueryDropped ==
  /\ waiting # "none"
  /\ loop = "exited"
  /\ waiting' = "none"
  /\ QueryError(waiting)
  /\ UNCHANGED <<chan, handleLive, loop, event_handler, pending, counter,
                 network>>

\* terminate/2 begins, on GenServer.stop or an exit of the supervisor.
Terminate ==
  /\ Serving
  /\ node' = "terminating"
  /\ UNCHANGED <<chan, handleLive, loop, event_handler, pending, counter,
                 waiting, crashed, network>>

\* With a dht_state_path terminate/2 first exports the routing table, a query
\* like any other whose failure is logged; without one it goes on.
ExportDhtState ==
  /\ node = "terminating"
  /\ node' = "stopping"
  /\ \/ CanSend /\ chan' = Append(chan, [op |-> "query", kind |-> "typed"])
                /\ waiting' = "typed"
     \/ UNCHANGED <<chan, waiting>>
  /\ UNCHANGED <<handleLive, loop, event_handler, pending, counter, crashed,
                 network>>

\* terminate/2 ends with stop_node, and the process is gone.
StopNode ==
  /\ node = "stopping"
  /\ waiting = "none"
  /\ TrySend([op |-> "shutdown"])
  /\ node' = "down"
  /\ UNCHANGED <<handleLive, loop, event_handler, pending, counter, waiting,
                 crashed, network>>

\* The GenServer is killed.  A NIF it is blocked in goes on until it returns.
Kill ==
  /\ node # "down"
  /\ node' = "down"
  /\ UNCHANGED <<chan, handleLive, loop, event_handler, pending, counter,
                 waiting, crashed, network>>

\* The handle is garbage: NodeHandle::drop tries once more to send Shutdown,
\* then the sender itself is gone.
DropHandle ==
  /\ node = "down"
  /\ waiting = "none"
  /\ handleLive
  /\ TrySend([op |-> "shutdown"])
  /\ handleLive' = FALSE
  /\ UNCHANGED <<loop, event_handler, pending, counter, node, waiting, crashed,
                 network>>

-----------------------------------------------------------------------------
(* The swarm loop: the command branch of select!.                          *)

Receive(op) ==
  /\ loop = "running"
  /\ chan # <<>>
  /\ Head(chan).op = op
  /\ chan' = Tail(chan)

RecvRegister ==
  /\ Receive("register_event_handler")
  /\ event_handler' = TRUE
  /\ UNCHANGED <<loop, pending, counter, genserver, network>>

RecvFire ==
  /\ Receive("fire")
  /\ UNCHANGED <<loop, event_handler, pending, counter, genserver, network>>

\* reply.send unblocks the caller.
RecvQuery ==
  /\ Receive("query")
  /\ waiting' = "none"
  /\ UNCHANGED <<handleLive, loop, event_handler, pending, counter, node,
                 crashed, network>>

Without(c) == [x \in DOMAIN pending \ {c} |-> pending[x]]

\* Mutant: a closed channel counts as answered.
SendResponse_Blind(r, response) ==
  /\ req' = [req EXCEPT ![r] = "answered"]
  /\ answer' = [answer EXCEPT ![r] = response]

\* send_response reaches the peer unless its connection is gone.
SendResponse(r, response) ==
  IF req[r] = "held"
  THEN /\ req' = [req EXCEPT ![r] = "answered"]
       /\ answer' = [answer EXCEPT ![r] = response]
  ELSE UNCHANGED <<req, answer>>

RecvRespond ==
  /\ Receive("respond")
  /\ LET c == Head(chan).ch
     IN  \/ /\ c \in DOMAIN pending
            /\ SendResponse(pending[c].req, Head(chan).req)
            /\ pending' = Without(c)
         \/ /\ c \notin DOMAIN pending
            /\ UNCHANGED <<req, answer, pending>>
  /\ UNCHANGED <<loop, event_handler, counter, genserver, seen>>

\* What dropping a set of ResponseChannels does to the requests behind them.
DropRequests(rs) ==
  req' = [r \in Req |-> IF r \in rs /\ req[r] = "held" THEN "dropped"
                                                       ELSE req[r]]

\* The task ends: receiver, queued commands and pending channels are dropped.
ExitLoop ==
  /\ loop' = "exited"
  /\ chan' = <<>>
  /\ pending' = [c \in {} |-> 0]
  /\ DropRequests({pending[c].req : c \in DOMAIN pending})
  /\ UNCHANGED <<event_handler, counter, genserver, answer, seen>>

\* Mutant: None from recv() is not taken for a shutdown.
RecvShutdown_NotOnNone ==
  /\ loop = "running"
  /\ chan # <<>> /\ Head(chan).op = "shutdown"
  /\ ExitLoop

RecvShutdown ==
  /\ loop = "running"
  /\ \/ chan # <<>> /\ Head(chan).op = "shutdown"
     \/ chan = <<>> /\ ~handleLive                    \* recv() returns None
  /\ ExitLoop

\* A panic inside the task is caught by catch_unwind; the task is over.
Panic == loop = "running" /\ ExitLoop

-----------------------------------------------------------------------------
(* The swarm loop: network events and the eviction timer.                  *)

\* An inbound request at the cap: its channel is dropped.
RefuseInbound(r) ==
  /\ Cardinality(DOMAIN pending) >= MaxPending
  /\ req' = [req EXCEPT ![r] = "dropped"]
  /\ UNCHANGED <<pending, counter, seen>>

\* Mutant: channel ids from the size of the map.
AcceptInbound_IdFromSize(r) ==
  /\ Cardinality(DOMAIN pending) < MaxPending
  /\ LET id == Cardinality(DOMAIN pending) + 1
     IN  /\ pending' = [c \in DOMAIN pending \cup {id} |->
                          IF c = id THEN [req |-> r, age |-> 0] ELSE pending[c]]
         /\ seen' = IF event_handler /\ node # "down"
                    THEN seen \cup {[ch |-> id, req |-> r]} ELSE seen
  /\ counter' = counter + 1
  /\ req' = [req EXCEPT ![r] = "held"]

\* Mutant: one request too many passes the cap.
AcceptInbound_OffByOne(r) ==
  /\ Cardinality(DOMAIN pending) <= MaxPending
  /\ counter' = counter + 1
  /\ pending' = [c \in DOMAIN pending \cup {counter + 1} |->
                   IF c = counter + 1 THEN [req |-> r, age |-> 0]
                                      ELSE pending[c]]
  /\ req' = [req EXCEPT ![r] = "held"]
  /\ seen' = IF event_handler /\ node # "down"
             THEN seen \cup {[ch |-> counter + 1, req |-> r]}
             ELSE seen

\* Below the cap it is stored, and surfaced if there is a handler; the message
\* to a handler that is gone is lost.
AcceptInbound(r) ==
  /\ Cardinality(DOMAIN pending) < MaxPending
  /\ counter' = counter + 1
  /\ pending' = [c \in DOMAIN pending \cup {counter + 1} |->
                   IF c = counter + 1 THEN [req |-> r, age |-> 0]
                                      ELSE pending[c]]
  /\ req' = [req EXCEPT ![r] = "held"]
  /\ seen' = IF event_handler /\ node # "down"
             THEN seen \cup {[ch |-> counter + 1, req |-> r]}
             ELSE seen

InboundRequest(r) ==
  /\ loop = "running"
  /\ req[r] = "new"
  /\ RefuseInbound(r) \/ AcceptInbound(r)
  /\ UNCHANGED <<chan, loop, event_handler, genserver, answer>>

\* Mutant: off by one in the comparison with the TTL.
Stale_TooEarly == {c \in DOMAIN pending : pending[c].age + 1 >= TTL}

Stale == {c \in DOMAIN pending : pending[c].age >= TTL}

\* Mutant: a biased select! that prefers commands to the timer.
Evict_WhenIdle ==
  /\ loop = "running"
  /\ Stale # {} /\ chan = <<>>
  /\ pending' = [c \in DOMAIN pending \ Stale |-> pending[c]]
  /\ DropRequests({pending[c].req : c \in Stale})
  /\ UNCHANGED <<chan, loop, event_handler, counter, genserver, answer, seen>>

Evict ==
  /\ loop = "running"
  /\ Stale # {}
  /\ pending' = [c \in DOMAIN pending \ Stale |-> pending[c]]
  /\ DropRequests({pending[c].req : c \in Stale})
  /\ UNCHANGED <<chan, loop, event_handler, counter, genserver, answer, seen>>

\* Time passes.  Ages are capped at the TTL: beyond it they all look alike.
Tick ==
  /\ loop = "running"
  /\ pending' = [c \in DOMAIN pending |->
                   [pending[c] EXCEPT !.age = IF @ < TTL THEN @ + 1 ELSE @]]
  /\ UNCHANGED <<chan, loop, event_handler, counter, genserver, network>>

\* The peer's connection closes while its request is open.
PeerGone(r) ==
  /\ req[r] = "held"
  /\ req' = [req EXCEPT ![r] = "gone"]
  /\ UNCHANGED <<chan, loop, event_handler, pending, counter, genserver,
                 answer, seen>>

-----------------------------------------------------------------------------
RecvCommand ==
  \/ RecvRegister
  \/ RecvFire
  \/ RecvQuery
  \/ RecvRespond
  \/ RecvShutdown

NodeStep ==
  \/ RegisterEventHandler
  \/ ImportDhtState
  \/ Fire
  \/ \E s \in seen : Respond(s)
  \/ \E kind \in Query : CallQuery(kind)
  \/ QueryDropped
  \/ Terminate
  \/ ExportDhtState
  \/ StopNode
  \/ Kill
  \/ DropHandle

LoopStep ==
  \/ RecvCommand
  \/ Panic
  \/ \E r \in Req : InboundRequest(r)
  \/ Evict

Next == NodeStep \/ LoopStep \/ Tick \/ \E r \in Req : PeerGone(r)

\* select! polls its branches in random order, so a ready branch is taken in
\* the end: commands are received and the timer fires.  Time passes.  A blocked
\* NIF returns when its oneshot is dropped, terminate/2 runs to its end, and a
\* handle nobody holds is collected.
Fairness ==
  /\ WF_vars(RecvCommand)
  /\ WF_vars(Evict)
  /\ WF_vars(Tick)
  /\ WF_vars(QueryDropped)
  /\ WF_vars(ExportDhtState)
  /\ WF_vars(StopNode)
  /\ WF_vars(DropHandle)

Spec == Init /\ [][Next]_vars /\ Fairness

-----------------------------------------------------------------------------
(* Properties.                                                             *)

\* To its peers the loop is no more than this: each request is answered at most
\* once, with the answer made for it, or dropped.
Exchange == INSTANCE InboundRequests
              WITH Req <- Req, NoAnswer <- NoAnswer, req <- req, answer <- answer
ExchangeSpec == Exchange!Spec

TypeOK ==
  /\ chan \in Seq(Command)
  /\ Len(chan) <= Capacity
  /\ handleLive \in BOOLEAN
  /\ loop \in {"running", "exited"}
  /\ event_handler \in BOOLEAN
  /\ DOMAIN pending \subseteq Nat \ {0}
  /\ \A c \in DOMAIN pending : pending[c] \in [req : Req, age : 0 .. TTL]
  /\ counter \in Nat
  /\ node \in {"starting", "registered", "up", "terminating", "stopping", "down"}
  /\ waiting \in Query \cup {"none"}
  /\ crashed \in BOOLEAN
  /\ req \in [Req -> ReqState]
  /\ answer \in [Req -> Req \cup {NoAnswer}]
  /\ seen \subseteq [ch : Nat, req : Req]

\* Parts of PendingAccounted.
EntriesOpen == \A c \in DOMAIN pending : req[pending[c].req] \in {"held", "gone"}
OneIdEach   == \A c, d \in DOMAIN pending : pending[c].req = pending[d].req => c = d
HeldKept    == \A r \in Req : req[r] = "held" => \E c \in DOMAIN pending : pending[c].req = r
SeenMeans   == \A s \in seen : s.ch \in DOMAIN pending => pending[s.ch].req = s.req
IdsSpent    == /\ \A c \in DOMAIN pending : c <= counter
               /\ \A s \in seen : s.ch <= counter
AnswersSeen == \A i \in DOMAIN chan : chan[i].op = "respond" =>
                 [ch |-> chan[i].ch, req |-> chan[i].req] \in seen

\* The map accounts for every open ResponseChannel: a request whose peer is
\* still waiting sits in the map under exactly one id, an id the application
\* has seen leads to the request it was seen with or to nothing, ids in use
\* are never handed out again, and answers under way are for ids seen.
\* (Eviction, answers, late and repeated answers, requests at the cap and the
\* end of the loop all change the map.)
PendingAccounted ==
  EntriesOpen /\ OneIdEach /\ HeldKept /\ SeenMeans /\ IdsSpent /\ AnswersSeen

\* "keyed by a unique channel ID" (node.rs:397): a peer never receives an
\* answer that was made for another request.
AnswersOwnRequest == \A r \in Req : answer[r] \in {r, NoAnswer}

\* The map never outgrows its cap (policy.rs:34), however requests, answers
\* and evictions interleave, and is empty once the loop has ended.
PendingBounded ==
  /\ Cardinality(DOMAIN pending) <= MaxPending
  /\ loop = "exited" => pending = [c \in {} |-> 0]

\* A GenServer that has started is never deaf: as long as its loop runs, its
\* event handler is installed or the command that installs it is under way,
\* although register_event_handler ignores a failing try_send (lib.rs:63).
NeverDeaf ==
  node \in {"registered", "up"} /\ loop = "running" =>
    event_handler \/ \E i \in DOMAIN chan : chan[i].op = "register_event_handler"

\* While the GenServer is blocked in a query, that query is the one in the
\* channel (or the loop is gone): no answer can be taken for another query's.
BlockedOnOwnQuery ==
  /\ waiting # "none" /\ loop = "running" =>
       \E i \in DOMAIN chan : chan[i].op = "query" /\ chan[i].kind = waiting
  /\ \A i, j \in DOMAIN chan : chan[i].op = "query" /\ chan[j].op = "query" => i = j
  /\ waiting = "none" => \A i \in DOMAIN chan : chan[i].op # "query"

\* A request leaves the map only through its own answer, through the end of the
\* loop, or because its TTL has passed: eviction takes no fresh request.
OnlyStaleEvicted ==
  [][\A c \in DOMAIN pending \ DOMAIN pending' :
       \/ pending[c].age >= TTL
       \/ loop' = "exited"
       \/ chan # <<>> /\ Head(chan).op = "respond" /\ Head(chan).ch = c
            /\ chan' = Tail(chan)]_vars

\* A query always returns: the loop answers it, or its end is noticed.
QueryReturns == waiting # "none" ~> waiting = "none"

\* The loop outlives its GenServer only for a while, even if both attempts to
\* send Shutdown met a full channel (lib.rs:55): "the swarm will exit on its
\* own".
LoopFollowsNode == node = "down" ~> loop = "exited"

\* No request occupies a slot of the map for ever, answered or not.
PendingReleased ==
  \A r \in Req : (\E c \in DOMAIN pending : pending[c].req = r)
                   ~> ~(\E c \in DOMAIN pending : pending[c].req = r)

\* An error of the command channel is an answer to the caller
\* ({:ok, ...} | {:error, term()}, node.ex:81), never the end of the GenServer.
NodeSurvivesChannelErrors == ~crashed
=============================================================================
