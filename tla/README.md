# TLA+ models of ex_libp2p

ExLibp2p wraps a rust-libp2p node in an Elixir GenServer. This directory holds
TLA+ models of the parts of it that keep state and run concurrently, the TLC
configurations that check them on small instances, and TLAPS proofs for every
value of the constants. `PROJECT.json` maps each definition to the lines it
models and lists runs, mutants, findings, hazards and theorems.

## The system

| Component | State | Operations | Talks to |
|---|---|---|---|
| Swarm loop (`node.rs`, `commands.rs`, `policy.rs`) | `event_handler`, `pending_responses`, `channel_counter`, the swarm; the bounded command channel | one arm per command; swarm events; the eviction timer; shutdown, panic | NIFs through the channel; the Node process through messages; peers |
| NIF boundary (`lib.rs`, `error.rs`) | the `NodeHandle` (channel sender), the process-wide runtime | `start_node`; `try_send` commands; queries that block on a oneshot; `stop_node`; `Drop` | called only by the Node GenServer |
| Node GenServer (`node.ex`, `network_ops.ex`, `nif_ops.ex`) | handle, DHT snapshot path | init with import, calls, event dispatch, terminate with export | NIFs, HandlerRegistry, storage |
| Configuration (`config.rs`, `behaviour.rs`, `node/config.ex`) | none after the start | validation, parsing, construction of the behaviours | NIF boundary |
| Event encoding (`events.rs`, `atoms.rs`, `node/event.ex`) | none | one term per event; `from_raw`; routing by type | loop, Node |
| HandlerRegistry (`handler_registry.ex`) | `subscriptions`, `monitors` | register, unregister, cleanup_node, dispatch, `:DOWN` | Nodes, subscribers, the runtime's monitors |
| Request-response API (`request_response.ex`, `call.ex`) | none | send_request, send_response | Node |
| OTP distribution (`distribution.ex`, `distribution_server.ex`) | the callers' mailboxes | call, cast, send; the server's callback | request-response, registry |
| TaskTracker (`task_tracker.ex`) | tasks, counter, subscribers | dispatch, complete, fail, subscribe, cleanup, connection_closed | registry (events), subscribers |
| DHT state codec (`dht_state.rs`) | the snapshot file | encode; decode with a cursor | Node's init and terminate |
| Keypair and storage (`keypair.ex`, `storage/file.ex`) | files and their `.tmp` | write, chmod, rename, cleanup; read | Node, application |
| Health (`health.ex`) | timer, `consecutive_failures` | periodic check, `check/1` | Node, telemetry |
| Telemetry counters (`telemetry/counters.ex`) | counters, handler id; telemetry's table | attach, increment, reset, terminate | every process that executes an event |
| Supervision (`application.ex`, the tree of the README) | which process runs, and since when | rest_for_one restarts | all of the above |
| Protocol wrappers (`gossipsub.ex`, `dht.ex`, ...) | none | calls of the Node | Node |

What is hard: NIF calls, loop, timer and network interleave; commands meet a
full or closed channel and the error is sometimes ignored; a query blocks the
GenServer; a response channel may be answered, answered twice, evicted or
abandoned; two nodes start at once on different threads; `:DOWN` messages race
with calls; nodes, subscribers, writers and counters die at any point and are
restarted in an order that decides who hears whom; a snapshot on disk is cut or
damaged; connection events are handled after the fact; a response may come after
the timeout or be meant for somebody else. Each such point is a hazard in
`PROJECT.json`, with the line where it bites and the properties about it.

What makes a component correct:

* Swarm loop: every open response channel is accounted for, bounded and
  released; an answer reaches the request it was made for; queries return; the
  loop ends with its node; a started node hears events.
* Start: one runtime whatever the interleaving; a failed start leaves nothing
  open.
* Event path: subscribers are told whatever the loop forwards, once, in order, and
  no event crashes the GenServer.
* HandlerRegistry: both maps agree, every entry is monitored and nothing else
  is, live subscribers have what they were told, events reach exactly them,
  and dead ones are forgotten.
* TaskTracker: ids are unique within one life of the tracker, a loss is detected, announced once and never
  invented.
* Distribution: every call ends; a response is used once; which response a call
  may get.
* DHT snapshot: what decode accepts is what encode wrote; a restarted node knows
  what its predecessor knew and saved; nothing on disk holds up a start or a shutdown.
* Storage: a write is atomic for readers, under failures and kills, and the
  permissions of what is under the path are right at every instant. (Of the path
  only: `.tmp` holds the key in the mode of the umask from the write to the chmod,
  `file.ex:21-22`, and after a kill in between until the next write.)
* Health and counters: the streak of failures and the counts are exact, checks
  never stop.
* Supervision: a restarted process is subscribed to the node that runs.

## Modules

* `SwarmLoop`: one incarnation of a node, that is swarm loop, channel, NIFs and
  GenServer. `chan` is the mpsc channel, `loop` the tokio task, `pending` and
  `counter` the loop's locals, `handleLive` the resource, `node` and `waiting`
  the GenServer (where it is in its life, and the query it is blocked on).
  Actions above the line "The swarm loop" are steps of NIFs and GenServer
  callbacks; below it each action is one branch of `select!`. Commands are told
  apart by how they work: registration, fire-and-forget, query (of which
  `connected_peers` reacts differently to an error), response, shutdown. `req`,
  `answer` and `seen` record what peers and application know: `answer[r]` is
  the request whose answer peer `r` received.
* `InboundRequests`: what a node promises to peers; `SwarmLoop` implements it
  (`Exchange == INSTANCE InboundRequests`, checked as `ExchangeSpec`). Variables
  have the same names, so the refinement mapping is the identity on `req` and
  `answer`.
* `SwarmRestart`: `SwarmLoop` with a supervisor's restart, which resets all that
  belongs to the incarnation and keeps what the application remembers.
* `StartNode`: `start_node` from the configuration map to the spawned loop, one
  action per step that can fail or that other starts can come between
  (`from_map`, the three steps of `get_runtime`, `Construct`, `Listen` address by
  address, `Spawn`). A u32 has `Width` values; `limits` are the six of
  `ConnectionLimits`, of which the total is a sum that may wrap.
* `EventTerms` and `EventPath`: the terms in which events cross to Elixir, the
  clauses of `from_raw`, and the way of an event through loop, mailbox and
  `handle_info` to `HandlerRegistry.dispatch`. A term is a sequence with its tag
  first, so that a clause matches or not as it does in the code. `emitted` records
  what the swarm reported since the handler was registered; `Owed` says, in the
  vocabulary of the public structs, what subscribers must hear of it: nothing of an
  expired mDNS record, which the loop does not forward. The routing table is there
  because discoveries feed it; import and Kademlia's own part in it are in
  `DhtSnapshot`.
* `HandlerRegistry`: the registry with subscribers and nodes around it.
  `inbox` is the GenServer's queue; `active` and `downs` are the monitors set in
  the runtime and the `:DOWN` messages that have arrived. `:DOWN`s may overtake
  requests, which covers every order the runtime can produce. Lists of entries
  are sets: entries differ in their reference, and the order matters only for
  `List.keyfind`, which takes the newest (`KeyFind`). `acked` records what the
  last answered call told each subscriber. A process registers itself, the
  default of `register_handler`, which would take any pid (`node.ex:120`).
* `TaskTracker`: the tracker, connections opening and closing, and the queue of
  events between them. `exposed` records the tasks whose peer lost its last
  connection after dispatch, `late` those dispatched while such an event was on
  its way, `heard` the notifications.
* `Distribution`: callers on one node, the Node, the network and the remote server.
  Requests and responses are their ids. `queue` is the Node's mailbox: a request in
  it is sent (`HandleSend`) or answered with an error (`RefuseSend`, and `call`
  returns `:unreachable`), or `safe_call` gives up on it (`GiveUp`, `:unreachable`
  too) while it stays there and is sent later. Every caller is registered for
  `outbound_response`, so each response goes to all callers.
* `DhtState`: `encode` as operators over bytes, `decode` as the walk of its
  `Cursor`, one action per read. A byte is a digit in base `Base`.
* `DhtSnapshot` extends it with the lives of a node: `init/1` reads, decodes and
  imports the file, `terminate/2` exports and writes it, in between the table
  changes, the loop panics, the GenServer is killed or somebody damages the file.
  `terminate/2` loses the export when `cleanup_node` exits before it
  (`CleanupExits`) and when the command channel is full (`ExportRefused`); the file
  then stays as it was.
  `kept` records the entries the next node must know.
* `FileStorage`: `File.write`, `chmod`, `rename` and `rm` as system calls on names
  and inodes, with readers that hold an inode open. It implements `AtomicFile`,
  the contract of a storage backend: the abstract file is the value under the
  path, a write is pending until its rename or failure, and a reader has begun
  with the inode it opened.
* `Health`, `Counters` and `Observability`: the two processes as components
  without a specification of their own, and their composition. A periodic check
  ends by executing a telemetry event; the handler runs in Health's process and
  casts to the counter, all in one step with the end of the check.
* `Supervision`: both trees, the library's and the one its README shows. A process
  is up or down, with the number of its incarnation; the registry is reduced to
  its subscriptions; `since` is the incarnation of the registry a process dealt
  with when it started.
* `MC*`: instances for TLC. `*Proofs`: theorems.

`LifecycleProofs` extends `StartNode` and `Supervision`, `EncodingProofs` extends
`DhtSnapshot` and `EventPath`; the second module of each pair therefore has a
prefix on its `Spec`, `Init`, `Next` and `TypeOK` (`TreeSpec`, `PathSpec`).

Operators that end in a suffix (`Stale_TooEarly`) and are marked "Mutant" are
wrong versions of the definition after them, used to show that a property can
fail.

## Runs

| Run | Instance | Result |
|---|---|---|
| `registry` | 2 nodes, 1 type, 2 subscribers, 2 calls, 1 event | holds, with liveness |
| `swarm` | 3 requests, capacity 1, cap 2, TTL 1 | holds, with liveness |
| `swarm_crash` | 1 request | violated: `connected_peers` kills the GenServer |
| `swarm_restart` | 2 requests, 1 restart | violated: an old id answers a new request |
| `start_node` | 2 nodes, 2 starts each, 7 configurations, u32 of 8 values | holds |
| `event_path` | 2 peers, 3 events of any kind | holds, with liveness |
| `task_tracker` | 2 peers, 1 subscriber, 2 tasks, 2 closes | holds, with liveness |
| `distribution` | 2 callers, 3 requests | holds, with liveness |
| `dht_snapshot` | 3 entries, base 2, limit 35 bytes, 3 boots, 1 fault | holds, with liveness |
| `storage` | 1 writer, 2 readers, 2 keypairs of 2 blocks, 3 writes | holds |
| `supervision` | 2 dependents, 3 starts each, 2 crashes | holds, with liveness |
| `observability` | 2 periodic checks, 1 call, 2 incarnations, 1 other event, 2 messages | holds, with liveness |

A run checks the invariants of its cfg. In the newer modules one of them gathers
the type invariant and the smaller invariants of the component, each a named
definition of its own: `TrackerConsistent`, `RepliesExplained`, `NothingLost`,
`StartsClean`, `CodecExact`, `FilesSound`, `TreeConsistent`,
`ObserversConsistent`. What the runs show, component by component:

* `registry`: the two maps agree (`ReverseIndexExact`), monitors and entries match
  (`MonitorsBacked`), subscribers have what they were told
  (`SubscribersAsAcknowledged`), events reach exactly them (`ExactDelivery`), dead
  ones go (`DeadSubscriberForgotten`), calls return (`CallsAnswered`).
* `swarm`: response channels are accounted for, bounded, evicted only when stale
  and released in the end; a node cannot be deaf; a blocked query is in the
  channel and returns; the loop ends after its node; peers see no more than
  `InboundRequests` allows (`ExchangeSpec`, which includes `AnswersOwnRequest`).
* `start_node`: however starts interleave and fail, all loops share the runtime of
  the `OnceLock`, and nothing is left of a loser or a failed start.
* `event_path`: what the loop forwards after registration is dispatched in order
  (`ToldInOrder`), none of it is of a shape that the GenServer drops or dies of
  (`NothingLost`), and all of it is dispatched in the end (`EventuallyTold`).
* `task_tracker`: a loss is detected, announced once to every subscription, and
  has a closed connection behind it; ids are not reused as long as the tracker
  lives (a restarted one begins at `task-1` again, `task_tracker.ex:65`, which is
  not modelled).
* `distribution`: all that can explain a foreign reply: another process's request,
  a cast or send, a call that timed out, a call whose `safe_call` gave up on a busy
  or dying Node, or a call that was itself answered by a foreign reply; never a
  call that the Node refused. Every call ends, and nothing stays under way.
* `dht_snapshot`: decode is exact on files intact, cut at every offset, changed at
  every byte or extended; the table passes from a node that saved it to its
  successor through kills, panics and lives without Kademlia; boot and shutdown
  complete. A table is not saved when the export meets a full channel, when
  `cleanup_node` exits, when the write fails, or when it is larger than what decode
  accepts; but for the last case the file from before is still good.
* `storage`: for one writer and any readers the file is atomic; the path is always
  0600; a `.tmp` is left only by a kill or a failed cleanup.
* `supervision`: after crashes in any order a dependent hears the Node that runs,
  no supervised Node outlives its registry, and subscriptions to dead Nodes go.
* `observability`: the streak and the counts are exact under kills and resets, and
  checks never stop.

The two violations are findings; `PROJECT.json` quotes the text each disagrees
with. Their scope:

* `swarm_crash`: one `connected_peers` call on an overloaded node, or on one
  whose loop has panicked, is enough. The mock NIF never returns an error there.
* `swarm_restart`: needs an application process that outlives the node and
  answers late; `Distribution.Server` handles requests in turn and can be that
  process when it addresses the node by name.

### Statements of the documentation that do not hold

The modules also state, as definitions that no run lists, what other documents
say and the code does not do. Adding the definition to the component's cfg shows
the counterexample.

* `TaskTracker!PeerLostIsFinal` (`DESIGN_DECISIONS.md:2094`, "PeerLost --> [*] :
  cleanup()"): `complete` or `fail` after the loss changes the status again.
* `Distribution!CallGetsOwnResponse` (`request_response.ex:34-36`, the request id
  is there "to match the response event"): `call` takes any `outbound_response`, so
  a cast followed by a call is enough. It does hold for a sole caller that only
  calls, has never timed out and has never had `safe_call` give up on the Node
  (theorem `SoleCallerGetsOwn`); of the two ways to `:unreachable`, a refusal is
  harmless and a timeout of `safe_call` is not.
* `EventPath!ExpiryForwarded` (`node.rs:777-780`, "we forward the event so Elixir
  handlers can react"): the arm's body sends nothing, as the comment inside it says
  (`node.rs:784-785`).
* `StartNode!TotalCoversBoth` (`config/network.ex:6-7`, the limits "cap the node's
  footprint and are non-negotiable"): without overflow checks
  `max_established_incoming + max_established_outgoing` wraps, and the node admits
  fewer connections in all than in one direction. With overflow checks the start
  panics and fails.
* `EventPath!DialFailureMeansDial` (`event.ex:161`): failed requests over a
  standing connection are told as `dial_failure` too.
* `StartNode!FlagsHonoured` with `Configs <- MCWebsocket` (`ARCHITECTURE.md:566`):
  `enable_websocket` is parsed and never used.
* `FileStorage!NoPartialRead` and `ModeRestrictive` with `Writers = {w1, w2}`
  (`file.ex:6`, `file.ex:17`): two writers share one `.tmp`, and one renames what
  the other is still writing or has not yet restricted. With one writer both hold
  (theorems `LoadsWhole`, `StorageSound`).
* `Supervision!SubscriptionsSurvive` (`application.ex:10-11`): a Node in the
  application's own tree and its dependents outlive the registry and are
  registered with nobody.
* `Supervision!ShutdownCompletes` (`node.ex:291-292`): `cleanup_node` exits while
  the registry is down, and the export and `stop_node` after it do not run.

Three more are visible in an action: `Health!AddrsRefused` (`listening_addrs`
wraps an error tuple in `:ok`, against the `@spec` at `node.ex:85`),
`EventTerms!encode_kad_event` (the result of `find_peer` has no event, against
"Results arrive as events", `dht.ex:39`), and `DhtSnapshot!Survives` (encode has
no counterpart to the limit of decode, so a larger table is exported and then
refused; `RestartKeepsTable` makes the exception explicit).

### Bounds

Capacity 1 makes every `try_send` meet a full channel soon and often; the
theorems hold for every capacity. More requests than slots make the cap bind;
TTL 1 separates fresh from stale, and ages are capped at the TTL because the code
only compares. Two calls of two subscribers, with deaths and stopping nodes
between them, are enough for a `:DOWN` to race a call on the same key; the safety
properties are proved for any number of calls. Two closes let a peer be lost,
return and be lost again. Three requests let a call follow an abandoned one and a
foreign one. Three events put a batch between two others. With base 2 a length
field holds 0 to 3, so the entries reach both ends and one has more addresses than
its field can say; 35 bytes are exactly the size of two entries, so sizes lie on
both sides of the limit.
Three boots let an entry pass through a life that does not use it. `Width` 8
admits limits whose sum wraps and numbers no u32 holds. Two blocks per file make
partial files; three writes let a writer meet what a killed one left. Two crashes
hit a process while another is being restarted. Symmetry is used in `storage`
(keypairs, readers) and `swarm_restart`, which have no liveness property.

Deadlock is checked in `storage`, where a reader can always go on. The other
instances stop when a bound is used up, the node is down or all clients have
exited, as the system may.

## Fairness

* `tokio::select!` polls its branches in random order, so a received command
  and a due eviction tick are taken in the end (`RecvCommand`, `Evict`). Time
  passes (`Tick`).
* A NIF blocked on a oneshot returns when the sender is dropped
  (`QueryDropped`); `terminate/2` runs to its end unless killed; a resource
  nobody refers to is collected (`DropHandle`).
* The BEAM schedules every process with messages: the registry handles its
  requests and `:DOWN`s, the tracker its events, the distribution server its
  requests, the Node its events (`HandleInfo`), the requests it is to send
  (`HandleSend`, `RefuseSend`) and its callbacks
  (`DhtSnapshot!NodeStep`). The runtime delivers each `:DOWN` it owes.
* `receive ... after` ends; the network delivers or loses what it carries.
* Timers fire and every `safe_call` returns, with an answer or at its timeout
  (`Observability`).
* Supervisors do their work: they stop what must stop and start what must start
  (`Supervision`). `start_supervised` itself, a call of the application, is not
  fair.
* No fairness for clients, peers, panics, kills or crashes, nor in `StartNode` and
  `FileStorage`, which state safety only.

## Proofs

Every theorem holds for all values of the constants that satisfy the named
assumptions of the component; `PROJECT.json` says which property of which run
each one states. Each proof goes by an inductive invariant, usually called
`IInv`: `Init => IInv`, one lemma or step per action for
`IInv /\ [Next]_vars => IInv'`, and `IInv` implies the property. What the
invariants add to the properties, and why:

`SwarmLoopProofs` (any set of requests, any capacity, cap and TTL, from
`ConstantsAssumption` and `NoAnswerAssumption`):

* `TypeCorrect`: type correctness and the channel bound.
* `ResponsesAccounted`, `AnswersCorrelated`: by
  `IInv == TypeOK /\ PendingAccounted /\ AnswersOwnRequest`. Which answer a step
  delivers depends on the id in a command sent earlier; one must know that the
  id was seen with the request of that command (`AnswersSeen`), that an id seen
  with a request never leads to another one (`SeenMeans`), and, for a new entry,
  that its id has not been used (`IdsSpent`). Lemmas treat the ways the map changes:
  `EntryAdded`, `EntriesDropped` (eviction and the end of the loop),
  `AnswerDelivered`.
* `ImplementsExchange`: each step that changes `req` or `answer` is a step of
  `InboundRequests`. `AnswerDelivered`, which needs `IInv`, gives the `Answer`
  step.
* `HandlerNeverLost`, `QueriesDistinct`: by `ChannelInv`. `register_event_handler`
  ignores what `try_send` returns; it is safe because `init/1` registers into a
  channel nobody has sent to yet, so the invariant says that the channel is empty
  at that point. It also says that a query is sent only when no other is under
  way, and that a channel without a loop is empty.
* `MapBounded`: cardinalities, with `IInv` for the finiteness of the map (all ids
  are at most `counter`).
* `FreshEntriesKept`: an action property. Only stale entries go, except with the
  loop or by their own answer.

`HandlerRegistryProofs` (any nodes, types, subscribers and bounds, from
`BoundsAssumption`):

* `RegistryTypes`, `IndexExact`, `MonitorsExact`, `SubscribersExact`: by
  `IInv == TypeOK /\ Maps /\ MonitorsBacked /\ SubscribersAsAcknowledged`. A
  `:DOWN` deletes an entry by pid and a reference by value. That they belong
  together needs: one entry per pid and key (`OneEntryEach`), references never
  reused (`FreshRefs`), and agreement of monitors and index about the pid. Even the
  type of `delivered` needs this: the number of copies is a cardinality, finite
  because a process has at most one entry.
* `DeliveryExact`: an action property, from `IInv` and `FreshEvents`: an event is
  under way at most once, and has reached nobody before it is handled.

`TaskTrackerProofs` (any peers, subscribers and bounds, from `BoundsAssumption`):

* `TrackerSound`, `LossesHaveReasons`, and the action property `LossesAnnounced`.
  That nobody is told twice needs `NotYetHeard`: nobody has been told of a task
  that is still pending, nor of an id not yet given out. That a loss has a cause needs
  `LossesExposed`: a pending task of a peer whose loss is in the queue is already
  in `exposed` or `late`.

`LifecycleProofs`, `StartNode` (any nodes, starts, configurations, any width of an integer and
both settings of overflow checks, from `StartAssumption`):

* `StartsLeaveNoLitter`, `RuntimeShared`: the invariant ties each
  resource to the program counter of the start that owns it: a built runtime that
  nobody has offered (`BuiltOffered`), the `OnceLock` filled (`RuntimeThere`),
  loops (`LoopsStarted`), listeners (`ListenersOpen`), and the swarm's limits to
  the configuration (`SwarmConfigured`), which makes them u32s (`LimitsFit`).

`DistributionProofs` (any callers, any number of requests, from
`MaxRequestsAssumption`):

* `ForeignRepliesExplained`. Requests and responses are in one place at a time
  (`OnePlace`): in the Node's mailbox, on the wire, with the server, on the way
  back; of a refused request nothing is anywhere (`Traceless`). A response is in no
  mailbox while it can still be delivered (`NotYetThere`), and so never twice in
  one (`MailOnce`). Without these a lossy network could let a caller take the same
  response in two calls.
* `SoleCallerGetsOwn`: under the hypothesis that there is one caller, a call gets
  its own response as long as nothing was cast, no call has timed out and no
  `safe_call` has given up (`Undisturbed`): every response that exists anywhere is
  that of the call under way (`OnlyAwaited`).

`LifecycleProofs`, `Supervision` (any number of dependents, starts and crashes, from
`BoundsAssumption`):

* `NodesRestartWithRegistry`, `DependentsSubscribed`. `DynamicBelow` says that the
  supervised Node is down while its supervisor is, and that one that is up was
  started with the latest registry, also while that registry is down; `Incarnations`, that each new registry was paid for by a
  crash, which bounds its number.

`FileStorageProofs` (any readers, keypairs and lengths of a file, from
`StorageAssumption`, which gives the model a spare inode for every process: the
file system is not full of inodes):

* `TypesHold`: types and left-over files, for any number of writers.
* `StorageSound`, `LoadsWhole` and the refinement `StorageAtomic`
  (`Spec => AtomicSpec`), under the hypothesis `OneWriter`; with two the first two
  are violated. `InProgress` describes `.tmp` at each system call, `Apart` says that
  `.tmp` is not the inode of the path and that nobody reads it, and `WholeFiles` says that the path and
  every inode a reader holds open contain a whole keypair. Each system call is a
  stutter or one step of `AtomicFile`: a rename is its `Install`, an open its
  `Look`; a read that fails returns an error and nothing of the file.

`ObservabilityProofs` (any bounds, from `HealthAssumption` and
`CountersAssumption`):

* `EventsCountedOnce`, `ObserversSound`. `UnderWay` says that a periodic check
  under way has room in the log; `Attached`, that a counter that runs has its own
  handler in telemetry's table and still knows its id. The handlers of killed
  predecessors cast to pids that have ended, so each event is counted once.
  `CountsExact` counts messages in a mailbox; `QueuedAppend` and `QueuedTail` say,
  by a bijection between positions, how that number changes.

`EncodingProofs`, `DhtState` and `DhtSnapshot` (any width `Base` of a byte, any
size limit, tables, files and bounds, from `WidthAssumption` and
`BoundsAssumption`; the latter says that a missing file is not a file of bytes):

* `CodecIsExact`: `DecoderInv` holds between any two reads of the cursor.
  `Consumed` says that the bytes before the offset are what `encode` writes for the
  entries read so far, where the open entry and the header already announce the
  addresses and entries still to come (`Sofar`, `Header`); so what `decode` accepts
  is the encoding of what it returns, whatever the file. `Follows` says that in a
  file that begins with an encoding whose lengths fit their fields, what comes next
  is the rest of that encoding (`Remains`); so it returns what was written and
  reports no error on the way. There is one lemma per read (`ReadMagicKeeps` to
  `ReadAddrKeeps`); below them are lemmas on big-endian numbers (`U16OfDigits`,
  `U32OfHalves`, `AtU32`), on values with a length in front (`ReadBytes`,
  `AtBytes`), and on flattening.
* `TableSurvivesRestart`: `KeptSafe` says, for each phase of a node, where the
  entries its successor must know are: in the table, in the export on its way to
  disk, or in the file, read back as `decode` would (`Saved`). A refused export and
  a `cleanup_node` that exits leave what the file gives. That `decode` does
  read them back is `Follows`, so the two theorems share the invariant `SnapInv`.

`EncodingProofs`, `EventPath` (any peers, addresses, batches, registrations and
number of events, from `EventAssumption`, which only gives these their types and
keeps `nil` apart from the peers):

* `EventsToldInOrder`, `NoEventLost`: for each kind of event a lemma shows that the
  term built in `events.rs` meets a clause of `from_raw` in tag, size and place of
  the peer, that the clause does not raise, and that it tells what was owed
  (`EveryReportHeard`). `InTransit` puts these together: what was told, followed by
  what the messages in the mailbox will tell, is all that is owed, and the GenServer
  runs. `NothingLost` is the safety half of `EventuallyTold`: with an empty mailbox
  everything owed has been told.

Both need facts about sequences of any length. The induction theorems of the
library take an operator as a parameter, which the back ends cannot instantiate;
the induction is done over sets instead. `NatSet` says that a set with 0 and
every successor holds all numbers (from the well-foundedness of `<`), and is used
with the set of lengths for which a claim holds (`FlattenExists`, `FlattenUnique`,
`FlattenCons`). The folds of the codec and of the event history are all
`FlattenSeq`, so a few lemmas on `FlatMap` serve them.

Every invariant, action property and refinement that a passing run checks is
thereby stated by a theorem. Checked by TLC only:

* Liveness: `DeadSubscriberForgotten`, `CallsAnswered`, `QueryReturns`,
  `LoopFollowsNode`, `PendingReleased`, `LossDetected`, `EverythingSettles`,
  `EventuallyTold`, `BootAndStopComplete`, `DeadNodeForgotten` and `ChecksGoOn`.
  They rest on fairness, and with it on ENABLED, which are out of reach of the
  prover.
* The two violations, which are counterexamples. `AnswersCorrelated` proves of one
  incarnation what `swarm_restart` refutes across a restart.

## Not modelled

* libp2p itself: connections open and close, requests arrive, queries progress and
  channels are dropped as the code observes it. Kademlia's refusal of an address
  when a bucket is full is part of that: the import asks, and an entry that does
  not fit is a later `Forget`.
* The way of a DHT query between its command and its result, beyond the encoding
  of the result; dial, publish, subscribe, relay and rendezvous commands are one
  fire-and-forget action, since the loop only hands them on.
* `encode_binary` when an allocation fails (`events.rs:450-471`).
* Scoring and timing parameters of the configuration, which are handed on; parsing
  of addresses and peer ids; the metrics NIFs; the Prometheus text; logging.
* Read-only calls (`count`, `snapshot`, `sync`, the getters of the tracker).
* `ExLibp2p.Registry`, which is started and used by nobody (a crash of it, the first
  child, would restart what a crash of the HandlerRegistry restarts, and that too); value types, NIF stubs
  and the mock.

`PROJECT.json` gives the reason for each component.

## Plan

The components above are modelled, and their safety properties are proved. What
could follow: the part of the request exchange that survives a restart, as a
theorem about `SwarmRestart` (an id answers the request it was given for when both
belong to the same incarnation), and the metrics NIFs, should they come to keep
state.
