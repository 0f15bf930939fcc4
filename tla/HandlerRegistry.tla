--------------------------- MODULE HandlerRegistry ---------------------------
(***************************************************************************)
(* The subscriber registry of ExLibp2p (node/handler_registry.ex): a       *)
(* GenServer that maps {node, event_type} to its subscribers, monitors     *)
(* every subscriber, and keeps a reverse index from monitor reference to   *)
(* subscription so that a :DOWN message finds what to remove.              *)
(*                                                                         *)
(* Around the server stand its clients: subscriber processes that call     *)
(* register and unregister for themselves and may exit at any time, and    *)
(* Node processes that cast dispatch, call cleanup_node from terminate/2   *)
(* or are killed without running it.                                       *)
(*                                                                         *)
(* Requests are handled in the order in which they arrive.  :DOWN messages *)
(* are kept apart, as a set: the runtime delivers them asynchronously, and *)
(* the model lets the server take one at any point relative to the         *)
(* requests.                                                               *)
(***************************************************************************)
EXTENDS Naturals, Sequences, FiniteSets

CONSTANTS Node,      \* pids of ExLibp2p.Node processes
          Type,      \* event types
          Pid,       \* pids of subscriber processes
          MaxCalls,  \* bound: register and unregister calls made in all
          MaxEvents  \* bound: events dispatched in all

ASSUME BoundsAssumption == MaxCalls \in Nat /\ MaxEvents \in Nat

VARIABLES
  subscriptions, \* key -> set of entries [pid, ref]; only keys with subscribers
  monitors,      \* ref -> [pid, key], the reverse index for :DOWN
  nextRef,       \* references handed out by Process.monitor so far
  active,        \* refs of monitors set in the runtime, as [pid, ref] records
  downs,         \* :DOWN messages in the mailbox, as [pid, ref] records
  inbox,         \* requests in the mailbox, oldest first
  alive,         \* subscriber processes that have not exited
  calling,       \* subscriber processes blocked in GenServer.call
  nodeState,     \* Node processes: up, stopping (in terminate/2) or down
  acked,         \* <<key, pid>> pairs whose last answered call was register
  delivered,     \* pid -> event -> number of times it was sent to pid
  calls,         \* calls made so far
  events         \* events dispatched so far

vars == <<subscriptions, monitors, nextRef, active, downs, inbox, alive,
          calling, nodeState, acked, delivered, calls, events>>

server  == <<subscriptions, monitors, nextRef>>
clients == <<alive, calling, nodeState, calls, events>>

Key     == Node \X Type
Entry   == [pid : Pid, ref : Nat]
Event   == 1 .. MaxEvents
Request == [op : {"register", "unregister"}, key : Key, pid : Pid]
             \cup [op : {"dispatch"}, key : Key, event : Event]
             \cup [op : {"cleanup_node"}, node : Node]

Init ==
  /\ subscriptions = [k \in {} |-> {}]
  /\ monitors = [r \in {} |-> {}]
  /\ nextRef = 0
  /\ active = {}
  /\ downs = {}
  /\ inbox = <<>>
  /\ alive = Pid
  /\ calling = {}
  /\ nodeState = [n \in Node |-> "up"]
  /\ acked = {}
  /\ delivered = [p \in Pid |-> [e \in Event |-> 0]]
  /\ calls = 0
  /\ events = 0

-----------------------------------------------------------------------------
(* The maps of the server's state.                                         *)

\* Map.get(state.subscriptions, key, [])
Entries(k) == IF k \in DOMAIN subscriptions THEN subscriptions[k] ELSE {}

\* The subscriptions with `entries` at key k: Map.put, or Map.delete when
\* nothing remains.
WithEntries(k, entries) ==
  [x \in IF entries = {} THEN DOMAIN subscriptions \ {k}
                         ELSE DOMAIN subscriptions \cup {k} |->
     IF x = k THEN entries ELSE subscriptions[x]]

\* Map.drop(state.monitors, refs)
WithoutRefs(refs) == [r \in DOMAIN monitors \ refs |-> monitors[r]]

already_registered(k, pid) == \E e \in Entries(k) : e.pid = pid

\* The first entry of pid in the list.  Entries are prepended, so the list is
\* ordered by decreasing ref.
KeyFind(k, pid) ==
  CHOOSE e \in Entries(k) :
    /\ e.pid = pid
    /\ \A f \in Entries(k) : f.pid = pid => f.ref <= e.ref

\* Mutant: demonitor without :flush.
DemonitorNoFlush(refs) ==
  /\ active' = {m \in active : m.ref \notin refs}
  /\ UNCHANGED downs

\* Process.demonitor(ref, [:flush]) for each ref: the monitor is off and its
\* :DOWN, if it had arrived, is gone from the mailbox.
DemonitorFlush(refs) ==
  /\ active' = {m \in active : m.ref \notin refs}
  /\ downs' = {m \in downs : m.ref \notin refs}

-----------------------------------------------------------------------------
(* Bodies of the server's callbacks.                                       *)

\* Mutant: unregister forgets the reverse index.
remove_subscription_KeepsMonitor(k, pid) ==
  \/ /\ already_registered(k, pid)
     /\ LET e == KeyFind(k, pid)
        IN  /\ DemonitorFlush({e.ref})
            /\ subscriptions' = WithEntries(k, Entries(k) \ {e})
            /\ UNCHANGED monitors
  \/ /\ ~already_registered(k, pid)
     /\ UNCHANGED <<subscriptions, monitors, active, downs>>

\* Mutant: no clause for a pid that is not registered.
remove_subscription_NoNilClause(k, pid) ==
  /\ already_registered(k, pid)
  /\ LET e == KeyFind(k, pid)
     IN  /\ DemonitorFlush({e.ref})
         /\ subscriptions' = WithEntries(k, Entries(k) \ {e})
         /\ monitors' = WithoutRefs({e.ref})

remove_subscription(k, pid) ==
  \/ /\ already_registered(k, pid)
     /\ LET e == KeyFind(k, pid)
        IN  /\ DemonitorFlush({e.ref})
            /\ subscriptions' = WithEntries(k, Entries(k) \ {e})
            /\ monitors' = WithoutRefs({e.ref})
  \/ /\ ~already_registered(k, pid)
     /\ UNCHANGED <<subscriptions, monitors, active, downs>>

remove_dead_subscriber(d) ==
  \/ /\ d.ref \in DOMAIN monitors
     /\ monitors[d.ref].pid = d.pid
     /\ LET k == monitors[d.ref].key
        IN  subscriptions' =
              WithEntries(k, IF already_registered(k, d.pid)
                             THEN Entries(k) \ {KeyFind(k, d.pid)}
                             ELSE Entries(k))
     /\ monitors' = WithoutRefs({d.ref})
  \/ /\ d.ref \notin DOMAIN monitors
     /\ UNCHANGED <<subscriptions, monitors>>

NodeKeys(n) == {k \in DOMAIN subscriptions : k[1] = n}

remove_all_for_node(n) ==
  LET refs == {e.ref : e \in UNION {subscriptions[k] : k \in NodeKeys(n)}}
  IN  /\ DemonitorFlush(refs)
      /\ subscriptions' = [k \in DOMAIN subscriptions \ NodeKeys(n) |->
                             subscriptions[k]]
      /\ monitors' = WithoutRefs(refs)

\* Process.monitor on a process that is gone answers with :DOWN at once.
Monitor(pid) ==
  LET m == [pid |-> pid, ref |-> nextRef]
  IN  /\ nextRef' = nextRef + 1
      /\ IF pid \in alive
         THEN active' = active \cup {m} /\ UNCHANGED downs
         ELSE downs' = downs \cup {m} /\ UNCHANGED active

\* Mutant: no check for an existing registration.
register_Always(k, pid) ==
  /\ Monitor(pid)
  /\ subscriptions' =
       WithEntries(k, Entries(k) \cup {[pid |-> pid, ref |-> nextRef]})
  /\ monitors' = [r \in DOMAIN monitors \cup {nextRef} |->
                    IF r = nextRef THEN [pid |-> pid, key |-> k] ELSE monitors[r]]

\* Mutant: the index stores the node where the subscriber belongs.
register_NodeAsPid(k, pid) ==
  /\ ~already_registered(k, pid)
  /\ Monitor(pid)
  /\ subscriptions' =
       WithEntries(k, Entries(k) \cup {[pid |-> pid, ref |-> nextRef]})
  /\ monitors' = [r \in DOMAIN monitors \cup {nextRef} |->
                    IF r = nextRef THEN [pid |-> k[1], key |-> k] ELSE monitors[r]]

register(k, pid) ==
  \/ /\ already_registered(k, pid)
     /\ UNCHANGED <<subscriptions, monitors, nextRef, active, downs>>
  \/ /\ ~already_registered(k, pid)
     /\ Monitor(pid)
     /\ subscriptions' =
          WithEntries(k, Entries(k) \cup {[pid |-> pid, ref |-> nextRef]})
     /\ monitors' = [r \in DOMAIN monitors \cup {nextRef} |->
                       IF r = nextRef THEN [pid |-> pid, key |-> k]
                                      ELSE monitors[r]]

-----------------------------------------------------------------------------
(* The server takes the oldest request.                                    *)

Receive(op) == inbox # <<>> /\ Head(inbox).op = op /\ inbox' = Tail(inbox)

Reply(pid) == calling' = calling \ {pid}

HandleRegister ==
  /\ Receive("register")
  /\ register(Head(inbox).key, Head(inbox).pid)
  /\ Reply(Head(inbox).pid)
  /\ acked' = acked \cup {<<Head(inbox).key, Head(inbox).pid>>}
  /\ UNCHANGED <<alive, nodeState, delivered, calls, events>>

HandleUnregister ==
  /\ Receive("unregister")
  /\ remove_subscription(Head(inbox).key, Head(inbox).pid)
  /\ Reply(Head(inbox).pid)
  /\ acked' = acked \ {<<Head(inbox).key, Head(inbox).pid>>}
  /\ UNCHANGED <<nextRef, alive, nodeState, delivered, calls, events>>

\* Mutant: subscribers are looked up by event type alone.
HandleDispatch_AnyNode ==
  /\ Receive("dispatch")
  /\ LET t == Head(inbox).key[2]
         e == Head(inbox).event
         to == UNION {Entries(k) : k \in {x \in Key : x[2] = t}}
     IN  delivered' =
           [p \in Pid |->
              IF p \in alive
              THEN [delivered[p] EXCEPT
                      ![e] = @ + Cardinality({x \in to : x.pid = p})]
              ELSE delivered[p]]
  /\ UNCHANGED <<server, active, downs, clients, acked>>

\* One message to every entry of the key; a message to a dead process is lost.
HandleDispatch ==
  /\ Receive("dispatch")
  /\ LET k == Head(inbox).key
         e == Head(inbox).event
     IN  delivered' =
           [p \in Pid |->
              IF p \in alive
              THEN [delivered[p] EXCEPT
                      ![e] = @ + Cardinality({x \in Entries(k) : x.pid = p})]
              ELSE delivered[p]]
  /\ UNCHANGED <<server, active, downs, clients, acked>>

HandleCleanupNode ==
  /\ Receive("cleanup_node")
  /\ LET n == Head(inbox).node
     IN  /\ remove_all_for_node(n)
         /\ nodeState' = [nodeState EXCEPT ![n] = "down"]
         /\ acked' = {a \in acked : a[1][1] # n}
  /\ UNCHANGED <<nextRef, alive, calling, delivered, calls, events>>

\* Mutant: the death of a subscriber is attended to only while the node it had
\* subscribed to runs.
HandleDown_RunningNode(d) ==
  /\ d \in downs
  /\ d.ref \in DOMAIN monitors => nodeState[monitors[d.ref].key[1]] = "up"
  /\ downs' = downs \ {d}
  /\ remove_dead_subscriber(d)
  /\ UNCHANGED <<nextRef, active, inbox, clients, acked, delivered>>

HandleDown(d) ==
  /\ d \in downs
  /\ downs' = downs \ {d}
  /\ remove_dead_subscriber(d)
  /\ UNCHANGED <<nextRef, active, inbox, clients, acked, delivered>>

-----------------------------------------------------------------------------
(* Clients and the runtime.                                                *)

\* register_handler and unregister_handler call with the pid that
\* GenServer.whereis returned; that node may have stopped since.
Call(op, k, pid) ==
  /\ pid \in alive \ calling
  /\ calls < MaxCalls
  /\ calls' = calls + 1
  /\ calling' = calling \cup {pid}
  /\ inbox' = Append(inbox, [op |-> op, key |-> k, pid |-> pid])
  /\ UNCHANGED <<server, active, downs, alive, nodeState, acked, delivered,
                 events>>

\* A subscriber exits, perhaps while its call is still in the mailbox.
Exit(pid) ==
  /\ pid \in alive
  /\ alive' = alive \ {pid}
  /\ calling' = calling \ {pid}
  /\ UNCHANGED <<server, active, downs, inbox, nodeState, acked, delivered,
                 calls, events>>

\* The runtime turns a monitor of a dead process into a :DOWN message.
DeliverDown(m) ==
  /\ m \in active
  /\ m.pid \notin alive
  /\ active' = active \ {m}
  /\ downs' = downs \cup {m}
  /\ UNCHANGED <<server, inbox, clients, acked, delivered>>

\* A running node casts an event of its own to the registry.
Dispatch(k) ==
  /\ nodeState[k[1]] = "up"
  /\ events < MaxEvents
  /\ events' = events + 1
  /\ inbox' = Append(inbox, [op |-> "dispatch", key |-> k, event |-> events + 1])
  /\ UNCHANGED <<server, active, downs, alive, calling, nodeState, acked,
                 delivered, calls>>

\* terminate/2 calls cleanup_node and waits for the answer.
Terminate(n) ==
  /\ nodeState[n] = "up"
  /\ nodeState' = [nodeState EXCEPT ![n] = "stopping"]
  /\ inbox' = Append(inbox, [op |-> "cleanup_node", node |-> n])
  /\ UNCHANGED <<server, active, downs, alive, calling, acked, delivered,
                 calls, events>>

\* A brutal kill, or the timeout of the cleanup_node call inside terminate/2.
Kill(n) ==
  /\ nodeState[n] # "down"
  /\ nodeState' = [nodeState EXCEPT ![n] = "down"]
  /\ UNCHANGED <<server, active, downs, inbox, alive, calling, acked,
                 delivered, calls, events>>

-----------------------------------------------------------------------------
ServerStep ==
  \/ HandleRegister
  \/ HandleUnregister
  \/ HandleDispatch
  \/ HandleCleanupNode
  \/ \E d \in downs : HandleDown(d)

Next ==
  \/ ServerStep
  \/ \E m \in active : DeliverDown(m)
  \/ \E k \in Key, p \in Pid, op \in {"register", "unregister"} : Call(op, k, p)
  \/ \E p \in Pid : Exit(p)
  \/ \E k \in Key : Dispatch(k)
  \/ \E n \in Node : Terminate(n) \/ Kill(n)

\* The server is a process the BEAM schedules: it handles every request it
\* has and every :DOWN, and the runtime delivers every :DOWN it owes.  Nothing
\* obliges a client to act.
Fairness ==
  /\ WF_vars(HandleRegister \/ HandleUnregister \/ HandleDispatch
               \/ HandleCleanupNode)
  /\ WF_vars(\E d \in downs : HandleDown(d))
  /\ WF_vars(\E m \in active : DeliverDown(m))

Spec == Init /\ [][Next]_vars /\ Fairness
-----------------------------------------------------------------------------
(* Properties.                                                             *)

TypeOK ==
  /\ DOMAIN subscriptions \subseteq Key
  /\ \A k \in DOMAIN subscriptions : subscriptions[k] \subseteq Entry
  /\ DOMAIN monitors \subseteq Nat
  /\ \A r \in DOMAIN monitors : monitors[r] \in [pid : Pid, key : Key]
  /\ nextRef \in Nat
  /\ active \subseteq Entry
  /\ downs \subseteq Entry
  /\ inbox \in Seq(Request)
  /\ alive \subseteq Pid
  /\ calling \subseteq Pid
  /\ nodeState \in [Node -> {"up", "stopping", "down"}]
  /\ acked \subseteq Key \X Pid
  /\ delivered \in [Pid -> [Event -> Nat]]
  /\ calls \in 0 .. MaxCalls
  /\ events \in 0 .. MaxEvents

\* The two maps describe the same subscriptions: every entry is found again
\* through its reference and every reference leads to an entry, and no key is
\* left behind without entries.  register, unregister, cleanup_node and :DOWN
\* each change both maps; a :DOWN that found only one of them would leave a
\* dead pid behind for ever or crash the server (handler_registry.ex:215).
ReverseIndexExact ==
  /\ \A k \in DOMAIN subscriptions : subscriptions[k] # {}
  /\ \A k \in DOMAIN subscriptions : \A e \in subscriptions[k] :
       /\ e.ref \in DOMAIN monitors
       /\ monitors[e.ref] = [pid |-> e.pid, key |-> k]
  /\ \A r \in DOMAIN monitors :
       /\ monitors[r].key \in DOMAIN subscriptions
       /\ [pid |-> monitors[r].pid, ref |-> r] \in subscriptions[monitors[r].key]

\* Every subscription is watched, and nothing else is: each reference of the
\* index belongs to a monitor that is set, or to a :DOWN that is on its way to
\* be handled, for the same process; a monitor or a :DOWN without a
\* subscription does not survive unregister or cleanup_node.
MonitorsBacked ==
  /\ {m.ref : m \in active \cup downs} = DOMAIN monitors
  /\ \A m \in active \cup downs : m.ref \in DOMAIN monitors =>
                                    monitors[m.ref].pid = m.pid
  /\ \A m \in downs : m.pid \notin alive
  /\ \A m \in active, d \in downs : m.ref # d.ref

\* A subscriber that is alive has exactly one entry for each key it was told
\* it is registered for, and none for the others: a :DOWN or an unregister of
\* one subscription never takes away another one, and a repeated register
\* adds nothing.
SubscribersAsAcknowledged ==
  /\ \A p \in alive, k \in Key : already_registered(k, p) <=> <<k, p>> \in acked
  /\ \A k \in Key : \A e, f \in Entries(k) : e.pid = f.pid => e = f

\* An event reaches each live subscriber of its key once, and nobody else:
\* neither the subscribers of another node or type, nor twice a process that
\* registered twice ("prevents duplicate delivery", ARCHITECTURE.md:346).
ExactDelivery ==
  [][\A p \in alive, e \in Event :
       inbox # <<>> /\ Head(inbox).op = "dispatch" /\ Head(inbox).event = e
         /\ inbox' = Tail(inbox)
       => delivered'[p][e] = IF <<Head(inbox).key, p>> \in acked THEN 1 ELSE 0]_vars

\* Whatever a dead process had registered, and even the registration that was
\* in the mailbox when it died, is eventually gone for good from both maps
\* ("No dead PIDs accumulate over time", node.ex:26).
DeadSubscriberForgotten ==
  \A p \in Pid :
    p \notin alive ~>
      [](/\ \A k \in Key : ~already_registered(k, p)
         /\ \A r \in DOMAIN monitors : monitors[r].pid # p)

\* A caller blocked in register or unregister is answered (or exits).
CallsAnswered == \A p \in Pid : p \in calling ~> p \notin calling
=============================================================================
