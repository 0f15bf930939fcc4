----------------------------- MODULE TaskTracker -----------------------------
(***************************************************************************)
(* The task tracker (otp/task_tracker.ex): a GenServer that records work   *)
(* dispatched to peers, marks the pending tasks of a peer as failed when   *)
(* the last connection to it closes, and tells its subscribers.            *)
(*                                                                         *)
(* Calls are atomic: the caller blocks until the server has handled them.  *)
(* connection_closed events are not: they travel from the swarm through    *)
(* the Node and the HandlerRegistry and are handled later, in order, while *)
(* connections go on opening and closing.                                  *)
(***************************************************************************)
EXTENDS Naturals, Sequences, FiniteSets

CONSTANTS Peer,     \* remote peers
          Pid,      \* processes that subscribe to peer-loss notifications
          MaxTasks, \* bound: tasks dispatched in all
          MaxConns, \* bound: connections to one peer at a time
          MaxCloses \* bound: connections closed in all

ASSUME BoundsAssumption ==
  MaxTasks \in Nat /\ MaxConns \in Nat \ {0} /\ MaxCloses \in Nat

VARIABLES
  tasks,       \* task id -> [peer, status], the server's map
  counter,     \* ids handed out
  subscribers, \* the server's list, newest first; a pid may be in it twice
  alive,       \* subscriber processes that have not exited
  conns,       \* peer -> established connections
  closes,      \* connections closed so far
  events,      \* connection_closed events under way, oldest first
  issued,      \* id -> peer, as told to the application (never forgotten)
  exposed,     \* tasks whose peer lost its last connection after dispatch
  late,        \* tasks dispatched while an earlier loss was under way
  heard        \* pid -> id -> times pid was told the task was orphaned

vars == <<tasks, counter, subscribers, alive, conns, closes, events, issued,
          exposed, late, heard>>

history == <<exposed, late>>
swarm  == <<conns, closes, events>>
Id     == 1 .. MaxTasks
Status == {"pending", "completed", "failed", "peer_lost"}
Task   == [peer : Peer, status : Status]

Init ==
  /\ tasks = [i \in {} |-> 0]
  /\ counter = 0
  /\ subscribers = <<>>
  /\ alive = Pid
  /\ conns = [p \in Peer |-> 1]
  /\ closes = 0
  /\ events = <<>>
  /\ issued = [i \in {} |-> 0]
  /\ exposed = {}
  /\ late = {}
  /\ heard = [p \in Pid |-> [i \in Id |-> 0]]

Put(map, i, v) == [x \in DOMAIN map \cup {i} |-> IF x = i THEN v ELSE map[x]]

Pending(i) == i \in DOMAIN tasks /\ tasks[i].status = "pending"

-----------------------------------------------------------------------------
(* Calls of the application.                                               *)

NewId == counter + 1

\* An event that will say that p is lost has not been handled yet.
LossUnderWay(p) == \E k \in DOMAIN events :
                     events[k].peer = p /\ events[k].num_established = 0

\* A task is recorded for a peer, connected or not.
Dispatch(p) ==
  /\ counter < MaxTasks
  /\ tasks' = Put(tasks, NewId, [peer |-> p, status |-> "pending"])
  /\ counter' = counter + 1
  /\ issued' = Put(issued, counter + 1, p)
  /\ late' = IF LossUnderWay(p) THEN late \cup {counter + 1} ELSE late
  /\ UNCHANGED <<subscribers, alive, swarm, exposed, heard>>

\* complete and fail set the status of a task that is there, whatever its
\* status was; for an id that is not there they answer :not_found.
update_task_status(i, status) ==
  /\ i \in DOMAIN tasks
  /\ tasks' = [tasks EXCEPT ![i].status = status]
  /\ UNCHANGED <<counter, subscribers, alive, swarm, issued, history, heard>>

Complete(i) == update_task_status(i, "completed")

Fail(i) == update_task_status(i, "failed")

Cleanup ==
  /\ tasks' = [i \in {j \in DOMAIN tasks : Pending(j)} |-> tasks[i]]
  /\ UNCHANGED <<counter, subscribers, alive, swarm, issued, history, heard>>

\* Bound: a process subscribes at most twice.
Subscriptions(p) == Cardinality({i \in DOMAIN subscribers : subscribers[i] = p})

Subscribe(p) ==
  /\ p \in alive
  /\ Subscriptions(p) < 2
  /\ subscribers' = <<p>> \o subscribers
  /\ UNCHANGED <<tasks, counter, alive, swarm, issued, history, heard>>

-----------------------------------------------------------------------------
(* connection_closed events.                                               *)

\* Mutant: every task of the peer is orphaned, finished or not.
Orphaned_AnyStatus(p) == {i \in DOMAIN tasks : tasks[i].peer = p}

\* Mutant: only one pending task of the peer is found.
Orphaned_First(p) ==
  {i \in DOMAIN tasks :
     /\ Pending(i) /\ tasks[i].peer = p
     /\ \A j \in DOMAIN tasks : Pending(j) /\ tasks[j].peer = p => i <= j}

Orphaned(p) == {i \in DOMAIN tasks : Pending(i) /\ tasks[i].peer = p}

\* Mutant: only the newest subscription is notified.
Notify_Newest(orphans) ==
  heard' = [p \in Pid |->
              [i \in Id |-> heard[p][i]
                 + IF i \in orphans /\ p \in alive /\ subscribers # <<>>
                      /\ Head(subscribers) = p
                   THEN 1 ELSE 0]]

\* One message per subscription of a live process, with all the orphans.
Notify(orphans) ==
  heard' = [p \in Pid |->
              [i \in Id |-> heard[p][i]
                 + IF i \in orphans /\ p \in alive THEN Subscriptions(p) ELSE 0]]

\* The last connection to the peer has closed.
HandlePeerLost ==
  /\ events # <<>>
  /\ Head(events).num_established = 0
  /\ events' = Tail(events)
  /\ LET orphans == Orphaned(Head(events).peer)
     IN  /\ tasks' = [i \in DOMAIN tasks |->
                        IF i \in orphans
                        THEN [tasks[i] EXCEPT !.status = "peer_lost"]
                        ELSE tasks[i]]
         /\ Notify(orphans)
  /\ UNCHANGED <<counter, subscribers, alive, conns, closes, issued, history>>

\* Mutant: every closed connection counts as the loss of the peer.
HandleStillConnected_AnyClose ==
  /\ events # <<>>
  /\ Head(events).num_established > 0
  /\ events' = Tail(events)
  /\ tasks' = [i \in DOMAIN tasks |->
                 IF i \in Orphaned(Head(events).peer)
                 THEN [tasks[i] EXCEPT !.status = "peer_lost"]
                 ELSE tasks[i]]
  /\ Notify(Orphaned(Head(events).peer))
  /\ UNCHANGED <<counter, subscribers, alive, conns, closes, issued, history>>

\* Other connections to the peer remain: ignored.
HandleStillConnected ==
  /\ events # <<>>
  /\ Head(events).num_established > 0
  /\ events' = Tail(events)
  /\ UNCHANGED <<tasks, counter, subscribers, alive, conns, closes, issued,
                 history, heard>>

-----------------------------------------------------------------------------
(* The swarm and the subscribers.                                          *)

Open(p) ==
  /\ conns[p] < MaxConns
  /\ conns' = [conns EXCEPT ![p] = @ + 1]
  /\ UNCHANGED <<tasks, counter, subscribers, alive, closes, events, issued,
                 history, heard>>

\* A connection closes; the event carries the number that remain.
Close(p) ==
  /\ conns[p] > 0
  /\ closes < MaxCloses
  /\ closes' = closes + 1
  /\ conns' = [conns EXCEPT ![p] = @ - 1]
  /\ events' = Append(events, [peer |-> p, num_established |-> conns[p] - 1])
  /\ exposed' = exposed \cup {i \in DOMAIN tasks :
                             conns[p] = 1 /\ Pending(i) /\ tasks[i].peer = p}
  /\ UNCHANGED <<tasks, counter, subscribers, alive, issued, late, heard>>

Exit(p) ==
  /\ p \in alive
  /\ alive' = alive \ {p}
  /\ UNCHANGED <<tasks, counter, subscribers, swarm, issued, history, heard>>

-----------------------------------------------------------------------------
Next ==
  \/ \E p \in Peer : Dispatch(p) \/ Open(p) \/ Close(p)
  \/ \E i \in Id : Complete(i) \/ Fail(i)
  \/ Cleanup
  \/ \E p \in Pid : Subscribe(p) \/ Exit(p)
  \/ HandlePeerLost
  \/ HandleStillConnected

\* The server handles every event it is sent.
Spec == Init /\ [][Next]_vars /\ WF_vars(HandlePeerLost \/ HandleStillConnected)

-----------------------------------------------------------------------------
(* Properties.                                                             *)

TypeOK ==
  /\ DOMAIN tasks \subseteq Id
  /\ \A i \in DOMAIN tasks : tasks[i] \in Task
  /\ counter \in 0 .. MaxTasks
  /\ subscribers \in Seq(Pid)
  /\ alive \subseteq Pid
  /\ conns \in [Peer -> 0 .. MaxConns]
  /\ closes \in 0 .. MaxCloses
  /\ events \in Seq([peer : Peer, num_established : 0 .. MaxConns])
  /\ DOMAIN issued = 1 .. counter
  /\ \A i \in DOMAIN issued : issued[i] \in Peer
  /\ exposed \subseteq Id
  /\ late \subseteq Id
  /\ heard \in [Pid -> [Id -> Nat]]

\* An id given to the application stands for one task as long as this tracker
\* lives: after cleanup a late complete or fail finds nothing and never another
\* task.  (A restarted tracker begins at task-1 again, task_tracker.ex:133.)
IdsNameOneTask ==
  \A i \in DOMAIN tasks : i \in DOMAIN issued /\ tasks[i].peer = issued[i]

\* A pending task is neither forgotten nor taken for lost without reason: it
\* leaves the map only after it was finished (cleanup), and becomes peer_lost
\* only in the step that tells every live subscription of it, once.
LossAnnounced ==
  [][\A i \in Id :
       Pending(i) =>
         /\ i \in DOMAIN tasks'
         /\ \A p \in Pid :
              heard'[p][i] = heard[p][i]
                + IF tasks'[i].status = "peer_lost" /\ p \in alive
                  THEN Subscriptions(p) ELSE 0]_vars

\* A task is reported lost for one of two reasons only: its peer really lost
\* its last connection after the dispatch, or an earlier loss was still under
\* way at the dispatch and its late event took the task with it
\* (task_tracker.ex:202-217 does not ask when a task was dispatched).  One
\* connection out of several that closes is never a reason.
LossExplained ==
  \A i \in DOMAIN tasks :
    tasks[i].status = "peer_lost" => i \in exposed \cup late

\* No subscription is told of the same orphan twice, however often the peer
\* comes and goes.
OrphanedOnce == \A p \in Pid, i \in Id : heard[p][i] <= Subscriptions(p)

\* What the application may rely on at any moment: ids name one task each, and
\* nobody hears of an orphan more often than it has subscribed.
TrackerConsistent == TypeOK /\ IdsNameOneTask /\ OrphanedOnce

\* "If the peer disconnects before the task completes, subscribers are
\* notified" (task_tracker.ex:6): a task whose peer loses its last connection
\* does not stay pending.
LossDetected == \A i \in Id : i \in exposed ~> ~Pending(i)

\* The lifecycle of DESIGN_DECISIONS.md:2086-2094 leaves PeerLost only through
\* cleanup: what subscribers were told to dispatch again stays lost.
PeerLostIsFinal ==
  [][\A i \in DOMAIN tasks :
       tasks[i].status = "peer_lost" /\ i \in DOMAIN tasks' =>
         tasks'[i].status = "peer_lost"]_vars
=============================================================================
