-------------------------- MODULE TaskTrackerProofs --------------------------
(***************************************************************************)
(* Proofs about TaskTracker for any sets of peers and subscribers, and any *)
(* bounds.                                                                 *)
(***************************************************************************)
EXTENDS TaskTracker, FiniteSetTheorems, TLAPS

-----------------------------------------------------------------------------
(* Subscriptions.                                                          *)

\* The list is finite, so a process has a number of subscriptions.
LEMMA SubscriptionsNat ==
  ASSUME subscribers \in Seq(Pid), NEW p
  PROVE  Subscriptions(p) \in Nat /\ IsFiniteSet({i \in DOMAIN subscribers : subscribers[i] = p})
<1> DEFINE S == {i \in DOMAIN subscribers : subscribers[i] = p}
<1>1. IsFiniteSet(1 .. Len(subscribers))
  BY FS_Interval
<1>2. S \in SUBSET (1 .. Len(subscribers))
  OBVIOUS
<1>3. IsFiniteSet(S)
  BY <1>1, <1>2, FS_Subset
<1>. QED  BY <1>3, FS_CardinalityType DEF Subscriptions

\* A new subscription takes none away: every position moves up by one.
LEMMA SubscriptionsGrow ==
  ASSUME subscribers \in Seq(Pid), NEW p \in Pid, subscribers' = <<p>> \o subscribers,
         NEW q
  PROVE  Subscriptions(q) <= Subscriptions(q)'
<1> DEFINE S == {i \in DOMAIN subscribers : subscribers[i] = q}
           T == {i \in DOMAIN subscribers' : subscribers'[i] = q}
           up == [i \in S |-> i + 1]
<1>1. subscribers' \in Seq(Pid)
  OBVIOUS
<1>2. \A i \in DOMAIN subscribers : i \in Nat /\ i + 1 \in DOMAIN subscribers'
                                      /\ subscribers'[i + 1] = subscribers[i]
  OBVIOUS
<1>3. up \in Injection(S, T)
  BY <1>2 DEF Injection, IsInjective
<1>4. IsFiniteSet(T)
  <2>1. IsFiniteSet(1 .. Len(subscribers'))
    BY <1>1, FS_Interval
  <2>2. T \in SUBSET (1 .. Len(subscribers'))
    BY <1>1
  <2>. QED  BY <2>1, <2>2, FS_Subset
<1>5. Cardinality(S) <= Cardinality(T)
  BY <1>3, <1>4, FS_Injection
<1>. QED  BY <1>5 DEF Subscriptions

-----------------------------------------------------------------------------
(* The inductive invariant.                                                *)

\* OrphanedOnce is not inductive: a loss adds to what was heard before.  It is
\* safe because nobody has heard of a task that is pending, or of an id that
\* has not been handed out, and no status ever becomes pending again.
NotYetHeard == \A p \in Pid, i \in Id : i > counter \/ Pending(i) => heard[p][i] = 0

\* LossExplained is not inductive either: the event that makes a task lost must
\* have its reason before it is handled.
LossesExposed ==
  \A k \in DOMAIN events, i \in DOMAIN tasks :
    Pending(i) /\ events[k].num_established = 0 /\ tasks[i].peer = events[k].peer
      => i \in exposed \cup late

IInv == TypeOK /\ IdsNameOneTask /\ OrphanedOnce /\ NotYetHeard
          /\ LossesExposed /\ LossExplained

\* The initial state satisfies it.
LEMMA InitIInv == Init => IInv
<1> SUFFICES ASSUME Init PROVE IInv
  OBVIOUS
<1>1. TypeOK
  <2>1. heard \in [Pid -> [Id -> Nat]]
    BY DEF Init
  <2>2. conns \in [Peer -> 0 .. MaxConns]
    BY BoundsAssumption DEF Init
  <2>3. events \in Seq([peer : Peer, num_established : 0 .. MaxConns])
    BY DEF Init
  <2>4. 1 .. counter = {}
    BY DEF Init
  <2>. QED  BY <2>1, <2>2, <2>3, <2>4, BoundsAssumption DEF Init, TypeOK
<1>2. OrphanedOnce /\ NotYetHeard
  <2>1. \A p \in Pid, i \in Id : heard[p][i] = 0
    BY DEF Init
  <2>2. \A p \in Pid : Subscriptions(p) \in Nat
    BY <1>1, SubscriptionsNat DEF TypeOK
  <2>. QED  BY <2>1, <2>2 DEF OrphanedOnce, NotYetHeard
<1>3. IdsNameOneTask /\ LossesExposed /\ LossExplained
  BY DEF Init, IdsNameOneTask, LossesExposed, LossExplained
<1>. QED  BY <1>1, <1>2, <1>3 DEF IInv

\* A dispatched task gets an id that nobody has heard of, and is late if a loss
\* of its peer is under way.
LEMMA DispatchStep ==
  ASSUME IInv, NEW p \in Peer, Dispatch(p)
  PROVE  IInv'
<1> USE DEF IInv
<1> DEFINE id == counter + 1
<1>0. /\ counter \in Nat /\ id \in Id /\ id \notin DOMAIN tasks /\ counter' = id
      /\ id \notin DOMAIN issued
  BY BoundsAssumption DEF TypeOK, Dispatch, IdsNameOneTask, Id
<1>1. /\ DOMAIN tasks' = DOMAIN tasks \cup {id}
      /\ tasks'[id] = [peer |-> p, status |-> "pending"]
      /\ \A i \in DOMAIN tasks : tasks'[i] = tasks[i]
  BY <1>0 DEF Dispatch, Put, NewId
<1>2. /\ DOMAIN issued' = DOMAIN issued \cup {id}
      /\ issued'[id] = p
      /\ \A i \in DOMAIN issued : issued'[i] = issued[i]
  BY <1>0 DEF Dispatch, Put
<1>3. UNCHANGED <<subscribers, alive, conns, closes, events, exposed, heard>>
  BY DEF Dispatch, swarm
<1>4. late' \subseteq Id /\ late \subseteq late' /\ (LossUnderWay(p) => id \in late')
  BY <1>0 DEF Dispatch, TypeOK
<1>5. TypeOK'
  <2>1. [peer |-> p, status |-> "pending"] \in Task
    BY DEF Task, Status
  <2>2. \A i \in DOMAIN tasks' : i \in Id /\ tasks'[i] \in Task
    BY <1>0, <1>1, <2>1 DEF TypeOK
  <2>3. counter' \in 0 .. MaxTasks
    BY <1>0 DEF Id
  <2>4. DOMAIN issued' = 1 .. counter'
    BY <1>0, <1>2 DEF TypeOK
  <2>5. \A i \in DOMAIN issued' : issued'[i] \in Peer
    BY <1>2 DEF TypeOK
  <2>. QED  BY <1>3, <1>4, <2>2, <2>3, <2>4, <2>5 DEF TypeOK
<1>6. IdsNameOneTask'
  BY <1>1, <1>2 DEF IdsNameOneTask
<1>7. OrphanedOnce'
  BY <1>3 DEF OrphanedOnce, Subscriptions
<1>8. NotYetHeard'
  <2>1. \A i \in Id : i > counter' \/ Pending(i)' => i > counter \/ Pending(i)
    BY <1>0, <1>1 DEF Pending, Id
  <2>. QED  BY <1>3, <2>1 DEF NotYetHeard
<1>9. LossesExposed'
  <2> SUFFICES ASSUME NEW k \in DOMAIN events, NEW i \in DOMAIN tasks', Pending(i)',
                      events[k].num_established = 0, tasks'[i].peer = events[k].peer
               PROVE  i \in exposed \cup late'
    BY <1>3 DEF LossesExposed
  <2>1. CASE i = id
    BY <1>1, <1>4, <2>1 DEF LossUnderWay
  <2>2. CASE i \in DOMAIN tasks
    BY <1>1, <1>4, <2>2 DEF LossesExposed, Pending
  <2>. QED  BY <1>1, <2>1, <2>2
<1>10. LossExplained'
  BY <1>1, <1>3, <1>4 DEF LossExplained
<1>. QED  BY <1>5, <1>6, <1>7, <1>8, <1>9, <1>10

\* What happens to tasks leaves the invariant alone as long as none becomes
\* pending or lost.
LEMMA TasksSettled ==
  ASSUME IInv, DOMAIN tasks' \subseteq DOMAIN tasks,
         \A i \in DOMAIN tasks' :
           /\ tasks'[i] \in Task
           /\ tasks'[i].peer = tasks[i].peer
           /\ tasks'[i].status \in {"pending", "peer_lost"} => tasks'[i].status = tasks[i].status,
         UNCHANGED <<counter, subscribers, alive, conns, closes, events, issued, exposed,
                     late, heard>>
  PROVE  IInv'
<1> USE DEF IInv
<1>1. TypeOK'
  BY DEF TypeOK
<1>2. IdsNameOneTask' /\ OrphanedOnce'
  BY DEF IdsNameOneTask, OrphanedOnce, Subscriptions
<1>3. \A i : Pending(i)' => Pending(i)
  BY DEF Pending
<1>4. NotYetHeard' /\ LossesExposed' /\ LossExplained'
  BY <1>3 DEF NotYetHeard, LossesExposed, LossExplained
<1>. QED  BY <1>1, <1>2, <1>4

\* complete and fail.
LEMMA UpdateStep ==
  ASSUME IInv, NEW i \in Id, NEW status \in {"completed", "failed"},
         update_task_status(i, status)
  PROVE  IInv'
<1>1. tasks[i] \in Task /\ status \in Status
  BY DEF IInv, TypeOK, update_task_status, Status
<1>2. /\ DOMAIN tasks' = DOMAIN tasks
      /\ tasks'[i] = [tasks[i] EXCEPT !.status = status]
      /\ \A j \in DOMAIN tasks : j # i => tasks'[j] = tasks[j]
  BY DEF update_task_status
<1>3. tasks'[i] \in Task /\ tasks'[i].peer = tasks[i].peer /\ tasks'[i].status = status
  BY <1>1, <1>2 DEF Task
<1>4. \A j \in DOMAIN tasks' :
        /\ tasks'[j] \in Task
        /\ tasks'[j].peer = tasks[j].peer
        /\ tasks'[j].status \in {"pending", "peer_lost"} => tasks'[j].status = tasks[j].status
  BY <1>2, <1>3 DEF IInv, TypeOK
<1>. QED  BY <1>2, <1>4, TasksSettled DEF update_task_status, swarm, history

\* cleanup keeps the pending tasks.
LEMMA CleanupStep ==
  ASSUME IInv, Cleanup
  PROVE  IInv'
<1>1. \A j \in DOMAIN tasks' : j \in DOMAIN tasks /\ tasks'[j] = tasks[j] /\ tasks[j] \in Task
  BY DEF Cleanup, IInv, TypeOK
<1>. QED  BY <1>1, TasksSettled DEF Cleanup, swarm, history

\* subscribe.
LEMMA SubscribeStep ==
  ASSUME IInv, NEW p \in Pid, Subscribe(p)
  PROVE  IInv'
<1> USE DEF IInv
<1>1. /\ subscribers' = <<p>> \o subscribers
      /\ UNCHANGED <<tasks, counter, alive, conns, closes, events, issued, exposed, late, heard>>
  BY DEF Subscribe, swarm, history
<1>2. subscribers \in Seq(Pid) /\ subscribers' \in Seq(Pid)
  BY <1>1 DEF TypeOK
<1>3. OrphanedOnce'
  <2> SUFFICES ASSUME NEW q \in Pid, NEW i \in Id PROVE heard[q][i] <= Subscriptions(q)'
    BY <1>1 DEF OrphanedOnce
  <2>1. heard[q][i] \in Nat /\ heard[q][i] <= Subscriptions(q)
    BY DEF OrphanedOnce, TypeOK
  <2>2. Subscriptions(q) \in Nat /\ Subscriptions(q) <= Subscriptions(q)'
    BY <1>1, <1>2, SubscriptionsNat, SubscriptionsGrow
  <2>3. Subscriptions(q)' \in Nat
    <3>1. IsFiniteSet(1 .. Len(subscribers'))
      BY <1>2, FS_Interval
    <3>2. {j \in DOMAIN subscribers' : subscribers'[j] = q} \in SUBSET (1 .. Len(subscribers'))
      BY <1>2
    <3>. QED  BY <3>1, <3>2, FS_Subset, FS_CardinalityType DEF Subscriptions
  <2>. QED  BY <2>1, <2>2, <2>3
<1>4. TypeOK'
  BY <1>1, <1>2 DEF TypeOK
<1>5. IdsNameOneTask' /\ NotYetHeard' /\ LossesExposed' /\ LossExplained'
  BY <1>1 DEF IdsNameOneTask, NotYetHeard, LossesExposed, LossExplained, Pending
<1>. QED  BY <1>3, <1>4, <1>5

\* What the tasks and the subscribers look like after a loss.
LEMMA LostEffect ==
  ASSUME IInv, HandlePeerLost
  PROVE  LET orphans == Orphaned(Head(events).peer)
         IN  /\ Head(events) \in [peer : Peer, num_established : 0 .. MaxConns]
             /\ orphans \subseteq DOMAIN tasks /\ \A i \in orphans : Pending(i)
             /\ DOMAIN tasks' = DOMAIN tasks
             /\ \A i \in orphans : /\ tasks'[i] \in Task
                                   /\ tasks'[i].peer = tasks[i].peer
                                   /\ tasks'[i].status = "peer_lost"
             /\ \A i \in DOMAIN tasks \ orphans : tasks'[i] = tasks[i]
             /\ heard' \in [Pid -> [Id -> Nat]]
             /\ \A p \in Pid, i \in Id :
                  heard'[p][i] = heard[p][i]
                    + IF i \in orphans /\ p \in alive THEN Subscriptions(p) ELSE 0
<1> USE DEF IInv
<1> DEFINE orphans == Orphaned(Head(events).peer)
<1>1. Head(events) \in [peer : Peer, num_established : 0 .. MaxConns]
  <2> DEFINE ClosedEvent == [peer : Peer, num_established : 0 .. MaxConns]
  <2>1. events \in Seq(ClosedEvent) /\ events # <<>>
    BY DEF HandlePeerLost, TypeOK
  <2> HIDE DEF ClosedEvent
  <2>2. Head(events) \in ClosedEvent
    BY <2>1
  <2>. QED  BY <2>2 DEF ClosedEvent
<1>2. orphans \subseteq DOMAIN tasks /\ \A i \in orphans : Pending(i)
  BY DEF Orphaned
<1>3. tasks' = [i \in DOMAIN tasks |-> IF i \in orphans
                                       THEN [tasks[i] EXCEPT !.status = "peer_lost"]
                                       ELSE tasks[i]]
  BY DEF HandlePeerLost
<1>4. \A i \in orphans : /\ tasks'[i] \in Task
                         /\ tasks'[i].peer = tasks[i].peer
                         /\ tasks'[i].status = "peer_lost"
  BY <1>2, <1>3 DEF TypeOK, Task, Status
<1>5. \A p \in Pid : Subscriptions(p) \in Nat
  BY SubscriptionsNat DEF TypeOK
<1>6. heard' = [p \in Pid |->
                  [i \in Id |-> heard[p][i]
                     + IF i \in orphans /\ p \in alive THEN Subscriptions(p) ELSE 0]]
  BY DEF HandlePeerLost, Notify
<1>7. \A p \in Pid, i \in Id :
        heard[p][i] + (IF i \in orphans /\ p \in alive THEN Subscriptions(p) ELSE 0) \in Nat
  BY <1>5 DEF TypeOK
<1> HIDE DEF orphans
<1>8. heard' \in [Pid -> [Id -> Nat]]
  BY <1>6, <1>7
<1>9. \A p \in Pid, i \in Id :
        heard'[p][i] = heard[p][i]
          + IF i \in orphans /\ p \in alive THEN Subscriptions(p) ELSE 0
  BY <1>6
<1>. QED  BY <1>1, <1>2, <1>3, <1>4, <1>8, <1>9 DEF orphans

\* Positions of the events after the oldest was taken.
LEMMA EventTaken ==
  ASSUME TypeOK, events # <<>>, events' = Tail(events)
  PROVE  /\ 1 \in DOMAIN events /\ Head(events) = events[1]
         /\ events' \in Seq([peer : Peer, num_established : 0 .. MaxConns])
         /\ \A k \in DOMAIN events' : k + 1 \in DOMAIN events /\ events'[k] = events[k + 1]
BY DEF TypeOK

\* The pending tasks of a peer whose last connection has closed.
LEMMA LostStep ==
  ASSUME IInv, HandlePeerLost
  PROVE  IInv'
<1> DEFINE orphans == Orphaned(Head(events).peer)
<1>1. /\ orphans \subseteq DOMAIN tasks /\ \A i \in orphans : Pending(i)
      /\ DOMAIN tasks' = DOMAIN tasks
      /\ \A i \in orphans : /\ tasks'[i] \in Task
                            /\ tasks'[i].peer = tasks[i].peer
                            /\ tasks'[i].status = "peer_lost"
      /\ \A i \in DOMAIN tasks \ orphans : tasks'[i] = tasks[i]
      /\ heard' \in [Pid -> [Id -> Nat]]
      /\ \A p \in Pid, i \in Id :
           heard'[p][i] = heard[p][i]
             + IF i \in orphans /\ p \in alive THEN Subscriptions(p) ELSE 0
  BY LostEffect
<1>0. \A i \in orphans : tasks[i].peer = Head(events).peer
  BY DEF Orphaned
<1> HIDE DEF orphans
<1> USE DEF IInv
<1>2. /\ 1 \in DOMAIN events /\ Head(events) = events[1]
      /\ events' \in Seq([peer : Peer, num_established : 0 .. MaxConns])
      /\ \A k \in DOMAIN events' : k + 1 \in DOMAIN events /\ events'[k] = events[k + 1]
  BY EventTaken DEF HandlePeerLost
<1>3. UNCHANGED <<counter, subscribers, alive, conns, closes, issued, exposed, late>>
  BY DEF HandlePeerLost, history
<1>4. \A i \in DOMAIN tasks' : tasks'[i] \in Task /\ tasks'[i].peer = tasks[i].peer
  BY <1>1 DEF TypeOK
<1>5. TypeOK'
  BY <1>1, <1>2, <1>3, <1>4 DEF TypeOK
<1>6. IdsNameOneTask'
  BY <1>1, <1>3, <1>4 DEF IdsNameOneTask
<1>7. \A i : Pending(i)' => Pending(i) /\ i \notin orphans
  BY <1>1 DEF Pending
<1>8. OrphanedOnce'
  <2> SUFFICES ASSUME NEW p \in Pid, NEW i \in Id PROVE heard'[p][i] <= Subscriptions(p)'
    BY DEF OrphanedOnce
  <2>1. Subscriptions(p)' = Subscriptions(p) /\ Subscriptions(p) \in Nat
    BY <1>3, SubscriptionsNat DEF Subscriptions, TypeOK
  <2>2. heard[p][i] \in Nat /\ heard[p][i] <= Subscriptions(p)
    BY DEF OrphanedOnce, TypeOK
  <2>3. i \in orphans => heard[p][i] = 0
    BY <1>1 DEF NotYetHeard
  <2>. QED  BY <1>1, <2>1, <2>2, <2>3
<1>9. NotYetHeard'
  <2> SUFFICES ASSUME NEW p \in Pid, NEW i \in Id, i > counter \/ Pending(i)'
               PROVE  heard'[p][i] = 0
    BY <1>3 DEF NotYetHeard
  <2>1. i \notin orphans
    <3>1. CASE i > counter
      <4>1. i \notin DOMAIN tasks
        BY <3>1 DEF IdsNameOneTask, TypeOK, Id
      <4>. QED  BY <1>1, <4>1
    <3>. QED  BY <1>7, <3>1
  <2>2. heard[p][i] = 0
    BY <1>7 DEF NotYetHeard
  <2>. QED  BY <1>1, <2>1, <2>2
<1>10. LossesExposed'
  BY <1>1, <1>2, <1>3, <1>4, <1>7 DEF LossesExposed
<1>11. LossExplained'
  <2> SUFFICES ASSUME NEW i \in DOMAIN tasks', tasks'[i].status = "peer_lost"
               PROVE  i \in exposed \cup late
    BY <1>3 DEF LossExplained
  <2>1. CASE i \in orphans
    <3>1. i \in DOMAIN tasks /\ Pending(i) /\ tasks[i].peer = events[1].peer
      BY <1>0, <1>1, <1>2, <2>1
    <3>2. events[1].num_established = 0
      BY <1>2 DEF HandlePeerLost
    <3>. QED  BY <1>2, <3>1, <3>2 DEF LossesExposed
  <2>2. CASE i \notin orphans
    BY <1>1, <2>2 DEF LossExplained
  <2>. QED  BY <2>1, <2>2
<1>. QED  BY <1>5, <1>6, <1>8, <1>9, <1>10, <1>11

\* A connection closes: the tasks its loss will reach are exposed.
LEMMA CloseStep ==
  ASSUME IInv, NEW p \in Peer, Close(p)
  PROVE  IInv'
<1> USE DEF IInv
<1> DEFINE ev == [peer |-> p, num_established |-> conns[p] - 1]
<1>1. conns[p] \in 1 .. MaxConns /\ ev \in [peer : Peer, num_established : 0 .. MaxConns]
  BY BoundsAssumption DEF TypeOK, Close
<1>2. /\ events' = Append(events, ev)
      /\ conns' = [conns EXCEPT ![p] = @ - 1]
      /\ closes' = closes + 1 /\ closes < MaxCloses
      /\ UNCHANGED <<tasks, counter, subscribers, alive, issued, late, heard>>
  BY DEF Close
<1>3. exposed' = exposed \cup {i \in DOMAIN tasks :
                                 conns[p] = 1 /\ Pending(i) /\ tasks[i].peer = p}
  BY DEF Close
<1>4. \A k \in DOMAIN events' : \/ k \in DOMAIN events /\ events'[k] = events[k]
                                \/ events'[k] = ev
  <2> DEFINE ClosedEvent == [peer : Peer, num_established : 0 .. MaxConns]
  <2>1. events \in Seq(ClosedEvent) /\ ev \in ClosedEvent /\ events' = Append(events, ev)
    BY <1>1, <1>2 DEF TypeOK
  <2> HIDE DEF ClosedEvent, ev
  <2>. QED  BY <2>1
<1>5. events' \in Seq([peer : Peer, num_established : 0 .. MaxConns])
  BY <1>1, <1>2 DEF TypeOK
<1>6. ev.peer = p /\ (ev.num_established = 0 => conns[p] = 1)
  BY <1>1
<1> HIDE DEF ev
<1>7. TypeOK'
  <2>1. conns' \in [Peer -> 0 .. MaxConns] /\ closes' \in 0 .. MaxCloses
    BY <1>1, <1>2, BoundsAssumption DEF TypeOK
  <2>. QED  BY <1>2, <1>3, <1>5, <2>1 DEF TypeOK
<1>8. IdsNameOneTask' /\ OrphanedOnce' /\ NotYetHeard'
  BY <1>2 DEF IdsNameOneTask, OrphanedOnce, Subscriptions, NotYetHeard, Pending
<1>9. LossesExposed'
  BY <1>2, <1>3, <1>4, <1>6 DEF LossesExposed, Pending
<1>10. LossExplained'
  BY <1>2, <1>3 DEF LossExplained
<1>. QED  BY <1>7, <1>8, <1>9, <1>10

\* Steps that change neither tasks nor what was heard of them: connections,
\* processes, and events taken without effect.
LEMMA OutsideStep ==
  ASSUME IInv,
         UNCHANGED <<tasks, counter, subscribers, issued, exposed, late, heard>>,
         alive' \subseteq alive, conns' \in [Peer -> 0 .. MaxConns], closes' = closes,
         events' \in Seq([peer : Peer, num_established : 0 .. MaxConns]),
         \A k \in DOMAIN events' : \E j \in DOMAIN events : events'[k] = events[j]
  PROVE  IInv'
<1> USE DEF IInv
<1>1. TypeOK'
  BY DEF TypeOK
<1>2. IdsNameOneTask' /\ OrphanedOnce' /\ NotYetHeard' /\ LossExplained'
  BY DEF IdsNameOneTask, OrphanedOnce, Subscriptions, NotYetHeard, LossExplained, Pending
<1>3. LossesExposed'
  BY DEF LossesExposed, Pending
<1>. QED  BY <1>1, <1>2, <1>3

\* Every step preserves the inductive invariant.
LEMMA IInvStep ==
  ASSUME IInv, [Next]_vars
  PROVE  IInv'
<1>1. ASSUME NEW p \in Peer, Open(p) PROVE IInv'
  <2>1. conns' \in [Peer -> 0 .. MaxConns]
    BY <1>1, BoundsAssumption DEF Open, IInv, TypeOK
  <2>2. events \in Seq([peer : Peer, num_established : 0 .. MaxConns]) /\ alive \subseteq alive
    BY DEF IInv, TypeOK
  <2>. QED  BY <1>1, <2>1, <2>2, OutsideStep DEF Open, history
<1>2. ASSUME NEW p \in Pid, Exit(p) PROVE IInv'
  BY <1>2, OutsideStep DEF Exit, IInv, TypeOK, history, swarm
<1>3. ASSUME NEW i \in Id, Complete(i) \/ Fail(i) PROVE IInv'
  BY <1>3, UpdateStep DEF Complete, Fail
<1>4. CASE HandleStillConnected
  <2>1. /\ events' \in Seq([peer : Peer, num_established : 0 .. MaxConns])
        /\ \A k \in DOMAIN events' : k + 1 \in DOMAIN events /\ events'[k] = events[k + 1]
    BY <1>4, EventTaken DEF HandleStillConnected, IInv
  <2>2. \A k \in DOMAIN events' : \E j \in DOMAIN events : events'[k] = events[j]
    BY <2>1
  <2>. QED  BY <1>4, <2>1, <2>2, OutsideStep DEF HandleStillConnected, IInv, TypeOK, history
<1>5. CASE UNCHANGED vars
  BY <1>5, OutsideStep DEF vars, IInv, TypeOK
<1>. QED
  BY <1>1, <1>2, <1>3, <1>4, <1>5, DispatchStep, CloseStep, CleanupStep, SubscribeStep, LostStep
  DEF Next

-----------------------------------------------------------------------------
(* Theorems.                                                               *)

\* The inductive invariant holds in every reachable state.
THEOREM TrackerInvariant == Spec => []IInv
<1>1. IInv /\ [Next]_vars => IInv'
  BY IInvStep
<1>. QED  BY <1>1, InitIInv, PTL DEF Spec

\* Ids name one task as long as the tracker lives, and no subscription is told of an orphan twice,
\* however often a peer comes and goes.
THEOREM TrackerSound == Spec => []TrackerConsistent
<1>1. IInv => TrackerConsistent
  BY DEF IInv, TrackerConsistent
<1>. QED  BY <1>1, TrackerInvariant, PTL

\* A task counts as lost only if its peer really lost its last connection after
\* the dispatch, or while an earlier loss was under way at the dispatch.
THEOREM LossesHaveReasons == Spec => []LossExplained
BY TrackerInvariant, PTL DEF IInv

\* A pending task leaves the map in no step, and becomes lost only in the step
\* that tells every live subscription of it.
THEOREM LossesAnnounced == Spec => LossAnnounced
<1> DEFINE Announced == \A i \in Id :
             Pending(i) =>
               /\ i \in DOMAIN tasks'
               /\ \A p \in Pid :
                    heard'[p][i] = heard[p][i]
                      + IF tasks'[i].status = "peer_lost" /\ p \in alive
                        THEN Subscriptions(p) ELSE 0
<1>1. IInv /\ [Next]_vars => [Announced]_vars
  <2> SUFFICES ASSUME IInv, Next, NEW i \in Id, Pending(i)
               PROVE  /\ i \in DOMAIN tasks'
                      /\ \A p \in Pid :
                           heard'[p][i] = heard[p][i]
                             + IF tasks'[i].status = "peer_lost" /\ p \in alive
                               THEN Subscriptions(p) ELSE 0
    OBVIOUS
  <2>0. /\ i \in DOMAIN tasks /\ tasks[i].status = "pending" /\ tasks[i] \in Task
        /\ \A p \in Pid : heard[p][i] \in Nat
    BY DEF Pending, IInv, TypeOK
  <2>1. ASSUME UNCHANGED heard, i \in DOMAIN tasks', tasks'[i].status # "peer_lost"
        PROVE  /\ i \in DOMAIN tasks'
               /\ \A p \in Pid :
                    heard'[p][i] = heard[p][i]
                      + IF tasks'[i].status = "peer_lost" /\ p \in alive
                        THEN Subscriptions(p) ELSE 0
    BY <2>0, <2>1
  <2>2. ASSUME NEW p \in Peer, Dispatch(p) \/ Open(p) \/ Close(p)
        PROVE  UNCHANGED heard /\ i \in DOMAIN tasks' /\ tasks'[i].status # "peer_lost"
    BY <2>0, <2>2 DEF Dispatch, Put, Open, Close
  <2>3. ASSUME NEW j \in Id, Complete(j) \/ Fail(j)
        PROVE  UNCHANGED heard /\ i \in DOMAIN tasks' /\ tasks'[i].status # "peer_lost"
    BY <2>0, <2>3 DEF Complete, Fail, update_task_status, Task
  <2>4. CASE Cleanup
    BY <2>0, <2>1, <2>4 DEF Cleanup, Pending
  <2>5. ASSUME NEW p \in Pid, Subscribe(p) \/ Exit(p)
        PROVE  UNCHANGED heard /\ i \in DOMAIN tasks' /\ tasks'[i].status # "peer_lost"
    BY <2>0, <2>5 DEF Subscribe, Exit
  <2>6. CASE HandleStillConnected
    BY <2>0, <2>1, <2>6 DEF HandleStillConnected
  <2>7. CASE HandlePeerLost
    <3> DEFINE orphans == Orphaned(Head(events).peer)
    <3>1. /\ DOMAIN tasks' = DOMAIN tasks
          /\ \A j \in orphans : tasks'[j].status = "peer_lost"
          /\ \A j \in DOMAIN tasks \ orphans : tasks'[j] = tasks[j]
          /\ \A p \in Pid, j \in Id :
               heard'[p][j] = heard[p][j]
                 + IF j \in orphans /\ p \in alive THEN Subscriptions(p) ELSE 0
      BY <2>7, LostEffect
    <3> HIDE DEF orphans
    <3>2. i \in orphans <=> tasks'[i].status = "peer_lost"
      BY <2>0, <3>1
    <3>. QED  BY <2>0, <3>1, <3>2
  <2>. QED  BY <2>1, <2>2, <2>3, <2>4, <2>5, <2>6, <2>7 DEF Next
<1>. QED  BY <1>1, TrackerInvariant, PTL DEF Spec, LossAnnounced
=============================================================================
