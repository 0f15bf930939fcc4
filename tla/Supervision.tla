----------------------------- MODULE Supervision -----------------------------
(***************************************************************************)
(* Crashes and restarts across the two supervision trees.                  *)
(*                                                                         *)
(* The library's own (application.ex, rest_for_one): HandlerRegistry, then *)
(* the DynamicSupervisor of the nodes started with start_supervised.  The  *)
(* application's (README.md:84-93, rest_for_one): a Node and, after it,    *)
(* the processes that register with it for events in their init/1          *)
(* (Distribution.Server, TaskTracker).  HandlerRegistry is reduced to the  *)
(* set of subscriptions it holds.                                          *)
(***************************************************************************)
EXTENDS Naturals, FiniteSets

CONSTANTS NDeps,       \* processes after the Node in the application's tree
          MaxIncarnations,   \* bound: starts of one process
          MaxCrashes   \* bound: crashes and kills in all

ASSUME BoundsAssumption == NDeps \in Nat /\ MaxIncarnations \in Nat /\ MaxCrashes \in Nat

\* "user" is child 0 of the application's tree, its dependents 1 .. NDeps.
Node == {"user", "dynamic"}
Dep  == 1 .. NDeps

VARIABLES
  registry,  \* [up, gen]: gen counts the incarnations
  nodeSup,   \* the DynamicSupervisor runs
  node,      \* node -> [state, gen, since]: since = registry.gen at its start
  dep,       \* dependent -> [up, gen, since]: since = registry.gen it called
  subs,      \* subscriptions <<node, its gen, dependent, its gen>>
  cut,       \* terminate/2 of a node was abandoned before export and stop_node
  crashes

trees == <<registry, nodeSup, node, dep, subs, cut, crashes>>

TreeInit ==
  /\ registry = [up |-> TRUE, gen |-> 1]
  /\ nodeSup = TRUE
  /\ node = [n \in Node |-> [state |-> "down", gen |-> 0, since |-> 0]]
  /\ dep = [d \in Dep |-> [up |-> FALSE, gen |-> 0, since |-> 0]]
  /\ subs = {}
  /\ cut = FALSE
  /\ crashes = 0

Crash == crashes < MaxCrashes /\ crashes' = crashes + 1

OfNode(n) == {s \in subs : s[1] = n /\ s[2] = node[n].gen}

-----------------------------------------------------------------------------
(* The life of a Node.                                                     *)

StartNode(n) ==
  /\ node[n].state = "down" /\ node[n].gen < MaxIncarnations
  /\ node' = [node EXCEPT ![n] = [state |-> "up", gen |-> @.gen + 1,
                                  since |-> registry.gen]]
  /\ UNCHANGED <<registry, nodeSup, dep, subs, cut, crashes>>

\* An exception in a callback, or a stop: terminate/2 begins.
FailNode(n) ==
  /\ node[n].state = "up" /\ Crash
  /\ node' = [node EXCEPT ![n].state = "terminating"]
  /\ UNCHANGED <<registry, nodeSup, dep, subs, cut>>

Kill(n) ==
  /\ node[n].state # "down" /\ Crash
  /\ node' = [node EXCEPT ![n].state = "down"]
  /\ UNCHANGED <<registry, nodeSup, dep, subs, cut>>

\* cleanup_node is a GenServer.call: it removes the subscriptions, or exits
\* when there is no registry and takes the rest of terminate/2 with it.
CleanupNode(n) ==
  /\ node[n].state = "terminating"
  /\ IF registry.up
     THEN /\ node' = [node EXCEPT ![n].state = "exporting"]
          /\ subs' = subs \ OfNode(n)
          /\ UNCHANGED cut
     ELSE /\ node' = [node EXCEPT ![n].state = "down"]
          /\ cut' = TRUE
          /\ UNCHANGED subs
  /\ UNCHANGED <<registry, nodeSup, dep, crashes>>

\* maybe_export_dht_state, stop_node.
ExportAndStop(n) ==
  /\ node[n].state = "exporting"
  /\ node' = [node EXCEPT ![n].state = "down"]
  /\ UNCHANGED <<registry, nodeSup, dep, subs, cut, crashes>>

-----------------------------------------------------------------------------
(* The application's tree.  When a child ends, rest_for_one stops the ones *)
(* after it, last first, and starts them again in order.                   *)

\* Mutant: one_for_one leaves the other children alone.
StopLater_Never(d) ==
  /\ dep[d].up /\ FALSE
  /\ UNCHANGED trees

StopLater(d) ==
  /\ dep[d].up
  /\ \/ node["user"].state = "down"
     \/ \E e \in 1 .. d - 1 : ~dep[e].up
  /\ \A e \in d + 1 .. NDeps : ~dep[e].up
  /\ dep' = [dep EXCEPT ![d].up = FALSE]
  /\ UNCHANGED <<registry, nodeSup, node, subs, cut, crashes>>

\* Mutant: the Node is started again while its dependents run on.
StartUserNode_AtOnce == StartNode("user")

StartUserNode ==
  /\ \A d \in Dep : ~dep[d].up
  /\ StartNode("user")

\* init/1 of a dependent registers it with the pid the node's name stands for.
\* When the name is free register_handler answers {:error, :no_node}, which
\* init/1 ignores; when there is no registry the call exits and the start is
\* tried again.
StartDep(d) ==
  /\ ~dep[d].up /\ dep[d].gen < MaxIncarnations
  /\ node["user"].gen > 0
  /\ \A e \in Dep : IF e < d THEN dep[e].up ELSE ~dep[e].up
  /\ node["user"].state # "down" => registry.up
  /\ dep' = [dep EXCEPT ![d] = [up |-> TRUE, gen |-> @.gen + 1,
                                since |-> registry.gen]]
  /\ subs' = IF node["user"].state = "down" THEN subs
             ELSE subs \cup {<<"user", node["user"].gen, d, dep[d].gen + 1>>}
  /\ UNCHANGED <<registry, nodeSup, node, cut, crashes>>

FailDep(d) ==
  /\ dep[d].up /\ Crash
  /\ dep' = [dep EXCEPT ![d].up = FALSE]
  /\ UNCHANGED <<registry, nodeSup, node, subs, cut>>

\* The registry is told of a dependent that has ended.
Down(s) ==
  /\ registry.up /\ s \in subs
  /\ ~(dep[s[3]].up /\ dep[s[3]].gen = s[4])
  /\ subs' = subs \ {s}
  /\ UNCHANGED <<registry, nodeSup, node, dep, cut, crashes>>

-----------------------------------------------------------------------------
(* The library's tree.                                                     *)

\* The subscriptions and monitors are gone with the process.
CrashRegistry ==
  /\ registry.up /\ Crash
  /\ registry' = [registry EXCEPT !.up = FALSE]
  /\ subs' = {}
  /\ UNCHANGED <<nodeSup, node, dep, cut>>

\* rest_for_one stops the DynamicSupervisor, which shuts its nodes down.
ShutDownDynamic ==
  /\ ~registry.up /\ nodeSup
  /\ node["dynamic"].state = "up"
  /\ node' = [node EXCEPT !["dynamic"].state = "terminating"]
  /\ UNCHANGED <<registry, nodeSup, dep, subs, cut, crashes>>

StopNodeSup ==
  /\ ~registry.up /\ nodeSup
  /\ node["dynamic"].state = "down"
  /\ nodeSup' = FALSE
  /\ UNCHANGED <<registry, node, dep, subs, cut, crashes>>

\* Mutant: one_for_one restarts the registry alone.
RestartRegistry_Alone ==
  /\ ~registry.up
  /\ registry' = [up |-> TRUE, gen |-> registry.gen + 1]
  /\ UNCHANGED <<nodeSup, node, dep, subs, cut, crashes>>

RestartRegistry ==
  /\ ~registry.up /\ ~nodeSup
  /\ registry' = [up |-> TRUE, gen |-> registry.gen + 1]
  /\ UNCHANGED <<nodeSup, node, dep, subs, cut, crashes>>

StartNodeSup ==
  /\ registry.up /\ ~nodeSup
  /\ nodeSup' = TRUE
  /\ UNCHANGED <<registry, node, dep, subs, cut, crashes>>

\* start_supervised, or the DynamicSupervisor restarting a node that ended.
StartDynamic == nodeSup /\ StartNode("dynamic")

-----------------------------------------------------------------------------
Supervisors ==
  \/ StartUserNode
  \/ \E d \in Dep : StopLater(d) \/ StartDep(d)
  \/ ShutDownDynamic \/ StopNodeSup \/ RestartRegistry \/ StartNodeSup

Terminates == \E n \in Node : CleanupNode(n) \/ ExportAndStop(n)

TreeNext ==
  \/ Supervisors \/ StartDynamic \/ Terminates
  \/ \E n \in Node : FailNode(n) \/ Kill(n)
  \/ \E d \in Dep : FailDep(d)
  \/ \E s \in subs : Down(s)
  \/ CrashRegistry

\* Supervisors do their work, terminate/2 runs on, :DOWN is delivered.
Fairness ==
  /\ WF_trees(StartUserNode)
  /\ \A d \in Dep : WF_trees(StopLater(d)) /\ WF_trees(StartDep(d))
  /\ WF_trees(ShutDownDynamic \/ StopNodeSup \/ RestartRegistry \/ StartNodeSup)
  /\ \A n \in Node : WF_trees(CleanupNode(n) \/ ExportAndStop(n))
  /\ WF_trees(\E s \in subs : Down(s))

TreeSpec == TreeInit /\ [][TreeNext]_trees /\ Fairness

-----------------------------------------------------------------------------
(* Properties.                                                             *)

Gen == 0 .. MaxIncarnations

TreeTypeOK ==
  /\ registry \in [up : BOOLEAN, gen : 1 .. MaxCrashes + 1]
  /\ nodeSup \in BOOLEAN
  /\ node \in [Node -> [state : {"down", "up", "terminating", "exporting"},
                        gen : Gen, since : 0 .. registry.gen]]
  /\ dep \in [Dep -> [up : BOOLEAN, gen : Gen, since : 0 .. registry.gen]]
  /\ subs \subseteq {"user"} \X (Gen \ {0}) \X Dep \X (Gen \ {0})
  /\ cut \in BOOLEAN
  /\ crashes \in 0 .. MaxCrashes

\* A dependent that runs beside a running Node is subscribed to that Node, not
\* to an earlier one: rest_for_one restarts it after every end of the Node
\* (README.md:86-93), as long as the registry it called is still there.
DependentsHear ==
  \A d \in Dep :
    node["user"].state = "up" /\ dep[d].up /\ registry.up
      /\ dep[d].since = registry.gen
    => <<"user", node["user"].gen, d, dep[d].gen>> \in subs

\* The same without the proviso: a Node that runs has the subscribers that
\* registered with it.
SubscriptionsSurvive ==
  \A d \in Dep :
    node["user"].state = "up" /\ dep[d].up /\ registry.up
    => <<"user", node["user"].gen, d, dep[d].gen>> \in subs

\* "a HandlerRegistry crash also restarts the DynamicSupervisor - its children
\* would otherwise hold stale references" (application.ex:9-11): no supervised
\* node outlives the registry it was started with.
NodesFollowRegistry ==
  registry.up /\ node["dynamic"].state = "up" =>
    node["dynamic"].since = registry.gen

\* The trees are consistent whenever the registry runs.
TreeConsistent == TreeTypeOK /\ NodesFollowRegistry

\* A Node that was killed leaves its subscriptions behind (terminate/2 did not
\* run); they do not stay, because the subscribers are restarted with it.
DeadNodeForgotten ==
  \A g \in 1 .. MaxIncarnations, d \in Dep, h \in 1 .. MaxIncarnations :
    (<<"user", g, d, h>> \in subs /\ (node["user"].gen # g \/ node["user"].state = "down"))
      ~> <<"user", g, d, h>> \notin subs

\* terminate/2 exports the routing table and stops the swarm "so shutdown
\* completes cleanly" (node.ex:292) whenever it runs.
ShutdownCompletes == ~cut
=============================================================================
