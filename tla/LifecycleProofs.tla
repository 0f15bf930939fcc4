--------------------------- MODULE LifecycleProofs ---------------------------
(***************************************************************************)
(* How nodes come to run and run again: proofs about StartNode, for any    *)
(* set of nodes, any configurations, any width of the integers and both    *)
(* kinds of build, and about the two trees of Supervision, for any number  *)
(* of dependents, restarts and crashes.                                    *)
(***************************************************************************)
EXTENDS StartNode, Supervision, TLAPS

-----------------------------------------------------------------------------
(* The limits of config.rs.                                                *)

\* get_u32 yields a u32.
LEMMA Decoded ==
  ASSUME NEW c, NEW key \in LimitKeys
  PROVE  get_u32(c, key) \in 0 .. Width - 1
BY StartAssumption DEF get_u32

\* Every limit of a swarm is a u32, the sum that wraps included.
LEMMA LimitsFit ==
  ASSUME NEW c, NEW key \in DOMAIN limits(c)
  PROVE  limits(c)[key] \in 0 .. Width - 1
<1>1. Both(c) \in Nat
  <2>1. /\ get_u32(c, "established_incoming") \in 0 .. Width - 1
        /\ get_u32(c, "established_outgoing") \in 0 .. Width - 1
    BY Decoded DEF LimitKeys
  <2>. QED  BY <2>1, StartAssumption DEF Both
<1>2. Both(c) % Width \in 0 .. Width - 1
  BY <1>1, StartAssumption
<1>3. key # "established" => key \in LimitKeys /\ get_u32(c, key) \in 0 .. Width - 1
  BY Decoded DEF limits
<1>. QED  BY <1>2, <1>3 DEF limits

-----------------------------------------------------------------------------
(* The inductive invariant.                                                *)

PC == {"idle", "from_map", "get_runtime", "build", "set", "construct", "listen",
       "spawn", "started", "failed"}

Shapes ==
  /\ RUNTIME \in Nodes \cup {None}
  /\ built \in [Nodes -> Nodes \cup {None}]
  /\ pc \in [Nodes -> PC]
  /\ loop \in [Nodes -> Nodes \cup {None}]
  /\ DOMAIN swarm = Nodes /\ DOMAIN listening = Nodes

\* A runtime that has been built is in the hands of the start that built it.
BuiltOffered == \A n \in Nodes : built[n] = IF pc[n] = "set" THEN n ELSE None

\* From construct on, the OnceLock is set.
RuntimeThere ==
  \A n \in Nodes : pc[n] \in {"construct", "listen", "spawn", "started"} => RUNTIME # None

\* Loops belong to started nodes, listeners to those that got so far.
LoopsStarted == \A n \in Nodes : loop[n] = IF pc[n] = "started" THEN RUNTIME ELSE None
ListenersOpen ==
  \A n \in Nodes : pc[n] \notin {"listen", "spawn", "started"} => listening[n] = {}

\* A swarm has the limits of its configuration.
SwarmConfigured == \A n \in Nodes : swarm[n] # None => swarm[n].limits = limits(config[n])

StartInv == Shapes /\ BuiltOffered /\ RuntimeThere /\ LoopsStarted /\ ListenersOpen
          /\ SwarmConfigured

\* What a start that fails leaves behind.
LEMMA FailStep ==
  ASSUME StartInv, NEW n \in Nodes, pc[n] \in {"from_map", "build", "construct", "listen"}, Fail(n)
  PROVE  StartInv'
<1> USE DEF StartInv, Fail, Goto
<1>1. /\ pc' = [pc EXCEPT ![n] = "failed"] /\ pc \in [Nodes -> PC]
      /\ \A m \in Nodes : pc'[m] = IF m = n THEN "failed" ELSE pc[m]
  BY DEF Shapes
<1>2. Shapes'
  BY DEF Shapes, PC
<1>3. BuiltOffered' /\ RuntimeThere' /\ LoopsStarted'
  BY <1>1 DEF BuiltOffered, RuntimeThere, LoopsStarted
<1>4. ListenersOpen'
  BY <1>1 DEF ListenersOpen, Shapes
<1>5. SwarmConfigured'
  BY DEF SwarmConfigured, Shapes
<1>. QED  BY <1>2, <1>3, <1>4, <1>5

\* A step from one label to the next that changes nothing else.
LEMMA MoveStep ==
  ASSUME StartInv, NEW n \in Nodes, NEW l \in PC, Goto(n, l),
         pc[n] \notin {"set", "started"}, l \notin {"set", "started"},
         l \in {"construct", "listen", "spawn"} => RUNTIME # None,
         l \notin {"listen", "spawn"} => listening[n] = {},
         UNCHANGED <<RUNTIME, built, config, swarm, listening, loop>>
  PROVE  StartInv'
<1> USE DEF StartInv, Goto
<1>1. \A m \in Nodes : pc'[m] = IF m = n THEN l ELSE pc[m]
  BY DEF Shapes
<1>2. Shapes'
  BY DEF Shapes
<1>3. BuiltOffered' /\ RuntimeThere' /\ LoopsStarted' /\ ListenersOpen'
  BY <1>1 DEF BuiltOffered, RuntimeThere, LoopsStarted, ListenersOpen
<1>4. SwarmConfigured'
  BY DEF SwarmConfigured
<1>. QED  BY <1>2, <1>3, <1>4

\* OnceLock::set: whoever comes second finds the runtime there.
LEMMA SetStep ==
  ASSUME StartInv, NEW n \in Nodes, SetRuntime(n)
  PROVE  StartInv'
<1> USE DEF StartInv, SetRuntime, Goto
<1>1. \A m \in Nodes : pc'[m] = IF m = n THEN "construct" ELSE pc[m]
  BY DEF Shapes
<1>2. built[n] = n /\ n # None
  BY StartAssumption DEF BuiltOffered
<1>3. RUNTIME' # None /\ (RUNTIME # None => RUNTIME' = RUNTIME)
  BY <1>2
<1>4. Shapes'
  BY <1>2 DEF Shapes, PC
<1>5. BuiltOffered'
  BY <1>1 DEF BuiltOffered, Shapes
<1>6. RuntimeThere'
  BY <1>3 DEF RuntimeThere
<1>7. LoopsStarted'
  BY <1>1, <1>3 DEF LoopsStarted, RuntimeThere
<1>8. ListenersOpen' /\ SwarmConfigured'
  BY <1>1 DEF ListenersOpen, SwarmConfigured
<1>. QED  BY <1>4, <1>5, <1>6, <1>7, <1>8

\* A swarm is constructed from its configuration.
LEMMA ConstructStep ==
  ASSUME StartInv, NEW n \in Nodes, Construct(n)
  PROVE  StartInv'
<1> USE DEF StartInv
<1>1. CASE Fail(n)
  BY <1>1, FailStep DEF Construct
<1>2. CASE ~Fail(n)
  <2> DEFINE new == [limits |-> limits(config[n]), features |-> NodeBehaviour(config[n].flags)]
  <2>1. /\ pc[n] = "construct" /\ Goto(n, "listen")
        /\ swarm' = [swarm EXCEPT ![n] = new]
        /\ UNCHANGED <<RUNTIME, built, config, listening, loop>>
    BY <1>2 DEF Construct
  <2>2. \A m \in Nodes : pc'[m] = IF m = n THEN "listen" ELSE pc[m]
    BY <2>1 DEF Goto, Shapes
  <2>3. \A m \in Nodes : swarm'[m] = IF m = n THEN new ELSE swarm[m]
    BY <2>1 DEF Shapes
  <2>4. new.limits = limits(config[n])
    OBVIOUS
  <2> HIDE DEF new
  <2>5. Shapes'
    BY <2>1 DEF Shapes, Goto, PC
  <2>6. BuiltOffered' /\ RuntimeThere' /\ LoopsStarted' /\ ListenersOpen'
    BY <2>1, <2>2 DEF BuiltOffered, RuntimeThere, LoopsStarted, ListenersOpen
  <2>7. SwarmConfigured'
    BY <2>1, <2>3, <2>4 DEF SwarmConfigured
  <2>. QED  BY <2>5, <2>6, <2>7
<1>. QED  BY <1>1, <1>2

\* One address is bound, or the start fails.
LEMMA ListenStep ==
  ASSUME StartInv, NEW n \in Nodes, Listen(n)
  PROVE  StartInv'
<1> USE DEF StartInv
<1>1. CASE Fail(n)
  BY <1>1, FailStep DEF Listen
<1>2. CASE ~Fail(n)
  <2>1. PICK a : /\ pc[n] = "listen"
                 /\ listening' = [listening EXCEPT ![n] = @ \cup {a}]
                 /\ Goto(n, "spawn") \/ UNCHANGED pc
                 /\ UNCHANGED <<RUNTIME, built, config, swarm, loop>>
    BY <1>2 DEF Listen
  <2>2. \A m \in Nodes : pc'[m] = pc[m] \/ (m = n /\ pc'[m] = "spawn")
    BY <2>1 DEF Goto, Shapes
  <2>3. \A m \in Nodes : m # n => listening'[m] = listening[m]
    BY <2>1 DEF Shapes
  <2>4. Shapes'
    BY <2>1 DEF Shapes, Goto, PC
  <2>5. BuiltOffered' /\ RuntimeThere' /\ LoopsStarted'
    BY <2>1, <2>2 DEF BuiltOffered, RuntimeThere, LoopsStarted
  <2>6. ListenersOpen'
    BY <2>1, <2>2, <2>3 DEF ListenersOpen
  <2>7. SwarmConfigured'
    BY <2>1 DEF SwarmConfigured
  <2>. QED  BY <2>4, <2>5, <2>6, <2>7
<1>. QED  BY <1>1, <1>2

\* Every step preserves the inductive invariant.
LEMMA StartInvStep ==
  ASSUME StartInv, [Next]_vars
  PROVE  StartInv'
<1> USE DEF StartInv
<1>1. ASSUME NEW n \in Nodes, Start(n) PROVE StartInv'
  <2>1. pc[n] \in {"idle", "failed"} /\ listening[n] = {}
    BY <1>1 DEF Start, ListenersOpen
  <2>2. PICK l \in {"failed", "from_map"} : Goto(n, l)
    BY <1>1 DEF Start
  <2>3. l \in PC
    BY DEF PC
  <2>. QED  BY <1>1, <2>1, <2>2, <2>3, MoveStep DEF Start
<1>2. ASSUME NEW n \in Nodes, from_map(n) PROVE StartInv'
  <2>1. CASE Fail(n)
    BY <1>2, <2>1, FailStep DEF from_map
  <2>2. CASE ~Fail(n)
    BY <1>2, <2>2, MoveStep DEF from_map, ListenersOpen, PC
  <2>. QED  BY <2>1, <2>2
<1>3. ASSUME NEW n \in Nodes, GetRuntime(n) PROVE StartInv'
  <2>1. CASE RUNTIME = None
    BY <1>3, <2>1, MoveStep DEF GetRuntime, ListenersOpen, PC
  <2>2. CASE RUNTIME # None
    BY <1>3, <2>2, MoveStep DEF GetRuntime, ListenersOpen, PC
  <2>. QED  BY <2>1, <2>2
<1>4. ASSUME NEW n \in Nodes, BuildRuntime(n) PROVE StartInv'
  <2>1. CASE Fail(n)
    BY <1>4, <2>1, FailStep DEF BuildRuntime
  <2>2. CASE ~Fail(n)
    <3>1. /\ pc[n] = "build" /\ built' = [built EXCEPT ![n] = n]
          /\ pc' = [pc EXCEPT ![n] = "set"]
          /\ UNCHANGED <<RUNTIME, config, swarm, listening, loop>>
      BY <1>4, <2>2 DEF BuildRuntime, Goto
    <3>2. \A m \in Nodes : pc'[m] = IF m = n THEN "set" ELSE pc[m]
      BY <3>1 DEF Shapes
    <3>3. Shapes' /\ BuiltOffered'
      BY <3>1, <3>2 DEF Shapes, PC, BuiltOffered
    <3>4. RuntimeThere' /\ LoopsStarted' /\ ListenersOpen' /\ SwarmConfigured'
      BY <3>1, <3>2 DEF RuntimeThere, LoopsStarted, ListenersOpen, SwarmConfigured
    <3>. QED  BY <3>3, <3>4
  <2>. QED  BY <2>1, <2>2
<1>5. ASSUME NEW n \in Nodes, Spawn(n) PROVE StartInv'
  <2>1. \A m \in Nodes : pc'[m] = IF m = n THEN "started" ELSE pc[m]
    BY <1>5 DEF Spawn, Goto, Shapes
  <2>2. \A m \in Nodes : loop'[m] = IF m = n THEN RUNTIME ELSE loop[m]
    BY <1>5 DEF Spawn, Shapes
  <2>3. Shapes'
    BY <1>5 DEF Spawn, Goto, Shapes, PC
  <2>4. BuiltOffered' /\ RuntimeThere' /\ LoopsStarted' /\ ListenersOpen' /\ SwarmConfigured'
    BY <1>5, <2>1, <2>2 DEF Spawn, BuiltOffered, RuntimeThere, LoopsStarted, ListenersOpen,
                            SwarmConfigured
  <2>. QED  BY <2>3, <2>4
<1>6. ASSUME NEW n \in Nodes, Stop(n) PROVE StartInv'
  <2>1. /\ \A m \in Nodes : pc'[m] = IF m = n THEN "idle" ELSE pc[m]
        /\ \A m \in Nodes : swarm'[m] = IF m = n THEN None ELSE swarm[m]
        /\ \A m \in Nodes : listening'[m] = IF m = n THEN {} ELSE listening[m]
        /\ \A m \in Nodes : loop'[m] = IF m = n THEN None ELSE loop[m]
    BY <1>6 DEF Stop, Goto, Shapes
  <2>2. Shapes'
    BY <1>6 DEF Stop, Goto, Shapes, PC
  <2>3. BuiltOffered' /\ RuntimeThere' /\ LoopsStarted' /\ ListenersOpen' /\ SwarmConfigured'
    BY <1>6, <2>1 DEF Stop, BuiltOffered, RuntimeThere, LoopsStarted, ListenersOpen,
                      SwarmConfigured
  <2>. QED  BY <2>2, <2>3
<1>7. CASE UNCHANGED vars
  BY <1>7 DEF vars, Shapes, BuiltOffered, RuntimeThere, LoopsStarted, ListenersOpen,
              SwarmConfigured
<1>. QED
  BY <1>1, <1>2, <1>3, <1>4, <1>5, <1>6, <1>7, SetStep, ConstructStep, ListenStep DEF Next

-----------------------------------------------------------------------------
(* Theorems.                                                               *)

\* The inductive invariant holds in every reachable state: among the rest, a
\* started node has its loop on the runtime of the OnceLock.
THEOREM StartInvariant == Spec => []StartInv
<1>1. Init => StartInv
  BY DEF Init, StartInv, Shapes, PC, BuiltOffered, RuntimeThere, LoopsStarted, ListenersOpen,
         SwarmConfigured
<1>2. StartInv /\ [Next]_vars => StartInv'
  BY StartInvStep
<1>. QED  BY <1>1, <1>2, PTL DEF Spec

\* However starts interleave and wherever they fail, neither the runtime that
\* lost the race nor anything of a failed start stays behind.
THEOREM StartsLeaveNoLitter == Spec => []StartsClean
<1>1. StartInv => StartsClean
  <2> SUFFICES ASSUME StartInv PROVE StartsClean
    OBVIOUS
  <2>1. TypeOK
    <3>1. ASSUME NEW n \in Nodes, swarm[n] # None, NEW l \in DOMAIN swarm[n].limits
          PROVE  swarm[n].limits[l] \in 0 .. Width - 1
      <4>1. swarm[n].limits = limits(config[n])
        BY <3>1 DEF StartInv, SwarmConfigured
      <4>2. \A key \in DOMAIN limits(config[n]) : limits(config[n])[key] \in 0 .. Width - 1
        BY LimitsFit
      <4>. QED  BY <3>1, <4>1, <4>2
    <3>. QED  BY <3>1 DEF StartInv, Shapes, PC, TypeOK
  <2>2. LoserDropped
    BY DEF StartInv, BuiltOffered, LoserDropped
  <2>3. FailedStartLeavesNothing
    BY DEF StartInv, LoopsStarted, ListenersOpen, FailedStartLeavesNothing
  <2>. QED  BY <2>1, <2>2, <2>3 DEF StartsClean
<1>. QED  BY <1>1, StartInvariant, PTL

\* All loops run on the one runtime that stays.
THEOREM RuntimeShared == Spec => []OneRuntime
<1>1. StartInv => OneRuntime
  BY DEF StartInv, LoopsStarted, OneRuntime
<1>. QED  BY <1>1, StartInvariant, PTL

-----------------------------------------------------------------------------
(* Supervision.  DependentsHear needs nothing but types beside itself; the *)
(* types need Incarnations, which ties the registry's generation to the    *)
(* crashes that caused it.  NodesFollowRegistry is not inductive: the      *)
(* registry comes back at a moment when no node runs under the             *)
(* DynamicSupervisor, and what says so is DynamicBelow.                    *)

\* Every incarnation of the registry but the first has been paid for by a
\* crash, and so has the end of the present one.
Incarnations ==
  registry.gen + (IF registry.up THEN 0 ELSE 1) <= crashes + 1

\* A node runs under the DynamicSupervisor only while that runs, and only with
\* the registry it was started with, also while that registry is down.
DynamicBelow ==
  /\ ~nodeSup => node["dynamic"].state = "down"
  /\ node["dynamic"].state = "up" => node["dynamic"].since = registry.gen

TreeInv == TreeTypeOK /\ Incarnations /\ DynamicBelow /\ DependentsHear

-----------------------------------------------------------------------------
(* Lemmas.                                                                 *)

\* The two names of a node.
LEMMA Names == "user" \in Node /\ "dynamic" \in Node /\ "user" # "dynamic"
  BY DEF Node

\* The state of a node is changed and nothing else: the types are kept.
LEMMA StateTypes ==
  ASSUME TreeTypeOK, NEW n \in Node, NEW s \in {"down", "up", "terminating", "exporting"},
         node' = [node EXCEPT ![n].state = s],
         UNCHANGED <<registry, dep>>
  PROVE  /\ node' \in [Node -> [state : {"down", "up", "terminating", "exporting"},
                                gen : Gen, since : 0 .. registry'.gen]]
         /\ dep' \in [Dep -> [up : BOOLEAN, gen : Gen, since : 0 .. registry'.gen]]
         /\ node'[n].state = s
         /\ \A m \in Node : /\ node'[m].gen = node[m].gen
                            /\ node'[m].since = node[m].since
                            /\ m # n => node'[m] = node[m]
  BY DEF TreeTypeOK

\* A node that is not down fails, goes on with terminate/2 or ends: the
\* invariant is kept as long as only the Node "user" loses subscriptions by it.
LEMMA NodeLeaves ==
  ASSUME TreeInv, NEW n \in Node, NEW s \in {"down", "terminating", "exporting"},
         node' = [node EXCEPT ![n].state = s],
         node[n].state # "down",
         subs' \subseteq subs,
         n # "user" => subs' = subs,
         cut' \in BOOLEAN, crashes' \in crashes .. MaxCrashes,
         UNCHANGED <<registry, nodeSup, dep>>
  PROVE  TreeInv'
<1> USE DEF TreeInv
<1>1. /\ node' \in [Node -> [state : {"down", "up", "terminating", "exporting"},
                             gen : Gen, since : 0 .. registry'.gen]]
      /\ dep' \in [Dep -> [up : BOOLEAN, gen : Gen, since : 0 .. registry'.gen]]
      /\ node'[n].state = s
      /\ \A m \in Node : /\ node'[m].gen = node[m].gen
                         /\ node'[m].since = node[m].since
                         /\ m # n => node'[m] = node[m]
  BY StateTypes
<1>2. TreeTypeOK'
  BY <1>1, BoundsAssumption DEF TreeTypeOK
<1>3. Incarnations'
  BY BoundsAssumption DEF Incarnations, TreeTypeOK
<1>4. DynamicBelow'
  BY <1>1, Names DEF DynamicBelow
<1>5. DependentsHear'
  BY <1>1, Names DEF DependentsHear
<1>. QED  BY <1>2, <1>3, <1>4, <1>5

-----------------------------------------------------------------------------
(* One lemma per group of actions.                                         *)

\* A Node is started again: only when all its dependents are down, or under
\* the DynamicSupervisor while that runs.
LEMMA StartStep ==
  ASSUME TreeInv, StartUserNode \/ StartDynamic
  PROVE  TreeInv'
<1> USE DEF TreeInv
<1>1. PICK n \in Node : /\ StartNode(n)
                        /\ n = "user" => \A d \in Dep : ~dep[d].up
                        /\ n = "dynamic" => nodeSup
  BY Names DEF StartUserNode, StartDynamic
<1>2. /\ node' = [node EXCEPT ![n] = [state |-> "up", gen |-> node[n].gen + 1,
                                      since |-> registry.gen]]
      /\ node[n].gen < MaxIncarnations
      /\ UNCHANGED <<registry, nodeSup, dep, subs, cut, crashes>>
  BY <1>1 DEF StartNode, TreeTypeOK
<1>3. TreeTypeOK'
  BY <1>2, BoundsAssumption DEF TreeTypeOK, Gen
<1>4. Incarnations'
  BY <1>2 DEF Incarnations
<1>5. /\ node'[n].state = "up" /\ node'[n].since = registry.gen
      /\ \A m \in Node : m # n => node'[m] = node[m]
  BY <1>2 DEF TreeTypeOK
<1>6. DynamicBelow'
  BY <1>1, <1>2, <1>5, Names DEF DynamicBelow
<1>7. DependentsHear'
  BY <1>1, <1>2, <1>5, Names DEF DependentsHear, Node
<1>. QED  BY <1>3, <1>4, <1>6, <1>7

\* A Node fails, is killed, is shut down, or goes on in terminate/2.
LEMMA EndStep ==
  ASSUME TreeInv, \/ \E n \in Node : FailNode(n) \/ Kill(n) \/ CleanupNode(n) \/ ExportAndStop(n)
               \/ ShutDownDynamic
  PROVE  TreeInv'
<1> USE DEF TreeInv
<1>0. crashes \in Nat /\ crashes <= MaxCrashes /\ cut \in BOOLEAN
  BY BoundsAssumption DEF TreeTypeOK
<1>1. ASSUME NEW n \in Node, FailNode(n) \/ Kill(n)  PROVE TreeInv'
  <2>1. /\ \E s \in {"down", "terminating", "exporting"} : node' = [node EXCEPT ![n].state = s]
        /\ node[n].state # "down"
    BY <1>1 DEF FailNode, Kill
  <2>2. crashes' \in crashes .. MaxCrashes /\ UNCHANGED <<registry, nodeSup, dep, subs, cut>>
    BY <1>0, <1>1, BoundsAssumption DEF FailNode, Kill, Crash
  <2>. QED  BY <1>0, <2>1, <2>2, NodeLeaves
<1>2. ASSUME NEW n \in Node, CleanupNode(n)  PROVE TreeInv'
  <2>1. /\ \E s \in {"down", "terminating", "exporting"} : node' = [node EXCEPT ![n].state = s]
        /\ node[n].state # "down"
    BY <1>2 DEF CleanupNode
  <2>2. subs' \subseteq subs /\ cut' \in BOOLEAN /\ UNCHANGED <<registry, nodeSup, dep, crashes>>
    BY <1>0, <1>2 DEF CleanupNode
  <2>3. n # "user" => subs' = subs
    <3>1. \A t \in subs : t[1] = "user"
      BY DEF TreeTypeOK
    <3>. QED  BY <1>2, <3>1 DEF CleanupNode, OfNode
  <2>4. crashes' \in crashes .. MaxCrashes
    BY <1>0, <2>2, BoundsAssumption
  <2>. QED  BY <2>1, <2>2, <2>3, <2>4, NodeLeaves
<1>3. ASSUME NEW n \in Node, ExportAndStop(n)  PROVE TreeInv'
  <2>1. /\ \E s \in {"down", "terminating", "exporting"} : node' = [node EXCEPT ![n].state = s]
        /\ node[n].state # "down"
    BY <1>3 DEF ExportAndStop
  <2>2. crashes' \in crashes .. MaxCrashes /\ UNCHANGED <<registry, nodeSup, dep, subs, cut>>
    BY <1>0, <1>3, BoundsAssumption DEF ExportAndStop
  <2>. QED  BY <1>0, <2>1, <2>2, NodeLeaves
<1>4. ASSUME ShutDownDynamic  PROVE TreeInv'
  <2>1. /\ \E s \in {"down", "terminating", "exporting"} : node' = [node EXCEPT !["dynamic"].state = s]
        /\ node["dynamic"].state # "down"
    BY <1>4 DEF ShutDownDynamic
  <2>2. crashes' \in crashes .. MaxCrashes /\ UNCHANGED <<registry, nodeSup, dep, subs, cut>>
    BY <1>0, <1>4, BoundsAssumption DEF ShutDownDynamic
  <2>. QED  BY <1>0, <2>1, <2>2, Names, NodeLeaves
<1>. QED  BY <1>1, <1>2, <1>3, <1>4

\* A dependent starts and registers with the Node that has the name now.
LEMMA StartDepStep ==
  ASSUME TreeInv, NEW d \in Dep, StartDep(d)
  PROVE  TreeInv'
<1> USE DEF TreeInv
<1> DEFINE s == <<"user", node["user"].gen, d, dep[d].gen + 1>>
<1>1. /\ dep' = [dep EXCEPT ![d] = [up |-> TRUE, gen |-> dep[d].gen + 1,
                                    since |-> registry.gen]]
      /\ dep[d].gen < MaxIncarnations /\ node["user"].gen > 0
      /\ subs' = subs \/ subs' = subs \cup {s}
      /\ node["user"].state # "down" => subs' = subs \cup {s}
      /\ UNCHANGED <<registry, nodeSup, node, cut, crashes>>
  BY DEF StartDep, TreeTypeOK
<1>2. /\ dep[d].gen \in Gen /\ dep[d].gen + 1 \in Gen \ {0}
      /\ node["user"].gen \in Gen \ {0}
  BY <1>1, Names, BoundsAssumption DEF TreeTypeOK, Gen
<1>3. TreeTypeOK'
  <2>1. dep' \in [Dep -> [up : BOOLEAN, gen : Gen, since : 0 .. registry.gen]]
    BY <1>1, <1>2, BoundsAssumption DEF TreeTypeOK
  <2>2. subs' \subseteq {"user"} \X (Gen \ {0}) \X Dep \X (Gen \ {0})
    BY <1>1, <1>2 DEF TreeTypeOK
  <2>. QED  BY <1>1, <2>1, <2>2 DEF TreeTypeOK
<1>4. Incarnations' /\ DynamicBelow'
  BY <1>1 DEF Incarnations, DynamicBelow
<1>5. DependentsHear'
  <2>1. dep'[d].gen = dep[d].gen + 1 /\ \A e \in Dep : e # d => dep'[e] = dep[e]
    BY <1>1 DEF TreeTypeOK
  <2>2. SUFFICES ASSUME NEW e \in Dep, node["user"].state = "up", dep'[e].up, registry.up,
                        dep'[e].since = registry.gen
                 PROVE  <<"user", node["user"].gen, e, dep'[e].gen>> \in subs'
    BY <1>1 DEF DependentsHear
  <2>3. CASE e = d
    BY <1>1, <2>1, <2>2, <2>3
  <2>4. CASE e # d
    BY <1>1, <2>1, <2>2, <2>4 DEF DependentsHear
  <2>. QED  BY <2>3, <2>4
<1>. QED  BY <1>3, <1>4, <1>5

\* A dependent ends, or is stopped by rest_for_one.
LEMMA EndDepStep ==
  ASSUME TreeInv, NEW d \in Dep, StopLater(d) \/ FailDep(d)
  PROVE  TreeInv'
<1> USE DEF TreeInv
<1>1. /\ dep' = [dep EXCEPT ![d].up = FALSE]
      /\ crashes' \in crashes .. MaxCrashes
      /\ UNCHANGED <<registry, nodeSup, node, subs, cut>>
  BY BoundsAssumption DEF StopLater, FailDep, Crash, TreeTypeOK
<1>2. /\ dep' \in [Dep -> [up : BOOLEAN, gen : Gen, since : 0 .. registry.gen]]
      /\ ~dep'[d].up /\ \A e \in Dep : e # d => dep'[e] = dep[e]
  BY <1>1 DEF TreeTypeOK
<1>3. TreeTypeOK'
  BY <1>1, <1>2, BoundsAssumption DEF TreeTypeOK
<1>4. Incarnations' /\ DynamicBelow'
  BY <1>1, BoundsAssumption DEF Incarnations, DynamicBelow, TreeTypeOK
<1>5. DependentsHear'
  BY <1>1, <1>2 DEF DependentsHear
<1>. QED  BY <1>3, <1>4, <1>5

\* The registry takes note of the end of a dependent.
LEMMA DownStep ==
  ASSUME TreeInv, NEW s \in subs, Down(s)
  PROVE  TreeInv'
<1> USE DEF TreeInv
<1>1. /\ subs' = subs \ {s}
      /\ ~(dep[s[3]].up /\ dep[s[3]].gen = s[4])
      /\ UNCHANGED <<registry, nodeSup, node, dep, cut, crashes>>
  BY DEF Down
<1>2. TreeTypeOK' /\ Incarnations' /\ DynamicBelow'
  BY <1>1 DEF TreeTypeOK, Incarnations, DynamicBelow
<1>3. ASSUME NEW d \in Dep, dep[d].up
      PROVE  <<"user", node["user"].gen, d, dep[d].gen>> # s
  BY <1>1, <1>3
<1>4. DependentsHear'
  BY <1>1, <1>3 DEF DependentsHear
<1>. QED  BY <1>2, <1>4

\* The registry crashes, and rest_for_one brings its tree back.
LEMMA TreeStep ==
  ASSUME TreeInv, CrashRegistry \/ StopNodeSup \/ RestartRegistry \/ StartNodeSup
  PROVE  TreeInv'
<1> USE DEF TreeInv
<1>0. /\ registry.gen \in Nat \ {0} /\ registry.up \in BOOLEAN /\ crashes \in Nat
      /\ registry = [up |-> registry.up, gen |-> registry.gen]
      /\ crashes <= MaxCrashes
  BY BoundsAssumption DEF TreeTypeOK
<1>1. CASE CrashRegistry
  <2>1. /\ registry.up /\ registry' = [registry EXCEPT !.up = FALSE]
        /\ crashes < MaxCrashes /\ crashes' = crashes + 1 /\ subs' = {}
        /\ UNCHANGED <<nodeSup, node, dep, cut>>
    BY <1>1 DEF CrashRegistry, Crash
  <2>2. /\ registry'.gen = registry.gen /\ registry'.up = FALSE
        /\ registry' \in [up : BOOLEAN, gen : 1 .. MaxCrashes + 1]
    BY <1>0, <2>1 DEF TreeTypeOK
  <2>3. TreeTypeOK'
    BY <1>0, <2>1, <2>2, BoundsAssumption DEF TreeTypeOK
  <2>4. Incarnations'
    BY <1>0, <2>1, <2>2 DEF Incarnations
  <2>. QED  BY <2>1, <2>2, <2>3, <2>4 DEF DynamicBelow, DependentsHear
<1>2. CASE StopNodeSup
  BY <1>2 DEF StopNodeSup, TreeTypeOK, Incarnations, DynamicBelow, DependentsHear
<1>3. CASE RestartRegistry
  <2>1. /\ ~registry.up /\ ~nodeSup
        /\ registry' = [up |-> TRUE, gen |-> registry.gen + 1]
        /\ UNCHANGED <<nodeSup, node, dep, subs, cut, crashes>>
    BY <1>3 DEF RestartRegistry
  <2>2. /\ registry'.gen = registry.gen + 1 /\ registry'.up = TRUE
        /\ registry.gen <= crashes
    BY <1>0, <2>1 DEF Incarnations
  <2>3. registry' \in [up : BOOLEAN, gen : 1 .. MaxCrashes + 1]
    BY <1>0, <2>1, <2>2, BoundsAssumption
  <2>4. 0 .. registry.gen \subseteq 0 .. registry'.gen
    BY <1>0, <2>2
  <2>5. TreeTypeOK'
    <3>1. node' \in [Node -> [state : {"down", "up", "terminating", "exporting"},
                              gen : Gen, since : 0 .. registry'.gen]]
      BY <2>1, <2>4 DEF TreeTypeOK
    <3>2. dep' \in [Dep -> [up : BOOLEAN, gen : Gen, since : 0 .. registry'.gen]]
      BY <2>1, <2>4 DEF TreeTypeOK
    <3>. QED  BY <2>1, <2>3, <3>1, <3>2 DEF TreeTypeOK
  <2>6. Incarnations'
    BY <1>0, <2>1, <2>2 DEF Incarnations
  <2>7. DynamicBelow'
    BY <2>1 DEF DynamicBelow
  <2>8. DependentsHear'
    <3>1. \A d \in Dep : dep[d].since # registry'.gen
      BY <1>0, <2>2 DEF TreeTypeOK
    <3>. QED  BY <2>1, <3>1 DEF DependentsHear
  <2>. QED  BY <2>5, <2>6, <2>7, <2>8
<1>4. CASE StartNodeSup
  BY <1>4 DEF StartNodeSup, TreeTypeOK, Incarnations, DynamicBelow, DependentsHear
<1>. QED  BY <1>1, <1>2, <1>3, <1>4

-----------------------------------------------------------------------------
(* Theorems.                                                               *)

\* The inductive invariant holds in every reachable state.
THEOREM SupervisionInvariant == TreeSpec => []TreeInv
<1>1. TreeInit => TreeInv
  <2> SUFFICES ASSUME TreeInit PROVE TreeInv
    OBVIOUS
  <2>1. TreeTypeOK
    <3>1. /\ registry = [up |-> TRUE, gen |-> 1]
          /\ registry \in [up : BOOLEAN, gen : 1 .. MaxCrashes + 1]
      BY BoundsAssumption DEF TreeInit
    <3>2. node \in [Node -> [state : {"down", "up", "terminating", "exporting"},
                             gen : Gen, since : 0 .. registry.gen]]
      BY <3>1, BoundsAssumption DEF TreeInit, Gen
    <3>3. dep \in [Dep -> [up : BOOLEAN, gen : Gen, since : 0 .. registry.gen]]
      BY <3>1, BoundsAssumption DEF TreeInit, Gen
    <3>4. nodeSup \in BOOLEAN /\ cut \in BOOLEAN /\ subs = {}
      BY Zenon DEF TreeInit
    <3>5. crashes \in 0 .. MaxCrashes
      BY BoundsAssumption DEF TreeInit
    <3>. QED  BY <3>1, <3>2, <3>3, <3>4, <3>5 DEF TreeTypeOK
  <2>2. Incarnations /\ DynamicBelow /\ DependentsHear
    BY Names DEF TreeInit, Incarnations, DynamicBelow, DependentsHear
  <2>. QED  BY <2>1, <2>2 DEF TreeInv
<1>2. TreeInv /\ [TreeNext]_trees => TreeInv'
  <2> SUFFICES ASSUME TreeInv, [TreeNext]_trees PROVE TreeInv'
    OBVIOUS
  <2>1. CASE StartUserNode \/ StartDynamic
    BY <2>1, StartStep
  <2>2. CASE Terminates \/ (\E n \in Node : FailNode(n) \/ Kill(n)) \/ ShutDownDynamic
    BY <2>2, EndStep DEF Terminates
  <2>3. CASE \E d \in Dep : StopLater(d) \/ StartDep(d) \/ FailDep(d)
    BY <2>3, StartDepStep, EndDepStep
  <2>4. CASE \E s \in subs : Down(s)
    BY <2>4, DownStep
  <2>5. CASE CrashRegistry \/ StopNodeSup \/ RestartRegistry \/ StartNodeSup
    BY <2>5, TreeStep
  <2>6. CASE UNCHANGED trees
    BY <2>6 DEF trees, TreeInv, TreeTypeOK, Incarnations, DynamicBelow, DependentsHear
  <2>. QED  BY <2>1, <2>2, <2>3, <2>4, <2>5, <2>6 DEF TreeNext, Supervisors
<1>. QED  BY <1>1, <1>2, PTL DEF TreeSpec

\* "a HandlerRegistry crash also restarts the DynamicSupervisor" (application.ex):
\* no supervised node outlives the registry it was started with, however the
\* crashes of the registry and the shutdown of the node interleave.
THEOREM NodesRestartWithRegistry == TreeSpec => []TreeConsistent
<1>1. TreeInv => TreeConsistent
  BY DEF TreeInv, TreeConsistent, NodesFollowRegistry, DynamicBelow
<1>. QED  BY <1>1, SupervisionInvariant, PTL

\* A dependent that runs beside a running Node is subscribed to this very Node
\* (rest_for_one, init/1 of TaskTracker and Distribution.Server), whichever of
\* them crashed before and in whatever order they were stopped and restarted.
THEOREM DependentsSubscribed == TreeSpec => []DependentsHear
<1>1. TreeInv => DependentsHear
  BY DEF TreeInv
<1>. QED  BY <1>1, SupervisionInvariant, PTL
==============================================================================
