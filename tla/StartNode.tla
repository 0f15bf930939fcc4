------------------------------ MODULE StartNode ------------------------------
(***************************************************************************)
(* Starting nodes: the configuration map of Node.Config.to_nif_map read by *)
(* config.rs, the process-wide tokio runtime, the construction of the      *)
(* swarm and the spawn of its loop in start_node_inner (node.rs), and the  *)
(* outcome in lib.rs and Node.init.  Starts run on several dirty           *)
(* scheduler threads at once; each step may fail or panic.                 *)
(*                                                                         *)
(* Integers are those of a u32 of Width values.                            *)
(***************************************************************************)
EXTENDS Naturals, FiniteSets

CONSTANTS Nodes,
          Configs,    \* configuration maps: [lists, keypair, max, idle,
                      \*   flags, addrs]
          Width,      \* 2^32 in the code
          DEFAULT,    \* of each limit (128, 64, 256, 256 and 2)
          OverflowChecks, \* of the build: off in release
          MaxStarts,  \* bound on starts of a node
          None

\* The limits of a configuration map, without their prefix max_.
LimitKeys == {"pending_incoming", "pending_outgoing", "established_incoming",
              "established_outgoing", "established_per_peer"}

ASSUME StartAssumption ==
  /\ Width \in Nat \ {0}
  /\ DEFAULT \in [LimitKeys -> 0 .. Width - 1]
  /\ OverflowChecks \in BOOLEAN
  /\ None \notin Nodes

VARIABLES
  RUNTIME,    \* the OnceLock: None or the node whose runtime won
  built,      \* a runtime a start has built and not yet offered, or None
  pc,         \* the next step of each start
  config,     \* its configuration map
  swarm,      \* what has been constructed, or None
  listening,  \* addresses it listens on
  loop,       \* the runtime its loop runs on, or None
  starts      \* starts so far

vars == <<RUNTIME, built, pc, config, swarm, listening, loop, starts>>

Init ==
  /\ RUNTIME = None
  /\ built = [n \in Nodes |-> None]
  /\ pc = [n \in Nodes |-> "idle"]
  /\ config \in [Nodes -> Configs]
  /\ swarm = [n \in Nodes |-> None]
  /\ listening = [n \in Nodes |-> {}]
  /\ loop = [n \in Nodes |-> None]
  /\ starts = [n \in Nodes |-> 0]

Goto(n, l) == pc' = [pc EXCEPT ![n] = l]

\* An early return: whatever was constructed is dropped, listeners included.
\* Node.init stops with failed_to_start.
Fail(n) ==
  /\ Goto(n, "failed")
  /\ swarm' = [swarm EXCEPT ![n] = None]
  /\ listening' = [listening EXCEPT ![n] = {}]
  /\ UNCHANGED <<RUNTIME, built, config, loop, starts>>

-----------------------------------------------------------------------------
(* config.rs.                                                              *)

\* A term that does not decode as a u32 counts as absent.
get_u32(c, key) == IF c.max[key] \in 0 .. Width - 1 THEN c.max[key] ELSE DEFAULT[key]

\* Only the lists can make from_map fail.
from_map(n) ==
  /\ pc[n] = "from_map"
  /\ \/ config[n].lists = "invalid" /\ Fail(n)
     \/ /\ config[n].lists = "ok"
        /\ Goto(n, "get_runtime")
        /\ UNCHANGED <<RUNTIME, built, config, swarm, listening, loop, starts>>

-----------------------------------------------------------------------------
(* get_runtime.                                                            *)

GetRuntime(n) ==
  /\ pc[n] = "get_runtime"
  /\ Goto(n, IF RUNTIME = None THEN "build" ELSE "construct")
  /\ UNCHANGED <<RUNTIME, built, config, swarm, listening, loop, starts>>

BuildRuntime(n) ==
  /\ pc[n] = "build"
  /\ \/ Fail(n)
     \/ /\ built' = [built EXCEPT ![n] = n]
        /\ Goto(n, "set")
        /\ UNCHANGED <<RUNTIME, config, swarm, listening, loop, starts>>

\* Mutant: the check and the set are taken for one step.
SetRuntime_Overwrites(n) ==
  /\ pc[n] = "set"
  /\ RUNTIME' = built[n]
  /\ built' = [built EXCEPT ![n] = None]
  /\ Goto(n, "construct")
  /\ UNCHANGED <<config, swarm, listening, loop, starts>>

\* OnceLock::set: the first one stays, a later one is dropped.
SetRuntime(n) ==
  /\ pc[n] = "set"
  /\ RUNTIME' = IF RUNTIME = None THEN built[n] ELSE RUNTIME
  /\ built' = [built EXCEPT ![n] = None]
  /\ Goto(n, "construct")
  /\ UNCHANGED <<config, swarm, listening, loop, starts>>

-----------------------------------------------------------------------------
(* start_node_inner.                                                       *)

\* What the configuration asks for in both directions together.
Both(c) == get_u32(c, "established_incoming") + get_u32(c, "established_outgoing")

\* max_established is a sum of u32s.
limits(c) ==
  [key \in LimitKeys \cup {"established"} |->
     IF key = "established" THEN Both(c) % Width ELSE get_u32(c, key)]

Overflows(c) == Both(c) >= Width

\* The behaviours that are always there, and those behind a flag.
Always == {"identify", "ping", "gossipsub", "request_response", "relay_client",
           "tcp", "quic"}

Toggles == [mdns |-> "mdns", kademlia |-> "kademlia", relay |-> "dcutr",
            relay_server |-> "relay_server", autonat |-> "autonat",
            autonat_server |-> "autonat_server", upnp |-> "upnp",
            rendezvous_client |-> "rendezvous_client",
            rendezvous_server |-> "rendezvous_server"]

NodeBehaviour(flags) == Always \cup {Toggles[f] : f \in flags \cap DOMAIN Toggles}

\* From the keypair to the subscription of the topics.
Construct(n) ==
  LET c == config[n]
  IN  /\ pc[n] = "construct"
      /\ \/ Fail(n)    \* any of the steps with map_err
         \/ /\ c.keypair # "invalid"
            /\ Overflows(c) => ~OverflowChecks   \* else a panic
            /\ swarm' = [swarm EXCEPT ![n] =
                 [limits |-> limits(c), features |-> NodeBehaviour(c.flags)]]
            /\ Goto(n, "listen")
            /\ UNCHANGED <<RUNTIME, built, config, listening, loop, starts>>

\* Mutant: the loop is spawned before the addresses are bound.
Listen_AfterSpawn(n) ==
  /\ pc[n] = "listen"
  /\ loop' = [loop EXCEPT ![n] = RUNTIME]
  /\ \E a \in config[n].addrs : listening' = [listening EXCEPT ![n] = @ \cup {a}]
  /\ \E l \in {"spawn", "failed"} : Goto(n, l)
  /\ UNCHANGED <<RUNTIME, built, config, swarm, starts>>

\* One address after the other.
Listen(n) ==
  /\ pc[n] = "listen"
  /\ \/ Fail(n)
     \/ \E a \in config[n].addrs \ listening[n] :
          /\ listening' = [listening EXCEPT ![n] = @ \cup {a}]
          /\ IF listening'[n] = config[n].addrs THEN Goto(n, "spawn") ELSE UNCHANGED pc
          /\ UNCHANGED <<RUNTIME, built, config, swarm, loop, starts>>

Spawn(n) ==
  /\ pc[n] = "spawn"
  /\ loop' = [loop EXCEPT ![n] = RUNTIME]
  /\ Goto(n, "started")
  /\ UNCHANGED <<RUNTIME, built, config, swarm, listening, starts>>

-----------------------------------------------------------------------------
(* Node.init and its supervisor.                                           *)

\* Config.validate refuses an empty list of addresses and an idle timeout of
\* zero or less.
Start(n) ==
  /\ pc[n] \in {"idle", "failed"}
  /\ starts[n] < MaxStarts
  /\ starts' = [starts EXCEPT ![n] = @ + 1]
  /\ Goto(n, IF config[n].addrs = {} \/ config[n].idle <= 0 THEN "failed" ELSE "from_map")
  /\ UNCHANGED <<RUNTIME, built, config, swarm, listening, loop>>

\* The loop ends and drops its swarm.
Stop(n) ==
  /\ pc[n] = "started"
  /\ Goto(n, "idle")
  /\ swarm' = [swarm EXCEPT ![n] = None]
  /\ listening' = [listening EXCEPT ![n] = {}]
  /\ loop' = [loop EXCEPT ![n] = None]
  /\ UNCHANGED <<RUNTIME, built, config, starts>>

Next == \E n \in Nodes :
  \/ Start(n)
  \/ from_map(n)
  \/ GetRuntime(n)
  \/ BuildRuntime(n)
  \/ SetRuntime(n)
  \/ Construct(n)
  \/ Listen(n)
  \/ Spawn(n)
  \/ Stop(n)

Spec == Init /\ [][Next]_vars

-----------------------------------------------------------------------------
(* Properties.                                                             *)

TypeOK ==
  /\ RUNTIME \in Nodes \cup {None}
  /\ built \in [Nodes -> Nodes \cup {None}]
  /\ pc \in [Nodes -> {"idle", "from_map", "get_runtime", "build", "set", "construct",
                       "listen", "spawn", "started", "failed"}]
  /\ \A n \in Nodes : swarm[n] # None =>
       \A l \in DOMAIN swarm[n].limits : swarm[n].limits[l] \in 0 .. Width - 1
  /\ loop \in [Nodes -> Nodes \cup {None}]

\* However the starts interleave, all loops run on the one runtime of the
\* OnceLock, so none runs on a runtime that somebody drops.
OneRuntime == \A n \in Nodes : loop[n] # None => loop[n] = RUNTIME

\* A runtime that lost the race does not stay behind, with its threads, when
\* the starts are over.
LoserDropped ==
  (\A n \in Nodes : pc[n] \in {"idle", "started", "failed"}) =>
    \A n \in Nodes : built[n] = None

\* A start that failed, at whatever step, leaves neither a loop nor an open
\* listener behind, so that the supervisor's retry finds its ports free.
FailedStartLeavesNothing ==
  \A n \in Nodes : pc[n] = "failed" => loop[n] = None /\ listening[n] = {}

\* Starts leave no litter: neither the runtime that lost the race nor anything
\* of a start that failed.
StartsClean == TypeOK /\ LoserDropped /\ FailedStartLeavesNothing

\* "cap the node's footprint and are non-negotiable" (config/network.ex): the
\* total admits as many connections as each direction does.  It fails: in a
\* build without overflow checks the sum wraps to a smaller total.
TotalCoversBoth ==
  \A n \in Nodes : swarm[n] # None =>
    \A key \in {"established_incoming", "established_outgoing"} :
      swarm[n].limits[key] <= swarm[n].limits.established

\* "| WebSocket | Yes | SwarmBuilder | Config | `enable_websocket` flag |"
\* (ARCHITECTURE.md:566): a running node has every feature whose flag is set.
FlagsHonoured ==
  \A n \in Nodes : loop[n] # None =>
    \A f \in config[n].flags :
      (IF f \in DOMAIN Toggles THEN Toggles[f] ELSE f) \in swarm[n].features
===============================================================================
