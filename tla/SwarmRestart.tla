----------------------------- MODULE SwarmRestart -----------------------------
(***************************************************************************)
(* A node that its supervisor restarts.  The new incarnation has a new     *)
(* swarm loop, whose channel_counter starts again at zero (node.rs:402),   *)
(* while the application keeps the channel ids it was given before and     *)
(* addresses the node by name (RequestResponse.send_response takes any     *)
(* GenServer.server()).                                                    *)
(***************************************************************************)
EXTENDS SwarmLoop

CONSTANT MaxRestarts  \* bound: restarts in all

VARIABLE restarts

InitRestart == Init /\ restarts = 0

\* init/1 of the new GenServer runs start_node_inner: a new loop, channel and
\* handle.  The requests of peers and what the application has seen remain.
Restart ==
  /\ node = "down"
  /\ ~handleLive
  /\ loop = "exited"
  /\ restarts < MaxRestarts
  /\ restarts' = restarts + 1
  /\ chan' = <<>>
  /\ handleLive' = TRUE
  /\ loop' = "running"
  /\ event_handler' = FALSE
  /\ pending' = [c \in {} |-> 0]
  /\ counter' = 0
  /\ node' = "starting"
  /\ waiting' = "none"
  /\ crashed' = FALSE
  /\ UNCHANGED network

NextRestart == (Next /\ UNCHANGED restarts) \/ Restart

SpecRestart == InitRestart /\ [][NextRestart]_<<vars, restarts>>
=============================================================================
