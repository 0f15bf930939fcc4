------------------------------- MODULE Health -------------------------------
(***************************************************************************)
(* The health check (health.ex): a GenServer that asks its Node three      *)
(* questions on a timer, and whenever somebody calls check/1, while the    *)
(* Node crashes and comes back and its command channel fills and empties   *)
(* between the questions (node/network_ops.ex answers them).               *)
(* Observability composes it with the counters of the events it executes.  *)
(***************************************************************************)
EXTENDS Naturals, Sequences

CONSTANTS MaxChecks,  \* bound: periodic checks
          MaxAsked    \* bound: calls of check/1

ASSUME HealthAssumption == MaxChecks \in Nat \ {0} /\ MaxAsked \in Nat

VARIABLES
  node,      \* the Node GenServer: "up" or "dead"
  pc,        \* the next question, or "idle"
  periodic,  \* the check under way was started by the timer
  timer,     \* a :check is scheduled or in the mailbox
  failures,  \* consecutive_failures
  log,       \* outcomes of the periodic checks, oldest first (history)
  asked      \* calls of check/1

server == <<periodic, timer, failures, log>>
health == <<node, pc, asked, server>>

Question == <<"peer_id", "connected_peers", "listening_addrs">>

HealthInit ==
  /\ node = "up" /\ pc = "idle" /\ periodic = FALSE
  /\ timer = TRUE /\ failures = 0 /\ log = <<>> /\ asked = 0

-----------------------------------------------------------------------------
(* The start of a check.                                                   *)

HandleTimer ==
  /\ pc = "idle" /\ timer /\ Len(log) < MaxChecks
  /\ pc' = "peer_id" /\ periodic' = TRUE /\ timer' = FALSE
  /\ UNCHANGED <<node, failures, log, asked>>

HandleCheck ==
  /\ pc = "idle" /\ asked < MaxAsked
  /\ pc' = "peer_id" /\ periodic' = FALSE /\ asked' = asked + 1
  /\ UNCHANGED <<node, timer, failures, log>>

-----------------------------------------------------------------------------
(* The end of a check.                                                     *)

schedule_check == timer' = TRUE

\* Mutant: the failure branch does not schedule the next check.
Settle_NoReschedule(result) ==
  /\ pc' = "idle" /\ periodic' = FALSE
  /\ IF periodic
     THEN /\ log' = Append(log, result)
          /\ failures' = IF result = "ok" THEN 0 ELSE failures + 1
          /\ timer' = (result = "ok")
     ELSE UNCHANGED <<log, failures, timer>>
  /\ UNCHANGED asked

\* Only a periodic check counts failures and schedules the next one.
Settle(result) ==
  /\ pc' = "idle" /\ periodic' = FALSE
  /\ IF periodic
     THEN /\ log' = Append(log, result)
          /\ failures' = IF result = "ok" THEN 0 ELSE failures + 1
          /\ schedule_check
     ELSE UNCHANGED <<log, failures, timer>>
  /\ UNCHANGED asked

\* safe_call turned an exit into an error: no such process, or no answer
\* within @check_timeout, which a busy Node may exceed at any time.
CallFails ==
  /\ pc # "idle"
  /\ Settle("error")
  /\ UNCHANGED node

\* The Node answers from its state, or after a query that was answered.
Answered ==
  /\ node = "up" /\ UNCHANGED node
  /\ \/ pc = "peer_id" /\ pc' = "connected_peers" /\ UNCHANGED <<asked, server>>
     \/ pc = "connected_peers" /\ pc' = "listening_addrs" /\ UNCHANGED <<asked, server>>
     \/ pc = "listening_addrs" /\ Settle("ok")

\* The channel is full or closed.  connected_peers maps over the error tuple:
\* the Node ends, and its caller meets an exit that safe_call catches.
PeersRefused ==
  /\ pc = "connected_peers" /\ node = "up"
  /\ node' = "dead"
  /\ Settle("error")

\* listening_addrs wraps the error tuple, {:ok, {:error, reason}}, and the check
\* succeeds.
AddrsRefused ==
  /\ pc = "listening_addrs" /\ node = "up"
  /\ Settle("ok")
  /\ UNCHANGED node

-----------------------------------------------------------------------------
(* The Node ends and its supervisor starts it again.                       *)

NodeChanges ==
  /\ node' \in {"up", "dead"} \ {node}
  /\ UNCHANGED <<pc, asked, server>>

-----------------------------------------------------------------------------
Check == CallFails \/ Answered \/ PeersRefused \/ AddrsRefused

HealthStep == HandleTimer \/ HandleCheck \/ Check

-----------------------------------------------------------------------------
(* Properties.                                                             *)

HealthTypeOK ==
  /\ node \in {"up", "dead"}
  /\ pc = "idle" \/ \E i \in DOMAIN Question : pc = Question[i]
  /\ periodic \in BOOLEAN /\ timer \in BOOLEAN
  /\ failures \in 0 .. MaxChecks
  /\ log \in Seq({"ok", "error"}) /\ Len(log) <= MaxChecks
  /\ asked \in 0 .. MaxAsked

\* consecutive_failures, reported with every failure, is the length of the
\* current run of failed periodic checks, whatever check/1 found in between.
StreakExact ==
  /\ failures <= Len(log)
  /\ \A i \in 1 .. failures : log[Len(log) + 1 - i] = "error"
  /\ failures < Len(log) => log[Len(log) - failures] = "ok"

\* "the health check continues running even if a single check fails"
\* (health.ex:5-7): every check comes to an end, and another periodic check
\* always follows.
ChecksGoOn == []<>(Len(log) = MaxChecks) /\ (pc # "idle" ~> pc = "idle" /\ timer)
=============================================================================
