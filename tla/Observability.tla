---------------------------- MODULE Observability ----------------------------
(***************************************************************************)
(* The health check and the counters side by side: a periodic check        *)
(* executes a telemetry event, whose handler, run by Health itself, casts  *)
(* to the counter that has attached it.                                    *)
(***************************************************************************)
EXTENDS Health, Counters

vars == <<health, counters>>

Init == HealthInit /\ CountersInit

\* handle_info(:check) ends with one of two events; check/1 has none.
Executes == log' # log

event_name == IF log'[Len(log')] = "ok" THEN "check" ELSE "check_failed"

Observed ==
  \/ Executes /\ Emit(event_name, "none") /\ UNCHANGED events
  \/ ~Executes /\ UNCHANGED counters

Next ==
  \/ HealthStep /\ Observed
  \/ NodeChanges /\ UNCHANGED counters
  \/ CountersStep /\ UNCHANGED health

\* Timers fire, and every safe_call returns: with an answer or after its
\* timeout, whatever the Node does.
Spec ==
  /\ Init /\ [][Next]_vars
  /\ WF_vars(HandleTimer /\ Observed) /\ WF_vars(Check /\ Observed)

TypeOK == HealthTypeOK /\ CountersTypeOK

\* Both observers report the truth about their past, whatever died or was reset:
\* the streak is that of the checks made, and telemetry's table holds only the
\* handlers of the running counter and of killed ones.
ObserversConsistent == TypeOK /\ StreakExact /\ StoppedIsDetached
=============================================================================
