------------------------------ MODULE Counters ------------------------------
(***************************************************************************)
(* The telemetry counters (telemetry/counters.ex): a GenServer that        *)
(* attaches a handler to the library's telemetry events and counts them by *)
(* result.  The handler runs in the process that executes the event and    *)
(* casts to the pid of the counter that attached it; the table of handlers *)
(* is telemetry's and outlives a counter that is killed.                   *)
(***************************************************************************)
EXTENDS Naturals, Sequences, FiniteSets

CONSTANTS MaxStarts,  \* bound: incarnations of the counter
          MaxEvents,  \* bound: events executed by other processes
          MaxCalls    \* bound: calls of reset and exit signals in all

ASSUME CountersAssumption ==
  MaxStarts \in Nat \ {0} /\ MaxEvents \in Nat /\ MaxCalls \in Nat

Inc    == 1 .. MaxStarts
Event  == {"span", "check", "check_failed"}   \* of Telemetry.event_names/0
Result == {"ok", "error", "none"}             \* the :result of the metadata
Key    == Event \X {"ok", "error", "unknown"}
Msg    == [msg : {"increment"}, key : Key] \cup [msg : {"reset", "exit"}]

VARIABLES
  gen,       \* incarnations started
  state,     \* "down", "attached" (init/1 before trap_exit) or "up"
  handlers,  \* incarnations whose handler is in telemetry's table
  inbox,     \* mailbox of the current incarnation, oldest first
  counts,    \* key -> count
  hid,       \* handler_id kept in counts, 0 when it is not there
  killed,    \* incarnations that ended without terminate/2 (history)
  fired,     \* key -> events executed since the start or the last reset (history)
  events, calls

counters == <<gen, state, handlers, inbox, counts, hid, killed, fired, events, calls>>

Zero == [k \in Key |-> 0]

Queued(k) == Cardinality({i \in DOMAIN inbox : inbox[i].msg = "increment" /\ inbox[i].key = k})

CountersInit ==
  /\ gen = 0 /\ state = "down" /\ handlers = {} /\ inbox = <<>>
  /\ counts = Zero /\ hid = 0 /\ killed = {} /\ fired = Zero
  /\ events = 0 /\ calls = 0

-----------------------------------------------------------------------------
(* init/1: attach under a fresh id, then trap exits.                       *)

Attach ==
  /\ state = "down" /\ gen < MaxStarts
  /\ gen' = gen + 1 /\ state' = "attached"
  /\ handlers' = handlers \cup {gen + 1}
  /\ inbox' = <<>> /\ counts' = Zero /\ hid' = gen + 1 /\ fired' = Zero
  /\ UNCHANGED <<killed, events, calls>>

TrapExit ==
  /\ state = "attached" /\ state' = "up"
  /\ UNCHANGED <<gen, handlers, inbox, counts, hid, killed, fired, events, calls>>

-----------------------------------------------------------------------------
(* A process executes an event: every handler in the table casts to its    *)
(* counter; a cast to a pid that has ended is lost.                        *)

\* Mutant: the handlers cast to the name of the counter, not to its pid.
Casts_ByName == IF state = "down" THEN 0 ELSE Cardinality(handlers)

Casts == IF state # "down" /\ gen \in handlers THEN 1 ELSE 0

result_tag(r) == IF r \in {"ok", "error"} THEN r ELSE "unknown"

handle_event(e, r) ==
  inbox' = inbox \o [i \in 1 .. Casts |-> [msg |-> "increment", key |-> <<e, result_tag(r)>>]]

\* :telemetry.execute
Emit(e, r) ==
  /\ handle_event(e, r)
  /\ fired' = IF state = "down" THEN fired
                                ELSE [fired EXCEPT ![<<e, result_tag(r)>>] = @ + 1]
  /\ UNCHANGED <<gen, state, handlers, counts, hid, killed, calls>>

\* A span around a call of the Node ends.
Execute(r) == events < MaxEvents /\ events' = events + 1 /\ Emit("span", r)

\* reset/1, and the supervisor's exit signal; snapshot/1 and sync/1 only read.
Send(m) ==
  /\ state = "up"
  /\ calls < MaxCalls /\ calls' = calls + 1
  /\ inbox' = Append(inbox, [msg |-> m])
  /\ UNCHANGED <<gen, state, handlers, counts, hid, killed, fired, events>>

-----------------------------------------------------------------------------
(* The server.                                                             *)

Receive(m) == state = "up" /\ inbox # <<>> /\ Head(inbox).msg = m /\ inbox' = Tail(inbox)

HandleIncrement ==
  /\ Receive("increment")
  /\ counts' = [counts EXCEPT ![Head(inbox).key] = @ + 1]
  /\ UNCHANGED <<gen, state, handlers, hid, killed, fired, events, calls>>

\* Mutant: reset empties the map, handler_id and all.
HandleReset_DropsHandlerId ==
  /\ Receive("reset")
  /\ counts' = Zero /\ hid' = 0
  /\ fired' = [k \in Key |-> Queued(k)]
  /\ UNCHANGED <<gen, state, handlers, killed, events, calls>>

\* The counters are cleared, the handler_id beside them is kept; events that
\* were executed after the call are still in the mailbox and count.
HandleReset ==
  /\ Receive("reset")
  /\ counts' = Zero
  /\ fired' = [k \in Key |-> Queued(k)]
  /\ UNCHANGED <<gen, state, handlers, hid, killed, events, calls>>

\* terminate/2 detaches the handler it finds in its state.
Terminate ==
  /\ Receive("exit")
  /\ state' = "down"
  /\ handlers' = handlers \ {hid}
  /\ UNCHANGED <<gen, counts, hid, killed, fired, events, calls>>

\* A kill, or any exit signal before trap_exit is set.
Kill ==
  /\ state # "down"
  /\ state' = "down" /\ killed' = killed \cup {gen}
  /\ UNCHANGED <<gen, handlers, inbox, counts, hid, fired, events, calls>>

-----------------------------------------------------------------------------
CountersStep ==
  \/ Attach \/ TrapExit \/ Kill
  \/ \E r \in Result : Execute(r)
  \/ \E m \in {"reset", "exit"} : Send(m)
  \/ HandleIncrement \/ HandleReset \/ Terminate

-----------------------------------------------------------------------------
(* Properties.                                                             *)

CountersTypeOK ==
  /\ gen \in 0 .. MaxStarts /\ state \in {"down", "attached", "up"}
  /\ handlers \subseteq Inc /\ killed \subseteq Inc
  /\ inbox \in Seq(Msg)
  /\ counts \in [Key -> Nat] /\ fired \in [Key -> Nat]
  /\ hid \in 0 .. MaxStarts
  /\ events \in 0 .. MaxEvents /\ calls \in 0 .. MaxCalls

\* Every event executed while the counter runs is counted once, under its
\* name and result, also when handlers of killed predecessors are still attached and
\* when a reset overtakes nothing that was executed after it.
CountsExact ==
  state # "down" => \A k \in Key : counts[k] + Queued(k) = fired[k]

\* Only a counter that was killed leaves its handler behind: one that
\* terminates has kept its handler_id through every reset (it lives in the
\* same map as the counters) and detaches.
StoppedIsDetached ==
  \A i \in handlers : i \in killed \/ (state # "down" /\ i = gen)
=============================================================================
