------------------------- MODULE ObservabilityProofs -------------------------
(***************************************************************************)
(* What holds of the health check and of the counters for any number of    *)
(* checks, events, resets, kills and restarts.                             *)
(*                                                                         *)
(* StreakExact is inductive once a periodic check under way is known to    *)
(* have room in the history (UnderWay).  CountsExact and StoppedIsDetached *)
(* need Attached: a counter that runs has its own handler in telemetry's   *)
(* table and still knows its id.  The rest is counting the messages of a   *)
(* mailbox (QueuedAppend, QueuedTail).                                     *)
(***************************************************************************)
EXTENDS Observability, FiniteSetTheorems, TLAPS

\* A check that the timer started will find room in the log.
UnderWay == periodic => Len(log) < MaxChecks

\* A counter that runs is attached under the id it keeps in its state.
Attached == state # "down" => gen \in handlers /\ hid = gen

HealthInv == HealthTypeOK /\ StreakExact /\ UnderWay

CountersInv == CountersTypeOK /\ Attached /\ StoppedIsDetached /\ CountsExact

IInv == HealthInv /\ CountersInv

-----------------------------------------------------------------------------
(* Counting the messages of a mailbox.                                     *)

Counted(m, k) == m.msg = "increment" /\ m.key = k

At(s, k) == {i \in DOMAIN s : Counted(s[i], k)}

\* The positions of a mailbox are finitely many.
LEMMA AtFinite ==
  ASSUME NEW s \in Seq(Msg), NEW k
  PROVE  IsFiniteSet(At(s, k)) /\ Cardinality(At(s, k)) \in Nat
<1>1. At(s, k) \subseteq 1 .. Len(s) /\ Len(s) \in Int
  BY DEF At
<1>2. IsFiniteSet(1 .. Len(s))
  BY <1>1, FS_Interval
<1>3. IsFiniteSet(At(s, k))
  BY <1>1, <1>2, FS_Subset
<1>. QED  BY <1>3, FS_CardinalityType

\* A message that arrives is one more of its key.
LEMMA QueuedAppend ==
  ASSUME NEW s \in Seq(Msg), NEW m \in Msg, NEW k
  PROVE  Cardinality(At(Append(s, m), k)) =
           Cardinality(At(s, k)) + IF Counted(m, k) THEN 1 ELSE 0
<1> DEFINE t == Append(s, m)
<1>1. /\ DOMAIN s = 1 .. Len(s) /\ DOMAIN t = 1 .. Len(s) + 1 /\ Len(s) \in Nat
      /\ t[Len(s) + 1] = m /\ \A i \in 1 .. Len(s) : t[i] = s[i]
  <2> HIDE DEF Msg
  <2>. QED  OBVIOUS
<1> HIDE DEF t
<1>2. CASE Counted(m, k)
  <2>1. At(t, k) = At(s, k) \cup {Len(s) + 1} /\ Len(s) + 1 \notin At(s, k)
    BY <1>1, <1>2 DEF At
  <2>2. Cardinality(At(s, k) \cup {Len(s) + 1}) = Cardinality(At(s, k)) + 1
    BY <2>1, AtFinite, FS_AddElement
  <2>. QED  BY <1>2, <2>1, <2>2 DEF t
<1>3. CASE ~Counted(m, k)
  <2>1. At(t, k) = At(s, k)
    BY <1>1, <1>3 DEF At
  <2>. QED  BY <1>3, <2>1, AtFinite DEF t
<1>. QED  BY <1>2, <1>3

\* A message that is taken is one less of its key.
LEMMA QueuedTail ==
  ASSUME NEW s \in Seq(Msg), s # <<>>, NEW k
  PROVE  Cardinality(At(s, k)) =
           Cardinality(At(Tail(s), k)) + IF Counted(Head(s), k) THEN 1 ELSE 0
<1> DEFINE t == Tail(s)
           S == At(t, k)
           T == At(s, k) \ {1}
           shift == [i \in S |-> i + 1]
<1>1. /\ t \in Seq(Msg) /\ Len(s) \in Nat \ {0} /\ Len(t) = Len(s) - 1
      /\ DOMAIN s = 1 .. Len(s) /\ DOMAIN t = 1 .. Len(s) - 1
      /\ s[1] = Head(s) /\ \A i \in 1 .. Len(s) - 1 : t[i] = s[i + 1]
  <2> HIDE DEF Msg
  <2>. QED  OBVIOUS
<1> HIDE DEF t
<1>2. shift \in Bijection(S, T)
  <2>1. shift \in [S -> T] /\ \A i \in S : i \in Int /\ shift[i] = i + 1
    BY <1>1 DEF At
  <2>2. shift \in Injection(S, T)
    <3> HIDE DEF S, T, shift
    <3>. QED  BY <2>1 DEF Injection, IsInjective
  <2>3. ASSUME NEW j \in T PROVE \E i \in S : shift[i] = j
    <3>1. j \in Int /\ j - 1 \in S
      BY <1>1 DEF At
    <3>. QED  BY <2>1, <3>1
  <2> HIDE DEF S, T, shift
  <2>. QED  BY <2>1, <2>2, <2>3 DEF Bijection, Surjection
<1>3. Cardinality(T) = Cardinality(S)
  <2>1. IsFiniteSet(S)
    BY <1>1, AtFinite
  <2>2. ExistsBijection(S, T)
    BY <1>2 DEF ExistsBijection
  <2> HIDE DEF S, T
  <2>. QED  BY <2>1, <2>2, FS_Bijection
<1>4. Cardinality(T) = IF 1 \in At(s, k) THEN Cardinality(At(s, k)) - 1 ELSE Cardinality(At(s, k))
  BY AtFinite, FS_RemoveElement
<1>5. 1 \in At(s, k) <=> Counted(Head(s), k)
  BY <1>1 DEF At
<1>6. Cardinality(S) \in Nat /\ Cardinality(At(s, k)) \in Nat
  BY <1>1, AtFinite
<1>7. Cardinality(At(s, k)) = Cardinality(S) + IF Counted(Head(s), k) THEN 1 ELSE 0
  <2> HIDE DEF S, T
  <2>. QED  BY <1>3, <1>4, <1>5, <1>6
<1>. QED  BY <1>7 DEF t

\* Queued, here and in the next state.
LEMMA QueuedAt ==
  ASSUME NEW k
  PROVE  Queued(k) = Cardinality(At(inbox, k)) /\ Queued(k)' = Cardinality(At(inbox', k))
  BY DEF Queued, At, Counted

-----------------------------------------------------------------------------
(* The health check.                                                       *)

\* A check ends: the streak of failures is extended or broken.
LEMMA SettleStep ==
  ASSUME HealthInv, NEW result \in {"ok", "error"}, Settle(result), node' \in {"up", "dead"}
  PROVE  HealthInv'
<1> USE DEF HealthInv
<1>0. /\ log \in Seq({"ok", "error"}) /\ failures \in Nat /\ Len(log) \in Nat
      /\ failures <= Len(log) /\ MaxChecks \in Nat
  BY HealthAssumption DEF HealthTypeOK, StreakExact
<1>1. pc' = "idle" /\ periodic' = FALSE /\ asked' = asked
  BY DEF Settle
<1>2. CASE ~periodic
  <2>1. UNCHANGED <<log, failures, timer>>
    BY <1>2 DEF Settle
  <2>. QED  BY <1>1, <2>1 DEF HealthTypeOK, StreakExact, UnderWay
<1>3. CASE periodic
  <2>1. /\ log' = Append(log, result) /\ timer' = TRUE
        /\ failures' = IF result = "ok" THEN 0 ELSE failures + 1
        /\ Len(log) < MaxChecks
    BY <1>3 DEF Settle, schedule_check, UnderWay
  <2>2. /\ log' \in Seq({"ok", "error"}) /\ Len(log') = Len(log) + 1
        /\ log'[Len(log) + 1] = result /\ \A i \in 1 .. Len(log) : log'[i] = log[i]
    BY <1>0, <2>1
  <2>3. failures' \in 0 .. MaxChecks /\ Len(log') <= MaxChecks
    BY <1>0, <2>1, <2>2
  <2>4. HealthTypeOK'
    BY <1>1, <2>1, <2>2, <2>3 DEF HealthTypeOK
  <2>5. StreakExact'
    <3>1. CASE result = "ok"
      BY <1>0, <2>1, <2>2, <3>1 DEF StreakExact
    <3>2. CASE result = "error"
      <4>1. failures' = failures + 1
        BY <2>1, <3>2
      <4>2. ASSUME NEW i \in 1 .. failures' PROVE log'[Len(log') + 1 - i] = "error"
        <5>1. CASE i = 1
          BY <1>0, <2>2, <3>2, <5>1
        <5>2. CASE i # 1
          <6>1. /\ i - 1 \in 1 .. failures /\ Len(log) + 1 - (i - 1) \in 1 .. Len(log)
                /\ Len(log') + 1 - i = Len(log) + 1 - (i - 1)
            BY <1>0, <2>2, <4>1, <5>2
          <6>. QED  BY <2>2, <6>1 DEF StreakExact
        <5>. QED  BY <5>1, <5>2
      <4>3. failures' < Len(log') => log'[Len(log') - failures'] = "ok"
        BY <1>0, <2>2, <4>1 DEF StreakExact
      <4>. QED  BY <1>0, <2>2, <4>1, <4>2, <4>3 DEF StreakExact
    <3>. QED  BY <3>1, <3>2
  <2>. QED  BY <1>1, <2>4, <2>5 DEF UnderWay
<1>. QED  BY <1>2, <1>3

\* Every step of the health check, and of the Node it asks.
LEMMA HealthKept ==
  ASSUME HealthInv, HealthStep \/ NodeChanges
  PROVE  HealthInv'
<1> USE DEF HealthInv
<1>0. \A q \in {"peer_id", "connected_peers", "listening_addrs"} :
        \E i \in DOMAIN Question : q = Question[i]
  <2>1. /\ DOMAIN Question = 1 .. 3 /\ Question[1] = "peer_id"
        /\ Question[2] = "connected_peers" /\ Question[3] = "listening_addrs"
    BY DEF Question
  <2>2. 1 \in 1 .. 3 /\ 2 \in 1 .. 3 /\ 3 \in 1 .. 3
    OBVIOUS
  <2>. QED  BY <2>1, <2>2, Zenon
<1>1. CASE HandleTimer
  <2>1. /\ pc' = "peer_id" /\ periodic' = TRUE /\ timer' = FALSE /\ Len(log) < MaxChecks
        /\ UNCHANGED <<node, failures, log, asked>>
    BY <1>1 DEF HandleTimer
  <2>2. HealthTypeOK'
    BY <1>0, <2>1 DEF HealthTypeOK
  <2>. QED  BY <2>1, <2>2 DEF StreakExact, UnderWay
<1>2. CASE HandleCheck
  <2>1. /\ pc' = "peer_id" /\ periodic' = FALSE /\ asked < MaxAsked /\ asked' = asked + 1
        /\ UNCHANGED <<node, timer, failures, log>>
    BY <1>2 DEF HandleCheck
  <2>2. asked' \in 0 .. MaxAsked
    BY <2>1, HealthAssumption DEF HealthTypeOK
  <2>3. HealthTypeOK'
    BY <1>0, <2>1, <2>2 DEF HealthTypeOK
  <2>. QED  BY <2>1, <2>3 DEF StreakExact, UnderWay
<1>3. CASE Check
  <2>1. CASE CallFails
    BY <2>1, SettleStep DEF CallFails, HealthTypeOK
  <2>2. CASE Answered
    <3>1. ASSUME Settle("ok"), UNCHANGED node PROVE HealthInv'
      BY <3>1, SettleStep DEF HealthTypeOK
    <3>2. ASSUME pc' \in {"connected_peers", "listening_addrs"}, UNCHANGED <<node, asked, server>>
          PROVE  HealthInv'
      BY <1>0, <3>2 DEF server, HealthTypeOK, StreakExact, UnderWay
    <3>. QED  BY <2>2, <3>1, <3>2 DEF Answered
  <2>3. CASE PeersRefused
    BY <2>3, SettleStep DEF PeersRefused
  <2>4. CASE AddrsRefused
    BY <2>4, SettleStep DEF AddrsRefused, HealthTypeOK
  <2>. QED  BY <1>3, <2>1, <2>2, <2>3, <2>4 DEF Check
<1>4. CASE NodeChanges
  BY <1>4 DEF NodeChanges, server, HealthTypeOK, StreakExact, UnderWay
<1>. QED  BY <1>1, <1>2, <1>3, <1>4 DEF HealthStep

-----------------------------------------------------------------------------
(* The counters.                                                           *)

\* An event is executed: one message for the counter that runs, and none for
\* the ones that were killed.
LEMMA EmitStep ==
  ASSUME CountersInv, NEW e \in Event, NEW r \in Result, Emit(e, r),
         events' \in 0 .. MaxEvents
  PROVE  CountersInv'
<1> USE DEF CountersInv
<1> DEFINE key == <<e, result_tag(r)>>
           m == [msg |-> "increment", key |-> key]
<1>1. key \in Key /\ m \in Msg
  BY DEF Key, Msg, result_tag
<1>2. UNCHANGED <<gen, state, handlers, counts, hid, killed, calls>>
  BY DEF Emit
<1>3. Attached' /\ StoppedIsDetached'
  BY <1>2 DEF Attached, StoppedIsDetached
<1>4. CASE state = "down"
  <2>1. Casts = 0
    BY <1>4 DEF Casts
  <2>2. inbox' = inbox \o [i \in 1 .. 0 |-> m] /\ fired' = fired
    BY <1>4, <2>1 DEF Emit, handle_event
  <2>3. inbox' \in Seq(Msg)
    <3> HIDE DEF m, Msg
    <3>1. [i \in 1 .. 0 |-> m] \in Seq(Msg)
      BY <1>1
    <3>. QED  BY <2>2, <3>1 DEF CountersTypeOK
  <2>4. CountersTypeOK'
    BY <1>2, <2>2, <2>3 DEF CountersTypeOK
  <2>. QED  BY <1>2, <1>3, <1>4, <2>4 DEF CountsExact
<1>5. CASE state # "down"
  <2>1. Casts = 1
    BY <1>5 DEF Casts, Attached
  <2>2. inbox' = inbox \o [i \in 1 .. 1 |-> m] /\ fired' = [fired EXCEPT ![key] = fired[key] + 1]
    BY <1>5, <2>1 DEF Emit, handle_event
  <2>3. inbox' = Append(inbox, m) /\ inbox' \in Seq(Msg)
    <3> HIDE DEF m, Msg
    <3>1. [i \in 1 .. 1 |-> m] = <<m>>
      OBVIOUS
    <3>. QED  BY <1>1, <2>2, <3>1 DEF CountersTypeOK
  <2>4. fired' \in [Key -> Nat]
    <3> HIDE DEF key
    <3>. QED  BY <1>1, <2>2 DEF CountersTypeOK
  <2>5. CountersTypeOK'
    BY <1>2, <2>3, <2>4 DEF CountersTypeOK
  <2>6. ASSUME NEW k \in Key PROVE counts[k] + Queued(k)' = fired'[k]
    <3>1. Queued(k)' = Queued(k) + IF Counted(m, k) THEN 1 ELSE 0
      <4> HIDE DEF m
      <4>. QED  BY <1>1, <2>3, QueuedAt, QueuedAppend DEF CountersTypeOK
    <3>2. Counted(m, k) <=> k = key
      BY DEF Counted
    <3>3. Queued(k) \in Nat /\ counts[k] \in Nat /\ fired[k] \in Nat
      BY QueuedAt, AtFinite DEF CountersTypeOK
    <3>4. counts[k] + Queued(k) = fired[k]
      BY <1>5 DEF CountsExact
    <3>5. fired'[k] = IF k = key THEN fired[k] + 1 ELSE fired[k]
      <4> HIDE DEF key
      <4>. QED  BY <1>1, <2>2 DEF CountersTypeOK
    <3> HIDE DEF m, key
    <3>. QED  BY <3>1, <3>2, <3>3, <3>4, <3>5
  <2>. QED  BY <1>2, <1>3, <2>5, <2>6 DEF CountsExact
<1>. QED  BY <1>4, <1>5

\* A message is taken from the mailbox.
LEMMA Received ==
  ASSUME CountersInv, NEW msg, Receive(msg)
  PROVE  /\ inbox \in Seq(Msg) /\ inbox # <<>> /\ Head(inbox) \in Msg /\ inbox' \in Seq(Msg)
         /\ Head(inbox).msg = msg /\ state = "up"
         /\ \A k \in Key : /\ Queued(k) \in Nat /\ Queued(k)' \in Nat
                           /\ Queued(k) = Queued(k)' + IF Counted(Head(inbox), k) THEN 1 ELSE 0
<1>1. inbox \in Seq(Msg) /\ inbox # <<>> /\ inbox' = Tail(inbox)
  BY DEF Receive, CountersInv, CountersTypeOK
<1>2. Head(inbox) \in Msg /\ inbox' \in Seq(Msg)
  <2> HIDE DEF Msg
  <2>. QED  BY <1>1
<1>3. ASSUME NEW k \in Key
      PROVE  /\ Queued(k) \in Nat /\ Queued(k)' \in Nat
             /\ Queued(k) = Queued(k)' + IF Counted(Head(inbox), k) THEN 1 ELSE 0
  <2>1. Queued(k) = Cardinality(At(inbox, k)) /\ Queued(k)' = Cardinality(At(inbox', k))
    BY QueuedAt
  <2>2. Cardinality(At(inbox, k)) \in Nat /\ Cardinality(At(inbox', k)) \in Nat
    BY <1>1, <1>2, AtFinite
  <2>3. Cardinality(At(inbox, k)) =
          Cardinality(At(inbox', k)) + IF Counted(Head(inbox), k) THEN 1 ELSE 0
    BY <1>1, QueuedTail
  <2>. QED  BY <2>1, <2>2, <2>3
<1>. QED  BY <1>1, <1>2, <1>3 DEF Receive

\* The counter counts, is reset, or stops in an orderly way.
LEMMA ServerStep ==
  ASSUME CountersInv, HandleIncrement \/ HandleReset \/ Terminate
  PROVE  CountersInv'
<1> USE DEF CountersInv
<1>1. CASE HandleIncrement
  <2> DEFINE key == Head(inbox).key
  <2>1. /\ counts' = [counts EXCEPT ![key] = counts[key] + 1]
        /\ UNCHANGED <<gen, state, handlers, hid, killed, fired, events, calls>>
    BY <1>1 DEF HandleIncrement
  <2>2. /\ inbox' \in Seq(Msg) /\ Head(inbox) \in Msg /\ Head(inbox).msg = "increment"
        /\ state = "up"
        /\ \A k \in Key : /\ Queued(k) \in Nat /\ Queued(k)' \in Nat
                          /\ Queued(k) = Queued(k)' + IF Counted(Head(inbox), k) THEN 1 ELSE 0
    BY <1>1, Received DEF HandleIncrement
  <2>3. key \in Key /\ \A k : Counted(Head(inbox), k) <=> k = key
    BY <2>2 DEF Msg, Counted
  <2> HIDE DEF key
  <2>4. counts' \in [Key -> Nat]
    BY <2>1, <2>3 DEF CountersTypeOK
  <2>5. CountersTypeOK'
    BY <2>1, <2>2, <2>4 DEF CountersTypeOK
  <2>6. ASSUME NEW k \in Key PROVE counts'[k] + Queued(k)' = fired[k]
    <3>1. counts'[k] = IF k = key THEN counts[k] + 1 ELSE counts[k]
      BY <2>1, <2>3 DEF CountersTypeOK
    <3>2. counts[k] + Queued(k) = fired[k] /\ counts[k] \in Nat
      BY <2>2 DEF CountsExact, CountersTypeOK
    <3>. QED  BY <2>2, <2>3, <3>1, <3>2
  <2>. QED  BY <2>1, <2>5, <2>6 DEF Attached, StoppedIsDetached, CountsExact
<1>2. CASE HandleReset
  <2>1. /\ counts' = Zero /\ fired' = [k \in Key |-> Queued(k)]
        /\ UNCHANGED <<gen, state, handlers, hid, killed, events, calls>>
    BY <1>2 DEF HandleReset
  <2>2. /\ inbox' \in Seq(Msg) /\ Head(inbox).msg = "reset"
        /\ \A k \in Key : /\ Queued(k) \in Nat /\ Queued(k)' \in Nat
                          /\ Queued(k) = Queued(k)' + IF Counted(Head(inbox), k) THEN 1 ELSE 0
    BY <1>2, Received DEF HandleReset
  <2>3. \A k : ~Counted(Head(inbox), k)
    BY <2>2 DEF Counted
  <2>4. counts' \in [Key -> Nat] /\ fired' \in [Key -> Nat] /\ \A k \in Key : counts'[k] = 0
    BY <2>1, <2>2 DEF Zero
  <2>5. CountersTypeOK'
    BY <2>1, <2>2, <2>4 DEF CountersTypeOK
  <2>6. ASSUME NEW k \in Key PROVE counts'[k] + Queued(k)' = fired'[k]
    BY <2>1, <2>2, <2>3, <2>4
  <2>. QED  BY <2>1, <2>5, <2>6 DEF Attached, StoppedIsDetached, CountsExact
<1>3. CASE Terminate
  <2>1. /\ state' = "down" /\ handlers' = handlers \ {hid}
        /\ UNCHANGED <<gen, counts, hid, killed, fired, events, calls>>
    BY <1>3 DEF Terminate
  <2>2. inbox' \in Seq(Msg) /\ state = "up"
    BY <1>3, Received DEF Terminate
  <2>3. CountersTypeOK'
    BY <2>1, <2>2 DEF CountersTypeOK
  <2>. QED  BY <2>1, <2>2, <2>3 DEF Attached, StoppedIsDetached, CountsExact
<1>. QED  BY <1>1, <1>2, <1>3

\* The counter starts, and is killed.
LEMMA LifeStep ==
  ASSUME CountersInv, Attach \/ TrapExit \/ Kill
  PROVE  CountersInv'
<1> USE DEF CountersInv
<1>1. CASE Attach
  <2>1. /\ state = "down" /\ gen < MaxStarts
        /\ gen' = gen + 1 /\ state' = "attached" /\ handlers' = handlers \cup {gen + 1}
        /\ inbox' = <<>> /\ counts' = Zero /\ hid' = gen + 1 /\ fired' = Zero
        /\ UNCHANGED <<killed, events, calls>>
    BY <1>1 DEF Attach
  <2>2. gen' \in Inc /\ gen' \in 0 .. MaxStarts
    BY <2>1, CountersAssumption DEF CountersTypeOK, Inc
  <2>3. Zero \in [Key -> Nat] /\ \A k \in Key : Zero[k] = 0
    BY DEF Zero
  <2>4. CountersTypeOK'
    BY <2>1, <2>2, <2>3 DEF CountersTypeOK
  <2>5. ASSUME NEW k \in Key PROVE counts'[k] + Queued(k)' = fired'[k]
    <3>1. At(<<>>, k) = {}
      BY DEF At
    <3>2. Queued(k)' = 0
      BY <2>1, <3>1, QueuedAt, FS_EmptySet
    <3>. QED  BY <2>1, <2>3, <3>2
  <2>. QED  BY <2>1, <2>4, <2>5 DEF Attached, StoppedIsDetached, CountsExact
<1>2. CASE TrapExit
  <2>1. /\ state = "attached" /\ state' = "up"
        /\ UNCHANGED <<gen, handlers, inbox, counts, hid, killed, fired, events, calls>>
    BY <1>2 DEF TrapExit
  <2>. QED
    BY <2>1 DEF CountersTypeOK, Attached, StoppedIsDetached, CountsExact, Queued
<1>3. CASE Kill
  <2>1. /\ state # "down" /\ state' = "down" /\ killed' = killed \cup {gen}
        /\ UNCHANGED <<gen, handlers, inbox, counts, hid, fired, events, calls>>
    BY <1>3 DEF Kill
  <2>2. CountersTypeOK'
    BY <2>1 DEF CountersTypeOK, Attached
  <2>. QED  BY <2>1, <2>2 DEF Attached, StoppedIsDetached, CountsExact
<1>. QED  BY <1>1, <1>2, <1>3

\* reset/1 is called, or an exit signal is sent.
LEMMA SendStep ==
  ASSUME CountersInv, NEW m \in {"reset", "exit"}, Send(m)
  PROVE  CountersInv'
<1> USE DEF CountersInv
<1> DEFINE r == [msg |-> m]
<1>1. /\ calls < MaxCalls /\ calls' = calls + 1 /\ inbox' = Append(inbox, r)
      /\ UNCHANGED <<gen, state, handlers, counts, hid, killed, fired, events>>
  BY DEF Send
<1>2. r \in Msg /\ \A k : ~Counted(r, k)
  BY DEF Msg, Counted
<1>3. inbox' \in Seq(Msg)
  <2> HIDE DEF r, Msg
  <2>. QED  BY <1>1, <1>2 DEF CountersTypeOK
<1>4. calls' \in 0 .. MaxCalls
  BY <1>1, CountersAssumption DEF CountersTypeOK
<1>5. CountersTypeOK'
  BY <1>1, <1>3, <1>4 DEF CountersTypeOK
<1>6. ASSUME NEW k \in Key PROVE Queued(k)' = Queued(k)
  <2> HIDE DEF r
  <2>1. Queued(k)' = Queued(k) + 0
    BY <1>1, <1>2, QueuedAt, QueuedAppend DEF CountersTypeOK
  <2>2. Queued(k) \in Nat
    BY QueuedAt, AtFinite DEF CountersTypeOK
  <2>. QED  BY <2>1, <2>2
<1>. QED  BY <1>1, <1>5, <1>6 DEF Attached, StoppedIsDetached, CountsExact

-----------------------------------------------------------------------------
(* Theorems.                                                               *)

\* The inductive invariant holds in every reachable state of the two together.
THEOREM ObservabilityInvariant == Spec => []IInv
<1>1. Init => IInv
  <2> SUFFICES ASSUME Init PROVE IInv
    OBVIOUS
  <2>1. HealthTypeOK
    <3>1. periodic \in BOOLEAN /\ timer \in BOOLEAN
      BY Zenon DEF Init, HealthInit
    <3>2. log \in Seq({"ok", "error"}) /\ Len(log) = 0
      BY DEF Init, HealthInit
    <3>. QED  BY <3>1, <3>2, HealthAssumption DEF Init, HealthInit, HealthTypeOK
  <2>2. StreakExact /\ UnderWay
    BY DEF Init, HealthInit, StreakExact, UnderWay
  <2>3. CountersTypeOK
    BY CountersAssumption DEF Init, CountersInit, CountersTypeOK, Zero
  <2>4. Attached /\ StoppedIsDetached /\ CountsExact
    BY DEF Init, CountersInit, Attached, StoppedIsDetached, CountsExact
  <2>. QED  BY <2>1, <2>2, <2>3, <2>4 DEF IInv, HealthInv, CountersInv
<1>2. IInv /\ [Next]_vars => IInv'
  <2> SUFFICES ASSUME IInv, [Next]_vars PROVE IInv'
    OBVIOUS
  <2> USE DEF IInv
  <2>1. UNCHANGED health => HealthInv'
    BY DEF health, server, HealthInv, HealthTypeOK, StreakExact, UnderWay
  <2>2. UNCHANGED counters => CountersInv'
    BY DEF counters, CountersInv, CountersTypeOK, Attached, StoppedIsDetached, CountsExact, Queued
  <2>3. CASE HealthStep /\ Observed
    <3>1. HealthInv'
      BY <2>3, HealthKept
    <3>2. ASSUME Emit(event_name, "none"), UNCHANGED events PROVE CountersInv'
      <4>1. event_name \in Event /\ "none" \in Result
        BY DEF event_name, Event, Result
      <4>2. events' \in 0 .. MaxEvents
        BY <3>2 DEF CountersInv, CountersTypeOK
      <4> HIDE DEF event_name
      <4>. QED  BY <3>2, <4>1, <4>2, EmitStep
    <3>. QED  BY <2>2, <2>3, <3>1, <3>2 DEF Observed
  <2>4. CASE NodeChanges /\ UNCHANGED counters
    BY <2>2, <2>4, HealthKept
  <2>5. CASE CountersStep /\ UNCHANGED health
    <3>1. ASSUME NEW r \in Result, Execute(r) PROVE CountersInv'
      <4>1. events' \in 0 .. MaxEvents /\ Emit("span", r)
        BY <3>1, CountersAssumption DEF Execute, CountersInv, CountersTypeOK
      <4>2. "span" \in Event
        BY DEF Event
      <4>. QED  BY <4>1, <4>2, EmitStep
    <3>. QED  BY <2>1, <2>5, <3>1, LifeStep, SendStep, ServerStep DEF CountersStep
  <2>6. CASE UNCHANGED vars
    BY <2>1, <2>2, <2>6 DEF vars
  <2>. QED  BY <2>3, <2>4, <2>5, <2>6 DEF Next
<1>. QED  BY <1>1, <1>2, PTL DEF Spec

\* Counters reports every event executed while it runs once and only once, also
\* when handlers of killed predecessors are attached beside its own (they cast to
\* pids that have ended) and when a reset is under way.
THEOREM EventsCountedOnce == Spec => []CountsExact
<1>1. IInv => CountsExact
  BY DEF IInv, CountersInv
<1>. QED  BY <1>1, ObservabilityInvariant, PTL

\* consecutive_failures is the streak of failed periodic checks, whatever check/1
\* found in between, and telemetry's table holds no handler of a counter that
\* was stopped in an orderly way.
THEOREM ObserversSound == Spec => []ObserversConsistent
<1>1. IInv => ObserversConsistent
  BY DEF IInv, HealthInv, CountersInv, ObserversConsistent, TypeOK
<1>. QED  BY <1>1, ObservabilityInvariant, PTL
=============================================================================
