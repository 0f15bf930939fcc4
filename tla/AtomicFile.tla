------------------------------ MODULE AtomicFile ------------------------------
(***************************************************************************)
(* What a storage backend promises (the atomic write contract of           *)
(* keypair/storage.ex): a write installs its whole value at one instant or *)
(* leaves the file as it was, and a read returns what the file held at one *)
(* instant, or an error.                                                               *)
(***************************************************************************)
CONSTANTS Writers, Readers, Values, None, Absent, Error

VARIABLES
  file,     \* the value in the file, or Absent
  pending,  \* the value a writer is writing, or None
  snap,     \* what a reader has begun to read: {} or {what the file held}
  got       \* the result of a reader's last read

vars == <<file, pending, snap, got>>

Init ==
  /\ file \in Values \cup {Absent}
  /\ pending = [w \in Writers |-> None]
  /\ snap = [r \in Readers |-> {}]
  /\ got = [r \in Readers |-> None]

Begin(w, v) ==
  /\ pending[w] = None
  /\ pending' = [pending EXCEPT ![w] = v]
  /\ UNCHANGED <<file, snap, got>>

Install(w) ==
  /\ pending[w] # None
  /\ file' = pending[w]
  /\ pending' = [pending EXCEPT ![w] = None]
  /\ UNCHANGED <<snap, got>>

\* The write fails, or its process is killed.
GiveUp(w) ==
  /\ pending[w] # None
  /\ pending' = [pending EXCEPT ![w] = None]
  /\ UNCHANGED <<file, snap, got>>

Look(r) ==
  /\ snap[r] = {}
  /\ snap' = [snap EXCEPT ![r] = {file}]
  /\ UNCHANGED <<file, pending, got>>

Return(r) ==
  /\ snap[r] # {}
  /\ snap' = [snap EXCEPT ![r] = {}]
  /\ \E v \in snap[r] : got' = [got EXCEPT ![r] = v]
  /\ UNCHANGED <<file, pending>>

ReadAbsent(r) ==
  /\ snap[r] = {}
  /\ file = Absent
  /\ got' = [got EXCEPT ![r] = Absent]
  /\ UNCHANGED <<file, pending, snap>>

ReadFails(r) ==
  /\ snap' = [snap EXCEPT ![r] = {}]
  /\ got' = [got EXCEPT ![r] = Error]
  /\ UNCHANGED <<file, pending>>

Next ==
  \/ \E w \in Writers : Install(w) \/ GiveUp(w) \/ \E v \in Values : Begin(w, v)
  \/ \E r \in Readers : Look(r) \/ Return(r) \/ ReadAbsent(r) \/ ReadFails(r)

Spec == Init /\ [][Next]_vars
===============================================================================
