--------------------------- MODULE InboundRequests ---------------------------
(***************************************************************************)
(* What a node promises to the peers that send it requests, whatever goes  *)
(* on inside: a request is taken up or turned away; once taken up it is    *)
(* answered once, with the answer made for it, or its channel is dropped,  *)
(* or the peer goes away first.  Each of these is final.                   *)
(***************************************************************************)
CONSTANTS Req, NoAnswer

VARIABLES req,    \* request -> new, held, gone, answered or dropped
          answer  \* request -> the request its answer was made for

vars == <<req, answer>>

Init ==
  /\ req = [r \in Req |-> "new"]
  /\ answer = [r \in Req |-> NoAnswer]

TakeUp(r) ==
  /\ req[r] = "new"
  /\ req' = [req EXCEPT ![r] = "held"]
  /\ UNCHANGED answer

TurnAway(r) ==
  /\ req[r] = "new"
  /\ req' = [req EXCEPT ![r] = "dropped"]
  /\ UNCHANGED answer

Answer(r) ==
  /\ req[r] = "held"
  /\ req' = [req EXCEPT ![r] = "answered"]
  /\ answer' = [answer EXCEPT ![r] = r]

\* Channels are dropped together when they expire or the node ends.
Drop(rs) ==
  /\ \A r \in rs : req[r] = "held"
  /\ req' = [r \in Req |-> IF r \in rs THEN "dropped" ELSE req[r]]
  /\ UNCHANGED answer

Leave(r) ==
  /\ req[r] = "held"
  /\ req' = [req EXCEPT ![r] = "gone"]
  /\ UNCHANGED answer

Next ==
  \/ \E r \in Req : TakeUp(r) \/ TurnAway(r) \/ Answer(r) \/ Leave(r)
  \/ \E rs \in SUBSET Req : Drop(rs)

Spec == Init /\ [][Next]_vars
=============================================================================
