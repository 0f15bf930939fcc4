----------------------------- MODULE Distribution -----------------------------
(***************************************************************************)
(* Calls between GenServers over libp2p: the client functions call, cast   *)
(* and send (otp/distribution.ex), the Node that sends their requests, and *)
(* the server that answers them (otp/distribution_server.ex).              *)
(*                                                                         *)
(* All three ask the Node with safe_call (call.ex): the Node hands the     *)
(* request to the swarm or answers with an error, or safe_call gives up    *)
(* while the request stays in the Node's mailbox and is sent later.        *)
(*                                                                         *)
(* Every process that calls is registered for outbound_response (without   *)
(* that a call can only time out), and the HandlerRegistry sends each      *)
(* response to all of them.  call takes the first response in its mailbox  *)
(* and does not look at the request id; a cast or a send is answered too,  *)
(* and nobody takes that answer.  A request or its response may be lost:   *)
(* the failure events go to other subscribers and a call then times out.   *)
(***************************************************************************)
EXTENDS Naturals, Sequences, FiniteSets

CONSTANTS Caller,      \* calling processes, all on one node
          MaxRequests  \* bound: requests made in all

ASSUME MaxRequestsAssumption == MaxRequests \in Nat

VARIABLES
  waiting,  \* caller -> id of the request that it asks the Node to send, or
            \* whose response it waits for, or 0
  mailbox,  \* caller -> ids of the responses in its mailbox, oldest first
  sent,     \* id -> [caller, kind], for every request made so far
  outcome,  \* id -> how the call or cast ended, or Open
  queue,    \* requests in the mailbox of the Node, oldest first
  wire,     \* requests on their way to the server
  inbox,    \* inbound_request events in the server's mailbox
  replies   \* responses on their way back

vars == <<waiting, mailbox, sent, outcome, queue, wire, inbox, replies>>

Id == 1 .. MaxRequests

\* Outcomes: the id of the response that a call took, or one of these.
Open     == 0                \* a call that waits, or a cast that was sent
TimedOut == MaxRequests + 1  \* {:error, :timeout}
Refused  == MaxRequests + 2  \* the Node answered with an error
GaveUp   == MaxRequests + 3  \* safe_call did, and returned node_unavailable
Outcome  == Id \cup {Open, TimedOut, Refused, GaveUp}

\* x is in the mailbox s.
Holds(s, x) == \E a \in DOMAIN s : s[a] = x

Init ==
  /\ waiting = [c \in Caller |-> 0]
  /\ mailbox = [c \in Caller |-> <<>>]
  /\ sent = <<>>
  /\ outcome = <<>>
  /\ queue = <<>>
  /\ wire = {}
  /\ inbox = <<>>
  /\ replies = {}

-----------------------------------------------------------------------------
(* The client and the Node.                                                *)

\* RequestResponse.send_request: a safe_call to the Node, which blocks.
SendRequest(c, kind) ==
  /\ waiting[c] = 0
  /\ Len(sent) < MaxRequests
  /\ sent' = Append(sent, [caller |-> c, kind |-> kind])
  /\ outcome' = Append(outcome, Open)
  /\ queue' = Append(queue, Len(sent) + 1)
  /\ waiting' = [waiting EXCEPT ![c] = Len(sent) + 1]
  /\ UNCHANGED <<mailbox, wire, inbox, replies>>

\* call: send_request, then receive.
Call(c) == SendRequest(c, "call")

\* cast and send: send_request and no more.
OneWay(c) == SendRequest(c, "oneway")

\* The function that c is in returns.
Return(c, v) ==
  /\ outcome' = [outcome EXCEPT ![waiting[c]] = v]
  /\ waiting' = [waiting EXCEPT ![c] = 0]

\* The Node hands the request to the swarm and answers {:ok, id}: cast and send
\* return, call goes on to its receive.  A caller that has given up is gone.
HandleSend ==
  /\ queue # <<>>
  /\ LET i == Head(queue)
         c == sent[i].caller
     IN  /\ queue' = Tail(queue)
         /\ wire' = wire \cup {i}
         /\ \/ /\ waiting[c] = i /\ sent[i].kind = "oneway"
               /\ waiting' = [waiting EXCEPT ![c] = 0]
            \/ /\ waiting[c] # i \/ sent[i].kind = "call"
               /\ UNCHANGED waiting
  /\ UNCHANGED <<mailbox, sent, outcome, inbox, replies>>

\* Mutant: the request for which the Node reports an error is sent after all.
RefuseSend_StillSent ==
  /\ queue # <<>>
  /\ LET i == Head(queue)
         c == sent[i].caller
     IN  /\ queue' = Tail(queue)
         /\ wire' = wire \cup {i}
         /\ \/ waiting[c] = i /\ Return(c, Refused)
            \/ waiting[c] # i /\ UNCHANGED <<waiting, outcome>>
  /\ UNCHANGED <<mailbox, sent, inbox, replies>>

\* The Node answers {:error, _} and sends nothing: a full command channel, a
\* stopped loop, a peer id that does not parse; or it is dead.  call then
\* returns {:error, :unreachable}, cast and send do not look.
RefuseSend ==
  /\ queue # <<>>
  /\ LET i == Head(queue)
         c == sent[i].caller
     IN  /\ queue' = Tail(queue)
         /\ \/ waiting[c] = i /\ Return(c, Refused)
            \/ waiting[c] # i /\ UNCHANGED <<waiting, outcome>>
  /\ UNCHANGED <<mailbox, sent, wire, inbox, replies>>

\* The 15 s of safe_call are over, or the Node dies, before the Node has
\* answered: call returns {:error, :unreachable} like for a refusal, but the
\* request stays where it is, and the Node may still send it.
GiveUp(c) ==
  /\ waiting[c] # 0 /\ Holds(queue, waiting[c])
  /\ Return(c, GaveUp)
  /\ UNCHANGED <<mailbox, sent, queue, wire, inbox, replies>>

\* c is in the receive of call.
Receiving(c) == waiting[c] # 0 /\ ~Holds(queue, waiting[c])

\* The receive of call matches any outbound_response and takes the oldest.
ReceiveResponse(c) ==
  /\ Receiving(c)
  /\ mailbox[c] # <<>>
  /\ Return(c, Head(mailbox[c]))
  /\ mailbox' = [mailbox EXCEPT ![c] = Tail(@)]
  /\ UNCHANGED <<sent, queue, wire, inbox, replies>>

\* Mutant: receive without its after clause.
Timeout_Never(c) ==
  /\ FALSE
  /\ UNCHANGED <<waiting, mailbox, sent, outcome, queue, wire, inbox, replies>>

\* Nothing has come in time.  The request is not withdrawn.
Timeout(c) ==
  /\ Receiving(c)
  /\ mailbox[c] = <<>>
  /\ Return(c, TimedOut)
  /\ UNCHANGED <<mailbox, sent, queue, wire, inbox, replies>>

-----------------------------------------------------------------------------
(* The network and the server.                                             *)

Arrive(i) ==
  /\ i \in wire
  /\ wire' = wire \ {i}
  /\ inbox' = Append(inbox, i)
  /\ UNCHANGED <<waiting, mailbox, sent, outcome, queue, replies>>

LoseRequest(i) ==
  /\ i \in wire
  /\ wire' = wire \ {i}
  /\ UNCHANGED <<waiting, mailbox, sent, outcome, queue, inbox, replies>>

LoseReply(i) ==
  /\ i \in replies
  /\ replies' = replies \ {i}
  /\ UNCHANGED <<waiting, mailbox, sent, outcome, queue, wire, inbox>>

\* The server handles one request at a time: it decodes it, dispatches it to
\* the local process and sends a response, an error term included, whether
\* the request was a call, a cast or a send.
ServeRequest ==
  /\ inbox # <<>>
  /\ inbox' = Tail(inbox)
  /\ replies' = replies \cup {Head(inbox)}
  /\ UNCHANGED <<waiting, mailbox, sent, outcome, queue, wire>>

\* Server or node restart: what was in the mailbox is never answered.
CrashServer ==
  /\ inbox # <<>>
  /\ inbox' = <<>>
  /\ UNCHANGED <<waiting, mailbox, sent, outcome, queue, wire, replies>>

\* The event passes Node and HandlerRegistry to every registered process.
DeliverReply(i) ==
  /\ i \in replies
  /\ replies' = replies \ {i}
  /\ mailbox' = [c \in Caller |-> Append(mailbox[c], i)]
  /\ UNCHANGED <<waiting, sent, outcome, queue, wire, inbox>>

-----------------------------------------------------------------------------
Next ==
  \/ \E c \in Caller :
       Call(c) \/ OneWay(c) \/ GiveUp(c) \/ ReceiveResponse(c) \/ Timeout(c)
  \/ HandleSend \/ RefuseSend
  \/ \E i \in wire : Arrive(i) \/ LoseRequest(i)
  \/ ServeRequest
  \/ CrashServer
  \/ \E i \in replies : DeliverReply(i) \/ LoseReply(i)

\* receive ends when a response is there or the time is up, the Node and the
\* server handle what is in their mailboxes, and the network delivers or loses
\* what it carries.
Fairness ==
  /\ \A c \in Caller : WF_vars(ReceiveResponse(c) \/ Timeout(c))
  /\ WF_vars(HandleSend \/ RefuseSend)
  /\ WF_vars(ServeRequest)
  /\ WF_vars(\E i \in wire : Arrive(i) \/ LoseRequest(i))
  /\ WF_vars(\E i \in replies : DeliverReply(i) \/ LoseReply(i))

Spec == Init /\ [][Next]_vars /\ Fairness

-----------------------------------------------------------------------------
(* Properties.                                                             *)

TypeOK ==
  /\ waiting \in [Caller -> 0 .. MaxRequests]
  /\ mailbox \in [Caller -> Seq(Id)]
  /\ sent \in Seq([caller : Caller, kind : {"call", "oneway"}])
  /\ Len(outcome) = Len(sent)
  /\ outcome \in Seq(Outcome)
  /\ queue \in Seq(Id)
  /\ wire \subseteq Id
  /\ inbox \in Seq(Id)
  /\ replies \subseteq Id

\* The requests whose response belongs to no call that still waits for it.  A
\* refused request is not among them: it never gets a response.
Abandoned(i) ==
  \/ sent[i].kind = "oneway"
  \/ outcome[i] \in {TimedOut, GaveUp}

Took(i) == outcome[i] \in Id

\* A call takes a foreign response only where one was lying about: a response
\* to another process's request, to a cast or send, to a call that had timed
\* out, to a call whose safe_call had given up on the Node, or to a call that
\* had itself taken a foreign response.  A call that the Node refused leaves
\* nothing behind.
ForeignReplyExplained ==
  \A i \in DOMAIN sent :
    Took(i) /\ outcome[i] # i =>
      LET q == outcome[i]
      IN  \/ sent[q].caller # sent[i].caller
          \/ Abandoned(q)
          \/ Took(q) /\ outcome[q] # q

\* A process takes each response at most once, although the same response is
\* sent to every registered process.
ResponseTakenOnce ==
  \A i, j \in DOMAIN sent :
    i # j /\ sent[i].caller = sent[j].caller /\ Took(i) /\ Took(j)
      => outcome[i] # outcome[j]

\* Where the result of a call can come from (distribution.ex:77-84 takes the
\* oldest response, whatever its id): from another process, from something
\* abandoned, and never twice from the same response.
RepliesExplained == TypeOK /\ ForeignReplyExplained /\ ResponseTakenOnce

\* Every call, cast and send returns, and nothing stays under way: what is in
\* the mailbox of the Node is sent or refused, and the response of a request
\* that reached the server is sent, or the server lost it in a crash.
EverythingSettles ==
  /\ \A c \in Caller : waiting[c] # 0 ~> waiting[c] = 0
  /\ \A i \in Id : Holds(queue, i) \/ i \in wire ~>
                     /\ i \notin wire /\ i \notin replies
                     /\ ~Holds(queue, i) /\ ~Holds(inbox, i)

\* "The request_id can be used to match the response event"
\* (request_response.ex:36); "{:ok, result}" of call is the remote server's
\* reply to this call (distribution.ex:20).
CallGetsOwnResponse == \A i \in DOMAIN sent : Took(i) => outcome[i] = i
=============================================================================
