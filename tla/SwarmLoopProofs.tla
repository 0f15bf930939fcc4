--------------------------- MODULE SwarmLoopProofs ---------------------------
(***************************************************************************)
(* Proofs about SwarmLoop for any set of requests, channel capacity, cap   *)
(* and TTL.                                                                *)
(***************************************************************************)
EXTENDS SwarmLoop, FiniteSetTheorems, TLAPS

\* A command taken from the channel leaves the channel well typed.
LEMMA ReceiveType ==
  ASSUME TypeOK, NEW op, Receive(op)
  PROVE  /\ Head(chan) \in Command
         /\ chan' \in Seq(Command)
         /\ Len(chan') <= Capacity
BY ConstantsAssumption DEF TypeOK, Receive

\* try_send keeps the channel within its capacity.
LEMMA TrySendType ==
  ASSUME TypeOK, NEW cmd \in Command, TrySend(cmd)
  PROVE  chan' \in Seq(Command) /\ Len(chan') <= Capacity
BY ConstantsAssumption DEF TypeOK, TrySend, CanSend

\* A command more in the channel.
LEMMA AppendType ==
  ASSUME TypeOK, NEW cmd \in Command, CanSend, chan' = Append(chan, cmd)
  PROVE  chan' \in Seq(Command) /\ Len(chan') <= Capacity
BY ConstantsAssumption DEF TypeOK, CanSend

\* Every variable of the model keeps its type: in particular the command
\* channel never holds more than Capacity commands.
THEOREM TypeCorrect == Spec => []TypeOK
<1>1. Init => TypeOK
  <2> SUFFICES ASSUME Init PROVE TypeOK
    OBVIOUS
  <2>1. chan \in Seq(Command) /\ Len(chan) <= Capacity
    BY ConstantsAssumption DEF Init
  <2>2. /\ DOMAIN pending \subseteq Nat \ {0}
        /\ \A c \in DOMAIN pending : pending[c] \in [req : Req, age : 0 .. TTL]
    BY DEF Init
  <2>3. req \in [Req -> ReqState] /\ answer \in [Req -> Req \cup {NoAnswer}]
    BY DEF Init, ReqState
  <2>. QED  BY <2>1, <2>2, <2>3 DEF Init, TypeOK, Query
<1>2. TypeOK /\ [Next]_vars => TypeOK'
  <2> SUFFICES ASSUME TypeOK, [Next]_vars PROVE TypeOK'
    OBVIOUS
  <2>1. CASE RegisterEventHandler
    <3>1. [op |-> "register_event_handler"] \in Command
      BY DEF Command
    <3>. QED  BY <2>1, <3>1, TrySendType DEF RegisterEventHandler, TypeOK, network
  <2>2. CASE Fire
    <3>1. [op |-> "fire"] \in Command
      BY DEF Command
    <3>. QED  BY <2>2, <3>1, AppendType DEF Fire, TypeOK, network
  <2>3. ASSUME NEW s \in seen, Respond(s) PROVE TypeOK'
    <3>1. [op |-> "respond", ch |-> s.ch, req |-> s.req] \in Command
      BY DEF Command, TypeOK
    <3>. QED  BY <2>3, <3>1, AppendType DEF Respond, TypeOK, network
  <2>4. ASSUME NEW kind \in Query, CallQuery(kind) PROVE TypeOK'
    <3>1. [op |-> "query", kind |-> kind] \in Command
      BY DEF Command
    <3>2. CASE AskQuery(kind)
      BY <2>4, <3>1, <3>2, AppendType DEF CallQuery, AskQuery, TypeOK, network
    <3>3. CASE RefuseQuery(kind)
      BY <2>4, <3>3 DEF CallQuery, RefuseQuery, QueryError, TypeOK, network
    <3>. QED  BY <2>4, <3>2, <3>3 DEF CallQuery
  <2>5. CASE QueryDropped
    BY <2>5 DEF QueryDropped, QueryError, TypeOK, network
  <2>6. CASE Terminate
    BY <2>6 DEF Terminate, TypeOK, network
  <2>7. CASE ExportDhtState \/ ImportDhtState
    <3>1. [op |-> "query", kind |-> "typed"] \in Command
      BY DEF Command, Query
    <3>. QED  BY <2>7, <3>1, AppendType DEF ExportDhtState, ImportDhtState, TypeOK,
                                               network, Query
  <2>8. CASE StopNode
    <3>1. [op |-> "shutdown"] \in Command
      BY DEF Command
    <3>. QED  BY <2>8, <3>1, TrySendType DEF StopNode, TypeOK, network
  <2>9. CASE Kill
    BY <2>9 DEF Kill, TypeOK, network
  <2>10. CASE DropHandle
    <3>1. [op |-> "shutdown"] \in Command
      BY DEF Command
    <3>. QED  BY <2>10, <3>1, TrySendType DEF DropHandle, TypeOK, network
  <2>11. CASE RecvRegister
    BY <2>11, ReceiveType DEF RecvRegister, TypeOK, genserver, network
  <2>12. CASE RecvFire
    BY <2>12, ReceiveType DEF RecvFire, TypeOK, genserver, network
  <2>13. CASE RecvQuery
    BY <2>13, ReceiveType DEF RecvQuery, TypeOK, network
  <2>14. CASE RecvRespond
    <3> DEFINE c == Head(chan).ch
    <3>1. Head(chan) \in Command /\ Head(chan).op = "respond"
      BY <2>14, ReceiveType DEF RecvRespond, Receive
    <3>2. Head(chan).req \in Req
      BY <3>1 DEF Command
    <3>3. CASE c \in DOMAIN pending
      <4>1. pending[c].req \in Req
        BY <3>3 DEF TypeOK
      <4>2. req' \in [Req -> ReqState] /\ answer' \in [Req -> Req \cup {NoAnswer}]
        BY <2>14, <3>2, <3>3, <4>1 DEF RecvRespond, SendResponse, TypeOK, ReqState
      <4>3. /\ DOMAIN pending' \subseteq Nat \ {0}
            /\ \A d \in DOMAIN pending' : pending'[d] \in [req : Req, age : 0 .. TTL]
        BY <2>14, <3>3 DEF RecvRespond, Without, TypeOK
      <4>. QED
        BY <2>14, <4>2, <4>3, ReceiveType DEF RecvRespond, TypeOK, genserver
    <3>4. CASE c \notin DOMAIN pending
      BY <2>14, <3>4, ReceiveType DEF RecvRespond, TypeOK, genserver
    <3>. QED  BY <3>3, <3>4
  <2>15. ASSUME ExitLoop PROVE TypeOK'
    BY <2>15, ConstantsAssumption DEF ExitLoop, DropRequests, TypeOK, ReqState, genserver
  <2>16. ASSUME NEW r \in Req, InboundRequest(r) PROVE TypeOK'
    <3>1. CASE RefuseInbound(r)
      BY <2>16, <3>1 DEF InboundRequest, RefuseInbound, TypeOK, ReqState, genserver
    <3>2. CASE AcceptInbound(r)
      <4>1. counter' \in Nat /\ req' \in [Req -> ReqState]
        BY <3>2 DEF AcceptInbound, TypeOK, ReqState
      <4>2. seen' \subseteq [ch : Nat, req : Req]
        BY <3>2 DEF AcceptInbound, TypeOK
      <4>3. /\ DOMAIN pending' \subseteq Nat \ {0}
            /\ \A d \in DOMAIN pending' : pending'[d] \in [req : Req, age : 0 .. TTL]
        BY <3>2, ConstantsAssumption DEF AcceptInbound, TypeOK
      <4>. QED
        BY <2>16, <4>1, <4>2, <4>3 DEF InboundRequest, TypeOK, genserver
    <3>. QED  BY <2>16, <3>1, <3>2 DEF InboundRequest
  <2>17. CASE Evict
    BY <2>17 DEF Evict, DropRequests, Stale, TypeOK, ReqState, genserver
  <2>18. CASE Tick
    <3>1. \A c \in DOMAIN pending :
            [pending[c] EXCEPT !.age = IF @ < TTL THEN @ + 1 ELSE @]
              \in [req : Req, age : 0 .. TTL]
      BY ConstantsAssumption DEF TypeOK
    <3>2. DOMAIN pending' = DOMAIN pending
      BY <2>18 DEF Tick
    <3>3. \A c \in DOMAIN pending' : pending'[c] \in [req : Req, age : 0 .. TTL]
      BY <2>18, <3>1 DEF Tick
    <3>. QED  BY <2>18, <3>2, <3>3 DEF Tick, TypeOK, genserver, network
  <2>19. ASSUME NEW r \in Req, PeerGone(r) PROVE TypeOK'
    BY <2>19 DEF PeerGone, TypeOK, ReqState, genserver
  <2>20. CASE UNCHANGED vars
    BY <2>20 DEF vars, TypeOK
  <2>. QED
    BY <2>1, <2>2, <2>3, <2>4, <2>5, <2>6, <2>7, <2>8, <2>9, <2>10, <2>11, <2>12,
       <2>13, <2>14, <2>15, <2>16, <2>17, <2>18, <2>19, <2>20
    DEF Next, NodeStep, LoopStep, RecvCommand, RecvShutdown, Panic
<1>. QED  BY <1>1, <1>2, PTL DEF Spec
-----------------------------------------------------------------------------
(* Correlation of answers with requests.                                   *)

\* The inductive invariant: AnswersOwnRequest alone is not inductive, because
\* the answer a step delivers is decided by the id it carries, and only
\* PendingAccounted says what that id stands for.
IInv == TypeOK /\ PendingAccounted /\ AnswersOwnRequest

bookkeeping == <<pending, counter, req, answer, seen>>

\* Sending a command keeps AnswersSeen if the command does.
LEMMA AppendSeen ==
  ASSUME TypeOK, AnswersSeen, NEW cmd \in Command, chan' = Append(chan, cmd),
         cmd.op = "respond" => [ch |-> cmd.ch, req |-> cmd.req] \in seen,
         UNCHANGED seen
  PROVE  AnswersSeen'
BY DEF TypeOK, AnswersSeen

\* Taking a command keeps AnswersSeen, and an answer taken is one for a
\* request the application has seen.
LEMMA ReceiveSeen ==
  ASSUME TypeOK, AnswersSeen, NEW op, Receive(op), UNCHANGED seen
  PROVE  /\ AnswersSeen'
         /\ op = "respond" => [ch |-> Head(chan).ch, req |-> Head(chan).req] \in seen
<1>1. \A i \in DOMAIN Tail(chan) : i + 1 \in DOMAIN chan /\ Tail(chan)[i] = chan[i + 1]
  BY DEF TypeOK, Receive
<1>2. 1 \in DOMAIN chan /\ Head(chan) = chan[1]
  BY DEF TypeOK, Receive
<1>3. AnswersSeen'
  BY <1>1 DEF AnswersSeen, Receive
<1>4. op = "respond" => [ch |-> Head(chan).ch, req |-> Head(chan).req] \in seen
  BY <1>2 DEF AnswersSeen, Receive
<1>. QED  BY <1>3, <1>4

\* A step that leaves the bookkeeping alone has only the channel to answer for.
LEMMA BookkeepingUnchanged ==
  ASSUME PendingAccounted, AnswersOwnRequest, UNCHANGED bookkeeping, AnswersSeen'
  PROVE  PendingAccounted' /\ AnswersOwnRequest'
BY DEF bookkeeping, PendingAccounted, AnswersOwnRequest, EntriesOpen, OneIdEach,
       HeldKept, SeenMeans, IdsSpent

\* Entries leave the map together with their requests: what is left is still
\* accounted for.
LEMMA EntriesDropped ==
  ASSUME TypeOK, PendingAccounted,
         NEW gone \in SUBSET DOMAIN pending,
         pending' = [c \in DOMAIN pending \ gone |-> pending[c]],
         DropRequests({pending[c].req : c \in gone}),
         AnswersSeen', UNCHANGED <<counter, seen>>
  PROVE  PendingAccounted'
<1> USE DEF PendingAccounted
<1>1. \A c \in DOMAIN pending' : c \in DOMAIN pending /\ c \notin gone /\ pending'[c] = pending[c]
  OBVIOUS
<1>2. \A c \in DOMAIN pending' : pending[c].req \notin {pending[d].req : d \in gone}
  BY <1>1 DEF OneIdEach
<1>3. EntriesOpen'
  BY <1>1, <1>2 DEF EntriesOpen, DropRequests, TypeOK
<1>4. OneIdEach'
  BY <1>1 DEF OneIdEach
<1>5. HeldKept'
  <2> SUFFICES ASSUME NEW r \in Req, req'[r] = "held"
               PROVE  \E c \in DOMAIN pending' : pending'[c].req = r
    BY DEF HeldKept
  <2>1. req[r] = "held" /\ r \notin {pending[d].req : d \in gone}
    BY DEF DropRequests
  <2>2. PICK c \in DOMAIN pending : pending[c].req = r
    BY <2>1 DEF HeldKept
  <2>3. c \notin gone
    BY <2>1, <2>2
  <2>. QED  BY <2>2, <2>3
<1>6. SeenMeans'
  BY <1>1 DEF SeenMeans
<1>7. IdsSpent'
  BY <1>1 DEF IdsSpent
<1>. QED  BY <1>3, <1>4, <1>5, <1>6, <1>7

\* A new entry under a fresh id, for a request not yet in the map.
LEMMA EntryAdded ==
  ASSUME TypeOK, PendingAccounted, NEW r \in Req, req[r] = "new", AcceptInbound(r),
         UNCHANGED chan
  PROVE  PendingAccounted'
<1> USE DEF PendingAccounted
<1> DEFINE id == counter + 1
<1>0. id \in Nat /\ id \notin DOMAIN pending /\ counter' = id
  BY DEF IdsSpent, TypeOK, AcceptInbound
<1>1. /\ DOMAIN pending' = DOMAIN pending \cup {id}
      /\ pending'[id].req = r
      /\ \A c \in DOMAIN pending : pending'[c] = pending[c]
  BY <1>0 DEF AcceptInbound
<1>2. \A c \in DOMAIN pending : pending[c].req # r
  BY DEF EntriesOpen
<1>3. req' \in [Req -> ReqState] /\ req'[r] = "held" /\ \A q \in Req \ {r} : req'[q] = req[q]
  BY DEF AcceptInbound, TypeOK, ReqState
<1>4. \A s \in seen' : s \in seen \/ s = [ch |-> id, req |-> r]
  BY DEF AcceptInbound
<1>5. EntriesOpen'
  BY <1>1, <1>2, <1>3 DEF EntriesOpen, TypeOK
<1>6. OneIdEach'
  BY <1>1, <1>2 DEF OneIdEach
<1>7. HeldKept'
  BY <1>1, <1>3 DEF HeldKept
<1>8. SeenMeans'
  <2> SUFFICES ASSUME NEW s \in seen', s.ch \in DOMAIN pending'
               PROVE  pending'[s.ch].req = s.req
    BY DEF SeenMeans
  <2>1. CASE s \in seen
    <3>1. s.ch \in Nat /\ s.ch <= counter
      BY <2>1 DEF IdsSpent, TypeOK
    <3>2. s.ch # id
      BY <3>1 DEF TypeOK
    <3>. QED  BY <1>1, <2>1, <3>2 DEF SeenMeans
  <2>2. CASE s = [ch |-> id, req |-> r]
    BY <1>1, <2>2
  <2>. QED  BY <1>4, <2>1, <2>2
<1>9. IdsSpent'
  <2>1. \A c \in DOMAIN pending : c \in Nat /\ c <= counter
    BY DEF IdsSpent, TypeOK
  <2>2. \A s \in seen : s.ch \in Nat /\ s.ch <= counter
    BY DEF IdsSpent, TypeOK
  <2>3. counter \in Nat
    BY DEF TypeOK
  <2>4. \A c \in DOMAIN pending' : c <= counter'
    BY <1>0, <1>1, <2>1, <2>3
  <2>5. \A s \in seen' : s.ch <= counter'
    BY <1>0, <1>4, <2>2, <2>3
  <2>. QED  BY <2>4, <2>5 DEF IdsSpent
<1>10. AnswersSeen'
  BY DEF AnswersSeen, AcceptInbound
<1>. QED  BY <1>5, <1>6, <1>7, <1>8, <1>9, <1>10

\* The answer a step delivers belongs to the entry it is delivered to.
LEMMA AnswerDelivered ==
  ASSUME IInv, RecvRespond
  PROVE  /\ PendingAccounted' /\ AnswersOwnRequest'
         /\ \/ UNCHANGED <<req, answer>>
            \/ \E r \in Req : /\ req[r] = "held"
                              /\ req' = [req EXCEPT ![r] = "answered"]
                              /\ answer' = [answer EXCEPT ![r] = r]
<1> USE DEF IInv, PendingAccounted
<1> DEFINE c == Head(chan).ch
<1>1. AnswersSeen' /\ [ch |-> c, req |-> Head(chan).req] \in seen
  BY ReceiveSeen DEF RecvRespond
<1>2. CASE c \notin DOMAIN pending
  <2>1. UNCHANGED bookkeeping
    BY <1>2 DEF RecvRespond, bookkeeping
  <2>. QED  BY <1>1, <2>1, BookkeepingUnchanged DEF bookkeeping
<1>3. CASE c \in DOMAIN pending
  <2> DEFINE r == pending[c].req
  <2>1. r = Head(chan).req
    BY <1>1, <1>3 DEF SeenMeans
  <2>2. r \in Req
    BY <1>3 DEF TypeOK
  <2>3. SendResponse(r, r) /\ pending' = Without(c) /\ UNCHANGED <<counter, seen>>
    BY <1>3, <2>1 DEF RecvRespond
  <2>4. \A d \in DOMAIN pending' : d \in DOMAIN pending /\ d # c /\ pending'[d] = pending[d]
    BY <2>3 DEF Without
  <2>5. \A d \in DOMAIN pending' : pending[d].req # r
    BY <1>3, <2>4 DEF OneIdEach
  <2>6. \A q \in Req \ {r} : req'[q] = req[q]
    BY <2>2, <2>3 DEF SendResponse, TypeOK
  <2>7. req'[r] # "held"
    BY <2>2, <2>3 DEF SendResponse, TypeOK
  <2>8. EntriesOpen'
    BY <2>4, <2>5, <2>6 DEF EntriesOpen, TypeOK
  <2>9. OneIdEach' /\ SeenMeans' /\ IdsSpent'
    BY <2>3, <2>4 DEF OneIdEach, SeenMeans, IdsSpent
  <2>10. HeldKept'
    <3> SUFFICES ASSUME NEW q \in Req, req'[q] = "held"
                 PROVE  \E d \in DOMAIN pending' : pending'[d].req = q
      BY DEF HeldKept
    <3>1. q # r /\ req[q] = "held"
      BY <2>6, <2>7
    <3>2. PICK d \in DOMAIN pending : pending[d].req = q
      BY <3>1 DEF HeldKept
    <3>. QED  BY <2>3, <3>1, <3>2 DEF Without
  <2>11. AnswersOwnRequest'
    BY <2>2, <2>3 DEF SendResponse, AnswersOwnRequest, TypeOK
  <2>12. \/ UNCHANGED <<req, answer>>
         \/ /\ req[r] = "held"
            /\ req' = [req EXCEPT ![r] = "answered"]
            /\ answer' = [answer EXCEPT ![r] = r]
    BY <2>3 DEF SendResponse
  <2>. QED  BY <1>1, <2>2, <2>8, <2>9, <2>10, <2>11, <2>12
<1>. QED  BY <1>2, <1>3

\* The accounting and the correlation of answers survive every step.
LEMMA AccountingStep ==
  ASSUME IInv, [Next]_vars
  PROVE  PendingAccounted' /\ AnswersOwnRequest'
<1> USE DEF IInv
<1>0. AnswersSeen
  BY DEF PendingAccounted
<1>a. ASSUME UNCHANGED bookkeeping, AnswersSeen'
      PROVE  PendingAccounted' /\ AnswersOwnRequest'
  BY <1>a, BookkeepingUnchanged
<1>b. ASSUME UNCHANGED <<bookkeeping, chan>>
      PROVE  PendingAccounted' /\ AnswersOwnRequest'
  <2>1. AnswersSeen'
    BY <1>0, <1>b DEF bookkeeping, AnswersSeen
  <2>. QED  BY <1>a, <1>b, <2>1
<1>c. ASSUME NEW cmd \in Command, cmd.op # "respond", TrySend(cmd),
             UNCHANGED bookkeeping
      PROVE  PendingAccounted' /\ AnswersOwnRequest'
  <2>1. CASE chan' = Append(chan, cmd)
    BY <1>0, <1>a, <1>c, <2>1, AppendSeen DEF bookkeeping
  <2>2. CASE chan' = chan
    BY <1>b, <1>c, <2>2
  <2>. QED  BY <1>c, <2>1, <2>2 DEF TrySend
<1>1. CASE RegisterEventHandler
  <2>1. [op |-> "register_event_handler"] \in Command
    BY DEF Command
  <2>. QED  BY <1>1, <1>c, <2>1 DEF RegisterEventHandler, bookkeeping, network
<1>2. CASE Fire
  <2>1. [op |-> "fire"] \in Command
    BY DEF Command
  <2>2. AnswersSeen'
    BY <1>0, <1>2, <2>1, AppendSeen DEF Fire, network
  <2>. QED  BY <1>2, <1>a, <2>2 DEF Fire, bookkeeping, network
<1>3. ASSUME NEW s \in seen, Respond(s)
      PROVE  PendingAccounted' /\ AnswersOwnRequest'
  <2>1. s \in [ch : Nat, req : Req] /\ s = [ch |-> s.ch, req |-> s.req]
    BY DEF TypeOK
  <2>2. [op |-> "respond", ch |-> s.ch, req |-> s.req] \in Command
    BY <2>1 DEF Command
  <2>3. AnswersSeen'
    BY <1>0, <1>3, <2>1, <2>2, AppendSeen DEF Respond, network
  <2>. QED  BY <1>3, <1>a, <2>3 DEF Respond, bookkeeping, network
<1>4. ASSUME NEW kind \in Query, CallQuery(kind)
      PROVE  PendingAccounted' /\ AnswersOwnRequest'
  <2>1. [op |-> "query", kind |-> kind] \in Command
    BY DEF Command
  <2>2. UNCHANGED bookkeeping
    BY <1>4 DEF CallQuery, bookkeeping, network
  <2>3. CASE AskQuery(kind)
    <3>1. AnswersSeen'
      BY <1>0, <2>1, <2>2, <2>3, AppendSeen DEF AskQuery, bookkeeping
    <3>. QED  BY <1>a, <2>2, <3>1
  <2>4. CASE RefuseQuery(kind)
    BY <1>b, <2>2, <2>4 DEF RefuseQuery
  <2>. QED  BY <1>4, <2>3, <2>4 DEF CallQuery
<1>5. CASE QueryDropped \/ Terminate \/ Kill
  BY <1>5, <1>b DEF QueryDropped, Terminate, Kill, bookkeeping, network
<1>6. CASE ExportDhtState \/ ImportDhtState
  <2>1. [op |-> "query", kind |-> "typed"] \in Command
    BY DEF Command, Query
  <2>2. UNCHANGED bookkeeping
    BY <1>6 DEF ExportDhtState, ImportDhtState, bookkeeping, network
  <2>3. CASE chan' = Append(chan, [op |-> "query", kind |-> "typed"])
    <3>1. AnswersSeen'
      BY <1>0, <2>1, <2>2, <2>3, AppendSeen DEF bookkeeping
    <3>. QED  BY <1>a, <2>2, <3>1
  <2>4. CASE UNCHANGED chan
    BY <1>b, <2>2, <2>4
  <2>. QED  BY <1>6, <2>3, <2>4 DEF ExportDhtState, ImportDhtState
<1>7. CASE StopNode \/ DropHandle
  <2>1. [op |-> "shutdown"] \in Command
    BY DEF Command
  <2>. QED  BY <1>7, <1>c, <2>1 DEF StopNode, DropHandle, bookkeeping, network
<1>8. CASE RecvRegister \/ RecvFire \/ RecvQuery
  <2>1. UNCHANGED bookkeeping
    BY <1>8 DEF RecvRegister, RecvFire, RecvQuery, bookkeeping, network
  <2>2. PICK op \in {"register_event_handler", "fire", "query"} : Receive(op)
    BY <1>8 DEF RecvRegister, RecvFire, RecvQuery
  <2>3. AnswersSeen'
    BY <1>0, <2>1, <2>2, ReceiveSeen DEF bookkeeping
  <2>. QED  BY <1>a, <2>1, <2>3
<1>9. CASE RecvRespond
  BY <1>9, AnswerDelivered
<1>10. ASSUME ExitLoop PROVE PendingAccounted' /\ AnswersOwnRequest'
  <2>1. AnswersSeen'
    BY <1>10 DEF ExitLoop, AnswersSeen
  <2>2. pending' = [c \in DOMAIN pending \ DOMAIN pending |-> pending[c]]
    BY <1>10 DEF ExitLoop
  <2>3. PendingAccounted'
    BY <1>10, <2>1, <2>2, EntriesDropped DEF ExitLoop
  <2>. QED  BY <1>10, <2>3 DEF ExitLoop, AnswersOwnRequest
<1>11. ASSUME NEW r \in Req, InboundRequest(r)
       PROVE  PendingAccounted' /\ AnswersOwnRequest'
  <2>1. CASE RefuseInbound(r)
    <3>1. req[r] = "new" /\ req' = [req EXCEPT ![r] = "dropped"]
          /\ UNCHANGED <<chan, pending, counter, seen>>
      BY <1>11, <2>1 DEF InboundRequest, RefuseInbound
    <3>2. \A c \in DOMAIN pending : pending[c].req \in Req /\ pending[c].req # r
      BY <3>1 DEF TypeOK, PendingAccounted, EntriesOpen
    <3>3. EntriesOpen' /\ HeldKept'
      BY <3>1, <3>2 DEF TypeOK, PendingAccounted, EntriesOpen, HeldKept
    <3>4. OneIdEach' /\ SeenMeans' /\ IdsSpent' /\ AnswersSeen'
      BY <3>1 DEF PendingAccounted, OneIdEach, SeenMeans, IdsSpent, AnswersSeen
    <3>. QED
      BY <1>11, <3>3, <3>4 DEF InboundRequest, PendingAccounted, AnswersOwnRequest
  <2>2. CASE AcceptInbound(r)
    BY <1>11, <2>2, EntryAdded DEF InboundRequest, AnswersOwnRequest
  <2>. QED  BY <1>11, <2>1, <2>2 DEF InboundRequest
<1>12. CASE Evict
  <2>1. AnswersSeen'
    BY <1>0, <1>12 DEF Evict, AnswersSeen
  <2>2. Stale \in SUBSET DOMAIN pending
    BY DEF Stale
  <2>3. PendingAccounted'
    BY <1>12, <2>1, <2>2, EntriesDropped DEF Evict
  <2>. QED  BY <1>12, <2>3 DEF Evict, AnswersOwnRequest
<1>13. CASE Tick
  <2>1. /\ DOMAIN pending' = DOMAIN pending
        /\ \A c \in DOMAIN pending : pending'[c].req = pending[c].req
    BY <1>13 DEF Tick, TypeOK
  <2>2. UNCHANGED <<chan, counter, req, answer, seen>>
    BY <1>13 DEF Tick, network
  <2>. QED
    BY <2>1, <2>2 DEF PendingAccounted, AnswersOwnRequest, EntriesOpen, OneIdEach,
                      HeldKept, SeenMeans, IdsSpent, AnswersSeen
<1>14. ASSUME NEW r \in Req, PeerGone(r)
       PROVE  PendingAccounted' /\ AnswersOwnRequest'
  <2>1. UNCHANGED <<chan, pending, counter, answer, seen>>
    BY <1>14 DEF PeerGone
  <2>2. EntriesOpen' /\ HeldKept'
    BY <1>14, <2>1 DEF PeerGone, TypeOK, PendingAccounted, EntriesOpen, HeldKept
  <2>3. OneIdEach' /\ SeenMeans' /\ IdsSpent' /\ AnswersSeen'
    BY <2>1 DEF PendingAccounted, OneIdEach, SeenMeans, IdsSpent, AnswersSeen
  <2>. QED  BY <2>1, <2>2, <2>3 DEF PendingAccounted, AnswersOwnRequest
<1>15. CASE UNCHANGED vars
  BY <1>15, <1>b DEF vars, bookkeeping
<1>. QED
  BY <1>1, <1>2, <1>3, <1>4, <1>5, <1>6, <1>7, <1>8, <1>9, <1>10, <1>11, <1>12,
     <1>13, <1>14, <1>15
  DEF Next, NodeStep, LoopStep, RecvCommand, RecvShutdown, Panic

\* The inductive invariant holds in every reachable state.
THEOREM Accounting == Spec => []IInv
<1>1. Init => PendingAccounted /\ AnswersOwnRequest
  BY DEF Init, PendingAccounted, AnswersOwnRequest, EntriesOpen, OneIdEach,
         HeldKept, SeenMeans, IdsSpent, AnswersSeen
<1>2. TypeOK /\ PendingAccounted /\ AnswersOwnRequest /\ [Next]_vars
        => (PendingAccounted /\ AnswersOwnRequest)'
  BY AccountingStep DEF IInv
<1>. QED  BY <1>1, <1>2, TypeCorrect, PTL DEF Spec, IInv

\* Every open ResponseChannel is accounted for by pending_responses, whatever
\* the order of requests, answers, evictions, disconnections and shutdown.
THEOREM ResponsesAccounted == Spec => []PendingAccounted
BY Accounting, PTL DEF IInv

\* A peer never receives an answer made for another request, in one
\* incarnation of the node.
THEOREM AnswersCorrelated == Spec => []AnswersOwnRequest
BY Accounting, PTL DEF IInv

-----------------------------------------------------------------------------
(* The command channel and the GenServer that feeds it.                    *)

\* The inductive invariant behind NeverDeaf and BlockedOnOwnQuery: the channel
\* is still empty when init/1 registers its handler, so that the try_send whose
\* result is ignored cannot meet a full channel; a query starts only when no
\* other one is under way; and a channel without a loop holds nothing.
ChannelInv ==
  /\ NeverDeaf
  /\ BlockedOnOwnQuery
  /\ node = "starting" => chan = <<>>
  /\ node \in {"starting", "registered", "terminating"} => waiting = "none"
  /\ loop = "exited" => chan = <<>>

\* What a command sent does to the positions of the channel.
LEMMA AppendElements ==
  ASSUME TypeOK, NEW cmd \in Command, chan' = Append(chan, cmd)
  PROVE  /\ \A i \in DOMAIN chan : i \in DOMAIN chan' /\ chan'[i] = chan[i]
         /\ Len(chan) + 1 \in DOMAIN chan' /\ chan'[Len(chan) + 1] = cmd
         /\ \A i \in DOMAIN chan' : i \in DOMAIN chan \/ i = Len(chan) + 1
         /\ Len(chan) + 1 \notin DOMAIN chan
BY DEF TypeOK

\* What a command taken does to them.
LEMMA ReceiveElements ==
  ASSUME TypeOK, NEW op, Receive(op)
  PROVE  /\ 1 \in DOMAIN chan /\ chan[1].op = op
         /\ \A i \in DOMAIN chan' : i \in Nat /\ i + 1 \in DOMAIN chan /\ chan'[i] = chan[i + 1]
         /\ \A i \in DOMAIN chan : i = 1 \/ (i - 1 \in DOMAIN chan' /\ chan'[i - 1] = chan[i])
         /\ DOMAIN chan \subseteq Nat
BY DEF TypeOK, Receive

\* A command other than a query disturbs nothing, sent or not.
LEMMA PlainSent ==
  ASSUME TypeOK, ChannelInv, NEW cmd \in Command, cmd.op # "query",
         chan' = Append(chan, cmd) \/ chan' = chan,
         loop = "exited" => chan' = chan,
         UNCHANGED <<loop, event_handler, waiting>>,
         node' # "starting",
         node' = node \/ (node' = "terminating" /\ waiting = "none") \/ node' = "down"
  PROVE  ChannelInv'
<1>1. CASE chan' = chan
  BY <1>1 DEF ChannelInv, NeverDeaf, BlockedOnOwnQuery
<1>2. CASE chan' = Append(chan, cmd)
  <2>1. BlockedOnOwnQuery'
    BY <1>2, AppendElements DEF ChannelInv, BlockedOnOwnQuery
  <2>2. NeverDeaf'
    BY <1>2, AppendElements DEF ChannelInv, NeverDeaf
  <2>. QED  BY <1>2, <2>1, <2>2 DEF ChannelInv, TypeOK
<1>. QED  BY <1>1, <1>2

\* A query sent by a GenServer that waits for none is the only one.
LEMMA QuerySent ==
  ASSUME TypeOK, ChannelInv, NEW kind \in Query, waiting = "none", CanSend,
         chan' = Append(chan, [op |-> "query", kind |-> kind]),
         waiting' = kind, UNCHANGED <<loop, event_handler>>,
         node' \in {"up", "stopping"},
         node' = "up" => node \in {"registered", "up"}
  PROVE  ChannelInv'
<1>1. [op |-> "query", kind |-> kind] \in Command
  BY DEF Command
<1>2. kind # "none"
  BY DEF Query
<1>3. BlockedOnOwnQuery'
  BY <1>1, <1>2, AppendElements DEF ChannelInv, BlockedOnOwnQuery
<1>4. NeverDeaf'
  BY <1>1, AppendElements DEF ChannelInv, NeverDeaf
<1>. QED  BY <1>3, <1>4 DEF ChannelInv, CanSend, TypeOK

\* A command taken that is neither the registration nor a query.
LEMMA PlainTaken ==
  ASSUME TypeOK, ChannelInv, NEW op, Receive(op), op # "query",
         op = "register_event_handler" => event_handler',
         event_handler => event_handler',
         UNCHANGED <<loop, node, waiting>>
  PROVE  ChannelInv'
<1>1. BlockedOnOwnQuery'
  <2>1. ASSUME waiting # "none"
        PROVE  \E i \in DOMAIN chan' : chan'[i].op = "query" /\ chan'[i].kind = waiting
    <3>1. PICK i \in DOMAIN chan : chan[i].op = "query" /\ chan[i].kind = waiting
      BY <2>1 DEF ChannelInv, BlockedOnOwnQuery, Receive
    <3>. QED  BY <3>1, ReceiveElements
  <2>2. \A i, j \in DOMAIN chan' : chan'[i].op = "query" /\ chan'[j].op = "query" => i = j
    <3> SUFFICES ASSUME NEW i \in DOMAIN chan', NEW j \in DOMAIN chan',
                        chan'[i].op = "query", chan'[j].op = "query"
                 PROVE  i = j
      OBVIOUS
    <3>1. i + 1 = j + 1
      BY ReceiveElements DEF ChannelInv, BlockedOnOwnQuery
    <3>. QED  BY <3>1, ReceiveElements
  <2>3. waiting = "none" => \A i \in DOMAIN chan' : chan'[i].op # "query"
    BY ReceiveElements DEF ChannelInv, BlockedOnOwnQuery
  <2>. QED  BY <2>1, <2>2, <2>3 DEF BlockedOnOwnQuery
<1>2. NeverDeaf'
  <2> SUFFICES ASSUME node \in {"registered", "up"}, ~event_handler'
               PROVE  \E i \in DOMAIN chan' : chan'[i].op = "register_event_handler"
    BY DEF NeverDeaf
  <2>1. PICK i \in DOMAIN chan : chan[i].op = "register_event_handler"
    BY DEF ChannelInv, NeverDeaf, Receive
  <2>2. i # 1
    BY <2>1, ReceiveElements
  <2>. QED  BY <2>1, <2>2, ReceiveElements
<1>3. node # "starting" /\ loop # "exited"
  BY DEF ChannelInv, Receive
<1>. QED  BY <1>1, <1>2, <1>3 DEF ChannelInv

\* The answered query was the only one in the channel.
LEMMA QueryTaken ==
  ASSUME TypeOK, ChannelInv, RecvQuery
  PROVE  ChannelInv'
<1> USE DEF RecvQuery
<1>1. \A i \in DOMAIN chan' : chan'[i].op # "query"
  <2> SUFFICES ASSUME NEW i \in DOMAIN chan', chan'[i].op = "query" PROVE FALSE
    OBVIOUS
  <2>1. i \in Nat /\ i + 1 \in DOMAIN chan /\ chan[i + 1].op = "query"
    BY ReceiveElements
  <2>2. i + 1 = 1
    BY <2>1, ReceiveElements DEF ChannelInv, BlockedOnOwnQuery
  <2>3. i = 0
    BY <2>1, <2>2
  <2>. QED  BY <2>3, ReceiveType DEF TypeOK
<1>2. NeverDeaf'
  <2> SUFFICES ASSUME node \in {"registered", "up"}, ~event_handler
               PROVE  \E i \in DOMAIN chan' : chan'[i].op = "register_event_handler"
    BY DEF NeverDeaf
  <2>1. PICK i \in DOMAIN chan : chan[i].op = "register_event_handler"
    BY DEF ChannelInv, NeverDeaf, Receive
  <2>2. i # 1
    BY <2>1, ReceiveElements
  <2>. QED  BY <2>1, <2>2, ReceiveElements
<1>3. node # "starting" /\ loop # "exited"
  BY DEF ChannelInv, Receive
<1>. QED  BY <1>1, <1>2, <1>3 DEF ChannelInv, BlockedOnOwnQuery

\* Every step keeps the channel in order.
LEMMA ChannelStep ==
  ASSUME TypeOK, ChannelInv, [Next]_vars
  PROVE  ChannelInv'
<1>1. CASE RegisterEventHandler
  <2> DEFINE cmd == [op |-> "register_event_handler"]
  <2>1. cmd \in Command /\ cmd.op = "register_event_handler"
    BY DEF Command
  <2>2. chan = <<>> /\ waiting = "none"
    BY <1>1 DEF RegisterEventHandler, ChannelInv
  <2>3. CASE loop = "running"
    <3>1. chan' = Append(chan, cmd)
      BY <1>1, <2>2, <2>3, ConstantsAssumption DEF RegisterEventHandler, TrySend, CanSend
    <3>2. NeverDeaf'
      BY <2>1, <3>1, AppendElements DEF NeverDeaf
    <3>3. BlockedOnOwnQuery'
      BY <1>1, <2>1, <2>2, <3>1, AppendElements
      DEF RegisterEventHandler, BlockedOnOwnQuery, ChannelInv
    <3>. QED  BY <1>1, <2>2, <2>3, <3>2, <3>3 DEF RegisterEventHandler, ChannelInv
  <2>4. CASE loop = "exited"
    BY <1>1, <2>2, <2>4 DEF RegisterEventHandler, TrySend, CanSend, ChannelInv,
                            NeverDeaf, BlockedOnOwnQuery
  <2>. QED  BY <2>3, <2>4 DEF TypeOK
<1>2. CASE ImportDhtState
  <2>1. waiting = "none" /\ node = "registered"
    BY <1>2 DEF ImportDhtState, ChannelInv
  <2>2. CASE UNCHANGED <<chan, waiting>>
    BY <1>2, <2>1, <2>2 DEF ImportDhtState, ChannelInv, NeverDeaf, BlockedOnOwnQuery
  <2>3. CASE ~UNCHANGED <<chan, waiting>>
    BY <1>2, <2>1, <2>3, QuerySent DEF ImportDhtState, Query
  <2>. QED  BY <2>2, <2>3
<1>3. CASE Fire
  <2>1. [op |-> "fire"] \in Command
    BY DEF Command
  <2>. QED  BY <1>3, <2>1, PlainSent DEF Fire, Serving, CanSend
<1>4. ASSUME NEW s \in seen, Respond(s) PROVE ChannelInv'
  <2>1. [op |-> "respond", ch |-> s.ch, req |-> s.req] \in Command
    BY DEF Command, TypeOK
  <2>. QED  BY <1>4, <2>1, PlainSent DEF Respond, Serving, CanSend
<1>5. ASSUME NEW kind \in Query, CallQuery(kind) PROVE ChannelInv'
  <2>1. CASE AskQuery(kind)
    BY <1>5, <2>1, QuerySent DEF CallQuery, AskQuery, Serving
  <2>2. CASE RefuseQuery(kind)
    BY <1>5, <2>2 DEF CallQuery, RefuseQuery, QueryError, Serving, ChannelInv,
                      NeverDeaf, BlockedOnOwnQuery
  <2>. QED  BY <1>5, <2>1, <2>2 DEF CallQuery
<1>6. CASE QueryDropped
  BY <1>6 DEF QueryDropped, QueryError, ChannelInv, NeverDeaf, BlockedOnOwnQuery
<1>7. CASE Terminate \/ Kill
  BY <1>7 DEF Terminate, Kill, Serving, ChannelInv, NeverDeaf, BlockedOnOwnQuery
<1>8. CASE ExportDhtState
  <2>1. waiting = "none" /\ node = "terminating"
    BY <1>8 DEF ExportDhtState, ChannelInv
  <2>2. CASE UNCHANGED <<chan, waiting>>
    BY <1>8, <2>1, <2>2 DEF ExportDhtState, ChannelInv, NeverDeaf, BlockedOnOwnQuery
  <2>3. CASE ~UNCHANGED <<chan, waiting>>
    BY <1>8, <2>1, <2>3, QuerySent DEF ExportDhtState, Query
  <2>. QED  BY <2>2, <2>3
<1>9. CASE StopNode \/ DropHandle
  <2>1. [op |-> "shutdown"] \in Command
    BY DEF Command
  <2>. QED  BY <1>9, <2>1, PlainSent DEF StopNode, DropHandle, TrySend, CanSend
<1>10. CASE RecvRegister
  BY <1>10, PlainTaken DEF RecvRegister, genserver
<1>11. CASE RecvFire
  BY <1>11, PlainTaken DEF RecvFire, genserver
<1>12. CASE RecvRespond
  BY <1>12, PlainTaken DEF RecvRespond, genserver
<1>13. CASE RecvQuery
  BY <1>13, QueryTaken
<1>14. ASSUME ExitLoop PROVE ChannelInv'
  BY <1>14 DEF ExitLoop, genserver, ChannelInv, NeverDeaf, BlockedOnOwnQuery
<1>15. ASSUME UNCHANGED <<chan, loop, event_handler, node, waiting>> PROVE ChannelInv'
  BY <1>15 DEF ChannelInv, NeverDeaf, BlockedOnOwnQuery
<1>16. ASSUME NEW r \in Req, InboundRequest(r) \/ PeerGone(r) PROVE ChannelInv'
  BY <1>15, <1>16 DEF InboundRequest, PeerGone, genserver
<1>17. CASE Evict \/ Tick \/ UNCHANGED vars
  BY <1>15, <1>17 DEF Evict, Tick, vars, genserver
<1>. QED
  BY <1>1, <1>2, <1>3, <1>4, <1>5, <1>6, <1>7, <1>8, <1>9, <1>10, <1>11, <1>12,
     <1>13, <1>14, <1>16, <1>17
  DEF Next, NodeStep, LoopStep, RecvCommand, RecvShutdown, Panic

\* The channel invariant holds in every reachable state.
THEOREM ChannelInvariant == Spec => []ChannelInv
<1>1. Init => ChannelInv
  BY DEF Init, ChannelInv, NeverDeaf, BlockedOnOwnQuery
<1>2. TypeOK /\ ChannelInv /\ [Next]_vars => ChannelInv'
  BY ChannelStep
<1>. QED  BY <1>1, <1>2, TypeCorrect, PTL DEF Spec

\* As long as the loop runs, a GenServer that has started has its event handler
\* installed or on the way, although register_event_handler ignores a failure.
THEOREM HandlerNeverLost == Spec => []NeverDeaf
BY ChannelInvariant, PTL DEF ChannelInv

\* The query the GenServer is blocked in is the one query in the channel.
THEOREM QueriesDistinct == Spec => []BlockedOnOwnQuery
BY ChannelInvariant, PTL DEF ChannelInv

-----------------------------------------------------------------------------
(* The size of pending_responses, and how entries leave it.                *)

\* Ids in use are positive and at most the counter, so the map is finite.
LEMMA PendingFinite ==
  ASSUME IInv
  PROVE  IsFiniteSet(DOMAIN pending)
<1>1. DOMAIN pending \in SUBSET Nat /\ counter \in Nat /\ \A c \in DOMAIN pending : c <= counter
  BY DEF IInv, TypeOK, PendingAccounted, IdsSpent
<1>. QED  BY <1>1, FS_BoundedSetOfNaturals

\* The map stays within its cap, however requests, answers, evictions and the
\* end of the loop interleave.
THEOREM MapBounded == Spec => []PendingBounded
<1>1. Init => PendingBounded
  BY FS_EmptySet, ConstantsAssumption DEF Init, PendingBounded
<1>2. IInv /\ PendingBounded /\ [Next]_vars => PendingBounded'
  <2> SUFFICES ASSUME IInv, PendingBounded, [Next]_vars PROVE PendingBounded'
    OBVIOUS
  <2> DEFINE D == DOMAIN pending
  <2>0. IsFiniteSet(D) /\ Cardinality(D) \in Nat /\ MaxPending \in Nat
    BY PendingFinite, FS_CardinalityType, ConstantsAssumption
  <2>1. ASSUME DOMAIN pending' \subseteq D, loop = "running", loop' = "running"
        PROVE  PendingBounded'
    <3>1. Cardinality(DOMAIN pending') <= Cardinality(D) /\ Cardinality(DOMAIN pending') \in Nat
      BY <2>0, <2>1, FS_Subset, FS_CardinalityType
    <3>. QED  BY <2>0, <2>1, <3>1 DEF PendingBounded
  <2>2. ASSUME UNCHANGED <<pending, loop>> PROVE PendingBounded'
    BY <2>2 DEF PendingBounded
  <2>3. ASSUME ExitLoop PROVE PendingBounded'
    BY <2>3, FS_EmptySet, ConstantsAssumption DEF ExitLoop, PendingBounded
  <2>4. ASSUME NEW r \in Req, InboundRequest(r) PROVE PendingBounded'
    <3>1. CASE RefuseInbound(r)
      BY <2>2, <2>4, <3>1 DEF InboundRequest, RefuseInbound
    <3>2. CASE AcceptInbound(r)
      <4>1. DOMAIN pending' = D \cup {counter + 1}
        BY <3>2 DEF AcceptInbound
      <4>2. Cardinality(DOMAIN pending') <= Cardinality(D) + 1
        BY <2>0, <4>1, FS_AddElement
      <4>3. Cardinality(D) < MaxPending
        BY <3>2 DEF AcceptInbound
      <4>4. Cardinality(DOMAIN pending') \in Nat
        BY <2>0, <4>1, FS_AddElement, FS_CardinalityType
      <4>5. loop' = "running"
        BY <2>4 DEF InboundRequest
      <4>. QED  BY <2>0, <4>2, <4>3, <4>4, <4>5 DEF PendingBounded
    <3>. QED  BY <2>4, <3>1, <3>2 DEF InboundRequest
  <2>5. CASE NodeStep
    BY <2>2, <2>5
    DEF NodeStep, RegisterEventHandler, ImportDhtState, Fire, Respond, CallQuery,
        QueryDropped, Terminate, ExportDhtState, StopNode, Kill, DropHandle
  <2>6. CASE RecvRegister \/ RecvFire \/ RecvQuery \/ UNCHANGED vars
    BY <2>2, <2>6 DEF RecvRegister, RecvFire, RecvQuery, vars
  <2>7. CASE RecvRespond
    <3>1. DOMAIN pending' \subseteq D
      BY <2>7 DEF RecvRespond, Without
    <3>. QED  BY <2>1, <2>7, <3>1 DEF RecvRespond, Receive
  <2>8. CASE Evict \/ Tick
    <3>1. DOMAIN pending' \subseteq D
      BY <2>8 DEF Evict, Tick
    <3>. QED  BY <2>1, <2>8, <3>1 DEF Evict, Tick
  <2>9. ASSUME NEW r \in Req, PeerGone(r) PROVE PendingBounded'
    BY <2>2, <2>9 DEF PeerGone
  <2>. QED
    BY <2>3, <2>4, <2>5, <2>6, <2>7, <2>8, <2>9
    DEF Next, LoopStep, RecvCommand, RecvShutdown, Panic
<1>. QED  BY <1>1, <1>2, Accounting, PTL DEF Spec

\* An entry leaves the map by its own answer, by the end of the loop, or
\* because its TTL has passed: the timer takes no fresh request.
THEOREM FreshEntriesKept == Spec => OnlyStaleEvicted
<1> DEFINE Leaves(c) == \/ pending[c].age >= TTL
                        \/ loop' = "exited"
                        \/ chan # <<>> /\ Head(chan).op = "respond"
                             /\ Head(chan).ch = c /\ chan' = Tail(chan)
<1>1. [Next]_vars => [\A c \in DOMAIN pending \ DOMAIN pending' : Leaves(c)]_vars
  <2> SUFFICES ASSUME Next, NEW c \in DOMAIN pending, c \notin DOMAIN pending'
               PROVE  Leaves(c)
    BY DEF vars
  <2>1. CASE RecvRespond
    BY <2>1 DEF RecvRespond, Receive, Without
  <2>2. CASE Evict
    BY <2>2 DEF Evict, Stale
  <2>3. ASSUME ExitLoop PROVE Leaves(c)
    BY <2>3 DEF ExitLoop
  <2>4. ~NodeStep
    BY DEF NodeStep, RegisterEventHandler, ImportDhtState, Fire, Respond, CallQuery,
           QueryDropped, Terminate, ExportDhtState, StopNode, Kill, DropHandle
  <2>5. ~(RecvRegister \/ RecvFire \/ RecvQuery \/ Tick)
    BY DEF RecvRegister, RecvFire, RecvQuery, Tick
  <2>6. \A r \in Req : ~InboundRequest(r) /\ ~PeerGone(r)
    BY DEF InboundRequest, RefuseInbound, AcceptInbound, PeerGone
  <2>. QED
    BY <2>1, <2>2, <2>3, <2>4, <2>5, <2>6
    DEF Next, LoopStep, RecvCommand, RecvShutdown, Panic
<1>. QED  BY <1>1, PTL DEF Spec, OnlyStaleEvicted

-----------------------------------------------------------------------------
(* Refinement.                                                             *)

\* Dropping ResponseChannels is a Drop of those requests that are still held.
LEMMA DropsHeld ==
  ASSUME TypeOK, NEW rs, DropRequests(rs), UNCHANGED answer
  PROVE  Exchange!Next
<1> DEFINE held == {r \in Req : r \in rs /\ req[r] = "held"}
<1>1. Exchange!Drop(held)
  BY DEF DropRequests, Exchange!Drop
<1>. QED  BY <1>1 DEF Exchange!Next

\* To its peers the loop behaves as InboundRequests says: every step of the
\* loop takes up, turns away, answers, drops or loses requests, or leaves them
\* as they are.
THEOREM ImplementsExchange == Spec => ExchangeSpec
<1>1. Init => Exchange!Init
  BY DEF Init, Exchange!Init
<1>2. IInv /\ [Next]_vars => [Exchange!Next]_(Exchange!vars)
  <2> SUFFICES ASSUME IInv, [Next]_vars, ~UNCHANGED <<req, answer>>
               PROVE  Exchange!Next
    BY DEF Exchange!vars
  <2>1. CASE RecvRespond
    <3>1. PICK r \in Req : /\ req[r] = "held"
                           /\ req' = [req EXCEPT ![r] = "answered"]
                           /\ answer' = [answer EXCEPT ![r] = r]
      BY <2>1, AnswerDelivered
    <3>2. Exchange!Answer(r)
      BY <3>1 DEF Exchange!Answer
    <3>. QED  BY <3>2 DEF Exchange!Next
  <2>2. ASSUME ExitLoop PROVE Exchange!Next
    BY <2>2, DropsHeld DEF ExitLoop, IInv
  <2>3. ASSUME NEW r \in Req, InboundRequest(r) PROVE Exchange!Next
    <3>1. Exchange!TurnAway(r) \/ Exchange!TakeUp(r)
      BY <2>3 DEF InboundRequest, RefuseInbound, AcceptInbound, Exchange!TurnAway,
                  Exchange!TakeUp
    <3>. QED  BY <3>1 DEF Exchange!Next
  <2>4. CASE Evict
    BY <2>4, DropsHeld DEF Evict, IInv
  <2>5. ASSUME NEW r \in Req, PeerGone(r) PROVE Exchange!Next
    <3>1. Exchange!Leave(r)
      BY <2>5 DEF PeerGone, Exchange!Leave
    <3>. QED  BY <3>1 DEF Exchange!Next
  <2>6. ~NodeStep
    BY DEF NodeStep, RegisterEventHandler, Fire, Respond, CallQuery, QueryDropped,
           Terminate, ImportDhtState, ExportDhtState, StopNode, Kill, DropHandle, network
  <2>7. ~(RecvRegister \/ RecvFire \/ RecvQuery \/ Tick \/ UNCHANGED vars)
    BY DEF RecvRegister, RecvFire, RecvQuery, Tick, vars, network
  <2>. QED
    BY <2>1, <2>2, <2>3, <2>4, <2>5, <2>6, <2>7
    DEF Next, LoopStep, RecvCommand, RecvShutdown, Panic
<1>. QED  BY <1>1, <1>2, Accounting, PTL DEF Spec, ExchangeSpec, Exchange!Spec
=============================================================================
