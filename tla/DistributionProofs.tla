-------------------------- MODULE DistributionProofs --------------------------
(***************************************************************************)
(* Proofs about Distribution for any set of callers and any bound on the   *)
(* requests.                                                               *)
(***************************************************************************)
EXTENDS Distribution, SequenceTheorems, TLAPS

-----------------------------------------------------------------------------
(* Mailboxes as sequences without repetition.                              *)

Once(s) == \A a, b \in DOMAIN s : s[a] = s[b] => a = b

\* The oldest element leaves, and with it its only occurrence.
LEMMA TailOnce ==
  ASSUME NEW S, NEW s \in Seq(S), s # <<>>, Once(s)
  PROVE  /\ Tail(s) \in Seq(S) /\ Once(Tail(s))
         /\ Head(s) \in S /\ Holds(s, Head(s))
         /\ \A x : Holds(Tail(s), x) <=> Holds(s, x) /\ x # Head(s)
<1>1. /\ Tail(s) \in Seq(S) /\ Head(s) \in S /\ Len(s) \in Nat \ {0}
      /\ DOMAIN s = 1 .. Len(s) /\ DOMAIN Tail(s) = 1 .. Len(s) - 1
      /\ Head(s) = s[1] /\ \A a \in DOMAIN Tail(s) : Tail(s)[a] = s[a + 1]
  OBVIOUS
<1>2. Once(Tail(s))
  <2> SUFFICES ASSUME NEW a \in DOMAIN Tail(s), NEW b \in DOMAIN Tail(s), Tail(s)[a] = Tail(s)[b]
               PROVE  a = b
    BY DEF Once
  <2>1. a + 1 \in DOMAIN s /\ b + 1 \in DOMAIN s /\ s[a + 1] = s[b + 1]
    BY <1>1
  <2>2. a + 1 = b + 1
    BY <2>1 DEF Once
  <2>. QED  BY <1>1, <2>2
<1>3. ASSUME NEW x, Holds(s, x), x # Head(s) PROVE Holds(Tail(s), x)
  <2>1. PICK a \in DOMAIN s : s[a] = x
    BY <1>3 DEF Holds
  <2>2. a # 1
    BY <1>1, <1>3, <2>1
  <2>3. a - 1 \in DOMAIN Tail(s) /\ (a - 1) + 1 = a
    BY <1>1, <2>2
  <2>4. Tail(s)[a - 1] = s[(a - 1) + 1]
    BY <1>1, <2>3
  <2>. QED  BY <2>1, <2>3, <2>4 DEF Holds
<1>4. ASSUME NEW x, Holds(Tail(s), x) PROVE Holds(s, x) /\ x # Head(s)
  <2>1. PICK a \in DOMAIN Tail(s) : Tail(s)[a] = x
    BY <1>4 DEF Holds
  <2>2. a \in Nat \ {0} /\ a + 1 \in DOMAIN s /\ s[a + 1] = x /\ 1 \in DOMAIN s
    BY <1>1, <2>1
  <2>3. a + 1 # 1
    BY <2>2
  <2>. QED  BY <1>1, <2>2, <2>3 DEF Holds, Once
<1>5. Holds(s, Head(s))
  BY <1>1 DEF Holds
<1>. QED  BY <1>1, <1>2, <1>3, <1>4, <1>5

\* A new element joins at the end.
LEMMA AppendOnce ==
  ASSUME NEW S, NEW s \in Seq(S), NEW e \in S, ~Holds(s, e), Once(s)
  PROVE  /\ Append(s, e) \in Seq(S) /\ Once(Append(s, e))
         /\ \A x : Holds(Append(s, e), x) <=> Holds(s, x) \/ x = e
<1>1. /\ Append(s, e) \in Seq(S) /\ Len(s) \in Nat /\ DOMAIN s = 1 .. Len(s)
      /\ DOMAIN Append(s, e) = 1 .. Len(s) + 1
      /\ \A a \in DOMAIN s : Append(s, e)[a] = s[a]
      /\ Append(s, e)[Len(s) + 1] = e
  OBVIOUS
<1>2. \A a \in DOMAIN Append(s, e) : a \in DOMAIN s \/ a = Len(s) + 1
  BY <1>1
<1>3. DOMAIN s \subseteq DOMAIN Append(s, e) /\ Len(s) + 1 \in DOMAIN Append(s, e)
  BY <1>1
<1>4. Once(Append(s, e))
  BY <1>1, <1>2 DEF Once, Holds
<1>5. \A x : Holds(Append(s, e), x) <=> Holds(s, x) \/ x = e
  BY <1>1, <1>2, <1>3 DEF Holds
<1>. QED  BY <1>1, <1>4, <1>5

-----------------------------------------------------------------------------
(* The inductive invariant.                                                *)

Sent == DOMAIN sent

\* A response takes one way: while the request or its response is under way
\* nobody has it in his mailbox and no call has taken it.
UnderWay(i) == Holds(queue, i) \/ i \in wire \/ Holds(inbox, i) \/ i \in replies

Known ==
  /\ Sent \subseteq Id
  /\ \A i \in Id : UnderWay(i) => i \in Sent
  /\ \A c \in Caller, i \in Id : Holds(mailbox[c], i) => i \in Sent
  /\ \A j \in Sent : Took(j) => outcome[j] \in Sent

OnePlace ==
  /\ \A i \in wire : i \notin replies /\ ~Holds(inbox, i)
  /\ \A i \in replies : ~Holds(inbox, i)
  /\ \A i \in Id : Holds(queue, i) => i \notin wire /\ i \notin replies /\ ~Holds(inbox, i)
  /\ Once(inbox) /\ Once(queue)

NotYetThere ==
  \A i \in Id : UnderWay(i) => /\ \A c \in Caller : ~Holds(mailbox[c], i)
                               /\ \A j \in Sent : outcome[j] # i

\* What is in a mailbox is there once, and its owner has not taken it yet.
MailOnce ==
  \A c \in Caller :
    /\ Once(mailbox[c])
    /\ \A i \in Id, j \in Sent : Holds(mailbox[c], i) /\ sent[j].caller = c => outcome[j] # i

\* A caller is in one function of its own that has not returned, and every
\* open call is one that its caller is in.
Waits ==
  /\ \A c \in Caller : waiting[c] # 0 =>
       /\ waiting[c] \in Sent
       /\ sent[waiting[c]].caller = c
       /\ outcome[waiting[c]] = Open
  /\ \A i \in Sent : sent[i].kind = "call" /\ outcome[i] = Open => waiting[sent[i].caller] = i

\* Nothing comes of a refused request.
Traceless ==
  \A i \in Sent : outcome[i] = Refused =>
    /\ ~UnderWay(i)
    /\ \A c \in Caller : ~Holds(mailbox[c], i)
    /\ \A j \in Sent : outcome[j] # i

\* The reason why call i may have taken response q.
Explained(i, q) == \/ sent[q].caller # sent[i].caller
                   \/ Abandoned(q)
                   \/ Took(q) /\ outcome[q] # q

\* ForeignReplyExplained is not inductive: that a foreign response of one's own
\* comes from a call that has ended needs Waits, that this call was not refused
\* needs Traceless, and that it is not a response already taken needs MailOnce,
\* which in turn rests on the one way a response takes.
IInv == /\ TypeOK /\ Known /\ OnePlace /\ NotYetThere /\ MailOnce /\ Waits
        /\ Traceless /\ ForeignReplyExplained /\ ResponseTakenOnce

\* No outcome passes for another.
Distinct ==
  /\ \A v \in {Open, TimedOut, Refused, GaveUp} : v \notin Id
  /\ Open \notin {TimedOut, Refused, GaveUp}
  /\ Refused \notin {TimedOut, GaveUp} /\ TimedOut # GaveUp

\* outcome and sent grow together.
LEMMA Domains ==
  ASSUME TypeOK
  PROVE  /\ Sent = 1 .. Len(sent) /\ DOMAIN outcome = Sent /\ Len(sent) \in Nat
         /\ \A i \in Sent : /\ sent[i] \in [caller : Caller, kind : {"call", "oneway"}]
                            /\ outcome[i] \in Outcome
         /\ Distinct
<1> DEFINE R == [caller : Caller, kind : {"call", "oneway"}]
           O == Outcome
<1>0. sent \in Seq(R) /\ outcome \in Seq(O) /\ Len(outcome) = Len(sent)
  BY DEF TypeOK
<1> HIDE DEF R, O
<1>1. Sent = 1 .. Len(sent) /\ DOMAIN outcome = Sent /\ Len(sent) \in Nat
  BY <1>0 DEF Sent
<1>2. \A i \in Sent : sent[i] \in R /\ outcome[i] \in O
  BY <1>0, <1>1
<1>3. Distinct
  BY MaxRequestsAssumption DEF Distinct, Open, TimedOut, Refused, GaveUp, Id
<1>. QED  BY <1>1, <1>2, <1>3 DEF R, O

\* What the network and the server do: they move requests and responses on,
\* and end no call.
Moves ==
  /\ UNCHANGED <<waiting, sent, outcome>>
  /\ \A i \in Id : UnderWay(i)' => UnderWay(i)
  /\ \A c \in Caller, i \in Id : Holds(mailbox'[c], i) => Holds(mailbox[c], i) \/ UnderWay(i)

\* What changes in the network alone.
LEMMA NetworkStep ==
  ASSUME IInv, UNCHANGED <<sent, outcome>>, TypeOK', Waits', OnePlace',
         \A i \in Id : UnderWay(i)' => UnderWay(i),
         \A c \in Caller : Once(mailbox[c])',
         \A c \in Caller, i \in Id :
           Holds(mailbox'[c], i) => Holds(mailbox[c], i) \/ (UnderWay(i) /\ ~UnderWay(i)')
  PROVE  IInv'
<1> USE DEF IInv
<1>1. Sent' = Sent
  BY DEF Sent
<1>2. Known'
  BY <1>1 DEF Known, Took
<1>3. NotYetThere'
  BY <1>1 DEF NotYetThere
<1>4. MailOnce'
  BY <1>1 DEF MailOnce, NotYetThere
<1>5. Traceless'
  BY <1>1 DEF Traceless, Known
<1>6. ForeignReplyExplained' /\ ResponseTakenOnce'
  BY DEF ForeignReplyExplained, ResponseTakenOnce, Took, Abandoned
<1>. QED  BY <1>2, <1>3, <1>4, <1>5, <1>6

\* While nobody returns.
LEMMA StillWaits ==
  ASSUME IInv, UNCHANGED <<waiting, sent, outcome>>
  PROVE  Waits'
BY DEF IInv, Waits, Sent

\* A request joins the queue under a new id.
LEMMA SendEffect ==
  ASSUME TypeOK, NEW c \in Caller, NEW kind \in {"call", "oneway"}, SendRequest(c, kind)
  PROVE  LET new == Len(sent) + 1
         IN  /\ new \in Id /\ new \notin Sent
             /\ Sent' = Sent \cup {new}
             /\ sent'[new] = [caller |-> c, kind |-> kind] /\ outcome'[new] = Open
             /\ \A i \in Sent : sent'[i] = sent[i] /\ outcome'[i] = outcome[i]
             /\ sent' \in Seq([caller : Caller, kind : {"call", "oneway"}])
             /\ outcome' \in Seq(Outcome)
             /\ Len(outcome') = Len(sent')
             /\ queue' = Append(queue, new)
<1> DEFINE new == Len(sent) + 1
           m == [caller |-> c, kind |-> kind]
           R == [caller : Caller, kind : {"call", "oneway"}]
           O == Outcome
<1>1. m \in R /\ Open \in O
  BY DEF Outcome
<1>2. /\ sent \in Seq(R) /\ outcome \in Seq(O) /\ Len(outcome) = Len(sent)
      /\ sent' = Append(sent, m) /\ outcome' = Append(outcome, Open)
      /\ queue' = Append(queue, new) /\ Len(sent) < MaxRequests
  BY DEF TypeOK, SendRequest
<1>3. new \in Id
  BY <1>2, MaxRequestsAssumption DEF Id
<1> HIDE DEF m, R, O
<1>4. /\ sent' \in Seq(R) /\ Len(sent') = new
      /\ sent'[new] = m /\ \A i \in 1 .. Len(sent) : sent'[i] = sent[i]
  BY <1>1, <1>2
<1>5. /\ outcome' \in Seq(O) /\ Len(outcome') = new
      /\ outcome'[new] = Open /\ \A i \in 1 .. Len(sent) : outcome'[i] = outcome[i]
  BY <1>1, <1>2
<1>6. Sent = 1 .. Len(sent) /\ Sent' = 1 .. new /\ Len(sent) \in Nat
  BY <1>2, <1>4 DEF Sent
<1>7. new \notin Sent /\ Sent' = Sent \cup {new}
  BY <1>6
<1>. QED  BY <1>2, <1>3, <1>4, <1>5, <1>6, <1>7 DEF m, R, O

\* call, cast and send.
LEMMA SendStep ==
  ASSUME IInv, NEW c \in Caller, Call(c) \/ OneWay(c)
  PROVE  IInv'
<1> USE DEF IInv
<1> DEFINE new == Len(sent) + 1
<1>0. PICK kind \in {"call", "oneway"} :
        /\ SendRequest(c, kind)
        /\ waiting[c] = 0 /\ waiting' = [waiting EXCEPT ![c] = new]
        /\ UNCHANGED <<mailbox, wire, inbox, replies>>
  BY DEF Call, OneWay, SendRequest
<1>1. /\ new \in Id /\ new \notin Sent
      /\ Sent' = Sent \cup {new}
      /\ sent'[new] = [caller |-> c, kind |-> kind] /\ outcome'[new] = Open
      /\ \A i \in Sent : sent'[i] = sent[i] /\ outcome'[i] = outcome[i]
      /\ sent' \in Seq([caller : Caller, kind : {"call", "oneway"}])
      /\ outcome' \in Seq(Outcome)
      /\ Len(outcome') = Len(sent')
      /\ queue' = Append(queue, new)
  BY <1>0, SendEffect
<1>d. /\ \A i \in Sent : /\ sent[i] \in [caller : Caller, kind : {"call", "oneway"}]
                         /\ outcome[i] \in Outcome
      /\ Distinct
  BY Domains
<1>w. \A d \in Caller : waiting'[d] = IF d = c THEN new ELSE waiting[d]
  BY <1>0 DEF TypeOK
<1>n. /\ new # 0
      /\ waiting' \in [Caller -> 0 .. MaxRequests]
  BY <1>0, <1>1, MaxRequestsAssumption DEF TypeOK, Id
<1> HIDE DEF new
<1>4. ~UnderWay(new) /\ (\A d \in Caller : ~Holds(mailbox[d], new))
        /\ \A j \in Sent : outcome[j] # new
  BY <1>1 DEF Known, Took
<1>q. /\ queue' \in Seq(Id) /\ Once(queue')
      /\ \A x : Holds(queue', x) <=> Holds(queue, x) \/ x = new
  <2>1. queue \in Seq(Id) /\ Once(queue) /\ ~Holds(queue, new)
    BY <1>4 DEF TypeOK, OnePlace, UnderWay
  <2>. QED  BY <1>1, <2>1, AppendOnce
<1>2. TypeOK'
  BY <1>0, <1>1, <1>n, <1>q DEF TypeOK
<1>3. \A i \in Id : UnderWay(i)' <=> UnderWay(i) \/ i = new
  BY <1>0, <1>q DEF UnderWay
<1>5. Known'
  BY <1>0, <1>1, <1>3, <1>d DEF Known, Took, Distinct
<1>6. OnePlace'
  BY <1>0, <1>1, <1>4, <1>q DEF OnePlace, UnderWay
<1>7. NotYetThere'
  BY <1>0, <1>1, <1>3, <1>4, <1>d DEF NotYetThere, Distinct
<1>8. MailOnce'
  BY <1>0, <1>1, <1>4, <1>d DEF MailOnce, Distinct
<1>t. Traceless'
  <2> SUFFICES ASSUME NEW i \in Sent', outcome'[i] = Refused
               PROVE  /\ ~UnderWay(i)'
                      /\ \A d \in Caller : ~Holds(mailbox'[d], i)
                      /\ \A j \in Sent' : outcome'[j] # i
    BY DEF Traceless
  <2>1. i \in Sent /\ i # new /\ i \in Id /\ outcome[i] = Refused
    <3>1. i \in Sent /\ i # new /\ outcome[i] = Refused
      BY <1>1, <1>d DEF Distinct
    <3>2. Sent \subseteq Id
      BY DEF Known
    <3>. QED  BY <3>1, <3>2
  <2>2. ~UnderWay(i) /\ (\A d \in Caller : ~Holds(mailbox[d], i)) /\ \A j \in Sent : outcome[j] # i
    BY <2>1 DEF Traceless
  <2>. QED  BY <1>0, <1>1, <1>3, <1>d, <2>1, <2>2 DEF Distinct
<1>9. Waits'
  <2>1. \A d \in Caller : waiting'[d] # 0 =>
          /\ waiting'[d] \in Sent'
          /\ sent'[waiting'[d]].caller = d
          /\ outcome'[waiting'[d]] = Open
    BY <1>1, <1>w DEF Waits
  <2>2. ASSUME NEW i \in Sent', sent'[i].kind = "call", outcome'[i] = Open
        PROVE  waiting'[sent'[i].caller] = i
    <3>1. CASE i = new
      BY <1>1, <1>w, <2>2, <3>1
    <3>2. CASE i \in Sent
      <4>1. sent[i].caller \in Caller /\ waiting[sent[i].caller] = i /\ i # 0
        BY <1>1, <1>d, <2>2, <3>2, Domains DEF Waits
      <4>2. sent[i].caller # c
        BY <1>0, <4>1
      <4>. QED  BY <1>1, <1>w, <3>2, <4>1, <4>2
    <3>. QED  BY <1>1, <3>1, <3>2
  <2>. QED  BY <2>1, <2>2 DEF Waits
<1>10. ForeignReplyExplained'
  <2> SUFFICES ASSUME NEW i \in Sent', NEW q \in Id, outcome'[i] = q, q # i
               PROVE  Explained(i, q)'
    BY DEF ForeignReplyExplained, Explained, Took, Sent
  <2>1. i \in Sent /\ outcome[i] = q
    BY <1>1, <1>d DEF Distinct
  <2>2. q \in Sent
    BY <2>1 DEF Known, Took
  <2>3. Explained(i, q)
    BY <2>1 DEF ForeignReplyExplained, Explained, Took, Sent
  <2>. QED  BY <1>1, <2>1, <2>2, <2>3 DEF Explained, Abandoned, Took
<1>11. ResponseTakenOnce'
  <2> SUFFICES ASSUME NEW i \in Sent', NEW j \in Sent', i # j, Took(i)', Took(j)',
                      sent'[i].caller = sent'[j].caller
               PROVE  outcome'[i] # outcome'[j]
    BY DEF ResponseTakenOnce, Sent
  <2>1. \A k \in Sent' : Took(k)' => k \in Sent /\ Took(k)
    BY <1>1, <1>d DEF Took, Distinct
  <2>2. i \in Sent /\ j \in Sent /\ Took(i) /\ Took(j)
    BY <2>1
  <2>3. /\ sent'[i] = sent[i] /\ sent'[j] = sent[j]
        /\ outcome'[i] = outcome[i] /\ outcome'[j] = outcome[j]
    BY <1>1, <2>2
  <2>. QED  BY <2>2, <2>3 DEF ResponseTakenOnce, Sent
<1>. QED  BY <1>2, <1>5, <1>6, <1>7, <1>8, <1>9, <1>10, <1>11, <1>t

\* A function returns: with the oldest response in the mailbox, or without one.
LEMMA EndEffect ==
  ASSUME IInv, NEW c \in Caller, waiting[c] # 0, NEW v \in Outcome, v # Open,
         outcome' = [outcome EXCEPT ![waiting[c]] = v],
         waiting' = [waiting EXCEPT ![c] = 0], UNCHANGED sent
  PROVE  /\ Sent' = Sent
         /\ outcome' \in Seq(Outcome) /\ Len(outcome') = Len(sent')
         /\ outcome'[waiting[c]] = v
         /\ \A j \in Sent : j # waiting[c] => outcome'[j] = outcome[j]
         /\ waiting' \in [Caller -> 0 .. MaxRequests]
         /\ Waits'
<1> USE DEF IInv
<1> DEFINE i == waiting[c]
<1>1. /\ i \in Sent /\ sent[i].caller = c /\ outcome[i] = Open
  BY DEF Waits
<1>2. /\ Sent = 1 .. Len(sent) /\ DOMAIN outcome = Sent
      /\ \A j \in Sent : sent[j] \in [caller : Caller, kind : {"call", "oneway"}]
  BY Domains
<1>3. i \in 1 .. Len(outcome) /\ v \in Outcome
      /\ outcome \in Seq(Outcome)
  BY <1>1, <1>2 DEF TypeOK
<1>4. outcome' \in Seq(Outcome) /\ Len(outcome') = Len(outcome)
  BY <1>3, ExceptSeq
<1>5. Sent' = Sent
  BY DEF Sent
<1>6. outcome'[i] = v /\ \A j \in Sent : j # i => outcome'[j] = outcome[j]
  BY <1>1, <1>2
<1>7. waiting' \in [Caller -> 0 .. MaxRequests]
      /\ \A d \in Caller : waiting'[d] = IF d = c THEN 0 ELSE waiting[d]
  BY MaxRequestsAssumption DEF TypeOK
<1>8. Waits'
  <2>1. ASSUME NEW d \in Caller, waiting'[d] # 0
        PROVE  /\ waiting'[d] \in Sent'
               /\ sent'[waiting'[d]].caller = d
               /\ outcome'[waiting'[d]] = Open
    <3>1. d # c /\ waiting'[d] = waiting[d] /\ waiting[d] # 0
      BY <1>7, <2>1
    <3>2. /\ waiting[d] \in Sent /\ sent[waiting[d]].caller = d
          /\ outcome[waiting[d]] = Open
      BY <3>1 DEF Waits
    <3>3. waiting[d] # i
      BY <1>1, <3>1, <3>2
    <3>. QED  BY <1>5, <1>6, <3>1, <3>2, <3>3
  <2>2. ASSUME NEW j \in Sent, sent[j].kind = "call", outcome'[j] = Open
        PROVE  waiting'[sent[j].caller] = j
    <3>1. j # i
      BY <1>2, <1>6, <2>2
    <3>2. waiting[sent[j].caller] = j /\ sent[j].caller \in Caller
      BY <1>2, <1>6, <2>2, <3>1 DEF Waits
    <3>. QED  BY <1>7, <3>1, <3>2
  <2>. QED  BY <1>5, <2>1, <2>2 DEF Waits
<1>. QED  BY <1>4, <1>5, <1>6, <1>7, <1>8 DEF TypeOK

\* What was explained stays explained when an open call ends.
LEMMA StaysExplained ==
  ASSUME IInv, NEW i \in Sent, outcome[i] = Open, UNCHANGED sent,
         \A j \in Sent : j # i => outcome'[j] = outcome[j],
         NEW k \in Sent, NEW q \in Id, outcome[k] = q, q # k
  PROVE  Explained(k, q)'
<1>1. q \in Sent
  BY DEF IInv, Known, Took
<1>2. Explained(k, q)
  BY DEF IInv, ForeignReplyExplained, Explained, Took, Sent
<1>3. Distinct
  BY Domains DEF IInv
<1>4. CASE q = i
  BY <1>2, <1>3, <1>4 DEF Explained, Abandoned, Took, Distinct
<1>5. CASE q # i
  BY <1>1, <1>2, <1>5 DEF Explained, Abandoned, Took
<1>. QED  BY <1>4, <1>5

\* A call takes the oldest response.
LEMMA ReceiveStep ==
  ASSUME IInv, NEW c \in Caller, ReceiveResponse(c)
  PROVE  IInv'
<1> USE DEF IInv
<1> DEFINE i == waiting[c]
           q == Head(mailbox[c])
<1>0. /\ i # 0 /\ mailbox[c] # <<>> /\ mailbox[c] \in Seq(Id) /\ Once(mailbox[c])
      /\ outcome' = [outcome EXCEPT ![i] = q]
      /\ mailbox' = [mailbox EXCEPT ![c] = Tail(@)]
      /\ waiting' = [waiting EXCEPT ![c] = 0]
      /\ UNCHANGED <<sent, queue, wire, inbox, replies>>
  BY DEF ReceiveResponse, Receiving, Return, TypeOK, MailOnce
<1>1. /\ Tail(mailbox[c]) \in Seq(Id) /\ Once(Tail(mailbox[c]))
      /\ q \in Id /\ Holds(mailbox[c], q)
      /\ \A x : Holds(Tail(mailbox[c]), x) <=> Holds(mailbox[c], x) /\ x # q
  BY <1>0, TailOnce
<1>2. /\ i \in Sent /\ sent[i].caller = c /\ outcome[i] = Open
  BY <1>0 DEF Waits
<1>3. /\ Sent' = Sent
      /\ outcome' \in Seq(Outcome) /\ Len(outcome') = Len(sent')
      /\ outcome'[i] = q
      /\ \A j \in Sent : j # i => outcome'[j] = outcome[j]
      /\ waiting' \in [Caller -> 0 .. MaxRequests]
      /\ Waits'
  <2>1. q \in Outcome /\ q # Open
    BY <1>1, Domains DEF Outcome, Distinct
  <2>. QED  BY <1>0, <2>1, EndEffect
<1>4. /\ mailbox' \in [Caller -> Seq(Id)]
      /\ mailbox'[c] = Tail(mailbox[c]) /\ \A d \in Caller : d # c => mailbox'[d] = mailbox[d]
  BY <1>0, <1>1 DEF TypeOK
<1>5. q \in Sent /\ ~UnderWay(q) /\ outcome[q] # Refused
      /\ \A j \in Sent : sent[j].caller = c => outcome[j] # q
  BY <1>1 DEF Known, NotYetThere, MailOnce, Traceless
<1>6. \A j \in Id : UnderWay(j)' <=> UnderWay(j)
  BY <1>0 DEF UnderWay
<1>7. /\ \A j \in Sent : /\ sent[j] \in [caller : Caller, kind : {"call", "oneway"}]
                         /\ outcome[j] \in Outcome
      /\ Distinct
  BY Domains
<1>8. sent[i].caller = c
  BY <1>2
<1> HIDE DEF i, q
<1>9. TypeOK'
  BY <1>0, <1>3, <1>4 DEF TypeOK
<1>10. Known'
  <2>1. \A d \in Caller, j \in Id : Holds(mailbox'[d], j) => Holds(mailbox[d], j)
    BY <1>1, <1>4
  <2>2. \A j \in Sent : outcome'[j] \in Id => outcome'[j] \in Sent
    BY <1>3, <1>5 DEF Known, Took
  <2>. QED  BY <1>3, <1>6, <2>1, <2>2 DEF Known, Took
<1>11. OnePlace'
  BY <1>0 DEF OnePlace
<1>12. NotYetThere'
  <2>1. \A d \in Caller, j \in Id : Holds(mailbox'[d], j) => Holds(mailbox[d], j)
    BY <1>1, <1>4
  <2>2. \A j \in Id, k \in Sent : UnderWay(j) => outcome'[k] # j
    BY <1>3, <1>5 DEF NotYetThere
  <2>. QED  BY <1>3, <1>6, <2>1, <2>2 DEF NotYetThere
<1>13. MailOnce'
  <2> SUFFICES ASSUME NEW d \in Caller
               PROVE  /\ Once(mailbox'[d])
                      /\ \A j \in Id, k \in Sent :
                           Holds(mailbox'[d], j) /\ sent[k].caller = d => outcome'[k] # j
    BY <1>0, <1>3 DEF MailOnce
  <2>1. CASE d = c
    BY <1>1, <1>3, <1>4, <2>1 DEF MailOnce
  <2>2. CASE d # c
    BY <1>3, <1>4, <1>8, <2>2 DEF MailOnce
  <2>. QED  BY <2>1, <2>2
<1>14. ForeignReplyExplained'
  <2> SUFFICES ASSUME NEW k \in Sent, NEW r \in Id, outcome'[k] = r, r # k
               PROVE  Explained(k, r)'
    BY <1>3 DEF ForeignReplyExplained, Explained, Took, Sent
  <2>1. CASE k = i
    <3>1. r = q /\ q # i
      BY <1>3, <2>1
    <3>2. CASE sent[q].caller = c /\ sent[q].kind = "call"
      <4>1. outcome[q] # Open
        <5>1. outcome[q] = Open => waiting[c] = q
          BY <1>5, <3>2 DEF Waits
        <5>. QED  BY <3>1, <5>1 DEF i
      <4>2. outcome'[q] = outcome[q] /\ outcome[q] \in Id \cup {TimedOut, GaveUp} /\ outcome[q] # q
        BY <1>3, <1>5, <1>7, <3>1, <3>2, <4>1 DEF Outcome
      <4>. QED  BY <3>1, <4>2 DEF Explained, Abandoned, Took
    <3>3. CASE sent[q].caller # c
      BY <1>0, <1>8, <2>1, <3>1, <3>3 DEF Explained
    <3>4. CASE sent[q].kind = "oneway"
      BY <1>0, <3>1, <3>4 DEF Explained, Abandoned
    <3>. QED  BY <1>5, <1>7, <3>2, <3>3, <3>4
  <2>2. CASE k # i
    BY <1>0, <1>2, <1>3, <2>2, StaysExplained
  <2>. QED  BY <2>1, <2>2
<1>15. ResponseTakenOnce'
  <2> SUFFICES ASSUME NEW j \in Sent, NEW k \in Sent, j # k, sent[j].caller = sent[k].caller,
                      Took(j)', Took(k)'
               PROVE  outcome'[j] # outcome'[k]
    BY <1>0, <1>3 DEF ResponseTakenOnce, Sent
  <2>1. CASE j = i
    BY <1>3, <1>5, <1>8, <2>1
  <2>2. CASE k = i
    BY <1>3, <1>5, <1>8, <2>2
  <2>3. CASE j # i /\ k # i
    BY <1>3, <2>3 DEF ResponseTakenOnce, Took, Sent
  <2>. QED  BY <2>1, <2>2, <2>3
<1>16. Traceless'
  <2> SUFFICES ASSUME NEW k \in Sent, outcome'[k] = Refused
               PROVE  /\ ~UnderWay(k)'
                      /\ \A d \in Caller : ~Holds(mailbox'[d], k)
                      /\ \A j \in Sent : outcome'[j] # k
    BY <1>3 DEF Traceless
  <2>1. k # i /\ k # q /\ outcome[k] = Refused /\ k \in Id
    BY <1>1, <1>3, <1>5, <1>7, <1>2 DEF Distinct, Known
  <2>2. /\ ~UnderWay(k) /\ (\A d \in Caller : ~Holds(mailbox[d], k))
        /\ \A j \in Sent : outcome[j] # k
    BY <2>1 DEF Traceless
  <2>. QED  BY <1>1, <1>3, <1>4, <1>6, <2>1, <2>2
<1>. QED  BY <1>3, <1>9, <1>10, <1>11, <1>12, <1>13, <1>14, <1>15, <1>16

\* A call times out, or safe_call gives up on the Node.
LEMMA GiveUpStep ==
  ASSUME IInv, NEW c \in Caller, Timeout(c) \/ GiveUp(c)
  PROVE  IInv'
<1> USE DEF IInv
<1> DEFINE i == waiting[c]
<1>0. PICK v \in {TimedOut, GaveUp} :
        /\ i # 0
        /\ outcome' = [outcome EXCEPT ![i] = v]
        /\ waiting' = [waiting EXCEPT ![c] = 0]
        /\ UNCHANGED <<mailbox, sent, queue, wire, inbox, replies>>
  BY DEF Timeout, GiveUp, Receiving, Return
<1>1. i \in Sent /\ outcome[i] = Open
  BY <1>0 DEF Waits
<1>3. Distinct
  BY Domains
<1>2. /\ Sent' = Sent
      /\ outcome' \in Seq(Outcome) /\ Len(outcome') = Len(sent')
      /\ outcome'[i] = v
      /\ \A j \in Sent : j # i => outcome'[j] = outcome[j]
      /\ waiting' \in [Caller -> 0 .. MaxRequests]
      /\ Waits'
  <2>1. v \in Outcome /\ v # Open
    BY <1>3 DEF Outcome, Distinct
  <2>. QED  BY <1>0, <2>1, EndEffect
<1>4. \A j \in Sent : outcome'[j] \in Id \cup {Refused} => j # i /\ outcome'[j] = outcome[j]
  BY <1>2, <1>3 DEF Distinct
<1> HIDE DEF i
<1>5. TypeOK'
  BY <1>0, <1>2 DEF TypeOK
<1>6. Known' /\ OnePlace' /\ NotYetThere' /\ MailOnce'
  BY <1>0, <1>2, <1>4 DEF Known, OnePlace, NotYetThere, MailOnce, UnderWay, Took
<1>7. ForeignReplyExplained'
  <2> SUFFICES ASSUME NEW k \in Sent, NEW r \in Id, outcome'[k] = r, r # k
               PROVE  Explained(k, r)'
    BY <1>2 DEF ForeignReplyExplained, Explained, Took, Sent
  <2>1. k # i /\ outcome[k] = r
    BY <1>4
  <2>. QED  BY <1>0, <1>1, <1>2, <2>1, StaysExplained
<1>8. ResponseTakenOnce'
  BY <1>0, <1>2, <1>4 DEF ResponseTakenOnce, Took, Sent
<1>9. Traceless'
  <2> SUFFICES ASSUME NEW k \in Sent, outcome'[k] = Refused
               PROVE  ~UnderWay(k)' /\ (\A d \in Caller : ~Holds(mailbox'[d], k))
                      /\ \A j \in Sent : outcome'[j] # k
    BY <1>2 DEF Traceless
  <2>1. outcome[k] = Refused /\ k \in Id
    BY <1>4 DEF Known
  <2>2. ~UnderWay(k) /\ (\A d \in Caller : ~Holds(mailbox[d], k)) /\ \A j \in Sent : outcome[j] # k
    BY <2>1 DEF Traceless
  <2>. QED  BY <1>0, <1>4, <2>1, <2>2 DEF UnderWay
<1>. QED  BY <1>2, <1>5, <1>6, <1>7, <1>8, <1>9

\* The oldest request leaves the mailbox of the Node.
LEMMA QueueHead ==
  ASSUME IInv, queue # <<>>
  PROVE  LET i == Head(queue)
         IN  /\ i \in Id /\ i \in Sent /\ Holds(queue, i) /\ UnderWay(i)
             /\ sent[i].caller \in Caller /\ sent[i].kind \in {"call", "oneway"}
             /\ Tail(queue) \in Seq(Id) /\ Once(Tail(queue))
             /\ \A x : Holds(Tail(queue), x) <=> Holds(queue, x) /\ x # i
<1> USE DEF IInv
<1> DEFINE i == Head(queue)
<1>1. queue \in Seq(Id) /\ Once(queue)
  BY DEF TypeOK, OnePlace
<1>2. /\ i \in Id /\ Holds(queue, i) /\ Tail(queue) \in Seq(Id) /\ Once(Tail(queue))
      /\ \A x : Holds(Tail(queue), x) <=> Holds(queue, x) /\ x # i
  BY <1>1, TailOnce
<1> HIDE DEF i
<1>3. UnderWay(i) /\ i \in Sent
  BY <1>2 DEF UnderWay, Known
<1>4. sent[i] \in [caller : Caller, kind : {"call", "oneway"}]
  BY <1>3, Domains
<1>. QED  BY <1>2, <1>3, <1>4 DEF i

\* The Node sends the oldest request; the function that made it returns only
\* if it was a cast or a send.
LEMMA HandleStep ==
  ASSUME IInv, HandleSend
  PROVE  /\ IInv'
         /\ Moves \/ \E i \in Sent : sent'[i].kind = "oneway" /\ UNCHANGED sent
<1> USE DEF IInv
<1> DEFINE i == Head(queue)
           c == sent[i].caller
<1>0. /\ queue # <<>> /\ queue' = Tail(queue) /\ wire' = wire \cup {i}
      /\ UNCHANGED <<mailbox, sent, outcome, inbox, replies>>
      /\ \/ waiting[c] = i /\ sent[i].kind = "oneway" /\ waiting' = [waiting EXCEPT ![c] = 0]
         \/ UNCHANGED waiting
  BY DEF HandleSend
<1>1. /\ i \in Id /\ i \in Sent /\ Holds(queue, i) /\ UnderWay(i) /\ c \in Caller
      /\ queue' \in Seq(Id) /\ Once(queue')
      /\ \A x : Holds(queue', x) <=> Holds(queue, x) /\ x # i
  BY <1>0, QueueHead
<1> HIDE DEF i, c
<1>2. Waits' /\ waiting' \in [Caller -> 0 .. MaxRequests]
  <2>1. CASE UNCHANGED waiting
    BY <1>0, <2>1, StillWaits DEF TypeOK
  <2>2. CASE waiting[c] = i /\ sent[i].kind = "oneway" /\ waiting' = [waiting EXCEPT ![c] = 0]
    <3>1. waiting' \in [Caller -> 0 .. MaxRequests]
          /\ \A d \in Caller : waiting'[d] = IF d = c THEN 0 ELSE waiting[d]
      BY <1>1, <2>2, MaxRequestsAssumption DEF TypeOK
    <3>2. Sent' = Sent /\ UNCHANGED <<sent, outcome>>
      BY <1>0 DEF Sent
    <3>3. \A d \in Caller : waiting'[d] # 0 => waiting'[d] = waiting[d]
      BY <3>1
    <3>4. ASSUME NEW j \in Sent, sent[j].kind = "call", outcome[j] = Open
          PROVE  waiting'[sent[j].caller] = j
      <4>1. sent[j].caller \in Caller /\ waiting[sent[j].caller] = j
        BY <3>4, Domains DEF Waits
      <4>2. j # i
        BY <2>2, <3>4
      <4>. QED  BY <2>2, <3>1, <4>1, <4>2
    <3>. QED  BY <3>1, <3>2, <3>3, <3>4 DEF Waits
  <2>. QED  BY <1>0, <2>1, <2>2
<1>3. TypeOK'
  BY <1>0, <1>1, <1>2 DEF TypeOK
<1>4. OnePlace'
  BY <1>0, <1>1 DEF OnePlace
<1>5. \A j \in Id : UnderWay(j)' => UnderWay(j)
  BY <1>0, <1>1 DEF UnderWay
<1>6. \A d \in Caller : Once(mailbox[d])'
  BY <1>0 DEF MailOnce
<1>7. IInv'
  BY <1>0, <1>2, <1>3, <1>4, <1>5, <1>6, NetworkStep
<1>8. Moves \/ \E j \in Sent : sent'[j].kind = "oneway" /\ UNCHANGED sent
  BY <1>0, <1>1, <1>5 DEF Moves
<1>. QED  BY <1>7, <1>8

\* The Node refuses the oldest request.
LEMMA RefuseStep ==
  ASSUME IInv, RefuseSend
  PROVE  /\ IInv' /\ UNCHANGED sent
         /\ \A j \in Id : UnderWay(j)' => UnderWay(j)
         /\ \/ Moves
            \/ \E i \in Sent : /\ ~UnderWay(i)' /\ UnderWay(i) /\ outcome'[i] = Refused
                              /\ waiting[sent[i].caller] = i
                              /\ waiting' = [waiting EXCEPT ![sent[i].caller] = 0]
                              /\ UNCHANGED mailbox
                              /\ \A j \in Sent : j # i => outcome'[j] = outcome[j]
<1> USE DEF IInv
<1>0. PICK i \in Sent, c \in Caller :
        /\ i = Head(queue) /\ c = sent[i].caller
        /\ queue # <<>> /\ queue' = Tail(queue)
        /\ UNCHANGED <<mailbox, sent, wire, inbox, replies>>
        /\ \/ waiting[c] = i /\ outcome' = [outcome EXCEPT ![waiting[c]] = Refused]
                           /\ waiting' = [waiting EXCEPT ![c] = 0]
           \/ UNCHANGED <<waiting, outcome>>
  BY QueueHead DEF RefuseSend, Return
<1>1. /\ i \in Id /\ Holds(queue, i) /\ UnderWay(i)
      /\ queue' \in Seq(Id) /\ Once(queue')
      /\ \A x : Holds(queue', x) <=> Holds(queue, x) /\ x # i
  BY <1>0, QueueHead
<1>d. Distinct
  BY Domains
<1>n. i # 0
  BY <1>1 DEF Id
<1>4. OnePlace'
  BY <1>0, <1>1 DEF OnePlace
<1>5. (\A j \in Id : UnderWay(j)' => UnderWay(j)) /\ ~UnderWay(i)'
  BY <1>0, <1>1 DEF UnderWay, OnePlace
<1>6. CASE UNCHANGED <<waiting, outcome>>
  <2>1. TypeOK'
    BY <1>0, <1>1, <1>6 DEF TypeOK
  <2>2. Waits' /\ \A d \in Caller : Once(mailbox[d])'
    BY <1>0, <1>6, StillWaits DEF MailOnce
  <2>3. IInv'
    BY <1>0, <1>4, <1>5, <1>6, <2>1, <2>2, NetworkStep
  <2>. QED  BY <1>0, <1>5, <1>6, <2>3 DEF Moves
<1>7. CASE /\ waiting[c] = i /\ outcome' = [outcome EXCEPT ![waiting[c]] = Refused]
           /\ waiting' = [waiting EXCEPT ![c] = 0]
  <2>1. /\ Sent' = Sent
        /\ outcome' \in Seq(Outcome) /\ Len(outcome') = Len(sent')
        /\ outcome'[i] = Refused
        /\ \A j \in Sent : j # i => outcome'[j] = outcome[j]
        /\ waiting' \in [Caller -> 0 .. MaxRequests]
        /\ Waits'
    <3>1. Refused \in Outcome /\ Refused # Open /\ waiting[c] # 0
      BY <1>7, <1>d, <1>n DEF Outcome, Distinct
    <3>2. /\ Sent' = Sent
          /\ outcome' \in Seq(Outcome) /\ Len(outcome') = Len(sent')
          /\ outcome'[waiting[c]] = Refused
          /\ \A j \in Sent : j # waiting[c] => outcome'[j] = outcome[j]
          /\ waiting' \in [Caller -> 0 .. MaxRequests]
          /\ Waits'
      <4>1. UNCHANGED sent
        BY <1>0
      <4>. QED  BY <1>7, <3>1, <4>1, EndEffect
    <3>. QED  BY <1>7, <3>2
  <2>2. outcome[i] = Open
    BY <1>1, <1>7, <1>n DEF Waits
  <2>3. \A j \in Sent : outcome'[j] \in Id => j # i /\ outcome'[j] = outcome[j]
    BY <1>d, <2>1 DEF Distinct
  <2>4. TypeOK'
    BY <1>0, <1>1, <2>1 DEF TypeOK
  <2>5. Known' /\ NotYetThere' /\ MailOnce'
    BY <1>0, <1>5, <2>1, <2>3 DEF Known, NotYetThere, MailOnce, Took
  <2>6. ForeignReplyExplained'
    <3> SUFFICES ASSUME NEW k \in Sent, NEW r \in Id, outcome'[k] = r, r # k
                 PROVE  Explained(k, r)'
      BY <2>1 DEF ForeignReplyExplained, Explained, Took, Sent
    <3>1. k # i /\ outcome[k] = r
      BY <2>3
    <3>. QED  BY <1>0, <1>1, <2>1, <2>2, <3>1, StaysExplained
  <2>7. ResponseTakenOnce'
    BY <1>0, <2>1, <2>3 DEF ResponseTakenOnce, Took, Sent
  <2>8. Traceless'
    <3> SUFFICES ASSUME NEW k \in Sent, outcome'[k] = Refused
                 PROVE  ~UnderWay(k)' /\ (\A d \in Caller : ~Holds(mailbox'[d], k))
                        /\ \A j \in Sent : outcome'[j] # k
      BY <2>1 DEF Traceless
    <3>1. k \in Id
      BY DEF Known
    <3>2. /\ ~UnderWay(k)' /\ (\A d \in Caller : ~Holds(mailbox[d], k))
          /\ \A j \in Sent : outcome[j] # k
      <4>1. CASE k = i
        BY <1>1, <1>5, <4>1 DEF NotYetThere
      <4>2. CASE k # i
        BY <1>5, <2>1, <3>1, <4>2 DEF Traceless
      <4>. QED  BY <4>1, <4>2
    <3>. QED  BY <1>0, <2>3, <3>1, <3>2
  <2>9. IInv'
    BY <1>4, <2>1, <2>4, <2>5, <2>6, <2>7, <2>8
  <2>. QED  BY <1>0, <1>1, <1>5, <1>7, <2>1, <2>9
<1>. QED  BY <1>0, <1>6, <1>7

\* A response reaches every registered process.
LEMMA DeliverStep ==
  ASSUME IInv, NEW i \in replies, DeliverReply(i)
  PROVE  IInv' /\ Moves
<1> USE DEF IInv
<1>0. /\ i \in Id /\ UnderWay(i) /\ i \notin wire /\ ~Holds(inbox, i) /\ ~Holds(queue, i)
      /\ replies' = replies \ {i}
      /\ mailbox' = [c \in Caller |-> Append(mailbox[c], i)]
      /\ UNCHANGED <<waiting, sent, outcome, queue, wire, inbox>>
  BY DEF DeliverReply, TypeOK, UnderWay, OnePlace
<1>1. ASSUME NEW c \in Caller
      PROVE  /\ Append(mailbox[c], i) \in Seq(Id) /\ Once(Append(mailbox[c], i))
             /\ \A x : Holds(Append(mailbox[c], i), x) <=> Holds(mailbox[c], x) \/ x = i
  <2>1. mailbox[c] \in Seq(Id) /\ ~Holds(mailbox[c], i) /\ Once(mailbox[c])
    BY <1>0 DEF TypeOK, NotYetThere, MailOnce
  <2>. QED  BY <1>0, <2>1, AppendOnce
<1>2. \A c \in Caller : /\ mailbox'[c] \in Seq(Id) /\ Once(mailbox'[c])
                        /\ \A x : Holds(mailbox'[c], x) <=> Holds(mailbox[c], x) \/ x = i
  BY <1>0, <1>1
<1>3. TypeOK'
  BY <1>0, <1>1 DEF TypeOK
<1>4. OnePlace'
  BY <1>0 DEF OnePlace
<1>5. (\A j \in Id : UnderWay(j)' => UnderWay(j)) /\ ~UnderWay(i)'
  BY <1>0 DEF UnderWay
<1>. QED  BY <1>0, <1>2, <1>3, <1>4, <1>5, StillWaits, NetworkStep DEF Moves

\* A request reaches the server.
LEMMA ArriveStep ==
  ASSUME IInv, NEW i \in wire, Arrive(i)
  PROVE  IInv' /\ Moves
<1> USE DEF IInv
<1>0. /\ i \in Id /\ i \notin replies /\ ~Holds(inbox, i) /\ ~Holds(queue, i)
      /\ inbox \in Seq(Id) /\ Once(inbox)
      /\ wire' = wire \ {i} /\ inbox' = Append(inbox, i)
      /\ UNCHANGED <<waiting, mailbox, sent, outcome, queue, replies>>
  BY DEF Arrive, TypeOK, OnePlace
<1>1. /\ inbox' \in Seq(Id) /\ Once(inbox')
      /\ \A x : Holds(inbox', x) <=> Holds(inbox, x) \/ x = i
  BY <1>0, AppendOnce
<1>2. TypeOK'
  BY <1>0, <1>1 DEF TypeOK
<1>3. OnePlace'
  BY <1>0, <1>1 DEF OnePlace
<1>4. \A j \in Id : UnderWay(j)' => UnderWay(j)
  BY <1>0, <1>1 DEF UnderWay
<1>5. \A c \in Caller : Once(mailbox[c])'
  BY <1>0 DEF MailOnce
<1>. QED  BY <1>0, <1>2, <1>3, <1>4, <1>5, StillWaits, NetworkStep DEF Moves

\* The server answers the oldest request.
LEMMA ServeStep ==
  ASSUME IInv, ServeRequest
  PROVE  IInv' /\ Moves
<1> USE DEF IInv
<1> DEFINE i == Head(inbox)
<1>0. /\ inbox # <<>> /\ inbox \in Seq(Id) /\ Once(inbox)
      /\ inbox' = Tail(inbox) /\ replies' = replies \cup {i}
      /\ UNCHANGED <<waiting, mailbox, sent, outcome, queue, wire>>
  BY DEF ServeRequest, TypeOK, OnePlace
<1>1. /\ inbox' \in Seq(Id) /\ Once(inbox') /\ i \in Id /\ Holds(inbox, i)
      /\ \A x : Holds(inbox', x) <=> Holds(inbox, x) /\ x # i
  BY <1>0, TailOnce
<1> HIDE DEF i
<1>2. TypeOK'
  BY <1>0, <1>1 DEF TypeOK
<1>3. OnePlace'
  BY <1>0, <1>1 DEF OnePlace
<1>4. \A j \in Id : UnderWay(j)' => UnderWay(j)
  BY <1>0, <1>1 DEF UnderWay
<1>5. \A c \in Caller : Once(mailbox[c])'
  BY <1>0 DEF MailOnce
<1>. QED  BY <1>0, <1>2, <1>3, <1>4, <1>5, StillWaits, NetworkStep DEF Moves

\* Requests and responses are lost, and a server crashes.
LEMMA LossStep ==
  ASSUME IInv, \/ \E i \in wire : LoseRequest(i)
               \/ \E i \in replies : LoseReply(i)
               \/ CrashServer
  PROVE  IInv' /\ Moves
<1> USE DEF IInv
<1>0. /\ wire' \subseteq wire /\ replies' \subseteq replies
      /\ inbox' = inbox \/ inbox' = <<>>
      /\ UNCHANGED <<waiting, mailbox, sent, outcome, queue>>
  BY DEF LoseRequest, LoseReply, CrashServer
<1>1. inbox' \in Seq(Id) /\ Once(inbox') /\ \A x : Holds(inbox', x) => Holds(inbox, x)
  <2>1. CASE inbox' = inbox
    BY <2>1 DEF TypeOK, OnePlace
  <2>2. CASE inbox' = <<>>
    <3>1. inbox' \in Seq(Id) /\ DOMAIN inbox' = {}
      BY <2>2
    <3>. QED  BY <3>1 DEF Once, Holds
  <2>. QED  BY <1>0, <2>1, <2>2
<1>2. TypeOK'
  BY <1>0, <1>1 DEF TypeOK
<1>3. OnePlace'
  BY <1>0, <1>1 DEF OnePlace
<1>4. \A j \in Id : UnderWay(j)' => UnderWay(j)
  BY <1>0, <1>1 DEF UnderWay
<1>5. \A c \in Caller : Once(mailbox[c])'
  BY <1>0 DEF MailOnce
<1>. QED  BY <1>0, <1>2, <1>3, <1>4, <1>5, StillWaits, NetworkStep DEF Moves

-----------------------------------------------------------------------------
(* Theorems.                                                               *)

\* The inductive invariant holds in every reachable state.
THEOREM DistributionInvariant == Spec => []IInv
<1>1. Init => IInv
  <2> SUFFICES ASSUME Init PROVE IInv
    OBVIOUS
  <2>1. TypeOK
    BY MaxRequestsAssumption DEF Init, TypeOK
  <2>2. /\ \A c \in Caller : mailbox[c] = <<>> /\ waiting[c] = 0
        /\ Sent = {} /\ queue = <<>> /\ inbox = <<>> /\ wire = {} /\ replies = {}
    BY DEF Init, Sent
  <2>3. Known /\ OnePlace /\ NotYetThere /\ MailOnce /\ Waits /\ Traceless
    BY <2>2 DEF Known, OnePlace, NotYetThere, MailOnce, Waits, Traceless, UnderWay, Holds, Once
  <2>4. ForeignReplyExplained /\ ResponseTakenOnce
    BY <2>2 DEF ForeignReplyExplained, ResponseTakenOnce, Sent
  <2>. QED  BY <2>1, <2>3, <2>4 DEF IInv
<1>2. IInv /\ [Next]_vars => IInv'
  <2> SUFFICES ASSUME IInv, [Next]_vars PROVE IInv'
    OBVIOUS
  <2>1. CASE UNCHANGED vars
    <3>1. UNCHANGED <<waiting, mailbox, sent, outcome, queue, wire, inbox, replies>>
      BY <2>1 DEF vars
    <3>. QED
      BY <3>1 DEF IInv, TypeOK, Known, OnePlace, NotYetThere, MailOnce, Waits, Traceless, UnderWay,
                  Sent, ForeignReplyExplained, ResponseTakenOnce, Took, Abandoned
  <2>. QED
    BY <2>1, SendStep, HandleStep, RefuseStep, GiveUpStep, ReceiveStep, ArriveStep, ServeStep,
       DeliverStep, LossStep
    DEF Next
<1>. QED  BY <1>1, <1>2, PTL DEF Spec

\* A call that takes a foreign response takes one of another process, one that
\* was abandoned by a cast, a send, a timeout or a safe_call that gave up on the
\* Node (call.ex:20-24), or one of a call that had itself taken a foreign one;
\* never one of a call that the Node refused (distribution.ex:88-90).  No process
\* takes the same response twice.  Whatever is lost, late or answered out of
\* order.
THEOREM ForeignRepliesExplained == Spec => []RepliesExplained
<1>1. IInv => RepliesExplained
  BY DEF IInv, RepliesExplained
<1>. QED  BY <1>1, DistributionInvariant, PTL

-----------------------------------------------------------------------------
(* One process calls, and nothing is abandoned.                            *)

SoleCaller == \A c, d \in Caller : c = d

\* Nothing has been sent but calls; none of them has timed out, and on none of
\* them safe_call has given up.  The Node may have refused some.
Undisturbed == \A i \in Sent : sent[i].kind = "call" /\ outcome[i] \notin {TimedOut, GaveUp}

\* The only response that is or will be in the mailbox is the awaited one.
OnlyAwaited ==
  Undisturbed =>
    \A c \in Caller, i \in Sent :
      i # waiting[c] =>
        ~UnderWay(i) /\ ~Holds(mailbox[c], i) /\ outcome[i] \in {i, Refused}

\* A call begins when the one before has its answer.
LEMMA AwaitedCall ==
  ASSUME IInv, SoleCaller, OnlyAwaited, NEW c \in Caller, Call(c)
  PROVE  OnlyAwaited'
<1> DEFINE new == Len(sent) + 1
<1>1. /\ new \in Id /\ new \notin Sent /\ Sent' = Sent \cup {new}
      /\ \A i \in Sent : sent'[i] = sent[i] /\ outcome'[i] = outcome[i]
      /\ queue' = Append(queue, new)
  BY SendEffect DEF Call, IInv
<1>2. /\ waiting[c] = 0 /\ waiting' = [waiting EXCEPT ![c] = new]
      /\ UNCHANGED <<mailbox, wire, inbox, replies>>
  BY DEF Call, SendRequest
<1>3. waiting'[c] = new /\ \A i \in Sent : i # 0
  <2>1. Sent = 1 .. Len(sent)
    BY Domains DEF IInv
  <2>. QED  BY <1>2, <2>1 DEF IInv, TypeOK
<1> HIDE DEF new
<1>q. \A x : Holds(queue', x) <=> Holds(queue, x) \/ x = new
  <2>1. queue \in Seq(Id) /\ Once(queue) /\ ~Holds(queue, new)
    BY <1>1 DEF IInv, TypeOK, OnePlace, Known, UnderWay
  <2>. QED  BY <1>1, <2>1, AppendOnce
<1>4. SUFFICES ASSUME Undisturbed', NEW i \in Sent', i # new
               PROVE  ~UnderWay(i)' /\ ~Holds(mailbox'[c], i) /\ outcome'[i] \in {i, Refused}
  BY <1>1, <1>3 DEF OnlyAwaited, SoleCaller
<1>5. Undisturbed /\ i \in Sent
  BY <1>1, <1>4 DEF Undisturbed
<1>6. ~UnderWay(i) /\ ~Holds(mailbox[c], i) /\ outcome[i] \in {i, Refused}
  BY <1>2, <1>3, <1>5 DEF OnlyAwaited
<1>. QED  BY <1>1, <1>2, <1>4, <1>5, <1>6, <1>q DEF UnderWay

\* A call ends with a response: its own.
LEMMA AwaitedReceive ==
  ASSUME IInv, SoleCaller, OnlyAwaited, NEW c \in Caller, ReceiveResponse(c)
  PROVE  OnlyAwaited'
<1> USE DEF IInv
<1> DEFINE w == waiting[c]
           q == Head(mailbox[c])
<1>1. /\ w # 0 /\ mailbox[c] # <<>> /\ mailbox[c] \in Seq(Id) /\ Once(mailbox[c])
      /\ outcome' = [outcome EXCEPT ![w] = q]
      /\ mailbox' = [mailbox EXCEPT ![c] = Tail(@)]
      /\ waiting' = [waiting EXCEPT ![c] = 0]
      /\ UNCHANGED <<sent, queue, wire, inbox, replies>>
  BY DEF ReceiveResponse, Receiving, Return, TypeOK, MailOnce
<1>2. /\ q \in Id /\ Holds(mailbox[c], q)
      /\ \A x : Holds(Tail(mailbox[c]), x) <=> Holds(mailbox[c], x) /\ x # q
  BY <1>1, TailOnce
<1>3. /\ Sent' = Sent /\ outcome'[w] = q
      /\ \A j \in Sent : j # w => outcome'[j] = outcome[j]
  <2>1. q \in Outcome /\ q # Open
    BY <1>2, Domains DEF Outcome, Distinct
  <2>. QED  BY <1>1, <2>1, EndEffect
<1>4. /\ mailbox'[c] = Tail(mailbox[c]) /\ w \in Sent /\ outcome[w] = Open
      /\ Open \notin {TimedOut, GaveUp} /\ q \in Sent /\ ~UnderWay(q) /\ outcome[q] # Refused
  <2>1. mailbox'[c] = Tail(mailbox[c])
    BY <1>1 DEF TypeOK
  <2>2. w \in Sent /\ outcome[w] = Open
    BY <1>1 DEF Waits
  <2>3. q \in Sent /\ ~UnderWay(q) /\ outcome[q] # Refused
    BY <1>2 DEF Known, NotYetThere, Traceless
  <2>. QED  BY <2>1, <2>2, <2>3, Domains DEF Distinct
<1> HIDE DEF w, q
<1>5. SUFFICES ASSUME Undisturbed', NEW i \in Sent
               PROVE  ~UnderWay(i)' /\ ~Holds(mailbox'[c], i) /\ outcome'[i] \in {i, Refused}
  BY <1>3 DEF OnlyAwaited, SoleCaller
<1>6. Undisturbed
  BY <1>1, <1>3, <1>4, <1>5 DEF Undisturbed
<1>7. \A j \in Sent : j # w => ~UnderWay(j) /\ ~Holds(mailbox[c], j) /\ outcome[j] \in {j, Refused}
  BY <1>6 DEF OnlyAwaited, w
<1>8. q = w
  BY <1>2, <1>4, <1>7
<1>. QED  BY <1>1, <1>2, <1>3, <1>4, <1>5, <1>7, <1>8 DEF UnderWay

\* The Node refuses the call: nothing comes of it.
LEMMA AwaitedRefuse ==
  ASSUME IInv, SoleCaller, OnlyAwaited, RefuseSend
  PROVE  OnlyAwaited'
<1> USE DEF IInv
<1>1. /\ IInv' /\ UNCHANGED sent /\ (\A j \in Id : UnderWay(j)' => UnderWay(j))
      /\ \/ Moves
         \/ \E i \in Sent : /\ ~UnderWay(i)' /\ UnderWay(i) /\ outcome'[i] = Refused
                           /\ waiting[sent[i].caller] = i
                           /\ waiting' = [waiting EXCEPT ![sent[i].caller] = 0]
                           /\ UNCHANGED mailbox
                           /\ \A j \in Sent : j # i => outcome'[j] = outcome[j]
  BY RefuseStep
<1>2. Sent' = Sent /\ Sent \subseteq Id
  BY <1>1 DEF Sent, Known
<1>3. CASE Moves
  BY <1>2, <1>3 DEF Moves, OnlyAwaited, Undisturbed
<1>4. ASSUME NEW i \in Sent, ~UnderWay(i)', UnderWay(i), outcome'[i] = Refused,
             waiting[sent[i].caller] = i, waiting' = [waiting EXCEPT ![sent[i].caller] = 0],
             UNCHANGED mailbox, \A j \in Sent : j # i => outcome'[j] = outcome[j]
      PROVE  OnlyAwaited'
  <2> SUFFICES ASSUME Undisturbed', NEW c \in Caller, NEW j \in Sent
               PROVE  ~UnderWay(j)' /\ ~Holds(mailbox'[c], j) /\ outcome'[j] \in {j, Refused}
    BY <1>2 DEF OnlyAwaited
  <2>1. sent[i].caller = c
    BY Domains DEF SoleCaller
  <2>2. outcome[i] \notin {TimedOut, GaveUp}
    <3>1. waiting[c] # 0
      BY <1>2, <1>4, <2>1 DEF Id
    <3>2. outcome[i] = Open
      BY <1>4, <2>1, <3>1 DEF Waits
    <3>. QED  BY <3>2, Domains DEF Distinct
  <2>3. Undisturbed
    BY <1>1, <1>2, <1>4, <2>2 DEF Undisturbed
  <2>4. CASE j = i
    BY <1>2, <1>4, <2>4 DEF NotYetThere
  <2>5. CASE j # i
    BY <1>1, <1>2, <1>4, <2>1, <2>3, <2>5 DEF OnlyAwaited
  <2>. QED  BY <2>4, <2>5
<1>. QED  BY <1>1, <1>3, <1>4

\* A process that is alone in calling, sends nothing but calls, has never timed
\* out and has never had safe_call give up on a busy or dying Node gets the
\* response to each call from that call, although call takes whatever
\* outbound_response it finds (distribution.ex:77-84) and any request may be
\* refused and any request or response lost.
THEOREM SoleCallerGetsOwn ==
  ASSUME SoleCaller PROVE Spec => [](Undisturbed => CallGetsOwnResponse)
<1>1. Init => OnlyAwaited
  BY DEF Init, OnlyAwaited, Sent
<1>2. IInv /\ OnlyAwaited /\ [Next]_vars => OnlyAwaited'
  <2> SUFFICES ASSUME IInv, OnlyAwaited, [Next]_vars PROVE OnlyAwaited'
    OBVIOUS
  <2>1. ASSUME NEW c \in Caller, OneWay(c) PROVE OnlyAwaited'
    <3>1. SendRequest(c, "oneway")
      BY <2>1 DEF OneWay
    <3>2. /\ Sent' = Sent \cup {Len(sent) + 1} /\ Len(sent) + 1 \in Id
          /\ sent'[Len(sent) + 1] = [caller |-> c, kind |-> "oneway"]
      BY <3>1, SendEffect DEF IInv
    <3>3. sent'[Len(sent) + 1].kind # "call"
      BY <3>2
    <3>. QED  BY <3>2, <3>3 DEF OnlyAwaited, Undisturbed
  <2>2. ASSUME NEW c \in Caller, Timeout(c) \/ GiveUp(c) PROVE OnlyAwaited'
    <3>1. PICK v \in {TimedOut, GaveUp} :
            /\ waiting[c] # 0 /\ outcome' = [outcome EXCEPT ![waiting[c]] = v]
            /\ waiting' = [waiting EXCEPT ![c] = 0] /\ UNCHANGED sent
      BY <2>2 DEF Timeout, GiveUp, Receiving, Return
    <3>2. v \in Outcome /\ v # Open
      BY Domains DEF IInv, Outcome, Distinct
    <3>3. Sent' = Sent /\ waiting[c] \in Sent /\ outcome'[waiting[c]] = v
      BY <3>1, <3>2, EndEffect DEF IInv, Waits
    <3>. QED  BY <3>3 DEF OnlyAwaited, Undisturbed
  <2>3. ASSUME Moves PROVE OnlyAwaited'
    <3>1. Sent' = Sent
      BY <2>3 DEF Moves, Sent
    <3>2. Sent \subseteq Id
      BY DEF IInv, Known
    <3>. QED  BY <2>3, <3>1, <3>2 DEF Moves, OnlyAwaited, Undisturbed
  <2>5. ASSUME HandleSend PROVE OnlyAwaited'
    <3>1. Moves \/ \E i \in Sent : sent'[i].kind = "oneway" /\ UNCHANGED sent
      BY <2>5, HandleStep
    <3>2. ASSUME NEW i \in Sent, sent'[i].kind = "oneway", UNCHANGED sent PROVE ~Undisturbed'
      BY <3>2 DEF Undisturbed, Sent
    <3>. QED  BY <2>3, <3>1, <3>2 DEF OnlyAwaited
  <2>4. CASE UNCHANGED vars
    BY <2>4 DEF vars, OnlyAwaited, Undisturbed, UnderWay, Sent
  <2>. QED
    BY <2>1, <2>2, <2>3, <2>4, <2>5, AwaitedCall, AwaitedReceive, AwaitedRefuse, ArriveStep, ServeStep, DeliverStep,
       LossStep
    DEF Next
<1>3. IInv /\ OnlyAwaited => (Undisturbed => CallGetsOwnResponse)
  <2> SUFFICES ASSUME IInv, OnlyAwaited, Undisturbed, NEW i \in Sent, Took(i)
               PROVE  outcome[i] = i
    BY DEF CallGetsOwnResponse, Sent
  <2>1. sent[i].caller \in Caller /\ outcome[i] \notin {Open, Refused}
    <3>1. sent[i] \in [caller : Caller, kind : {"call", "oneway"}] /\ Distinct
      BY Domains DEF IInv
    <3>. QED  BY <3>1 DEF Took, Distinct
  <2>2. i # waiting[sent[i].caller]
    <3>1. i # 0
      BY DEF IInv, Known, Id
    <3>. QED  BY <2>1, <3>1 DEF IInv, Waits
  <2>. QED  BY <2>1, <2>2 DEF OnlyAwaited
<1>. QED  BY <1>1, <1>2, <1>3, DistributionInvariant, PTL DEF Spec
=============================================================================
