------------------------ MODULE HandlerRegistryProofs ------------------------
(***************************************************************************)
(* Proofs about HandlerRegistry for any sets of nodes, event types and     *)
(* subscribers, and any bounds.                                            *)
(***************************************************************************)
EXTENDS HandlerRegistry, FiniteSetTheorems, TLAPS

-----------------------------------------------------------------------------
(* The two maps of the server.                                             *)

\* Types of the server's own variables.
ServerTypes ==
  /\ DOMAIN subscriptions \subseteq Key
  /\ \A k \in DOMAIN subscriptions : subscriptions[k] \subseteq Entry
  /\ DOMAIN monitors \subseteq Nat
  /\ \A r \in DOMAIN monitors : monitors[r] \in [pid : Pid, key : Key]
  /\ nextRef \in Nat

\* ReverseIndexExact once more, by way of Entries.
NoEmptyKey     == \A k \in DOMAIN subscriptions : subscriptions[k] # {}
EntriesIndexed == \A k \in Key : \A e \in Entries(k) :
                    e.ref \in DOMAIN monitors /\ monitors[e.ref] = [pid |-> e.pid, key |-> k]
IndexEntered   == \A r \in DOMAIN monitors : \A k \in Key :
                    monitors[r].key = k => [pid |-> monitors[r].pid, ref |-> r] \in Entries(k)

\* A process has at most one entry under a key, and refs are never reused.
OneEntryEach == \A k \in Key : \A e, f \in Entries(k) : e.pid = f.pid => e = f
FreshRefs    == \A r \in DOMAIN monitors : r < nextRef

\* What the server's maps satisfy between any two callbacks.
Maps == /\ ServerTypes
        /\ NoEmptyKey
        /\ EntriesIndexed
        /\ IndexEntered
        /\ OneEntryEach
        /\ FreshRefs

\* Entries are entries, each known by its ref.
LEMMA EntriesTyped ==
  ASSUME ServerTypes, NEW k
  PROVE  Entries(k) \subseteq Entry
BY DEF ServerTypes, Entries

\* Maps contains ReverseIndexExact.
LEMMA MapsExact == Maps => ReverseIndexExact
<1> SUFFICES ASSUME Maps PROVE ReverseIndexExact
  OBVIOUS
<1> USE DEF Maps
<1>1. \A k \in DOMAIN subscriptions : k \in Key /\ Entries(k) = subscriptions[k]
  BY DEF ServerTypes, Entries
<1>2. \A k \in DOMAIN subscriptions : \A e \in subscriptions[k] :
        e.ref \in DOMAIN monitors /\ monitors[e.ref] = [pid |-> e.pid, key |-> k]
  BY <1>1 DEF EntriesIndexed
<1>3. \A r \in DOMAIN monitors :
        /\ monitors[r].key \in DOMAIN subscriptions
        /\ [pid |-> monitors[r].pid, ref |-> r] \in subscriptions[monitors[r].key]
  BY DEF IndexEntered, Entries, ServerTypes
<1>. QED  BY <1>2, <1>3 DEF ReverseIndexExact, NoEmptyKey

\* List.keyfind finds the one entry there is.
LEMMA KeyFindOnly ==
  ASSUME ServerTypes, OneEntryEach, NEW k \in Key, NEW e \in Entries(k)
  PROVE  KeyFind(k, e.pid) = e
<1>1. \A f \in Entries(k) : f \in Entry
  BY EntriesTyped
<1>2. \A f \in Entries(k) : f.pid = e.pid => f = e
  BY DEF OneEntryEach
<1>3. e.ref <= e.ref
  BY <1>1 DEF Entry
<1>. QED  BY <1>2, <1>3 DEF KeyFind

\* Map.put and Map.delete change the entries of one key.
LEMMA WithEntriesChanges ==
  ASSUME NEW k \in Key, NEW S \in SUBSET Entry, ServerTypes, NoEmptyKey,
         subscriptions' = WithEntries(k, S)
  PROVE  /\ Entries(k)' = S
         /\ \A x : x # k => Entries(x)' = Entries(x)
         /\ DOMAIN subscriptions' \subseteq Key
         /\ \A x \in DOMAIN subscriptions' : subscriptions'[x] \subseteq Entry
         /\ NoEmptyKey'
<1>1. CASE S = {}
  BY <1>1 DEF WithEntries, Entries, ServerTypes, NoEmptyKey
<1>2. CASE S # {}
  BY <1>2 DEF WithEntries, Entries, ServerTypes, NoEmptyKey
<1>. QED  BY <1>1, <1>2

\* A new entry under a fresh ref, in both maps.
LEMMA EntryAdded ==
  ASSUME Maps, NEW k \in Key, NEW pid \in Pid, ~already_registered(k, pid),
         nextRef' = nextRef + 1,
         subscriptions' = WithEntries(k, Entries(k) \cup {[pid |-> pid, ref |-> nextRef]}),
         monitors' = [r \in DOMAIN monitors \cup {nextRef} |->
                        IF r = nextRef THEN [pid |-> pid, key |-> k] ELSE monitors[r]]
  PROVE  /\ Maps'
         /\ Entries(k)' = Entries(k) \cup {[pid |-> pid, ref |-> nextRef]}
         /\ \A x : x # k => Entries(x)' = Entries(x)
<1> USE DEF Maps
<1> DEFINE new == [pid |-> pid, ref |-> nextRef]
<1>1. new \in Entry /\ Entries(k) \cup {new} \in SUBSET Entry
  BY EntriesTyped DEF ServerTypes, Entry
<1>2. /\ Entries(k)' = Entries(k) \cup {new}
      /\ \A x : x # k => Entries(x)' = Entries(x)
      /\ DOMAIN subscriptions' \subseteq Key
      /\ \A x \in DOMAIN subscriptions' : subscriptions'[x] \subseteq Entry
      /\ NoEmptyKey'
  BY <1>1, WithEntriesChanges
<1>3. nextRef \notin DOMAIN monitors
  BY DEF FreshRefs, ServerTypes
<1>4. /\ DOMAIN monitors' = DOMAIN monitors \cup {nextRef}
      /\ monitors'[nextRef] = [pid |-> pid, key |-> k]
      /\ \A r \in DOMAIN monitors : monitors'[r] = monitors[r]
  BY <1>3
<1>5. ServerTypes'
  <2>1. nextRef \in Nat /\ nextRef' \in Nat /\ DOMAIN monitors' \subseteq Nat
    BY <1>4 DEF ServerTypes
  <2>2. \A r \in DOMAIN monitors' : monitors'[r] \in [pid : Pid, key : Key]
    BY <1>4 DEF ServerTypes
  <2>. QED  BY <1>2, <2>1, <2>2 DEF ServerTypes
<1>6. EntriesIndexed'
  <2> SUFFICES ASSUME NEW x \in Key, NEW e \in Entries(x)'
               PROVE  /\ e.ref \in DOMAIN monitors'
                      /\ monitors'[e.ref] = [pid |-> e.pid, key |-> x]
    BY DEF EntriesIndexed
  <2>1. CASE e \in Entries(x)
    BY <1>4, <2>1 DEF EntriesIndexed
  <2>2. CASE x = k /\ e = new
    BY <1>4, <2>2
  <2>. QED  BY <1>2, <2>1, <2>2
<1>7. IndexEntered'
  BY <1>2, <1>4 DEF IndexEntered, ServerTypes
<1>8. OneEntryEach'
  BY <1>2 DEF OneEntryEach, already_registered
<1>9. FreshRefs'
  BY <1>4 DEF FreshRefs, ServerTypes
<1>. QED  BY <1>2, <1>5, <1>6, <1>7, <1>8, <1>9

\* One entry leaves both maps.
LEMMA EntryRemoved ==
  ASSUME Maps, NEW k \in Key, NEW e \in Entries(k), UNCHANGED nextRef,
         subscriptions' = WithEntries(k, Entries(k) \ {e}),
         monitors' = WithoutRefs({e.ref})
  PROVE  /\ Maps'
         /\ Entries(k)' = Entries(k) \ {e}
         /\ \A x : x # k => Entries(x)' = Entries(x)
         /\ DOMAIN monitors' = DOMAIN monitors \ {e.ref}
         /\ \A r \in DOMAIN monitors' : monitors'[r] = monitors[r]
<1> USE DEF Maps
<1>1. Entries(k) \ {e} \in SUBSET Entry
  BY EntriesTyped
<1>2. /\ Entries(k)' = Entries(k) \ {e}
      /\ \A x : x # k => Entries(x)' = Entries(x)
      /\ DOMAIN subscriptions' \subseteq Key
      /\ \A x \in DOMAIN subscriptions' : subscriptions'[x] \subseteq Entry
      /\ NoEmptyKey'
  BY <1>1, WithEntriesChanges
<1>3. /\ DOMAIN monitors' = DOMAIN monitors \ {e.ref}
      /\ \A r \in DOMAIN monitors' : monitors'[r] = monitors[r]
  BY DEF WithoutRefs
<1>4. ServerTypes'
  BY <1>2, <1>3 DEF ServerTypes
<1>5. monitors[e.ref] = [pid |-> e.pid, key |-> k]
  BY DEF EntriesIndexed
<1>6. \A x \in Key : \A f \in Entries(x)' : f \in Entries(x) /\ f.ref # e.ref
  <2> SUFFICES ASSUME NEW x \in Key, NEW f \in Entries(x)', f.ref = e.ref
               PROVE  FALSE
    BY <1>2
  <2>1. f \in Entries(x) /\ monitors[f.ref] = [pid |-> f.pid, key |-> x]
    BY <1>2 DEF EntriesIndexed
  <2>2. x = k /\ f.pid = e.pid
    BY <1>5, <2>1
  <2>3. f = e
    BY <2>1, <2>2 DEF OneEntryEach
  <2>. QED  BY <1>2, <2>2, <2>3
<1>7. EntriesIndexed'
  <2> SUFFICES ASSUME NEW x \in Key, NEW f \in Entries(x)'
               PROVE  /\ f.ref \in DOMAIN monitors'
                      /\ monitors'[f.ref] = [pid |-> f.pid, key |-> x]
    BY DEF EntriesIndexed
  <2>1. f \in Entries(x) /\ f.ref # e.ref
    BY <1>6
  <2>. QED  BY <1>3, <2>1 DEF EntriesIndexed
<1>8. IndexEntered'
  <2> SUFFICES ASSUME NEW r \in DOMAIN monitors', NEW x \in Key, monitors'[r].key = x
               PROVE  [pid |-> monitors'[r].pid, ref |-> r] \in Entries(x)'
    BY DEF IndexEntered
  <2>1. r \in DOMAIN monitors /\ r # e.ref /\ monitors'[r] = monitors[r]
    BY <1>3
  <2>2. [pid |-> monitors[r].pid, ref |-> r] \in Entries(x)
    BY <2>1 DEF IndexEntered
  <2>. QED  BY <1>2, <2>1, <2>2
<1>9. OneEntryEach' /\ FreshRefs'
  BY <1>2, <1>3 DEF OneEntryEach, FreshRefs
<1>. QED  BY <1>2, <1>3, <1>4, <1>7, <1>8, <1>9

\* All entries of a node leave both maps.
LEMMA NodeRemoved ==
  ASSUME Maps, NEW n \in Node, remove_all_for_node(n), UNCHANGED nextRef,
         NEW refs, refs = {e.ref : e \in UNION {subscriptions[k] : k \in NodeKeys(n)}}
  PROVE  /\ Maps'
         /\ \A k \in Key : Entries(k)' = IF k[1] = n THEN {} ELSE Entries(k)
         /\ DOMAIN monitors' = DOMAIN monitors \ refs
         /\ \A r \in DOMAIN monitors' : monitors'[r] = monitors[r]
<1> USE DEF Maps
<1>1. /\ subscriptions' = [k \in DOMAIN subscriptions \ NodeKeys(n) |-> subscriptions[k]]
      /\ monitors' = WithoutRefs(refs)
  BY DEF remove_all_for_node
<1>2. \A k \in Key : Entries(k)' = IF k[1] = n THEN {} ELSE Entries(k)
  BY <1>1 DEF Entries, NodeKeys
<1>3. /\ DOMAIN monitors' = DOMAIN monitors \ refs
      /\ \A r \in DOMAIN monitors' : monitors'[r] = monitors[r]
  BY <1>1 DEF WithoutRefs
<1>4. ServerTypes' /\ NoEmptyKey'
  BY <1>1, <1>3 DEF ServerTypes, NoEmptyKey
<1>5. \A k \in Key : \A e \in Entries(k) : k[1] = n <=> e.ref \in refs
  <2> SUFFICES ASSUME NEW k \in Key, NEW e \in Entries(k)
               PROVE  k[1] = n <=> e.ref \in refs
    OBVIOUS
  <2>1. k \in DOMAIN subscriptions /\ e \in subscriptions[k]
    BY DEF Entries
  <2>2. ASSUME k[1] = n PROVE e.ref \in refs
    BY <2>1, <2>2 DEF NodeKeys
  <2>3. ASSUME e.ref \in refs PROVE k[1] = n
    <3>1. PICK x \in NodeKeys(n) : \E f \in subscriptions[x] : f.ref = e.ref
      BY <2>3
    <3>2. PICK f \in Entries(x) : f.ref = e.ref
      BY <3>1 DEF NodeKeys, Entries
    <3>3. x \in Key /\ x[1] = n
      BY <3>1 DEF NodeKeys, ServerTypes
    <3>4. monitors[e.ref] = [pid |-> e.pid, key |-> k]
      BY DEF EntriesIndexed
    <3>5. monitors[f.ref] = [pid |-> f.pid, key |-> x]
      BY <3>2, <3>3 DEF EntriesIndexed
    <3>. QED  BY <3>2, <3>3, <3>4, <3>5
  <2>. QED  BY <2>2, <2>3
<1>6. EntriesIndexed'
  <2> SUFFICES ASSUME NEW x \in Key, NEW f \in Entries(x)'
               PROVE  /\ f.ref \in DOMAIN monitors'
                      /\ monitors'[f.ref] = [pid |-> f.pid, key |-> x]
    BY DEF EntriesIndexed
  <2>1. f \in Entries(x) /\ x[1] # n
    BY <1>2
  <2>2. f.ref \notin refs
    BY <1>5, <2>1
  <2>. QED  BY <1>3, <2>1, <2>2 DEF EntriesIndexed
<1>7. IndexEntered'
  <2> SUFFICES ASSUME NEW r \in DOMAIN monitors', NEW x \in Key, monitors'[r].key = x
               PROVE  [pid |-> monitors'[r].pid, ref |-> r] \in Entries(x)'
    BY DEF IndexEntered
  <2> DEFINE e == [pid |-> monitors[r].pid, ref |-> r]
  <2>1. r \in DOMAIN monitors /\ r \notin refs /\ monitors'[r] = monitors[r]
    BY <1>3
  <2>2. e \in Entries(x)
    BY <2>1 DEF IndexEntered
  <2>3. x[1] # n
    BY <1>5, <2>1, <2>2
  <2>. QED  BY <1>2, <2>1, <2>2, <2>3
<1>8. OneEntryEach' /\ FreshRefs'
  BY <1>2, <1>3 DEF OneEntryEach, FreshRefs
<1>. QED  BY <1>2, <1>3, <1>4, <1>6, <1>7, <1>8

-----------------------------------------------------------------------------
(* Monitors, and what subscribers were told.                               *)

\* The inductive invariant.  ReverseIndexExact alone is not inductive: a :DOWN
\* removes the entry it finds by pid and the reference it was sent for, and
\* these belong together only because a process has one entry under a key and
\* because refs, monitors and :DOWN messages agree about the process.
IInv == TypeOK /\ Maps /\ MonitorsBacked /\ SubscribersAsAcknowledged

\* Process.demonitor with :flush keeps monitors and references in step.
LEMMA FlushBacked ==
  ASSUME MonitorsBacked, NEW refs, DemonitorFlush(refs), UNCHANGED alive,
         DOMAIN monitors' = DOMAIN monitors \ refs,
         \A r \in DOMAIN monitors' : monitors'[r] = monitors[r]
  PROVE  MonitorsBacked'
<1>1. /\ active' = {m \in active : m.ref \notin refs}
      /\ downs' = {m \in downs : m.ref \notin refs}
  BY DEF DemonitorFlush
<1>2. {m.ref : m \in active' \cup downs'} = DOMAIN monitors'
  BY <1>1 DEF MonitorsBacked
<1>3. \A m \in active' \cup downs' : m.ref \in DOMAIN monitors' =>
                                       monitors'[m.ref].pid = m.pid
  BY <1>1 DEF MonitorsBacked
<1>4. /\ \A m \in downs' : m.pid \notin alive'
      /\ \A m \in active', d \in downs' : m.ref # d.ref
  BY <1>1 DEF MonitorsBacked
<1>. QED  BY <1>2, <1>3, <1>4 DEF MonitorsBacked

\* Process.monitor backs the new reference, whether the process is alive or not.
LEMMA MonitorBacked ==
  ASSUME MonitorsBacked, NEW pid, Monitor(pid), UNCHANGED alive,
         nextRef \notin DOMAIN monitors,
         DOMAIN monitors' = DOMAIN monitors \cup {nextRef},
         monitors'[nextRef].pid = pid,
         \A r \in DOMAIN monitors : monitors'[r] = monitors[r]
  PROVE  MonitorsBacked'
<1> DEFINE m0 == [pid |-> pid, ref |-> nextRef]
<1>1. \/ pid \in alive /\ active' = active \cup {m0} /\ downs' = downs
      \/ pid \notin alive /\ downs' = downs \cup {m0} /\ active' = active
  BY DEF Monitor
<1>2. active' \cup downs' = (active \cup downs) \cup {m0}
  BY <1>1
<1>3. m0.ref = nextRef /\ m0.pid = pid
  OBVIOUS
<1>4. {m.ref : m \in active' \cup downs'} = DOMAIN monitors'
  <2>1. {m.ref : m \in active \cup downs} = DOMAIN monitors
    BY DEF MonitorsBacked
  <2>2. {m.ref : m \in (active \cup downs) \cup {m0}}
          = {m.ref : m \in active \cup downs} \cup {m0.ref}
    OBVIOUS
  <2>. QED  BY <1>2, <1>3, <2>1, <2>2
<1>5. \A m \in active \cup downs : m.ref \in DOMAIN monitors /\ m.ref # nextRef
  BY DEF MonitorsBacked
<1>6. \A m \in active' \cup downs' : m.ref \in DOMAIN monitors' =>
                                       monitors'[m.ref].pid = m.pid
  BY <1>2, <1>3, <1>5 DEF MonitorsBacked
<1>7. \A m \in downs' : m.pid \notin alive'
  BY <1>1, <1>3 DEF MonitorsBacked
<1>8. \A m \in active', d \in downs' : m.ref # d.ref
  BY <1>1, <1>3, <1>5 DEF MonitorsBacked
<1>. QED  BY <1>4, <1>6, <1>7, <1>8 DEF MonitorsBacked

\* The request taken from the mailbox has the shape its op says.
LEMMA RequestTaken ==
  ASSUME TypeOK, NEW op, Receive(op)
  PROVE  /\ inbox' \in Seq(Request)
         /\ op \in {"register", "unregister"} =>
              Head(inbox).key \in Key /\ Head(inbox).pid \in Pid
         /\ op = "dispatch" => Head(inbox).key \in Key /\ Head(inbox).event \in Event
         /\ op = "cleanup_node" => Head(inbox).node \in Node
<1>1. Head(inbox) \in Request /\ Head(inbox).op = op /\ inbox' \in Seq(Request)
  BY DEF TypeOK, Receive
<1>. QED  BY <1>1 DEF Request

\* register: a repeated registration changes nothing, a new one is entered in
\* both maps, monitored and acknowledged.
LEMMA RegisterStep ==
  ASSUME IInv, HandleRegister
  PROVE  IInv'
<1> USE DEF IInv
<1>1. Head(inbox).key \in Key /\ Head(inbox).pid \in Pid /\ inbox' \in Seq(Request)
  BY RequestTaken DEF HandleRegister
<1>2. PICK k \in Key, pid \in Pid :
        /\ register(k, pid)
        /\ calling' = calling \ {pid}
        /\ acked' = acked \cup {<<k, pid>>}
        /\ UNCHANGED <<alive, nodeState, delivered, calls, events>>
  BY <1>1 DEF HandleRegister, Reply
<1>3. CASE already_registered(k, pid) /\ UNCHANGED <<subscriptions, monitors, nextRef, active, downs>>
  <2>1. TypeOK'
    BY <1>1, <1>2, <1>3 DEF TypeOK
  <2>2. Maps'
    BY <1>3 DEF Maps, ServerTypes, NoEmptyKey, EntriesIndexed, IndexEntered, OneEntryEach,
                FreshRefs, Entries
  <2>3. MonitorsBacked'
    BY <1>2, <1>3 DEF MonitorsBacked
  <2>4. SubscribersAsAcknowledged'
    BY <1>1, <1>2, <1>3 DEF SubscribersAsAcknowledged, already_registered, Entries
  <2>. QED  BY <2>1, <2>2, <2>3, <2>4
<1>4. CASE ~already_registered(k, pid)
  <2> DEFINE new == [pid |-> pid, ref |-> nextRef]
  <2>1. /\ Monitor(pid)
        /\ subscriptions' = WithEntries(k, Entries(k) \cup {new})
        /\ monitors' = [r \in DOMAIN monitors \cup {nextRef} |->
                          IF r = nextRef THEN [pid |-> pid, key |-> k] ELSE monitors[r]]
    BY <1>2, <1>4 DEF register
  <2>2. nextRef' = nextRef + 1
    BY <2>1 DEF Monitor
  <2>3. /\ Maps'
        /\ Entries(k)' = Entries(k) \cup {new}
        /\ \A x : x # k => Entries(x)' = Entries(x)
    BY <1>1, <1>4, <2>1, <2>2, EntryAdded
  <2>4. nextRef \notin DOMAIN monitors /\ nextRef \in Nat
    BY DEF Maps, FreshRefs, ServerTypes
  <2>5. MonitorsBacked'
    BY <1>2, <2>1, <2>4, MonitorBacked
  <2>6. new \in Entry
    BY <1>1, <2>4 DEF Entry
  <2>7. active' \subseteq Entry /\ downs' \subseteq Entry
    BY <2>1, <2>6 DEF Monitor, TypeOK
  <2>8. TypeOK'
    BY <1>1, <1>2, <2>3, <2>7 DEF TypeOK, Maps, ServerTypes
  <2>9. SubscribersAsAcknowledged'
    <3>1. OneEntryEach'
      BY <2>3 DEF Maps
    <3>2. \A p \in alive, x \in Key : already_registered(x, p)' <=> <<x, p>> \in acked'
      <4> SUFFICES ASSUME NEW p \in alive, NEW x \in Key
                   PROVE  already_registered(x, p)' <=> <<x, p>> \in acked'
        OBVIOUS
      <4>1. already_registered(x, p) <=> <<x, p>> \in acked
        BY DEF SubscribersAsAcknowledged
      <4>2. CASE x = k /\ p = pid
        <5>1. new \in Entries(x)' /\ new.pid = p
          BY <2>3, <4>2
        <5>. QED  BY <1>2, <4>2, <5>1 DEF already_registered
      <4>4. CASE x = k /\ p # pid
        <5>1. \A e \in Entries(x)' : e \in Entries(x) \/ e.pid # p
          BY <2>3, <4>4
        <5>2. already_registered(x, p)' <=> already_registered(x, p)
          BY <2>3, <4>4, <5>1 DEF already_registered
        <5>. QED  BY <1>2, <4>1, <4>4, <5>2
      <4>3. CASE x # k
        BY <1>2, <2>3, <4>1, <4>3 DEF already_registered
      <4>. QED  BY <4>2, <4>3, <4>4
    <3>. QED  BY <1>2, <3>1, <3>2 DEF SubscribersAsAcknowledged, OneEntryEach
  <2>. QED  BY <2>3, <2>5, <2>8, <2>9
<1>. QED  BY <1>2, <1>3, <1>4 DEF register

\* unregister: the entry, its reference, its monitor and a :DOWN that may have
\* arrived for it go together; other subscriptions stay.
LEMMA UnregisterStep ==
  ASSUME IInv, HandleUnregister
  PROVE  IInv'
<1> USE DEF IInv
<1>1. Head(inbox).key \in Key /\ Head(inbox).pid \in Pid /\ inbox' \in Seq(Request)
  BY RequestTaken DEF HandleUnregister
<1>2. PICK k \in Key, pid \in Pid :
        /\ remove_subscription(k, pid)
        /\ calling' = calling \ {pid}
        /\ acked' = acked \ {<<k, pid>>}
        /\ UNCHANGED <<nextRef, alive, nodeState, delivered, calls, events>>
  BY <1>1 DEF HandleUnregister, Reply
<1>3. CASE ~already_registered(k, pid)
  <2>0. UNCHANGED <<subscriptions, monitors, active, downs>>
    BY <1>2, <1>3 DEF remove_subscription
  <2>1. TypeOK'
    BY <1>1, <1>2, <2>0 DEF TypeOK
  <2>2. Maps'
    BY <1>2, <2>0 DEF Maps, ServerTypes, NoEmptyKey, EntriesIndexed, IndexEntered,
                      OneEntryEach, FreshRefs, Entries
  <2>3. MonitorsBacked'
    BY <1>2, <2>0 DEF MonitorsBacked
  <2>4. SubscribersAsAcknowledged'
    BY <1>2, <1>3, <2>0 DEF SubscribersAsAcknowledged, already_registered, Entries
  <2>. QED  BY <2>1, <2>2, <2>3, <2>4
<1>4. CASE already_registered(k, pid)
  <2>1. PICK e \in Entries(k) : e.pid = pid
    BY <1>4 DEF already_registered
  <2>2. KeyFind(k, pid) = e
    BY <2>1, KeyFindOnly DEF Maps
  <2>3. /\ DemonitorFlush({e.ref})
        /\ subscriptions' = WithEntries(k, Entries(k) \ {e})
        /\ monitors' = WithoutRefs({e.ref})
    BY <1>2, <1>4, <2>2 DEF remove_subscription
  <2>4. /\ Maps'
        /\ Entries(k)' = Entries(k) \ {e}
        /\ \A x : x # k => Entries(x)' = Entries(x)
        /\ DOMAIN monitors' = DOMAIN monitors \ {e.ref}
        /\ \A r \in DOMAIN monitors' : monitors'[r] = monitors[r]
    BY <1>2, <2>3, EntryRemoved
  <2>5. MonitorsBacked'
    BY <1>2, <2>3, <2>4, FlushBacked
  <2>6. active' \subseteq Entry /\ downs' \subseteq Entry
    BY <2>3 DEF DemonitorFlush, TypeOK
  <2>7. TypeOK'
    BY <1>1, <1>2, <2>4, <2>6 DEF TypeOK, Maps, ServerTypes
  <2>8. SubscribersAsAcknowledged'
    <3>1. OneEntryEach'
      BY <2>4 DEF Maps
    <3>2. \A p \in alive, x \in Key : already_registered(x, p)' <=> <<x, p>> \in acked'
      <4> SUFFICES ASSUME NEW p \in alive, NEW x \in Key
                   PROVE  already_registered(x, p)' <=> <<x, p>> \in acked'
        OBVIOUS
      <4>1. already_registered(x, p) <=> <<x, p>> \in acked
        BY DEF SubscribersAsAcknowledged
      <4>2. CASE x = k /\ p = pid
        <5>1. \A f \in Entries(k) : f.pid = pid => f = e
          BY <2>1 DEF Maps, OneEntryEach
        <5>. QED  BY <1>2, <2>4, <4>2, <5>1 DEF already_registered
      <4>3. CASE x = k /\ p # pid
        <5>1. already_registered(x, p)' <=> already_registered(x, p)
          BY <2>1, <2>4, <4>3 DEF already_registered
        <5>. QED  BY <1>2, <4>1, <4>3, <5>1
      <4>4. CASE x # k
        BY <1>2, <2>4, <4>1, <4>4 DEF already_registered
      <4>. QED  BY <4>2, <4>3, <4>4
    <3>. QED  BY <1>2, <3>1, <3>2 DEF SubscribersAsAcknowledged, OneEntryEach
  <2>. QED  BY <2>4, <2>5, <2>7, <2>8
<1>. QED  BY <1>3, <1>4

\* cleanup_node: everything under the node goes, and nothing else.
LEMMA CleanupStep ==
  ASSUME IInv, HandleCleanupNode
  PROVE  IInv'
<1> USE DEF IInv
<1>1. Head(inbox).node \in Node /\ inbox' \in Seq(Request)
  BY RequestTaken DEF HandleCleanupNode
<1>2. PICK n \in Node :
        /\ remove_all_for_node(n)
        /\ nodeState' = [nodeState EXCEPT ![n] = "down"]
        /\ acked' = {a \in acked : a[1][1] # n}
        /\ UNCHANGED <<nextRef, alive, calling, delivered, calls, events>>
  BY <1>1 DEF HandleCleanupNode
<1>3. PICK refs : refs = {e.ref : e \in UNION {subscriptions[k] : k \in NodeKeys(n)}}
  OBVIOUS
<1>4. /\ Maps'
      /\ \A k \in Key : Entries(k)' = IF k[1] = n THEN {} ELSE Entries(k)
      /\ DOMAIN monitors' = DOMAIN monitors \ refs
      /\ \A r \in DOMAIN monitors' : monitors'[r] = monitors[r]
  BY <1>2, <1>3, NodeRemoved
<1>5. DemonitorFlush(refs)
  BY <1>2, <1>3 DEF remove_all_for_node
<1>6. MonitorsBacked'
  BY <1>2, <1>4, <1>5, FlushBacked
<1>7. active' \subseteq Entry /\ downs' \subseteq Entry
  BY <1>5 DEF DemonitorFlush, TypeOK
<1>8. TypeOK'
  BY <1>1, <1>2, <1>4, <1>7 DEF TypeOK, Maps, ServerTypes
<1>9. SubscribersAsAcknowledged'
  <2>1. OneEntryEach'
    BY <1>4 DEF Maps
  <2>2. \A p \in alive, x \in Key : already_registered(x, p)' <=> <<x, p>> \in acked'
    <3> SUFFICES ASSUME NEW p \in alive, NEW x \in Key
                 PROVE  already_registered(x, p)' <=> <<x, p>> \in acked'
      OBVIOUS
    <3>1. already_registered(x, p) <=> <<x, p>> \in acked
      BY DEF SubscribersAsAcknowledged
    <3>2. <<x, p>> \in acked' <=> <<x, p>> \in acked /\ x[1] # n
      BY <1>2
    <3>3. already_registered(x, p)' <=> already_registered(x, p) /\ x[1] # n
      BY <1>4 DEF already_registered
    <3>. QED  BY <3>1, <3>2, <3>3
  <2>. QED  BY <1>2, <2>1, <2>2 DEF SubscribersAsAcknowledged, OneEntryEach
<1>. QED  BY <1>4, <1>6, <1>8, <1>9

\* :DOWN: the entry found by pid is the one the reference stands for.
LEMMA DownStep ==
  ASSUME IInv, NEW d \in downs, HandleDown(d)
  PROVE  IInv'
<1> USE DEF IInv
<1>1. d \in Entry /\ d = [pid |-> d.pid, ref |-> d.ref]
  BY DEF TypeOK, Entry
<1>2. d.ref \in DOMAIN monitors /\ monitors[d.ref].pid = d.pid /\ d.pid \notin alive
  BY DEF MonitorsBacked
<1>3. PICK k \in Key : k = monitors[d.ref].key
  BY <1>2 DEF Maps, ServerTypes
<1>4. d \in Entries(k)
  BY <1>1, <1>2, <1>3 DEF Maps, IndexEntered
<1>5. KeyFind(k, d.pid) = d /\ already_registered(k, d.pid)
  BY <1>4, KeyFindOnly DEF Maps, already_registered
<1>6. /\ subscriptions' = WithEntries(k, Entries(k) \ {d})
      /\ monitors' = WithoutRefs({d.ref})
  BY <1>2, <1>3, <1>5 DEF HandleDown, remove_dead_subscriber
<1>7. /\ downs' = downs \ {d}
      /\ UNCHANGED <<nextRef, active, inbox, alive, calling, nodeState, calls, events,
                     acked, delivered>>
  BY DEF HandleDown, clients
<1>8. /\ Maps'
      /\ Entries(k)' = Entries(k) \ {d}
      /\ \A x : x # k => Entries(x)' = Entries(x)
      /\ DOMAIN monitors' = DOMAIN monitors \ {d.ref}
      /\ \A r \in DOMAIN monitors' : monitors'[r] = monitors[r]
  BY <1>4, <1>6, <1>7, EntryRemoved
<1>9. \A m \in active \cup downs : m.ref = d.ref => m = d
  <2> SUFFICES ASSUME NEW m \in active \cup downs, m.ref = d.ref PROVE m = d
    OBVIOUS
  <2>1. m \in downs
    BY DEF MonitorsBacked
  <2>2. m \in Entry /\ m.pid = d.pid
    BY <1>2, <2>1 DEF MonitorsBacked, TypeOK
  <2>. QED  BY <1>1, <2>2 DEF Entry
<1>10. MonitorsBacked'
  <2>1. active' = active /\ downs' = downs \ {d} /\ d \notin active
    BY <1>7 DEF MonitorsBacked
  <2>2. DemonitorFlush({d.ref})
    BY <1>9, <2>1 DEF DemonitorFlush
  <2>. QED  BY <1>7, <1>8, <2>2, FlushBacked
<1>11. TypeOK'
  BY <1>7, <1>8 DEF TypeOK, Maps, ServerTypes
<1>12. SubscribersAsAcknowledged'
  <2>1. OneEntryEach'
    BY <1>8 DEF Maps
  <2>2. \A p \in alive, x \in Key : already_registered(x, p)' <=> <<x, p>> \in acked'
    <3> SUFFICES ASSUME NEW p \in alive, NEW x \in Key
                 PROVE  already_registered(x, p)' <=> <<x, p>> \in acked'
      OBVIOUS
    <3>1. already_registered(x, p)' <=> already_registered(x, p)
      BY <1>2, <1>8 DEF already_registered
    <3>. QED  BY <1>7, <3>1 DEF SubscribersAsAcknowledged
  <2>. QED  BY <1>7, <2>1, <2>2 DEF SubscribersAsAcknowledged, OneEntryEach
<1>. QED  BY <1>8, <1>10, <1>11, <1>12

\* A process has one entry under a key or none, so dispatch sends it one message
\* or none.
LEMMA OneMessageEach ==
  ASSUME OneEntryEach, NEW k \in Key, NEW p \in Pid
  PROVE  Cardinality({x \in Entries(k) : x.pid = p})
           = IF already_registered(k, p) THEN 1 ELSE 0
<1> DEFINE S == {x \in Entries(k) : x.pid = p}
<1>1. CASE S = {}
  BY <1>1, FS_EmptySet DEF already_registered
<1>2. ASSUME NEW e \in S PROVE Cardinality(S) = 1
  <2>1. S = {e}
    BY <1>2 DEF OneEntryEach
  <2>. QED  BY <2>1, FS_Singleton
<1>3. CASE S # {}
  BY <1>2, <1>3 DEF already_registered
<1>. QED  BY <1>1, <1>3

\* dispatch changes no map; a process gets at most one copy.
LEMMA DispatchStep ==
  ASSUME IInv, HandleDispatch
  PROVE  IInv'
<1> USE DEF IInv
<1>1. /\ UNCHANGED <<subscriptions, monitors, nextRef, active, downs, alive, calling,
                     nodeState, calls, events, acked>>
  BY DEF HandleDispatch, server, clients
<1>2. Head(inbox).key \in Key /\ Head(inbox).event \in Event /\ inbox' \in Seq(Request)
  BY RequestTaken DEF HandleDispatch
<1>3. \A k \in Key, p \in Pid : Cardinality({x \in Entries(k) : x.pid = p}) \in Nat
  BY OneMessageEach DEF Maps
<1>4. delivered' \in [Pid -> [Event -> Nat]]
  <2> DEFINE k == Head(inbox).key
             e == Head(inbox).event
             more(p) == [delivered[p] EXCEPT
                           ![e] = @ + Cardinality({x \in Entries(k) : x.pid = p})]
  <2>1. delivered' = [p \in Pid |-> IF p \in alive THEN more(p) ELSE delivered[p]]
    BY DEF HandleDispatch
  <2>2. ASSUME NEW p \in Pid PROVE more(p) \in [Event -> Nat]
    <3>1. delivered[p] \in [Event -> Nat]
      BY DEF TypeOK
    <3>2. Cardinality({x \in Entries(k) : x.pid = p}) \in Nat
      BY <1>2, <1>3
    <3>. QED  BY <1>2, <3>1, <3>2
  <2>3. \A p \in Pid : delivered[p] \in [Event -> Nat]
    BY DEF TypeOK
  <2> HIDE DEF more
  <2>. QED  BY <2>1, <2>2, <2>3
<1>5. TypeOK'
  BY <1>1, <1>2, <1>4 DEF TypeOK
<1>6. Maps' /\ MonitorsBacked' /\ SubscribersAsAcknowledged'
  BY <1>1 DEF Maps, ServerTypes, NoEmptyKey, EntriesIndexed, IndexEntered, OneEntryEach,
              FreshRefs, Entries, MonitorsBacked, SubscribersAsAcknowledged,
              already_registered
<1>. QED  BY <1>5, <1>6

\* Clients and the runtime leave the server's state alone.
LEMMA ClientStep ==
  ASSUME IInv, UNCHANGED <<server, acked>>, TypeOK', alive' \subseteq alive,
         MonitorsBacked'
  PROVE  IInv'
<1> USE DEF IInv
<1>1. UNCHANGED <<subscriptions, monitors, nextRef, acked>>
  BY DEF server
<1>2. Maps'
  BY <1>1 DEF Maps, ServerTypes, NoEmptyKey, EntriesIndexed, IndexEntered, OneEntryEach,
              FreshRefs, Entries
<1>3. SubscribersAsAcknowledged'
  BY <1>1 DEF SubscribersAsAcknowledged, already_registered, Entries
<1>. QED  BY <1>2, <1>3

\* A subscriber may only die: monitors stay backed while nothing else changes.
LEMMA BackedUnchanged ==
  ASSUME MonitorsBacked, UNCHANGED <<server, active, downs>>, alive' \subseteq alive
  PROVE  MonitorsBacked'
BY DEF MonitorsBacked, server

\* Every step preserves the inductive invariant.
LEMMA IInvStep ==
  ASSUME IInv, [Next]_vars
  PROVE  IInv'
<1> USE DEF IInv
<1>1. ASSUME NEW m \in active, DeliverDown(m) PROVE IInv'
  <2>1. /\ m.pid \notin alive
        /\ active' = active \ {m}
        /\ downs' = downs \cup {m}
        /\ UNCHANGED <<server, inbox, alive, calling, nodeState, calls, events, acked,
                       delivered>>
    BY <1>1 DEF DeliverDown, clients
  <2>2. TypeOK'
    BY <2>1 DEF TypeOK, server
  <2>3. \A x \in active : x.ref = m.ref => x = m
    <3> SUFFICES ASSUME NEW x \in active, x.ref = m.ref PROVE x = m
      OBVIOUS
    <3>1. x \in Entry /\ m \in Entry /\ x.pid = m.pid
      BY DEF TypeOK, MonitorsBacked
    <3>. QED  BY <3>1 DEF Entry
  <2>4. active' \cup downs' = active \cup downs
    BY <2>1
  <2>5. \A x \in active', y \in downs' : x.ref # y.ref
    BY <2>1, <2>3 DEF MonitorsBacked
  <2>6. MonitorsBacked'
    BY <2>1, <2>4, <2>5 DEF MonitorsBacked, server
  <2>. QED  BY <2>1, <2>2, <2>6, ClientStep
<1>2. ASSUME NEW k \in Key, NEW p \in Pid, NEW op \in {"register", "unregister"},
             Call(op, k, p)
      PROVE  IInv'
  <2>1. [op |-> op, key |-> k, pid |-> p] \in Request
    BY DEF Request
  <2>2. inbox' \in Seq(Request)
    BY <1>2, <2>1 DEF Call, TypeOK
  <2>3. TypeOK'
    BY <1>2, <2>2, BoundsAssumption DEF Call, TypeOK, server
  <2>. QED  BY <1>2, <2>3, BackedUnchanged, ClientStep DEF Call
<1>3. ASSUME NEW p \in Pid, Exit(p) PROVE IInv'
  <2>1. TypeOK'
    BY <1>3 DEF Exit, TypeOK, server
  <2>. QED  BY <1>3, <2>1, BackedUnchanged, ClientStep DEF Exit
<1>4. ASSUME NEW k \in Key, Dispatch(k) PROVE IInv'
  <2>1. events' \in 0 .. MaxEvents /\ events + 1 \in Event
    BY <1>4, BoundsAssumption DEF Dispatch, TypeOK, Event
  <2>2. [op |-> "dispatch", key |-> k, event |-> events + 1] \in Request
    BY <2>1 DEF Request
  <2>3. inbox' \in Seq(Request)
    BY <1>4, <2>2 DEF Dispatch, TypeOK
  <2>4. TypeOK'
    BY <1>4, <2>1, <2>3 DEF Dispatch, TypeOK, server
  <2>. QED  BY <1>4, <2>4, BackedUnchanged, ClientStep DEF Dispatch
<1>5. ASSUME NEW n \in Node, Terminate(n) PROVE IInv'
  <2>1. [op |-> "cleanup_node", node |-> n] \in Request
    BY DEF Request
  <2>2. inbox' \in Seq(Request)
    BY <1>5, <2>1 DEF Terminate, TypeOK
  <2>3. TypeOK'
    BY <1>5, <2>2 DEF Terminate, TypeOK, server
  <2>. QED  BY <1>5, <2>3, BackedUnchanged, ClientStep DEF Terminate
<1>6. ASSUME NEW n \in Node, Kill(n) PROVE IInv'
  <2>1. TypeOK'
    BY <1>6 DEF Kill, TypeOK, server
  <2>. QED  BY <1>6, <2>1, BackedUnchanged, ClientStep DEF Kill
<1>7. CASE UNCHANGED vars
  <2>1. TypeOK'
    BY <1>7 DEF vars, TypeOK
  <2>2. UNCHANGED <<server, acked, active, downs, alive>>
    BY <1>7 DEF vars, server
  <2>. QED  BY <2>1, <2>2, BackedUnchanged, ClientStep
<1>. QED
  BY <1>1, <1>2, <1>3, <1>4, <1>5, <1>6, <1>7, RegisterStep, UnregisterStep,
     DispatchStep, CleanupStep, DownStep
  DEF Next, ServerStep

-----------------------------------------------------------------------------
(* Theorems.                                                               *)

\* The inductive invariant holds in every reachable state.
THEOREM RegistryInvariant == Spec => []IInv
<1>1. Init => IInv
  <2> SUFFICES ASSUME Init PROVE IInv
    OBVIOUS
  <2>1. TypeOK
    BY BoundsAssumption DEF Init, TypeOK
  <2>2. Maps
    BY DEF Init, Maps, ServerTypes, NoEmptyKey, EntriesIndexed, IndexEntered,
           OneEntryEach, FreshRefs, Entries
  <2>3. MonitorsBacked
    BY DEF Init, MonitorsBacked
  <2>4. SubscribersAsAcknowledged
    BY DEF Init, SubscribersAsAcknowledged, already_registered, Entries
  <2>. QED  BY <2>1, <2>2, <2>3, <2>4 DEF IInv
<1>2. IInv /\ [Next]_vars => IInv'
  BY IInvStep
<1>. QED  BY <1>1, <1>2, PTL DEF Spec

\* Every variable keeps its type.
THEOREM RegistryTypes == Spec => []TypeOK
BY RegistryInvariant, PTL DEF IInv

\* subscriptions and monitors always describe the same subscriptions.
THEOREM IndexExact == Spec => []ReverseIndexExact
<1>1. IInv => ReverseIndexExact
  BY MapsExact DEF IInv
<1>. QED  BY <1>1, RegistryInvariant, PTL

\* Every subscription is monitored, and no monitor or :DOWN outlives its
\* subscription.
THEOREM MonitorsExact == Spec => []MonitorsBacked
BY RegistryInvariant, PTL DEF IInv

\* A live subscriber has exactly the subscriptions it was told it has.
THEOREM SubscribersExact == Spec => []SubscribersAsAcknowledged
BY RegistryInvariant, PTL DEF IInv
-----------------------------------------------------------------------------
(* Delivery.                                                               *)

IsDispatch(i) == inbox[i].op = "dispatch"

\* What ExactDelivery needs to know of the past: an event is under way at most
\* once and has reached nobody before it is handled, nor has any event that is
\* yet to be dispatched.
FreshEvents ==
  /\ \A i \in DOMAIN inbox : IsDispatch(i) => inbox[i].event <= events
  /\ \A i, j \in DOMAIN inbox :
       IsDispatch(i) /\ IsDispatch(j) /\ inbox[i].event = inbox[j].event => i = j
  /\ \A i \in DOMAIN inbox, p \in Pid : IsDispatch(i) => delivered[p][inbox[i].event] = 0
  /\ \A e \in Event, p \in Pid : e > events => delivered[p][e] = 0

\* Positions of the mailbox after its oldest request was taken.
LEMMA TakenElements ==
  ASSUME TypeOK, inbox # <<>>, inbox' = Tail(inbox)
  PROVE  /\ 1 \in DOMAIN inbox /\ Head(inbox) = inbox[1]
         /\ \A i \in DOMAIN inbox' :
              i \in Nat \ {0} /\ i + 1 \in DOMAIN inbox /\ inbox'[i] = inbox[i + 1]
BY DEF TypeOK

\* Positions of the mailbox after a request was added.
LEMMA AddedElements ==
  ASSUME TypeOK, NEW m \in Request, inbox' = Append(inbox, m)
  PROVE  \A i \in DOMAIN inbox' :
              \/ i \in DOMAIN inbox /\ inbox'[i] = inbox[i]
              \/ i = Len(inbox) + 1 /\ inbox'[i] = m
BY DEF TypeOK

\* Taking a request that is not an event leaves the events under way alone.
LEMMA OtherTaken ==
  ASSUME TypeOK, FreshEvents, inbox # <<>>, inbox' = Tail(inbox),
         UNCHANGED <<events, delivered>>
  PROVE  FreshEvents'
<1>1. \A i \in DOMAIN inbox' :
        i \in Nat \ {0} /\ i + 1 \in DOMAIN inbox /\ inbox'[i] = inbox[i + 1]
  BY TakenElements
<1>2. \A i, j \in DOMAIN inbox' :
        IsDispatch(i)' /\ IsDispatch(j)' /\ inbox'[i].event = inbox'[j].event => i = j
  <2> SUFFICES ASSUME NEW i \in DOMAIN inbox', NEW j \in DOMAIN inbox', IsDispatch(i)',
                      IsDispatch(j)', inbox'[i].event = inbox'[j].event
               PROVE  i = j
    OBVIOUS
  <2>1. i + 1 = j + 1
    BY <1>1 DEF FreshEvents, IsDispatch
  <2>. QED  BY <1>1, <2>1
<1>. QED  BY <1>1, <1>2 DEF FreshEvents, IsDispatch

\* A dispatch takes its event off the mailbox and delivers only that one.
LEMMA EventTaken ==
  ASSUME IInv, FreshEvents, HandleDispatch
  PROVE  FreshEvents'
<1> DEFINE e == Head(inbox).event
<1>0. /\ TypeOK /\ inbox # <<>> /\ Head(inbox).op = "dispatch" /\ inbox' = Tail(inbox)
      /\ UNCHANGED events
  BY DEF IInv, HandleDispatch, Receive, clients
<1>1. /\ 1 \in DOMAIN inbox /\ Head(inbox) = inbox[1]
      /\ \A i \in DOMAIN inbox' :
           i \in Nat \ {0} /\ i + 1 \in DOMAIN inbox /\ inbox'[i] = inbox[i + 1]
  BY <1>0, TakenElements
<1>2. \A p \in Pid, f \in Event : f # e => delivered'[p][f] = delivered[p][f]
  BY <1>0 DEF HandleDispatch, TypeOK
<1>3. \A i \in DOMAIN inbox' : IsDispatch(i)' => inbox'[i].event \in Event /\ inbox'[i].event # e
  <2> SUFFICES ASSUME NEW i \in DOMAIN inbox', IsDispatch(i)'
               PROVE  inbox'[i].event \in Event /\ inbox'[i].event # e
    OBVIOUS
  <2>1. i \in Nat \ {0} /\ i + 1 \in DOMAIN inbox /\ inbox'[i] = inbox[i + 1]
    BY <1>1
  <2>2. inbox[i + 1] \in Request /\ inbox[i + 1].op = "dispatch"
    BY <1>0, <2>1 DEF TypeOK, IsDispatch
  <2>3. inbox[i + 1].event = inbox[1].event => i + 1 = 1
    BY <1>0, <1>1, <2>1, <2>2 DEF FreshEvents, IsDispatch
  <2>4. i + 1 # 1
    BY <2>1
  <2>. QED  BY <1>1, <2>1, <2>2, <2>3, <2>4 DEF Request
<1>4. \A i, j \in DOMAIN inbox' :
        IsDispatch(i)' /\ IsDispatch(j)' /\ inbox'[i].event = inbox'[j].event => i = j
  <2> SUFFICES ASSUME NEW i \in DOMAIN inbox', NEW j \in DOMAIN inbox', IsDispatch(i)',
                      IsDispatch(j)', inbox'[i].event = inbox'[j].event
               PROVE  i = j
    OBVIOUS
  <2>1. i + 1 = j + 1
    BY <1>1 DEF FreshEvents, IsDispatch
  <2>. QED  BY <1>1, <2>1
<1>5. \A i \in DOMAIN inbox' : IsDispatch(i)' => inbox'[i].event <= events'
  BY <1>0, <1>1 DEF FreshEvents, IsDispatch
<1>6. \A i \in DOMAIN inbox', p \in Pid : IsDispatch(i)' => delivered'[p][inbox'[i].event] = 0
  <2> SUFFICES ASSUME NEW i \in DOMAIN inbox', NEW p \in Pid, IsDispatch(i)'
               PROVE  delivered'[p][inbox'[i].event] = 0
    OBVIOUS
  <2>1. delivered'[p][inbox'[i].event] = delivered[p][inbox'[i].event]
    BY <1>2, <1>3
  <2>. QED  BY <1>1, <2>1 DEF FreshEvents, IsDispatch
<1>7. \A f \in Event, p \in Pid : f > events' => delivered'[p][f] = 0
  <2>1. e \in Event /\ e <= events
    BY <1>0, <1>1, RequestTaken DEF FreshEvents, IsDispatch, HandleDispatch
  <2>2. \A f \in Event : f > events => f # e
    BY <1>0, <2>1 DEF TypeOK, Event
  <2>. QED  BY <1>0, <1>2, <2>2 DEF FreshEvents
<1>. QED  BY <1>4, <1>5, <1>6, <1>7 DEF FreshEvents

\* A request that is not an event joins the mailbox.
LEMMA OtherAdded ==
  ASSUME TypeOK, FreshEvents, NEW m \in Request, m.op # "dispatch",
         inbox' = Append(inbox, m), UNCHANGED <<events, delivered>>
  PROVE  FreshEvents'
<1>1. \A i \in DOMAIN inbox' : IsDispatch(i)' => i \in DOMAIN inbox /\ inbox'[i] = inbox[i]
  BY AddedElements DEF IsDispatch
<1>. QED  BY <1>1 DEF FreshEvents, IsDispatch

\* A dispatched event is a new one.
LEMMA EventAdded ==
  ASSUME TypeOK, FreshEvents, NEW k \in Key, Dispatch(k)
  PROVE  FreshEvents'
<1> DEFINE m == [op |-> "dispatch", key |-> k, event |-> events + 1]
<1>1. events \in Nat /\ events + 1 \in Event
  BY BoundsAssumption DEF Dispatch, TypeOK, Event
<1>2. m \in Request /\ m.event = events + 1
  BY <1>1 DEF Request
<1>3. inbox' = Append(inbox, m) /\ events' = events + 1 /\ delivered' = delivered
  BY DEF Dispatch
<1>4. \A i \in DOMAIN inbox' : \/ i \in DOMAIN inbox /\ inbox'[i] = inbox[i]
                               \/ i = Len(inbox) + 1 /\ inbox'[i] = m
  BY <1>2, <1>3, AddedElements
<1>5. \A i \in DOMAIN inbox : IsDispatch(i) => inbox[i].event \in Nat /\ inbox[i].event <= events
  <2>1. \A i \in DOMAIN inbox : inbox[i] \in Request
    BY DEF TypeOK
  <2>2. \A x \in Request : x.op = "dispatch" => x.event \in Nat
    BY BoundsAssumption DEF Request, Event
  <2>. QED  BY <2>1, <2>2 DEF FreshEvents, IsDispatch
<1> HIDE DEF m
<1>6. \A i \in DOMAIN inbox' : IsDispatch(i)' => inbox'[i].event <= events'
  BY <1>1, <1>2, <1>3, <1>4, <1>5 DEF IsDispatch
<1>7. \A i, j \in DOMAIN inbox' :
        IsDispatch(i)' /\ IsDispatch(j)' /\ inbox'[i].event = inbox'[j].event => i = j
  BY <1>1, <1>2, <1>4, <1>5 DEF FreshEvents, IsDispatch
<1>8. \A i \in DOMAIN inbox', p \in Pid : IsDispatch(i)' => delivered'[p][inbox'[i].event] = 0
  BY <1>1, <1>2, <1>3, <1>4 DEF FreshEvents, IsDispatch
<1>9. \A e \in Event, p \in Pid : e > events' => delivered'[p][e] = 0
  BY <1>1, <1>3 DEF FreshEvents, Event
<1>. QED  BY <1>6, <1>7, <1>8, <1>9 DEF FreshEvents

\* Every step keeps the events fresh.
LEMMA FreshStep ==
  ASSUME IInv, FreshEvents, [Next]_vars
  PROVE  FreshEvents'
<1>0. TypeOK
  BY DEF IInv
<1>1. ASSUME UNCHANGED <<inbox, events, delivered>> PROVE FreshEvents'
  BY <1>1 DEF FreshEvents, IsDispatch
<1>2. CASE HandleRegister \/ HandleUnregister \/ HandleCleanupNode
  BY <1>0, <1>2, OtherTaken DEF HandleRegister, HandleUnregister, HandleCleanupNode, Receive
<1>3. ASSUME NEW d \in downs, HandleDown(d) PROVE FreshEvents'
  BY <1>1, <1>3 DEF HandleDown, clients
<1>4. ASSUME NEW m \in active, DeliverDown(m) PROVE FreshEvents'
  BY <1>1, <1>4 DEF DeliverDown, clients
<1>5. ASSUME NEW k \in Key, NEW p \in Pid, NEW op \in {"register", "unregister"},
             Call(op, k, p)
      PROVE  FreshEvents'
  <2>1. [op |-> op, key |-> k, pid |-> p] \in Request
    BY DEF Request
  <2>. QED  BY <1>0, <1>5, <2>1, OtherAdded DEF Call
<1>6. ASSUME NEW n \in Node, Terminate(n) PROVE FreshEvents'
  <2>1. [op |-> "cleanup_node", node |-> n] \in Request
    BY DEF Request
  <2>. QED  BY <1>0, <1>6, <2>1, OtherAdded DEF Terminate
<1>7. ASSUME NEW p \in Pid, Exit(p) PROVE FreshEvents'
  BY <1>1, <1>7 DEF Exit
<1>8. ASSUME NEW n \in Node, Kill(n) PROVE FreshEvents'
  BY <1>1, <1>8 DEF Kill
<1>9. CASE UNCHANGED vars
  BY <1>1, <1>9 DEF vars
<1>. QED
  BY <1>0, <1>2, <1>3, <1>4, <1>5, <1>6, <1>7, <1>8, <1>9, EventTaken, EventAdded
  DEF Next, ServerStep

\* Only the handling of an event takes an event off the mailbox.
LEMMA DispatchTakes ==
  ASSUME TypeOK, Next, inbox # <<>>, Head(inbox).op = "dispatch", inbox' = Tail(inbox)
  PROVE  HandleDispatch
<1>1. inbox' # inbox
  BY DEF TypeOK
<1>2. \A m \in Request : inbox' # Append(inbox, m)
  BY DEF TypeOK
<1>3. ASSUME NEW k \in Key, NEW p \in Pid, NEW op \in {"register", "unregister"}
      PROVE  ~Call(op, k, p)
  <2>1. [op |-> op, key |-> k, pid |-> p] \in Request
    BY DEF Request
  <2>. QED  BY <1>2, <2>1 DEF Call
<1>4. ASSUME NEW k \in Key PROVE ~Dispatch(k)
  <2>1. Dispatch(k) => events + 1 \in Event
    BY BoundsAssumption DEF Dispatch, TypeOK, Event
  <2>2. Dispatch(k) => [op |-> "dispatch", key |-> k, event |-> events + 1] \in Request
    BY <2>1 DEF Request
  <2>. QED  BY <1>2, <2>2 DEF Dispatch
<1>5. ASSUME NEW n \in Node PROVE ~Terminate(n) /\ ~Kill(n)
  <2>1. [op |-> "cleanup_node", node |-> n] \in Request
    BY DEF Request
  <2>. QED  BY <1>1, <1>2, <2>1 DEF Terminate, Kill
<1>6. /\ \A d \in downs : ~HandleDown(d)
      /\ \A m \in active : ~DeliverDown(m)
      /\ \A p \in Pid : ~Exit(p)
  BY <1>1 DEF HandleDown, DeliverDown, Exit
<1>7. ~HandleRegister /\ ~HandleUnregister /\ ~HandleCleanupNode
  BY DEF HandleRegister, HandleUnregister, HandleCleanupNode, Receive
<1>. QED  BY <1>3, <1>4, <1>5, <1>6, <1>7 DEF Next, ServerStep

\* An event reaches each live subscriber of its key exactly once and nobody
\* else, however registrations, deaths and cleanups came before it.
THEOREM DeliveryExact == Spec => ExactDelivery
<1>1. Init => FreshEvents
  BY DEF Init, FreshEvents
<1>2. IInv /\ FreshEvents /\ [Next]_vars => FreshEvents'
  BY FreshStep
<1> DEFINE Deliver == \A p \in alive, e \in Event :
             inbox # <<>> /\ Head(inbox).op = "dispatch" /\ Head(inbox).event = e
               /\ inbox' = Tail(inbox)
             => delivered'[p][e] = IF <<Head(inbox).key, p>> \in acked THEN 1 ELSE 0
<1>3. IInv /\ FreshEvents /\ [Next]_vars => [Deliver]_vars
  <2> SUFFICES ASSUME IInv, FreshEvents, Next, NEW p \in alive, NEW e \in Event,
                      inbox # <<>>, Head(inbox).op = "dispatch", Head(inbox).event = e,
                      inbox' = Tail(inbox)
               PROVE  delivered'[p][e] = IF <<Head(inbox).key, p>> \in acked THEN 1 ELSE 0
    BY DEF vars
  <2> DEFINE k == Head(inbox).key
  <2>0. TypeOK /\ p \in Pid
    BY DEF IInv, TypeOK
  <2>1. HandleDispatch
    BY <2>0, DispatchTakes
  <2>2. k \in Key
    BY <2>0, <2>1, RequestTaken DEF HandleDispatch
  <2>3. Cardinality({x \in Entries(k) : x.pid = p}) = IF <<k, p>> \in acked THEN 1 ELSE 0
    BY <2>0, <2>2, OneMessageEach DEF IInv, Maps, SubscribersAsAcknowledged
  <2>4. delivered[p][e] = 0
    BY <2>0, TakenElements DEF FreshEvents, IsDispatch
  <2>5. delivered'[p][e] = delivered[p][e] + Cardinality({x \in Entries(k) : x.pid = p})
    BY <2>0, <2>1 DEF HandleDispatch, TypeOK
  <2>. QED  BY <2>3, <2>4, <2>5
<1>. QED  BY <1>1, <1>2, <1>3, RegistryInvariant, PTL DEF Spec, ExactDelivery
=============================================================================
