----------------------------- MODULE EncodingProofs -----------------------------
(***************************************************************************)
(* Proofs about the two places where the node's state or news is turned    *)
(* into another form and back: the snapshot of the DHT routing table       *)
(* (DhtState, DhtSnapshot) and the path of an event from the swarm loop to *)
(* the subscribers (EventTerms, EventPath).  Everything holds for every    *)
(* Base, every size limit, every table and file, and for every peer,       *)
(* address, batch and registration.                                        *)
(*                                                                         *)
(* What a conversion computes on sequences of any length needs induction   *)
(* over data.  It is done through sets: the numbers n for which the claim  *)
(* holds form a set, and NatSet shows that this set is all of Nat.         *)
(*                                                                         *)
(* The codec.  DecoderInv says what the decoder knows between two reads:   *)
(* the bytes before its offset are the encoding of the entries it has read *)
(* so far, with the numbers still outstanding in the length fields         *)
(* (Consumed), and, when the data are an intact export, what follows is    *)
(* the rest of that export (Follows).  At the end the first gives          *)
(* OnlyEncodings and the second RoundTrip.  SnapInv adds which file is on  *)
(* disk and what of the table a restart owes (KeptSafe).                   *)
(*                                                                         *)
(* The events.  For each kind of report the term the encoder builds fits a *)
(* clause of Event.from_raw (Heard), so a message in the mailbox tells     *)
(* what its report owed.  InTransit then says that what was told, followed *)
(* by what the mailbox still tells, is all that was owed.                  *)
(***************************************************************************)
EXTENDS DhtSnapshot, EventPath, FiniteSetTheorems, WellFoundedInduction,
        SequenceTheorems, TLAPS

\* Both ways of joining three sequences.
CatLeft(s, t, u)  == (s \o t) \o u
CatRight(s, t, u) == s \o (t \o u)

\* Joining three sequences is associative, for any of them.
LEMMA Regroup ==
  ASSUME NEW S, NEW s \in Seq(S), NEW t \in Seq(S), NEW u \in Seq(S)
  PROVE  CatLeft(s, t, u) = CatRight(s, t, u)
BY ConcatAssociative DEF CatLeft, CatRight

\* A set of numbers that is not empty has a least one.
LEMMA LeastNumber ==
  ASSUME NEW S \in SUBSET Nat, S # {}
  PROVE  \E n \in S : \A m \in S : n <= m
<1> DEFINE R == {ss \in Nat \X Nat : ss[1] < ss[2]}
<1>1. IsWellFoundedOn(R, Nat)
  BY NatLessThanWellFounded DEF OpToRel
<1> HIDE DEF R
<1>2. PICK n \in S : \A m \in S : <<m, n>> \notin R
  BY <1>1, WFMin
<1>3. \A m \in S : ~(m < n)
  BY <1>2 DEF R
<1>. QED  BY <1>3

\* A set that holds 0 and with every number its successor holds all of them.
LEMMA NatSet ==
  ASSUME NEW S, 0 \in S, \A n \in Nat : n \in S => n + 1 \in S
  PROVE  Nat \subseteq S
<1> SUFFICES ASSUME Nat \ S # {} PROVE FALSE
  OBVIOUS
<1>1. PICK n \in Nat \ S : \A m \in Nat \ S : n <= m
  BY LeastNumber
<1>2. n # 0 /\ n - 1 \in Nat
  OBVIOUS
<1>3. n - 1 \in S
  BY <1>1, <1>2
<1>. QED  BY <1>2, <1>3

-----------------------------------------------------------------------------
(* FlattenSeq.                                                             *)

Join(s, t) == s \o t

\* f is the recursive function of FlattenSeq on the first n sequences of ss.
Flattens(f, ss, n) == f = [i \in 1 .. n |-> IF i = 1 THEN ss[i] ELSE Join(f[i - 1], ss[i])]

\* FlattenSeq takes the last value of the recursive function Flattens describes.
LEMMA FlattenDef ==
  ASSUME NEW ss
  PROVE  FlattenSeq(ss) = IF Len(ss) = 0 THEN ss
                          ELSE (CHOOSE f : Flattens(f, ss, Len(ss)))[Len(ss)]
BY DEF FlattenSeq, Flattens, Join

\* On a set closed under Join, that recursive function exists.
LEMMA FlattenExists ==
  ASSUME NEW T, NEW N \in Nat, NEW q \in [1 .. N -> T], \A s, t \in T : Join(s, t) \in T,
         NEW n \in 1 .. N
  PROVE  \E f \in [1 .. n -> T] : Flattens(f, q, n)
<1> DEFINE A == {k \in Nat : k + 1 <= N => \E f \in [1 .. k + 1 -> T] : Flattens(f, q, k + 1)}
<1>1. 0 \in A
  <2> SUFFICES ASSUME 1 <= N PROVE \E f \in [1 .. 1 -> T] : Flattens(f, q, 1)
    OBVIOUS
  <2> DEFINE f == [i \in 1 .. 1 |-> q[1]]
  <2>1. f \in [1 .. 1 -> T]
    OBVIOUS
  <2>2. Flattens(f, q, 1)
    BY DEF Flattens
  <2>. QED  BY <2>1, <2>2
<1>2. ASSUME NEW k \in Nat, k \in A PROVE k + 1 \in A
  <2> SUFFICES ASSUME k + 2 <= N
               PROVE  \E f \in [1 .. k + 2 -> T] : Flattens(f, q, k + 2)
    OBVIOUS
  <2>1. PICK f \in [1 .. k + 1 -> T] : Flattens(f, q, k + 1)
    BY <1>2
  <2> DEFINE g == [i \in 1 .. k + 2 |-> IF i <= k + 1 THEN f[i] ELSE Join(f[k + 1], q[k + 2])]
  <2>2. g \in [1 .. k + 2 -> T]
    OBVIOUS
  <2>3. \A i \in 1 .. k + 2 : g[i] = IF i = 1 THEN q[i] ELSE Join(g[i - 1], q[i])
    <3> SUFFICES ASSUME NEW i \in 1 .. k + 2
                 PROVE  g[i] = IF i = 1 THEN q[i] ELSE Join(g[i - 1], q[i])
      OBVIOUS
    <3>1. CASE i <= k + 1
      BY <2>1, <3>1 DEF Flattens
    <3>2. CASE i = k + 2
      BY <3>2
    <3>. QED  BY <3>1, <3>2
  <2>4. Flattens(g, q, k + 2)
    BY <2>2, <2>3 DEF Flattens
  <2>. QED  BY <2>2, <2>4
<1> HIDE DEF A
<1>3. n - 1 \in Nat /\ n - 1 \in A
  <2>1. n - 1 \in Nat
    OBVIOUS
  <2>2. Nat \subseteq A
    BY <1>1, <1>2, NatSet
  <2>. QED  BY <2>1, <2>2
<1>. QED  BY <1>3 DEF A

\* Two such functions, of different lengths, agree where both are defined.
LEMMA FlattenUnique ==
  ASSUME NEW q, NEW n \in Nat, NEW m \in 1 .. n,
         NEW f, Flattens(f, q, n), NEW g, Flattens(g, q, m)
  PROVE  f[m] = g[m]
<1> DEFINE A == {k \in Nat : k + 1 <= m => f[k + 1] = g[k + 1]}
<1>1. 0 \in A
  BY DEF Flattens
<1>2. ASSUME NEW k \in Nat, k \in A PROVE k + 1 \in A
  <2> SUFFICES ASSUME k + 2 <= m PROVE f[k + 2] = g[k + 2]
    OBVIOUS
  <2>0. k + 2 \in 1 .. n /\ k + 2 \in 1 .. m /\ k + 2 # 1 /\ k + 2 - 1 = k + 1
    OBVIOUS
  <2>1. f[k + 2] = Join(f[k + 1], q[k + 2])
    BY <2>0 DEF Flattens
  <2>2. g[k + 2] = Join(g[k + 1], q[k + 2])
    BY <2>0 DEF Flattens
  <2>3. f[k + 1] = g[k + 1]
    BY <1>2
  <2>. QED  BY <2>1, <2>2, <2>3
<1> HIDE DEF A
<1>3. Nat \subseteq A
  BY <1>1, <1>2, NatSet
<1>4. m - 1 \in Nat
  OBVIOUS
<1>. QED  BY <1>3, <1>4 DEF A

\* The value at n + 1 joins one more sequence to the value at n.
LEMMA FlattenStep ==
  ASSUME NEW q, NEW n \in Nat, n > 0, NEW f, Flattens(f, q, n + 1)
  PROVE  f[n + 1] = Join(f[n], q[n + 1])
<1>1. n + 1 \in 1 .. n + 1 /\ n + 1 # 1 /\ n + 1 - 1 = n
  OBVIOUS
<1>. QED  BY <1>1 DEF Flattens

\* Sequences over S are closed under Join.
LEMMA JoinSeq ==
  ASSUME NEW S, NEW ss \in Seq(Seq(S))
  PROVE  /\ Len(ss) \in Nat /\ ss \in [1 .. Len(ss) -> Seq(S)]
         /\ \A s, t \in Seq(S) : Join(s, t) \in Seq(S)
BY DEF Join

\* The function that FlattenSeq chooses.
LEMMA FlattenChosen ==
  ASSUME NEW S, NEW ss \in Seq(Seq(S)), Len(ss) > 0
  PROVE  \E f \in [1 .. Len(ss) -> Seq(S)] :
           Flattens(f, ss, Len(ss)) /\ FlattenSeq(ss) = f[Len(ss)]
<1> DEFINE F == CHOOSE f : Flattens(f, ss, Len(ss))
<1>0. Len(ss) \in 1 .. Len(ss) /\ Len(ss) \in Nat
  OBVIOUS
<1>1. PICK h \in [1 .. Len(ss) -> Seq(S)] : Flattens(h, ss, Len(ss))
  BY <1>0, JoinSeq, FlattenExists
<1>2. Flattens(F, ss, Len(ss))
  BY <1>1
<1>3. FlattenSeq(ss) = F[Len(ss)]
  BY FlattenDef
<1> HIDE DEF F
<1>4. F[Len(ss)] = h[Len(ss)]
  BY <1>0, <1>1, <1>2, FlattenUnique
<1>. QED  BY <1>1, <1>3, <1>4

\* Flattening sequences over S gives a sequence over S.
LEMMA FlattenType ==
  ASSUME NEW S, NEW ss \in Seq(Seq(S))
  PROVE  FlattenSeq(ss) \in Seq(S)
<1>1. CASE Len(ss) = 0
  <2>1. FlattenSeq(ss) = ss
    BY <1>1, FlattenDef
  <2>2. ss = <<>> /\ <<>> \in Seq(S)
    BY <1>1
  <2>. QED  BY <2>1, <2>2
<1>2. CASE Len(ss) > 0
  <2>1. Len(ss) \in 1 .. Len(ss)
    BY <1>2
  <2>. QED  BY <1>2, <2>1, FlattenChosen
<1>. QED  BY <1>1, <1>2

\* Nothing flattens to nothing.
LEMMA FlattenEmpty == FlattenSeq(<<>>) = <<>>
BY FlattenDef

\* FlattenSeq of a sequence and one more.
LEMMA FlattenAppend ==
  ASSUME NEW S, NEW ss \in Seq(Seq(S)), NEW s \in Seq(S)
  PROVE  FlattenSeq(Append(ss, s)) = FlattenSeq(ss) \o s
<1> DEFINE tt == Append(ss, s)
           n == Len(ss)
<1>1. /\ tt \in Seq(Seq(S)) /\ Len(tt) = n + 1 /\ n \in Nat /\ tt[n + 1] = s
      /\ \A i \in 1 .. n : tt[i] = ss[i]
  OBVIOUS
<1> HIDE DEF tt
<1>2. PICK g \in [1 .. n + 1 -> Seq(S)] : Flattens(g, tt, n + 1) /\ FlattenSeq(tt) = g[n + 1]
  BY <1>1, FlattenChosen
<1>3. CASE n = 0
  <2>1. FlattenSeq(ss) = <<>>
    BY <1>3, FlattenDef
  <2>2. g[1] = s
    BY <1>1, <1>2, <1>3 DEF Flattens
  <2>. QED  BY <1>2, <1>3, <2>1, <2>2 DEF tt
<1>4. CASE n > 0
  <2>1. PICK h \in [1 .. n -> Seq(S)] : Flattens(h, ss, n) /\ FlattenSeq(ss) = h[n]
    BY <1>4, FlattenChosen
  <2>2. Flattens(h, tt, n)
    BY <1>1, <2>1 DEF Flattens
  <2>3. n \in 1 .. n + 1 /\ n + 1 \in Nat /\ n + 1 \in 1 .. n + 1 /\ n + 1 # 1 /\ n + 1 - 1 = n
    BY <1>1, <1>4
  <2>4. g[n] = h[n]
    BY <1>2, <2>2, <2>3, FlattenUnique
  <2>6. g[n + 1] = Join(g[n], tt[n + 1])
    BY <1>1, <1>2, <1>4, FlattenStep
  <2>7. tt[n + 1] = s
    BY <1>1
  <2>. QED  BY <1>2, <2>1, <2>3, <2>4, <2>6, <2>7 DEF tt, Join
<1>. QED  BY <1>1, <1>3, <1>4

\* FlattenSeq of one sequence and others.
LEMMA FlattenCons ==
  ASSUME NEW S, NEW ss \in Seq(Seq(S)), NEW s \in Seq(S)
  PROVE  FlattenSeq(<<s>> \o ss) = s \o FlattenSeq(ss)
<1> DEFINE P(tt) == FlattenSeq(<<s>> \o tt) = s \o FlattenSeq(tt)
           A == {k \in Nat : \A tt \in Seq(Seq(S)) : Len(tt) = k => P(tt)}
<1> HIDE DEF P
<1>1. 0 \in A
  <2> SUFFICES ASSUME NEW tt \in Seq(Seq(S)), Len(tt) = 0
               PROVE  P(tt)
    OBVIOUS
  <2>1. tt = <<>> /\ <<s>> \o tt = Append(tt, s) /\ <<>> \o s = s /\ s \o <<>> = s
    OBVIOUS
  <2>2. FlattenSeq(Append(tt, s)) = FlattenSeq(tt) \o s
    BY FlattenAppend
  <2>3. FlattenSeq(tt) = <<>>
    BY <2>1, FlattenEmpty
  <2>. QED  BY <2>1, <2>2, <2>3 DEF P
<1>2. ASSUME NEW k \in Nat, k \in A PROVE k + 1 \in A
  <2> SUFFICES ASSUME NEW tt \in Seq(Seq(S)), Len(tt) = k + 1
               PROVE  P(tt)
    OBVIOUS
  <2> DEFINE front == SubSeq(tt, 1, k)
             last == tt[k + 1]
  <2>1. front \in Seq(Seq(S)) /\ last \in Seq(S) /\ Len(front) = k
    OBVIOUS
  <2>2. tt = Append(front, last)
    OBVIOUS
  <2> HIDE DEF front, last
  <2>3. <<s>> \o tt = Append(<<s>> \o front, last) /\ <<s>> \o front \in Seq(Seq(S))
    BY <2>1, <2>2
  <2>4. FlattenSeq(Append(<<s>> \o front, last)) = FlattenSeq(<<s>> \o front) \o last
    BY <2>1, <2>3, FlattenAppend
  <2>5. FlattenSeq(<<s>> \o front) = s \o FlattenSeq(front)
    BY <1>2, <2>1 DEF P
  <2>6. FlattenSeq(tt) = FlattenSeq(front) \o last
    BY <2>1, <2>2, FlattenAppend
  <2>7. FlattenSeq(front) \in Seq(S)
    BY <2>1, FlattenType
  <2> DEFINE g == FlattenSeq(front)
  <2>a. g \in Seq(S) /\ last \in Seq(S)
    BY <2>1, <2>7
  <2> HIDE DEF g
  <2>b. (s \o g) \o last = s \o (g \o last)
    <3>1. CatLeft(s, g, last) = CatRight(s, g, last)
      BY <2>a, Regroup
    <3>. QED  BY <3>1 DEF CatLeft, CatRight
  <2>8. (s \o FlattenSeq(front)) \o last = s \o (FlattenSeq(front) \o last)
    BY <2>b DEF g
  <2>. QED  BY <2>3, <2>4, <2>5, <2>6, <2>8 DEF P
<1> HIDE DEF A
<1>3. Nat \subseteq A
  BY <1>1, <1>2, NatSet
<1>4. Len(ss) \in A
  BY <1>3
<1>. QED  BY <1>4 DEF A, P

-----------------------------------------------------------------------------
(* Numbers and their bytes.                                                *)

\* Quotient and remainder, as the provers need them.
LEMMA DivMod ==
  ASSUME NEW b \in Nat, b > 0, NEW n \in Nat
  PROVE  /\ n \div b \in Nat /\ n % b \in 0 .. b - 1
         /\ n = b * (n \div b) + (n % b)
OBVIOUS

\* Quotient and remainder of b * q + r are q and r.
LEMMA DivUnique ==
  ASSUME NEW b \in Nat, b > 0, NEW q \in Nat, NEW r \in 0 .. b - 1
  PROVE  (b * q + r) \div b = q /\ (b * q + r) % b = r
<1> DEFINE n == b * q + r
           q2 == n \div b
           r2 == n % b
<1>1. n \in Nat /\ b * q \in Nat
  OBVIOUS
<1>2. q2 \in Nat /\ r2 \in 0 .. b - 1 /\ n = b * q2 + r2
  BY <1>1, DivMod
<1> HIDE DEF q2, r2
<1>3. b * (q - q2) = r2 - r
  BY <1>1, <1>2
<1>4. ~(q > q2)
  <2> SUFFICES ASSUME q > q2 PROVE FALSE
    OBVIOUS
  <2>1. PICK k \in Nat : q = q2 + 1 + k
    BY <1>2
  <2>2. b * (q - q2) = b + b * k /\ b * k >= 0
    BY <1>2, <2>1
  <2>. QED  BY <1>2, <1>3, <2>2
<1>5. ~(q < q2)
  <2> SUFFICES ASSUME q < q2 PROVE FALSE
    OBVIOUS
  <2>1. PICK k \in Nat : q2 = q + 1 + k
    BY <1>2
  <2>2. b * (q - q2) = -b - b * k /\ b * k >= 0
    BY <1>2, <2>1
  <2>. QED  BY <1>2, <1>3, <2>2
<1>6. q = q2 /\ r = r2
  BY <1>2, <1>3, <1>4, <1>5
<1>. QED  BY <1>6 DEF q2, r2

\* The numbers of one, two and four bytes, for any Base above 1.
LEMMA BaseFacts ==
  /\ Base \in Nat /\ Base > 1
  /\ Base * Base \in Nat /\ Base * Base > 0
  /\ (Base * Base) * (Base * Base) \in Nat
  /\ Values16 \subseteq Nat /\ Values32 \subseteq Nat
  /\ 0 \in Byte /\ 1 \in Byte /\ 0 \in Values16 /\ 0 \in Values32
BY WidthAssumption DEF Byte, Values16, Values32

\* Two digits make a number of a u16, and every such number has two digits.
LEMMA TwoDigits ==
  ASSUME NEW b \in Nat, b > 0, NEW hi \in 0 .. b - 1, NEW lo \in 0 .. b - 1
  PROVE  hi * b + lo \in 0 .. b * b - 1
<1>1. PICK k \in Nat : hi + 1 + k = b
  <2>1. b - 1 - hi \in Nat
    OBVIOUS
  <2>. QED  BY <2>1
<1>2. b * b = b * hi + b + b * k /\ b * k \in Nat /\ b * hi \in Nat /\ hi * b = b * hi
  BY <1>1
<1>. QED  BY <1>2

\* The high digit of a number of two digits is a digit.
LEMMA HighDigit ==
  ASSUME NEW b \in Nat, b > 0, NEW n \in 0 .. b * b - 1
  PROVE  n \div b \in 0 .. b - 1
<1> DEFINE q == n \div b
<1>1. q \in Nat /\ n % b \in 0 .. b - 1 /\ n = b * q + (n % b) /\ b * b \in Nat
  BY DivMod
<1> HIDE DEF q
<1>2. ~(q >= b)
  <2> SUFFICES ASSUME q >= b PROVE FALSE
    OBVIOUS
  <2>1. PICK k \in Nat : q = b + k
    <3>1. q - b \in Nat /\ q = b + (q - b)
      BY <1>1
    <3>. QED  BY <3>1
  <2>2. b * q = b * b + b * k /\ b * k \in Nat
    BY <2>1, <1>1
  <2>. QED  BY <1>1, <2>2
<1>3. q \in 0 .. b - 1
  BY <1>1, <1>2
<1>. QED  BY <1>3 DEF q

\* U16 of the number that two bytes make is these bytes.
LEMMA U16OfDigits ==
  ASSUME NEW hi \in Byte, NEW lo \in Byte
  PROVE  /\ hi * Base + lo \in Values16
         /\ U16(hi * Base + lo) = <<hi, lo>>
<1>1. hi \in 0 .. Base - 1 /\ lo \in 0 .. Base - 1 /\ hi \in Nat
  BY BaseFacts DEF Byte
<1>2. hi * Base + lo \in Values16
  BY <1>1, BaseFacts, TwoDigits DEF Values16
<1>3. (hi * Base + lo) \div Base = hi /\ (hi * Base + lo) % Base = lo
  <2>1. hi * Base = Base * hi
    BY <1>1, BaseFacts
  <2>. QED  BY <1>1, <2>1, BaseFacts, DivUnique
<1>4. hi % Base = hi
  <2>1. Base * 0 + hi = hi
    BY <1>1, BaseFacts
  <2>. QED  BY <1>1, <2>1, BaseFacts, DivUnique
<1>. QED  BY <1>2, <1>3, <1>4 DEF U16

\* to_be_bytes of a u16 is two bytes, whatever the number (it is cut to its width).
LEMMA U16Bytes ==
  ASSUME NEW n \in Nat
  PROVE  U16(n) \in Seq(Byte) /\ Len(U16(n)) = 2
<1>1. n \div Base \in Nat /\ n % Base \in Byte
  BY BaseFacts, DivMod DEF Byte
<1>2. (n \div Base) % Base \in Byte
  BY <1>1, BaseFacts, DivMod DEF Byte
<1>. QED  BY <1>1, <1>2 DEF U16

\* A number of a u16 is the number that its two bytes make.
LEMMA U16Value ==
  ASSUME NEW n \in Values16
  PROVE  U16(n)[1] * Base + U16(n)[2] = n
<1>0. n \in Nat /\ n \in 0 .. Base * Base - 1
  BY BaseFacts DEF Values16
<1>1. n \div Base \in 0 .. Base - 1
  BY <1>0, BaseFacts, HighDigit
<1>2. (n \div Base) % Base = n \div Base
  <2>1. Base * 0 + (n \div Base) = n \div Base
    BY <1>1, BaseFacts
  <2>. QED  BY <1>1, <2>1, BaseFacts, DivUnique
<1>3. n = Base * (n \div Base) + (n % Base)
  BY <1>0, BaseFacts, DivMod
<1>4. Base * (n \div Base) = (n \div Base) * Base
  BY <1>1, BaseFacts
<1>5. U16(n)[1] = n \div Base /\ U16(n)[2] = n % Base
  BY <1>2 DEF U16
<1>. QED  BY <1>3, <1>4, <1>5

\* U16 looks at the low half of a number only.
LEMMA U16Low ==
  ASSUME NEW h \in Nat, NEW r \in Values16
  PROVE  U16(h * (Base * Base) + r) = U16(r)
<1> DEFINE r1 == r \div Base
           r0 == r % Base
           n == h * (Base * Base) + r
<1>0. r \in Nat /\ r \in 0 .. Base * Base - 1
  BY BaseFacts DEF Values16
<1>1. r1 \in 0 .. Base - 1 /\ r1 \in Nat
  BY <1>0, BaseFacts, HighDigit
<1>2. r0 \in 0 .. Base - 1 /\ r = Base * r1 + r0
  BY <1>0, BaseFacts, DivMod
<1> HIDE DEF r1, r0
<1>3. n = Base * (Base * h + r1) + r0
  <2>1. h * (Base * Base) = Base * (Base * h)
    BY BaseFacts
  <2>2. Base * (Base * h + r1) = Base * (Base * h) + Base * r1 /\ Base * (Base * h) \in Nat
    BY <1>1, BaseFacts
  <2>. QED  BY <1>1, <1>2, <2>1, <2>2, BaseFacts
<1>4. Base * h + r1 \in Nat
  BY <1>1, BaseFacts
<1>5. n \div Base = Base * h + r1 /\ n % Base = r0
  BY <1>2, <1>3, <1>4, BaseFacts, DivUnique
<1>6. (Base * h + r1) % Base = r1
  BY <1>1, BaseFacts, DivUnique
<1>7. r1 % Base = r1
  <2>1. Base * 0 + r1 = r1
    BY <1>1, BaseFacts
  <2>. QED  BY <1>1, <2>1, BaseFacts, DivUnique
<1>8. U16(n) = <<r1, r0>>
  BY <1>5, <1>6 DEF U16
<1>9. U16(r) = <<r1, r0>>
  BY <1>7 DEF U16, r1, r0
<1>. QED  BY <1>8, <1>9

\* The same for a u32 and its two halves.
LEMMA U32OfHalves ==
  ASSUME NEW hi \in Values16, NEW lo \in Values16
  PROVE  /\ hi * (Base * Base) + lo \in Values32
         /\ U32(hi * (Base * Base) + lo) = U16(hi) \o U16(lo)
<1> DEFINE V == Base * Base
<1>0. V \in Nat /\ V > 0 /\ hi \in 0 .. V - 1 /\ lo \in 0 .. V - 1 /\ hi \in Nat
  BY BaseFacts DEF Values16
<1>1. U16(hi * V + lo) = U16(lo)
  BY <1>0, U16Low
<1> HIDE DEF V
<1>2. hi * V + lo \in 0 .. V * V - 1
  BY <1>0, TwoDigits
<1>3. (hi * V + lo) \div V = hi
  <2>1. hi * V = V * hi
    BY <1>0
  <2>. QED  BY <1>0, <2>1, DivUnique
<1>. QED  BY <1>1, <1>2, <1>3 DEF V, U32, Values32

\* to_be_bytes of a u32 is four bytes.
LEMMA U32Bytes ==
  ASSUME NEW n \in Nat
  PROVE  U32(n) \in Seq(Byte) /\ Len(U32(n)) = 4
<1>1. n \div (Base * Base) \in Nat
  BY BaseFacts, DivMod
<1> DEFINE hi == U16(n \div (Base * Base))
           lo == U16(n)
<1>2. hi \in Seq(Byte) /\ Len(hi) = 2 /\ lo \in Seq(Byte) /\ Len(lo) = 2
  BY <1>1, U16Bytes
<1> HIDE DEF hi, lo
<1>3. hi \o lo \in Seq(Byte) /\ Len(hi \o lo) = Len(hi) + Len(lo)
  BY <1>2, ConcatProperties
<1>. QED  BY <1>2, <1>3 DEF U32, hi, lo

\* A number of a u32 has two halves.
LEMMA U32Halves ==
  ASSUME NEW n \in Values32
  PROVE  \E hi, lo \in Values16 : n = hi * (Base * Base) + lo /\ U32(n) = U16(hi) \o U16(lo)
<1> DEFINE V == Base * Base
           hi == n \div V
           lo == n % V
<1>0. V \in Nat /\ V > 0 /\ n \in 0 .. V * V - 1 /\ n \in Nat
  BY BaseFacts DEF Values32
<1>1. Values16 = 0 .. V - 1
  BY DEF Values16
<1> HIDE DEF V
<1>2. hi \in 0 .. V - 1 /\ lo \in 0 .. V - 1 /\ n = V * hi + lo
  BY <1>0, HighDigit, DivMod
<1> HIDE DEF hi, lo
<1>3. n = hi * V + lo
  BY <1>0, <1>2
<1>4. U32(n) = U16(hi) \o U16(lo)
  BY <1>1, <1>2, <1>3, U32OfHalves DEF V
<1>. QED  BY <1>1, <1>2, <1>3, <1>4 DEF V

-----------------------------------------------------------------------------
(* A function applied to the elements of a sequence, and the results joined. *)

\* F is a function from S to T.
Maps(F, S, T) == F \in [S -> T]

Image(F, xs) == [i \in DOMAIN xs |-> F[xs[i]]]

FlatMap(F, xs) == FlattenSeq(Image(F, xs))

\* A function on 1 .. n is a sequence of length n.
LEMMA FunSeq ==
  ASSUME NEW T, NEW n \in Nat, NEW f \in [1 .. n -> T]
  PROVE  f \in Seq(T) /\ Len(f) = n
OBVIOUS
\* The image of a sequence has its length, and F of each element.
LEMMA ImageSeq ==
  ASSUME NEW S, NEW T, NEW F, Maps(F, S, T), NEW xs \in Seq(S)
  PROVE  /\ Image(F, xs) \in Seq(T) /\ Len(Image(F, xs)) = Len(xs)
         /\ \A i \in 1 .. Len(xs) : Image(F, xs)[i] = F[xs[i]]
<1>1. DOMAIN xs = 1 .. Len(xs) /\ Len(xs) \in Nat /\ \A i \in 1 .. Len(xs) : xs[i] \in S
  BY LenProperties
<1>2. Image(F, xs) \in [1 .. Len(xs) -> T]
  BY <1>1 DEF Image, Maps
<1>3. Image(F, xs) \in Seq(T) /\ Len(Image(F, xs)) = Len(xs)
  BY <1>1, <1>2, FunSeq
<1>4. \A i \in 1 .. Len(xs) : Image(F, xs)[i] = F[xs[i]]
  BY <1>1 DEF Image, Maps
<1> QED BY <1>3, <1>4

\* The image of a sequence with one more element.
LEMMA ImageAppend ==
  ASSUME NEW S, NEW T, NEW F, Maps(F, S, T), NEW xs \in Seq(S), NEW a \in S
  PROVE  Image(F, Append(xs, a)) = Append(Image(F, xs), F[a])
<1> DEFINE ys == Append(xs, a)
           l == Image(F, ys)
           m == Image(F, xs)
           r == Append(m, F[a])
<1>1. ys \in Seq(S) /\ Len(ys) = Len(xs) + 1 /\ ys[Len(xs) + 1] = a
      /\ \A i \in 1 .. Len(xs) : ys[i] = xs[i]
  BY AppendProperties
<1>2. m \in Seq(T) /\ Len(m) = Len(xs) /\ \A i \in 1 .. Len(xs) : m[i] = F[xs[i]]
  BY ImageSeq
<1> HIDE DEF ys, m
<1>3. l \in Seq(T) /\ Len(l) = Len(xs) + 1 /\ \A i \in 1 .. Len(xs) + 1 : l[i] = F[ys[i]]
  BY <1>1, ImageSeq
<1>4. F[a] \in T
  BY DEF Maps
<1>5. r \in Seq(T) /\ Len(r) = Len(xs) + 1 /\ r[Len(xs) + 1] = F[a]
     /\ \A i \in 1 .. Len(xs) : r[i] = m[i]
  BY <1>2, <1>4, AppendProperties
<1>0. Len(xs) \in Nat
  BY LenProperties
<1>6. \A i \in 1 .. Len(xs) + 1 : l[i] = r[i]
  <2> TAKE i \in 1 .. Len(xs) + 1
  <2> HIDE DEF l, r
  <2>1. CASE i \in 1 .. Len(xs)
    <3>1. l[i] = F[ys[i]]
      BY <1>3
    <3>2. ys[i] = xs[i]
      BY <1>1, <2>1
    <3>3. r[i] = m[i]
      BY <1>5, <2>1
    <3>4. m[i] = F[xs[i]]
      BY <1>2, <2>1
    <3>. QED  BY <3>1, <3>2, <3>3, <3>4
  <2>2. CASE i = Len(xs) + 1
    BY <1>1, <1>3, <1>5, <2>2
  <2> QED BY <1>0, <2>1, <2>2
<1> HIDE DEF l, r
<1>7. l = r
  BY <1>3, <1>5, <1>6, SeqEqual
<1> QED BY <1>7 DEF l, r, ys, m

\* The image of a sequence with one more element in front.
LEMMA ImageCons ==
  ASSUME NEW S, NEW T, NEW F, Maps(F, S, T), NEW xs \in Seq(S), NEW a \in S
  PROVE  Image(F, <<a>> \o xs) = <<F[a]>> \o Image(F, xs)
<1> DEFINE ys == <<a>> \o xs
           l == Image(F, ys)
           m == Image(F, xs)
           r == <<F[a]>> \o m
<1>0. Len(xs) \in Nat /\ F[a] \in T /\ <<a>> \in Seq(S) /\ <<F[a]>> \in Seq(T)
  BY LenProperties DEF Maps
<1>1. ys \in Seq(S) /\ Len(ys) = 1 + Len(xs)
      /\ \A i \in 1 .. 1 + Len(xs) : ys[i] = IF i <= 1 THEN <<a>>[i] ELSE xs[i - 1]
  BY <1>0, ConcatProperties
<1>2. m \in Seq(T) /\ Len(m) = Len(xs) /\ \A i \in 1 .. Len(xs) : m[i] = F[xs[i]]
  BY ImageSeq
<1> HIDE DEF ys, m
<1>3. l \in Seq(T) /\ Len(l) = 1 + Len(xs) /\ \A i \in 1 .. 1 + Len(xs) : l[i] = F[ys[i]]
  BY <1>1, ImageSeq
<1>5. r \in Seq(T) /\ Len(r) = 1 + Len(xs)
      /\ \A i \in 1 .. 1 + Len(xs) : r[i] = IF i <= 1 THEN <<F[a]>>[i] ELSE m[i - 1]
  BY <1>0, <1>2, ConcatProperties
<1>6. \A i \in 1 .. 1 + Len(xs) : l[i] = r[i]
  <2> TAKE i \in 1 .. 1 + Len(xs)
  <2> HIDE DEF l, r
  <2>1. CASE i = 1
    <3>1. ys[1] = a /\ r[1] = F[a]
      BY <1>1, <1>5, <2>1
    <3> QED BY <1>3, <3>1, <2>1
  <2>2. CASE i > 1
    <3>1. i - 1 \in 1 .. Len(xs)
      BY <2>2, <1>0
    <3>2. ys[i] = xs[i - 1] /\ r[i] = m[i - 1]
      BY <1>1, <1>5, <2>2
    <3> QED BY <1>2, <1>3, <3>1, <3>2
  <2> QED BY <1>0, <2>1, <2>2
<1> HIDE DEF l, r
<1>7. l = r
  BY <1>3, <1>5, <1>6, SeqEqual
<1> QED BY <1>7 DEF l, r, ys, m
\* FlatMap gives a sequence, empty for the empty one.
LEMMA FlatMapSeq ==
  ASSUME NEW S, NEW T, NEW F, Maps(F, S, Seq(T))
  PROVE  FlatMap(F, <<>>) = <<>> /\ \A xs \in Seq(S) : FlatMap(F, xs) \in Seq(T)
<1>1. FlatMap(F, <<>>) = <<>>
  <2>1. Image(F, <<>>) = <<>>
    BY DEF Image
  <2>. QED  BY <2>1, FlattenEmpty DEF FlatMap
<1>2. ASSUME NEW xs \in Seq(S) PROVE FlatMap(F, xs) \in Seq(T)
  BY ImageSeq, FlattenType DEF FlatMap
<1>. QED  BY <1>1, <1>2

\* FlatMap of a sequence with one more element.
LEMMA FlatMapAppend ==
  ASSUME NEW S, NEW T, NEW F, Maps(F, S, Seq(T))
  PROVE  \A xs \in Seq(S), a \in S : FlatMap(F, Append(xs, a)) = FlatMap(F, xs) \o F[a]
<1> TAKE xs \in Seq(S), a \in S
<1>1. Image(F, xs) \in Seq(Seq(T)) /\ F[a] \in Seq(T)
  BY ImageSeq DEF Maps
<1>2. Image(F, Append(xs, a)) = Append(Image(F, xs), F[a])
  BY ImageAppend
<1>3. FlattenSeq(Append(Image(F, xs), F[a])) = FlattenSeq(Image(F, xs)) \o F[a]
  BY <1>1, FlattenAppend
<1>. QED  BY <1>2, <1>3 DEF FlatMap

\* FlatMap of a sequence with one more element in front.
LEMMA FlatMapCons ==
  ASSUME NEW S, NEW T, NEW F, Maps(F, S, Seq(T))
  PROVE  \A xs \in Seq(S), a \in S : FlatMap(F, Cons(a, xs)) = F[a] \o FlatMap(F, xs)
<1> TAKE xs \in Seq(S), a \in S
<1>1. Image(F, xs) \in Seq(Seq(T)) /\ F[a] \in Seq(T)
  BY ImageSeq DEF Maps
<1> DEFINE Q == Seq(T)
<1>0. Maps(F, S, Q)
  OBVIOUS
<1> HIDE DEF Q
<1>2. Image(F, <<a>> \o xs) = <<F[a]>> \o Image(F, xs)
  BY <1>0, ImageCons
<1>3. FlattenSeq(<<F[a]>> \o Image(F, xs)) = F[a] \o FlattenSeq(Image(F, xs))
  BY <1>1, FlattenCons
<1>. QED  BY <1>2, <1>3 DEF FlatMap, Cons

-----------------------------------------------------------------------------
(* The bytes at an offset.                                                 *)

\* The elements of two sequences joined.
LEMMA CatIndex ==
  ASSUME NEW S, NEW s \in Seq(S), NEW t \in Seq(S)
  PROVE  /\ s \o t \in Seq(S) /\ Len(s \o t) = Len(s) + Len(t)
         /\ Len(s) \in Nat /\ Len(t) \in Nat
         /\ \A i \in 1 .. Len(s) : (s \o t)[i] = s[i]
         /\ \A i \in 1 .. Len(t) : (s \o t)[Len(s) + i] = t[i]
OBVIOUS

\* Two joined sequences are equal part by part when the first parts are as long.
LEMMA CatCancel ==
  ASSUME NEW S, NEW s \in Seq(S), NEW t \in Seq(S), NEW u \in Seq(S), NEW v \in Seq(S),
         s \o t = u \o v
  PROVE  Len(s) = Len(u) => s = u /\ t = v
<1>0. \A i \in 1 .. Len(t) : (s \o t)[Len(s) + i] = t[i]
  BY CatIndex
<1>a. \A i \in 1 .. Len(v) : (u \o v)[Len(u) + i] = v[i]
  BY CatIndex
<1> HAVE Len(s) = Len(u)
<1>1. /\ Len(s) \in Nat /\ Len(t) \in Nat /\ Len(v) \in Nat
      /\ Len(s \o t) = Len(s) + Len(t) /\ Len(u \o v) = Len(u) + Len(v)
  BY CatIndex
<1>2. Len(t) = Len(v)
  BY <1>1
<1>3. ASSUME NEW i \in 1 .. Len(s) PROVE s[i] = u[i]
  <2>1. (s \o t)[i] = s[i]
    BY CatIndex
  <2>2. (u \o v)[i] = u[i]
    BY CatIndex
  <2>. QED  BY <2>1, <2>2
<1>4. ASSUME NEW i \in 1 .. Len(t) PROVE t[i] = v[i]
  <2>1. (s \o t)[Len(s) + i] = t[i]
    BY <1>0
  <2>2. (u \o v)[Len(u) + i] = v[i]
    BY <1>a, <1>2
  <2>. QED  BY <2>1, <2>2
<1>5. s = u
  BY <1>3, SeqEqual
<1>6. t = v
  BY <1>2, <1>4, SeqEqual
<1>. QED  BY <1>5, <1>6

Cut(d, k, n) == SubSeq(d, k + 1, k + n)

At(d, k, s) == k + Len(s) <= Len(d) /\ Cut(d, k, Len(s)) = s

\* A cut that ends within d has the length asked for and the elements of d.
LEMMA CutSeq ==
  ASSUME NEW S, NEW d \in Seq(S), NEW k \in Nat, NEW n \in Nat, k + n <= Len(d)
  PROVE  /\ Cut(d, k, n) \in Seq(S) /\ Len(Cut(d, k, n)) = n
         /\ \A i \in 1 .. n : Cut(d, k, n)[i] = d[k + i]
BY DEF Cut

\* Two cuts one after the other are one cut.
LEMMA CutCat ==
  ASSUME NEW S, NEW d \in Seq(S), NEW k \in Nat, NEW n \in Nat, NEW m \in Nat,
         k + n + m <= Len(d)
  PROVE  Cut(d, k, n) \o Cut(d, k + n, m) = Cut(d, k, n + m)
<1>0. Len(d) \in Nat
  OBVIOUS
<1>1. k + 1 \in 1 .. Len(d) + 1 /\ k + n \in (k + 1) - 1 .. Len(d) /\ k + n + m \in k + n .. Len(d)
  BY <1>0
<1>2. SubSeq(d, k + 1, k + n) \o SubSeq(d, k + n + 1, k + n + m) = SubSeq(d, k + 1, k + n + m)
  BY <1>1, ConcatAdjacentSubSeq
<1>3. k + n + m = k + (n + m)
  OBVIOUS
<1>. QED  BY <1>2, <1>3 DEF Cut

\* The same, from the start.
LEMMA CutPrefix ==
  ASSUME NEW S, NEW d \in Seq(S), NEW n \in Nat, NEW m \in Nat, n + m <= Len(d)
  PROVE  Cut(d, 0, n) \o Cut(d, n, m) = Cut(d, 0, n + m)
<1>1. \A k, i, j \in Nat : k + i + j <= Len(d) =>
        Cut(d, k, i) \o Cut(d, k + i, j) = Cut(d, k, i + j)
  BY CutCat
<1>2. 0 + n + m <= Len(d) /\ 0 + n = n
  OBVIOUS
<1>3. Cut(d, 0, n) \o Cut(d, 0 + n, m) = Cut(d, 0, n + m)
  BY <1>1, <1>2
<1>. QED  BY <1>2, <1>3

\* Where s \o t lies, s lies, and t lies behind it.
LEMMA AtCat ==
  ASSUME NEW S, NEW d \in Seq(S), NEW k \in Nat, NEW s \in Seq(S), NEW t \in Seq(S),
         At(d, k, s \o t)
  PROVE  At(d, k, s) /\ At(d, k + Len(s), t)
<1>1. Len(s) \in Nat /\ Len(t) \in Nat /\ Len(d) \in Nat /\ Len(s \o t) = Len(s) + Len(t)
  BY CatIndex
<1>2. k + (Len(s) + Len(t)) <= Len(d) /\ Cut(d, k, Len(s) + Len(t)) = s \o t
  BY <1>1 DEF At
<1>3. /\ k + Len(s) \in Nat /\ k + Len(s) + Len(t) <= Len(d) /\ k + Len(s) <= Len(d)
  BY <1>1, <1>2
<1>4. Cut(d, k, Len(s)) \o Cut(d, k + Len(s), Len(t)) = s \o t
  <2>1. Cut(d, k, Len(s)) \o Cut(d, k + Len(s), Len(t)) = Cut(d, k, Len(s) + Len(t))
    <3> DEFINE n == Len(s)
               m == Len(t)
    <3>1. n \in Nat /\ m \in Nat /\ k + n + m <= Len(d)
      BY <1>1, <1>3
    <3> HIDE DEF n, m
    <3>2. Cut(d, k, n) \o Cut(d, k + n, m) = Cut(d, k, n + m)
      BY <3>1, CutCat
    <3>. QED  BY <3>2 DEF n, m
  <2>. QED  BY <1>2, <2>1
<1>5. /\ Cut(d, k, Len(s)) \in Seq(S) /\ Len(Cut(d, k, Len(s))) = Len(s)
      /\ Cut(d, k + Len(s), Len(t)) \in Seq(S)
  BY <1>1, <1>3, CutSeq
<1>6. Cut(d, k, Len(s)) = s /\ Cut(d, k + Len(s), Len(t)) = t
  <2> DEFINE u == Cut(d, k, Len(s))
             v == Cut(d, k + Len(s), Len(t))
  <2>1. u \in Seq(S) /\ v \in Seq(S) /\ Len(u) = Len(s) /\ u \o v = s \o t
    BY <1>4, <1>5
  <2> HIDE DEF u, v
  <2>2. u = s /\ v = t
    BY <2>1, CatCancel
  <2>. QED  BY <2>2 DEF u, v
<1>. QED  BY <1>3, <1>6 DEF At
\* CutCat, CutPrefix and CatIndex for bytes.
LEMMA CutBytes ==
  \A d \in Seq(Byte), k, n, m \in Nat : k + n + m <= Len(d) =>
    Cut(d, k, n) \o Cut(d, k + n, m) = Cut(d, k, n + m)
BY CutCat

\* The first of these cuts from the start.
LEMMA CutFirstBytes ==
  \A d \in Seq(Byte), n, m \in Nat : n + m <= Len(d) =>
    Cut(d, 0, n) \o Cut(d, n, m) = Cut(d, 0, n + m)
BY CutPrefix

\* Bytes joined are bytes.
LEMMA CatBytes ==
  \A s, t \in Seq(Byte) : s \o t \in Seq(Byte) /\ Len(s \o t) = Len(s) + Len(t)
BY CatIndex

-----------------------------------------------------------------------------
(* What encode writes.                                                     *)

\* A value with its length in front is two bytes longer than the value.
LEMMA BytesSeq ==
  ASSUME NEW v \in Seq(Byte)
  PROVE  Bytes(v) \in Seq(Byte) /\ Len(Bytes(v)) = 2 + Len(v) /\ Len(v) \in Nat
<1>1. Len(v) \in Nat
  BY LenProperties
<1>2. U16(Len(v)) \in Seq(Byte) /\ Len(U16(Len(v))) = 2
  BY <1>1, U16Bytes
<1> DEFINE u == U16(Len(v))
<1> HIDE DEF u
<1>3. u \in Seq(Byte) /\ Len(u) = 2
  BY <1>2 DEF u
<1>4. u \o v \in Seq(Byte) /\ Len(u \o v) = Len(u) + Len(v)
  BY <1>3, CatIndex
<1>. QED  BY <1>1, <1>3, <1>4 DEF Bytes, u

\* The addresses of an entry.
Addresses(xs) == FlattenSeq([i \in DOMAIN xs |-> Bytes(xs[i])])

\* The encoded addresses of an entry grow at either end as the list of them does.
LEMMA AddressesFacts ==
  /\ Addresses(<<>>) = <<>>
  /\ \A xs \in Seq(Seq(Byte)) : Addresses(xs) \in Seq(Byte)
  /\ \A xs \in Seq(Seq(Byte)), a \in Seq(Byte) :
       /\ Addresses(Append(xs, a)) = Addresses(xs) \o Bytes(a)
       /\ Addresses(Cons(a, xs)) = Bytes(a) \o Addresses(xs)
<1> DEFINE F == [v \in Seq(Byte) |-> Bytes(v)]
<1>1. Maps(F, Seq(Byte), Seq(Byte))
  BY BytesSeq DEF Maps
<1>2. \A a \in Seq(Byte) : F[a] = Bytes(a)
  OBVIOUS
<1> HIDE DEF F
<1>3. ASSUME NEW xs \in Seq(Seq(Byte)) PROVE Addresses(xs) = FlatMap(F, xs)
  <2>1. DOMAIN xs = 1 .. Len(xs) /\ \A i \in DOMAIN xs : xs[i] \in Seq(Byte)
    BY LenProperties, ElementOfSeq
  <2>2. [i \in DOMAIN xs |-> Bytes(xs[i])] = [i \in DOMAIN xs |-> F[xs[i]]]
    BY <1>2, <2>1
  <2>. QED  BY <2>2 DEF Addresses, FlatMap, Image
<1>4. <<>> \in Seq(Seq(Byte))
  OBVIOUS
<1>5. FlatMap(F, <<>>) = <<>> /\ \A xs \in Seq(Seq(Byte)) : FlatMap(F, xs) \in Seq(Byte)
  BY <1>1, FlatMapSeq
<1>6. ASSUME NEW xs \in Seq(Seq(Byte)), NEW a \in Seq(Byte)
      PROVE  /\ Addresses(Append(xs, a)) = Addresses(xs) \o Bytes(a)
             /\ Addresses(Cons(a, xs)) = Bytes(a) \o Addresses(xs)
  <2>1. Append(xs, a) \in Seq(Seq(Byte)) /\ Cons(a, xs) \in Seq(Seq(Byte))
    BY DEF Cons
  <2>2. Addresses(Append(xs, a)) = FlatMap(F, Append(xs, a))
    BY <1>3, <2>1
  <2>3. Addresses(Cons(a, xs)) = FlatMap(F, Cons(a, xs))
    BY <1>3, <2>1
  <2>4. Addresses(xs) = FlatMap(F, xs)
    BY <1>3
  <2>5. FlatMap(F, Append(xs, a)) = FlatMap(F, xs) \o F[a]
    BY <1>1, FlatMapAppend
  <2>6. FlatMap(F, Cons(a, xs)) = F[a] \o FlatMap(F, xs)
    BY <1>1, FlatMapCons
  <2>. QED  BY <1>2, <2>2, <2>3, <2>4, <2>5, <2>6
<1>7. Addresses(<<>>) = <<>>
  BY <1>3, <1>4, <1>5
<1>8. \A xs \in Seq(Seq(Byte)) : Addresses(xs) \in Seq(Byte)
  BY <1>3, <1>5
<1>. QED  BY <1>6, <1>7, <1>8

\* An entry of which k addresses are still to come.
Partial(e, k) == Bytes(e.peer_id) \o U16(Len(e.addresses) + k) \o Addresses(e.addresses)

\* The fields of an entry.
LEMMA EntryFields ==
  ASSUME NEW e \in Entry
  PROVE  /\ e.peer_id \in Seq(Byte) /\ e.addresses \in Seq(Seq(Byte))
         /\ Len(e.peer_id) \in Nat /\ Len(e.addresses) \in Nat
  <1>1. e.peer_id \in Seq(Byte) /\ e.addresses \in Seq(Seq(Byte))
    BY DEF Entry
  <1>. QED  BY <1>1, LenProperties

\* What is written of an entry is bytes.
LEMMA PartialSeq ==
  ASSUME NEW e \in Entry, NEW k \in Nat
  PROVE  Partial(e, k) \in Seq(Byte)
<1>1. Bytes(e.peer_id) \in Seq(Byte) /\ Addresses(e.addresses) \in Seq(Byte)
  BY EntryFields, BytesSeq, AddressesFacts
<1>2. U16(Len(e.addresses) + k) \in Seq(Byte)
  BY EntryFields, U16Bytes
<1>3. Bytes(e.peer_id) \o U16(Len(e.addresses) + k) \in Seq(Byte)
  BY <1>1, <1>2, CatIndex
<1>. QED  BY <1>1, <1>3, CatIndex DEF Partial

\* An entry with no address outstanding is encoded whole.
LEMMA PartialWhole ==
  ASSUME NEW e \in Entry
  PROVE  EncodeEntry(e) = Partial(e, 0)
<1>1. Len(e.addresses) + 0 = Len(e.addresses)
  BY EntryFields
<1>. QED  BY <1>1 DEF EncodeEntry, Partial, Addresses

\* The encoded entries grow at either end as the list of them does.
LEMMA BodyFacts ==
  /\ Body(<<>>) = <<>>
  /\ \A es \in Seq(Entry) : Body(es) \in Seq(Byte)
  /\ \A es \in Seq(Entry), e \in Entry :
       /\ Body(Append(es, e)) = Body(es) \o EncodeEntry(e)
       /\ Body(Cons(e, es)) = EncodeEntry(e) \o Body(es)
<1> DEFINE F == [e \in Entry |-> EncodeEntry(e)]
<1>1. Maps(F, Entry, Seq(Byte))
  BY PartialSeq, PartialWhole DEF Maps
<1>2. \A e \in Entry : F[e] = EncodeEntry(e)
  OBVIOUS
<1> HIDE DEF F
<1>3. ASSUME NEW es \in Seq(Entry) PROVE Body(es) = FlatMap(F, es)
  <2>1. DOMAIN es = 1 .. Len(es) /\ \A i \in DOMAIN es : es[i] \in Entry
    BY LenProperties, ElementOfSeq
  <2>2. [i \in DOMAIN es |-> EncodeEntry(es[i])] = [i \in DOMAIN es |-> F[es[i]]]
    BY <1>2, <2>1
  <2>. QED  BY <2>2 DEF Body, FlatMap, Image
<1>4. <<>> \in Seq(Entry)
  OBVIOUS
<1>5. FlatMap(F, <<>>) = <<>> /\ \A es \in Seq(Entry) : FlatMap(F, es) \in Seq(Byte)
  BY <1>1, FlatMapSeq
<1>6. ASSUME NEW es \in Seq(Entry), NEW e \in Entry
      PROVE  /\ Body(Append(es, e)) = Body(es) \o EncodeEntry(e)
             /\ Body(Cons(e, es)) = EncodeEntry(e) \o Body(es)
  <2>1. Append(es, e) \in Seq(Entry) /\ Cons(e, es) \in Seq(Entry)
    BY DEF Cons
  <2>2. Body(Append(es, e)) = FlatMap(F, Append(es, e))
    BY <1>3, <2>1
  <2>3. Body(Cons(e, es)) = FlatMap(F, Cons(e, es))
    BY <1>3, <2>1
  <2>4. Body(es) = FlatMap(F, es)
    BY <1>3
  <2>5. FlatMap(F, Append(es, e)) = FlatMap(F, es) \o F[e]
    BY <1>1, FlatMapAppend
  <2>6. FlatMap(F, Cons(e, es)) = F[e] \o FlatMap(F, es)
    BY <1>1, FlatMapCons
  <2>. QED  BY <1>2, <2>2, <2>3, <2>4, <2>5, <2>6
<1>7. Body(<<>>) = <<>>
  BY <1>3, <1>4, <1>5
<1>8. \A es \in Seq(Entry) : Body(es) \in Seq(Byte)
  BY <1>3, <1>5
<1>. QED  BY <1>6, <1>7, <1>8

\* The header is bytes: four of magic, one of version, four of count.
LEMMA HeaderSeq ==
  ASSUME NEW n \in Nat
  PROVE  /\ Header(n) \in Seq(Byte) /\ MAGIC \in Seq(Byte) /\ Len(MAGIC) = 4
         /\ <<VERSION>> \in Seq(Byte) /\ Len(<<VERSION>>) = 1
         /\ MAGIC \o <<VERSION>> \in Seq(Byte) /\ Len(MAGIC \o <<VERSION>>) = 5
<1>1. MAGIC \in Seq(Byte) /\ Len(MAGIC) = 4
  BY BaseFacts DEF MAGIC
<1>2. <<VERSION>> \in Seq(Byte) /\ Len(<<VERSION>>) = 1
  BY BaseFacts DEF VERSION
<1>3. /\ MAGIC \o <<VERSION>> \in Seq(Byte)
      /\ Len(MAGIC \o <<VERSION>>) = Len(MAGIC) + Len(<<VERSION>>)
  BY <1>1, <1>2, CatIndex
<1>4. U32(n) \in Seq(Byte)
  BY U32Bytes
<1>5. Header(n) \in Seq(Byte)
  BY <1>3, <1>4, CatIndex DEF Header
<1>. QED  BY <1>1, <1>2, <1>3, <1>5

\* encode gives bytes.
LEMMA EncodeSeq ==
  ASSUME NEW es \in Seq(Entry)
  PROVE  encode(es) \in Seq(Byte) /\ Len(es) \in Nat /\ Len(encode(es)) \in Nat
<1>1. Len(es) \in Nat
  BY LenProperties
<1>2. Header(Len(es)) \in Seq(Byte) /\ Body(es) \in Seq(Byte)
  BY <1>1, HeaderSeq, BodyFacts
<1>3. encode(es) \in Seq(Byte)
  BY <1>2, CatIndex DEF encode
<1>. QED  BY <1>1, <1>3, LenProperties

-----------------------------------------------------------------------------
(* The fields that decode reads.                                           *)

\* The u16 at an offset.
Num(d, k) == d[k + 1] * Base + d[k + 2]

\* The two bytes at k are those of the number read there ...
LEMMA ReadU16 ==
  ASSUME NEW d \in Seq(Byte), NEW k \in Nat, k + 2 <= Len(d)
  PROVE  Num(d, k) \in Values16 /\ U16(Num(d, k)) = Cut(d, k, 2)
<1>1. k + 1 \in 1 .. Len(d) /\ k + 2 \in 1 .. Len(d)
  BY LenProperties
<1>2. d[k + 1] \in Byte /\ d[k + 2] \in Byte
  BY <1>1, ElementOfSeq
<1>3. \A n \in Nat : k + n <= Len(d) =>
        /\ Cut(d, k, n) \in Seq(Byte) /\ Len(Cut(d, k, n)) = n
        /\ \A i \in 1 .. n : Cut(d, k, n)[i] = d[k + i]
  BY CutSeq
<1> DEFINE c == Cut(d, k, 2)
<1> HIDE DEF c
<1>4. c = <<d[k + 1], d[k + 2]>>
  <2>1. c \in Seq(Byte) /\ Len(c) = 2 /\ \A i \in 1 .. 2 : c[i] = d[k + i]
    BY <1>3 DEF c
  <2>2. c[1] = d[k + 1] /\ c[2] = d[k + 2]
    BY <2>1
  <2>. QED  BY <2>1, <2>2
<1>5. Num(d, k) \in Values16 /\ U16(Num(d, k)) = <<d[k + 1], d[k + 2]>>
  BY <1>2, U16OfDigits DEF Num
<1>. QED  BY <1>4, <1>5 DEF c

\* ... and where a number was written it is read back.
LEMMA AtU16 ==
  ASSUME NEW d \in Seq(Byte), NEW k \in Nat, NEW n \in Values16, At(d, k, U16(n))
  PROVE  k + 2 <= Len(d) /\ Num(d, k) = n
<1> DEFINE u == U16(n)
<1>1. u \in Seq(Byte) /\ Len(u) = 2
  BY BaseFacts, U16Bytes
<1>2. u[1] * Base + u[2] = n
  BY U16Value
<1> HIDE DEF u
<1>3. At(d, k, u)
  BY DEF u
<1>4. k + 2 <= Len(d) /\ Cut(d, k, 2) = u
  BY <1>1, <1>3 DEF At
<1>5. Cut(d, k, 2)[1] = d[k + 1] /\ Cut(d, k, 2)[2] = d[k + 2]
  BY <1>4, CutSeq
<1>. QED  BY <1>2, <1>4, <1>5 DEF Num

\* The u32 at an offset.
Num32(d, k) == Num(d, k) * (Base * Base) + Num(d, k + 2)

\* The same for four bytes.
LEMMA ReadU32 ==
  ASSUME NEW d \in Seq(Byte), NEW k \in Nat, k + 4 <= Len(d)
  PROVE  Num32(d, k) \in Values32 /\ U32(Num32(d, k)) = Cut(d, k, 4)
<1>1. k + 2 \in Nat /\ k + 2 <= Len(d) /\ k + 2 + 2 <= Len(d)
  BY LenProperties
<1>2. /\ Num(d, k) \in Values16 /\ U16(Num(d, k)) = Cut(d, k, 2)
      /\ Num(d, k + 2) \in Values16 /\ U16(Num(d, k + 2)) = Cut(d, k + 2, 2)
  BY <1>1, ReadU16
<1>3. Cut(d, k, 2) \o Cut(d, k + 2, 2) = Cut(d, k, 2 + 2)
  BY <1>1, CutCat
<1>4. /\ Num32(d, k) \in Values32
      /\ U32(Num32(d, k)) = U16(Num(d, k)) \o U16(Num(d, k + 2))
  BY <1>2, U32OfHalves DEF Num32
<1>. QED  BY <1>2, <1>3, <1>4

\* A u32 is read back where it was written.
LEMMA AtU32 ==
  ASSUME NEW d \in Seq(Byte), NEW k \in Nat, NEW n \in Values32, At(d, k, U32(n))
  PROVE  k + 4 <= Len(d) /\ Num32(d, k) = n
<1>1. PICK hi \in Values16, lo \in Values16 :
        n = hi * (Base * Base) + lo /\ U32(n) = U16(hi) \o U16(lo)
  BY U32Halves
<1>2. /\ U16(hi) \in Seq(Byte) /\ Len(U16(hi)) = 2
      /\ U16(lo) \in Seq(Byte) /\ Len(U16(lo)) = 2
  BY BaseFacts, U16Bytes
<1>3. At(d, k, U16(hi)) /\ At(d, k + Len(U16(hi)), U16(lo))
  BY <1>1, <1>2, AtCat
<1>4. At(d, k + 2, U16(lo)) /\ k + 2 \in Nat
  BY <1>2, <1>3
<1>5. Num(d, k) = hi
  BY <1>3, AtU16
<1>6. k + 2 + 2 <= Len(d) /\ Num(d, k + 2) = lo
  BY <1>4, AtU16
<1>. QED  BY <1>1, <1>5, <1>6 DEF Num32

\* A length and as many bytes.
LEMMA ReadBytes ==
  ASSUME NEW d \in Seq(Byte), NEW k \in Nat, k + 2 <= Len(d), k + 2 + Num(d, k) <= Len(d)
  PROVE  /\ Num(d, k) \in Nat
         /\ Cut(d, k + 2, Num(d, k)) \in Seq(Byte)
         /\ Bytes(Cut(d, k + 2, Num(d, k))) = Cut(d, k, 2 + Num(d, k))
<1> DEFINE n == Num(d, k)
<1>1. n \in Values16 /\ U16(n) = Cut(d, k, 2)
  BY ReadU16
<1>2. n \in Nat
  BY <1>1, BaseFacts
<1>2a. k + 2 + n <= Len(d) /\ k + 2 \in Nat
  OBVIOUS
<1> HIDE DEF n
<1>3. Cut(d, k + 2, n) \in Seq(Byte) /\ Len(Cut(d, k + 2, n)) = n
  BY <1>2, <1>2a, CutSeq
<1>4. Cut(d, k, 2) \o Cut(d, k + 2, n) = Cut(d, k, 2 + n)
  BY <1>2, <1>2a, CutCat
<1>5. Bytes(Cut(d, k + 2, n)) = Cut(d, k, 2 + n)
  BY <1>1, <1>3, <1>4 DEF Bytes
<1>. QED  BY <1>2, <1>3, <1>5 DEF n

\* A value short enough for its length field is read back where it was written.
LEMMA AtBytes ==
  ASSUME NEW d \in Seq(Byte), NEW k \in Nat, NEW v \in Seq(Byte), Len(v) \in Values16,
         At(d, k, Bytes(v))
  PROVE  /\ k + 2 <= Len(d) /\ Num(d, k) = Len(v)
         /\ k + 2 + Len(v) <= Len(d) /\ Cut(d, k + 2, Len(v)) = v
<1>1. U16(Len(v)) \in Seq(Byte) /\ Len(U16(Len(v))) = 2
  BY BaseFacts, U16Bytes
<1>2. At(d, k, U16(Len(v))) /\ At(d, k + Len(U16(Len(v))), v)
  BY <1>1, AtCat DEF Bytes
<1>3. k + 2 <= Len(d) /\ Num(d, k) = Len(v)
  BY <1>2, AtU16
<1>4. At(d, k + 2, v)
  BY <1>1, <1>2
<1>. QED  BY <1>3, <1>4 DEF At

-----------------------------------------------------------------------------
(* What decode has consumed.                                               *)

\* The bytes of the entries es, of the last of which k addresses are to come.
Sofar(es, k) == IF es = <<>> THEN <<>> ELSE Body(Front(es)) \o Partial(Last(es), k)

\* A sequence that is not empty, seen from its end and from its beginning.
LEMMA FrontLast ==
  ASSUME NEW S, NEW s \in Seq(S), s # <<>>
  PROVE  /\ Front(s) \in Seq(S) /\ Last(s) \in S /\ s = Append(Front(s), Last(s))
         /\ Len(s) = Len(Front(s)) + 1 /\ Len(s) \in 1 .. Len(s)
<1>1. Len(s) \in Nat /\ Len(s) > 0
  OBVIOUS
<1>2. Len(s) \in 1 .. Len(s) /\ Last(s) \in S
  BY <1>1 DEF Last
<1>4. Front(s) \in Seq(S) /\ Len(s) = Len(Front(s)) + 1
  <2>1. PICK k \in Nat : Len(s) = k + 1
    <3>1. Len(s) - 1 \in Nat /\ Len(s) = (Len(s) - 1) + 1
      BY <1>1
    <3>. QED  BY <3>1
  <2>2. SubSeq(s, 1, k) \in Seq(S) /\ Len(SubSeq(s, 1, k)) = k
    BY <2>1
  <2>3. Front(s) = SubSeq(s, 1, k)
    BY <2>1 DEF Front
  <2>. QED  BY <2>1, <2>2, <2>3
<1>3. s = Append(Front(s), Last(s))
  BY <1>1 DEF Front, Last
<1>. QED  BY <1>2, <1>3, <1>4

\* Front and Last undo Append.
LEMMA FrontLastAppend ==
  ASSUME NEW S, NEW s \in Seq(S), NEW e \in S
  PROVE  Append(s, e) # <<>> /\ Front(Append(s, e)) = s /\ Last(Append(s, e)) = e
<1>1. Append(s, e) # <<>> /\ Last(Append(s, e)) = e
  BY DEF Last
<1>2. Front(Append(s, e)) = s
  BY DEF Front
<1>. QED  BY <1>1, <1>2

\* A sequence that is not empty has a first element.
LEMMA ConsSplit ==
  ASSUME NEW S, NEW s \in Seq(S), Len(s) > 0
  PROVE  \E e \in S, t \in Seq(S) : s = Cons(e, t) /\ Len(s) = Len(t) + 1 /\ e = s[1]
<1>1. Head(s) \in S /\ Tail(s) \in Seq(S) /\ Len(s) = Len(Tail(s)) + 1 /\ Head(s) = s[1]
  OBVIOUS
<1>2. s = <<Head(s)>> \o Tail(s)
  OBVIOUS
<1>. QED  BY <1>1, <1>2 DEF Cons

\* An element may stand at the end of one part or at the start of the other.
Linked(s, e, t) == s \o Cons(e, t) = Append(s, e) \o t

\* It always may.
LEMMA CatCons ==
  ASSUME NEW S, NEW s \in Seq(S), NEW e \in S, NEW t \in Seq(S)
  PROVE  Linked(s, e, t)
<1>1. <<e>> \in Seq(S) /\ Append(s, e) = s \o <<e>>
  OBVIOUS
<1>2. (s \o <<e>>) \o t = s \o (<<e>> \o t)
  <2>1. CatLeft(s, <<e>>, t) = CatRight(s, <<e>>, t)
    BY <1>1, Regroup
  <2>. QED  BY <2>1 DEF CatLeft, CatRight
<1>. QED  BY <1>1, <1>2 DEF Cons, Linked

\* CatCons for entries.
LEMMA EntryCons ==
  \A xs, ys \in Seq(Entry), x \in Entry : xs \o Cons(x, ys) = Append(xs, x) \o ys
<1> TAKE xs, ys \in Seq(Entry), x \in Entry
<1>1. Linked(xs, x, ys)
  BY CatCons
<1>. QED  BY <1>1 DEF Linked

\* CatCons for addresses.
LEMMA AddrCons ==
  \A xs, ys \in Seq(Seq(Byte)), x \in Seq(Byte) : xs \o Cons(x, ys) = Append(xs, x) \o ys
<1> DEFINE S == Seq(Byte)
<1> HIDE DEF S
<1>1. \A xs, ys \in Seq(S), x \in S : xs \o Cons(x, ys) = Append(xs, x) \o ys
  <2> TAKE xs, ys \in Seq(S), x \in S
  <2>1. Linked(xs, x, ys)
    BY CatCons
  <2>. QED  BY <2>1 DEF Linked
<1>. QED  BY <1>1 DEF S

\* Regroup, for bytes.
LEMMA CatAssoc ==
  \A s, t, u \in Seq(Byte) : s \o (t \o u) = (s \o t) \o u
<1> TAKE s, t, u \in Seq(Byte)
<1>1. CatLeft(s, t, u) = CatRight(s, t, u)
  BY Regroup
<1>. QED  BY <1>1 DEF CatLeft, CatRight

\* With no address outstanding, what is accounted for is the entries whole.
LEMMA SofarWhole ==
  ASSUME NEW es \in Seq(Entry)
  PROVE  Sofar(es, 0) = Body(es)
<1>1. CASE es = <<>>
  BY <1>1, BodyFacts DEF Sofar
<1>2. CASE es # <<>>
  <2>1. Front(es) \in Seq(Entry) /\ Last(es) \in Entry /\ es = Append(Front(es), Last(es))
    BY <1>2, FrontLast
  <2>2. Body(Append(Front(es), Last(es))) = Body(Front(es)) \o EncodeEntry(Last(es))
    BY <2>1, BodyFacts
  <2>3. EncodeEntry(Last(es)) = Partial(Last(es), 0)
    BY <2>1, PartialWhole
  <2>. QED  BY <1>2, <2>1, <2>2, <2>3 DEF Sofar
<1>. QED  BY <1>1, <1>2

\* What is accounted for is bytes.
LEMMA SofarSeq ==
  ASSUME NEW es \in Seq(Entry), NEW k \in Nat
  PROVE  Sofar(es, k) \in Seq(Byte)
<1>1. CASE es = <<>>
  BY <1>1 DEF Sofar
<1>2. CASE es # <<>>
  <2>1. Front(es) \in Seq(Entry) /\ Last(es) \in Entry
    BY <1>2, FrontLast
  <2>2. Body(Front(es)) \in Seq(Byte) /\ Partial(Last(es), k) \in Seq(Byte)
    BY <2>1, BodyFacts, PartialSeq
  <2>3. Body(Front(es)) \o Partial(Last(es), k) \in Seq(Byte)
    BY <2>2, CatIndex
  <2>. QED  BY <1>2, <2>3 DEF Sofar
<1>. QED  BY <1>1, <1>2

\* One more peer.
LEMMA SofarPeer ==
  ASSUME NEW es \in Seq(Entry), NEW p \in Seq(Byte), NEW k \in Nat,
         NEW e, e = [peer_id |-> p, addresses |-> <<>>]
  PROVE  /\ e \in Entry
         /\ Sofar(Append(es, e), k) = (Sofar(es, 0) \o Bytes(p)) \o U16(k)
<1>1. e \in Entry /\ e.peer_id = p /\ e.addresses = <<>>
  BY DEF Entry
<1>2. Append(es, e) # <<>> /\ Front(Append(es, e)) = es /\ Last(Append(es, e)) = e
  BY <1>1, FrontLastAppend
<1>3. Len(<<>>) + k = k
  OBVIOUS
<1>4. /\ Bytes(p) \in Seq(Byte) /\ U16(k) \in Seq(Byte) /\ Body(es) \in Seq(Byte)
      /\ Bytes(p) \o U16(k) \in Seq(Byte)
  BY BytesSeq, U16Bytes, BodyFacts, CatIndex
<1>5. Partial(e, k) = Bytes(p) \o U16(k)
  <2>1. Partial(e, k) = (Bytes(p) \o U16(k)) \o <<>>
    BY <1>1, <1>3, AddressesFacts DEF Partial
  <2>. QED  BY <1>4, <2>1, ConcatEmptySeq
<1>6. Body(es) \o (Bytes(p) \o U16(k)) = (Body(es) \o Bytes(p)) \o U16(k)
  BY <1>4, CatAssoc
<1>7. Sofar(es, 0) = Body(es)
  BY SofarWhole
<1>. QED  BY <1>1, <1>2, <1>5, <1>6, <1>7 DEF Sofar

\* SofarPeer, quantified.
LEMMA SofarPeers ==
  \A es \in Seq(Entry), p \in Seq(Byte), k \in Nat :
    /\ [peer_id |-> p, addresses |-> <<>>] \in Entry
    /\ Sofar(Append(es, [peer_id |-> p, addresses |-> <<>>]), k)
         = (Sofar(es, 0) \o Bytes(p)) \o U16(k)
<1> TAKE es \in Seq(Entry), p \in Seq(Byte), k \in Nat
<1> DEFINE e == [peer_id |-> p, addresses |-> <<>>]
<1>. QED  BY SofarPeer

\* An entry with its addresses replaced.
LEMMA WithAddresses ==
  ASSUME NEW A, NEW B, NEW e \in [peer_id : A, addresses : B], NEW x
  PROVE  [e EXCEPT !.addresses = x] = [peer_id |-> e.peer_id, addresses |-> x]
OBVIOUS

\* One more address of the last peer.
LEMMA SofarAddr ==
  ASSUME NEW es \in Seq(Entry), es # <<>>, NEW a \in Seq(Byte), NEW k \in Nat, k > 0,
         NEW fs, fs = [es EXCEPT ![Len(es)].addresses = Append(@, a)]
  PROVE  /\ fs \in Seq(Entry) /\ fs # <<>> /\ Len(fs) = Len(es)
         /\ Front(fs) = Front(es)
         /\ Last(fs) = [peer_id |-> Last(es).peer_id, addresses |-> Append(Last(es).addresses, a)]
         /\ Last(fs) \in Entry
         /\ Sofar(fs, k - 1) = Sofar(es, k) \o Bytes(a)
<1> DEFINE l == Last(es)
           n == Len(es)
           f == [peer_id |-> l.peer_id, addresses |-> Append(l.addresses, a)]
<1>0. Front(es) \in Seq(Entry) /\ l \in Entry /\ n \in 1 .. n
  BY FrontLast
<1>a. n \in Nat /\ es \in [1 .. n -> Entry] /\ l = es[n]
  BY LenProperties DEF Last
<1>1. l.peer_id \in Seq(Byte) /\ l.addresses \in Seq(Seq(Byte)) /\ Len(l.addresses) \in Nat
  BY <1>0, EntryFields
<1>2. Append(l.addresses, a) \in Seq(Seq(Byte))
     /\ Len(Append(l.addresses, a)) = Len(l.addresses) + 1
  BY <1>1
<1>3. f \in Entry
  BY <1>1, <1>2 DEF Entry
<1>b. /\ f.peer_id = l.peer_id /\ f.addresses = Append(l.addresses, a)
  OBVIOUS
<1>4. fs = [es EXCEPT ![n] = f]
  <2>1. [l EXCEPT !.addresses = Append(@, a)] = f
    BY <1>0, WithAddresses DEF Entry
  <2>2. es[n] = l
    BY DEF Last
  <2> HIDE DEF l, f
  <2>. QED  BY <2>1, <2>2
<1> HIDE DEF f, n
<1>c. fs \in [1 .. n -> Entry] /\ \A j \in 1 .. n : fs[j] = IF j = n THEN f ELSE es[j]
  BY <1>0, <1>a, <1>3, <1>4
<1>5. fs \in Seq(Entry) /\ Len(fs) = n /\ fs # <<>> /\ fs[n] = f
  <2>1. fs \in Seq(Entry) /\ Len(fs) = n
    BY <1>a, <1>c, FunSeq
  <2>2. n # 0 /\ fs[n] = f
    BY <1>0, <1>c
  <2>. QED  BY <2>1, <2>2
<1>6. Last(fs) = f
  BY <1>5 DEF Last
<1>7. Front(fs) = Front(es)
  <2>1. Front(fs) = SubSeq(fs, 1, n - 1) /\ Front(es) = SubSeq(es, 1, n - 1)
    BY <1>5 DEF Front, n
  <2>2. \A j \in 1 .. n - 1 : fs[j] = es[j]
    BY <1>a, <1>c
  <2>3. SubSeq(fs, 1, n - 1) = SubSeq(es, 1, n - 1)
    BY <1>a, <1>c, <2>2
  <2>. QED  BY <2>1, <2>3
<1>8. Sofar(fs, k - 1) = Sofar(es, k) \o Bytes(a)
  <2> DEFINE x == Bytes(l.peer_id) \o U16(Len(l.addresses) + k)
  <2>1. Len(f.addresses) + (k - 1) = Len(l.addresses) + k /\ f.peer_id = l.peer_id
        /\ f.addresses = Append(l.addresses, a)
    BY <1>1, <1>2, <1>b
  <2>2. Addresses(Append(l.addresses, a)) = Addresses(l.addresses) \o Bytes(a)
    BY <1>1, AddressesFacts
  <2>3. Partial(f, k - 1) = x \o (Addresses(l.addresses) \o Bytes(a))
       /\ Partial(l, k) = x \o Addresses(l.addresses)
    BY <2>1, <2>2 DEF Partial
  <2>4. /\ Bytes(l.peer_id) \in Seq(Byte) /\ Bytes(a) \in Seq(Byte)
        /\ U16(Len(l.addresses) + k) \in Seq(Byte) /\ Addresses(l.addresses) \in Seq(Byte)
    <3>1. Len(l.addresses) + k \in Nat
      BY <1>1
    <3>2. U16(Len(l.addresses) + k) \in Seq(Byte)
      BY <3>1, U16Bytes
    <3>. QED  BY <1>1, <3>2, BytesSeq, AddressesFacts
  <2>5. x \in Seq(Byte)
    BY <2>4, CatIndex
  <2> HIDE DEF x
  <2>6. x \o (Addresses(l.addresses) \o Bytes(a)) = (x \o Addresses(l.addresses)) \o Bytes(a)
    <3>1. CatLeft(x, Addresses(l.addresses), Bytes(a))
            = CatRight(x, Addresses(l.addresses), Bytes(a))
      BY <2>4, <2>5, Regroup
    <3>. QED  BY <3>1 DEF CatLeft, CatRight
  <2>7. Body(Front(es)) \in Seq(Byte) /\ Partial(l, k) \in Seq(Byte)
    BY <1>0, BodyFacts, PartialSeq
  <2>8. Body(Front(es)) \o (Partial(l, k) \o Bytes(a))
          = (Body(Front(es)) \o Partial(l, k)) \o Bytes(a)
    <3> DEFINE y == Body(Front(es))
               z == Partial(l, k)
               w == Bytes(a)
    <3>1. y \in Seq(Byte) /\ z \in Seq(Byte) /\ w \in Seq(Byte)
      BY <2>4, <2>7
    <3> HIDE DEF y, z, w
    <3>2. CatLeft(y, z, w) = CatRight(y, z, w)
      BY <3>1, Regroup
    <3>. QED  BY <3>2 DEF y, z, w, CatLeft, CatRight
  <2>9. Sofar(fs, k - 1) = Body(Front(es)) \o Partial(f, k - 1)
    BY <1>5, <1>6, <1>7 DEF Sofar
  <2>10. Sofar(es, k) = Body(Front(es)) \o Partial(l, k)
    BY DEF Sofar
  <2>. QED  BY <2>3, <2>6, <2>8, <2>9, <2>10
<1>. QED  BY <1>3, <1>5, <1>6, <1>7, <1>8 DEF f, n

-----------------------------------------------------------------------------
(* The invariant of decode.                                                *)

\* The bytes before the offset are the encoding of what has been read.
Consumed ==
  /\ pc \in {"idle", "size", "magic"} => offset = 0
  /\ pc = "version" => offset = 4 /\ Cut(data, 0, 4) = MAGIC
  /\ pc = "count" => offset = 5 /\ Cut(data, 0, 5) = MAGIC \o <<VERSION>>
  /\ pc \in {"idle", "size", "magic", "version", "count"} => entries = <<>> /\ addrs = 0
  /\ pc = "idle" => count = 0
  /\ pc = "peer" => addrs = 0 /\ count > 0
  /\ pc = "addr" => addrs > 0 /\ entries # <<>>
  /\ pc # "done" <=> result = "none"
  /\ result = "ok" => addrs = 0 /\ count = 0
  /\ pc \in {"peer", "addr"} \/ result = "ok" =>
       Cut(data, 0, offset) = Header(Len(entries) + count) \o Sofar(entries, addrs)

\* The input begins with the encoding of a table that can be read back.
Intact ==
  IsPrefix(encode(source), data) /\ Fits(source) /\ Len(data) <= MAX_DHT_EXPORT_BYTES

\* Of source, the last entry of es is still to get the addresses more, and the
\* entries rest are to come; their bytes are at the offset k.
Remains(es, k, more, rest) ==
  /\ source = Append(Front(es), [peer_id |-> Last(es).peer_id,
                                 addresses |-> Last(es).addresses \o more]) \o rest
  /\ At(data, k, Addresses(more) \o Body(rest))

\* From an intact input decode reads what was written.
Follows ==
  Intact =>
    /\ pc = "peer" => \E rest \in Seq(Entry) :
         source = entries \o rest /\ count = Len(rest) /\ At(data, offset, Body(rest))
    /\ pc = "addr" => \E more \in Seq(Seq(Byte)), rest \in Seq(Entry) :
         count = Len(rest) /\ addrs = Len(more) /\ Remains(entries, offset, more, rest)
    /\ pc = "done" => result = "ok" /\ entries = source

DecoderInv == DecoderTypeOK /\ source \in Seq(Entry) /\ Consumed /\ Follows

\* What the decoder's type invariant says of each of its variables.
LEMMA DecoderTypes ==
  ASSUME DecoderTypeOK
  PROVE  /\ data \in Seq(Byte) /\ Len(data) \in Nat /\ offset \in Nat /\ offset <= Len(data)
         /\ count \in Nat /\ addrs \in Nat /\ entries \in Seq(Entry) /\ Len(entries) \in Nat
         /\ count \in Values32 /\ addrs \in Values16
<1>1. data \in Seq(Byte) /\ entries \in Seq(Entry) /\ offset \in 0 .. Len(data)
      /\ count \in Values32 /\ addrs \in Values16
  BY DEF DecoderTypeOK
<1>2. Len(data) \in Nat /\ Len(entries) \in Nat
  BY <1>1, LenProperties
<1>. QED  BY <1>1, <1>2, BaseFacts

\* Where the fields of an intact file lie.
LEMMA IntactFields ==
  ASSUME source \in Seq(Entry), data \in Seq(Byte), Intact
  PROVE  /\ At(data, 0, MAGIC) /\ At(data, 4, <<VERSION>>) /\ At(data, 5, U32(Len(source)))
         /\ At(data, 9, Body(source)) /\ Len(source) \in Values32
<1> DEFINE m == MAGIC
           v == <<VERSION>>
           u == U32(Len(source))
           b == Body(source)
<1>0. Len(source) \in Values32 /\ Len(source) \in Nat
  BY LenProperties DEF Intact, Fits
<1>1. m \in Seq(Byte) /\ Len(m) = 4 /\ v \in Seq(Byte) /\ Len(v) = 1
      /\ m \o v \in Seq(Byte) /\ Len(m \o v) = 5
  BY <1>0, HeaderSeq
<1>2. u \in Seq(Byte) /\ Len(u) = 4 /\ b \in Seq(Byte)
  BY <1>0, U32Bytes, BodyFacts
<1>3. At(data, 0, encode(source))
  <2>1. encode(source) \in Seq(Byte) /\ Len(encode(source)) \in Nat
    BY EncodeSeq
  <2> DEFINE x == encode(source)
  <2> HIDE DEF x
  <2>2. x \in Seq(Byte) /\ Len(x) \in Nat
    BY <2>1 DEF x
  <2>3. Len(x) <= Len(data) /\ SubSeq(x, 1, Len(x)) = SubSeq(data, 1, Len(x))
    BY DEF Intact, IsPrefix, x
  <2>4. SubSeq(x, 1, Len(x)) = x
    BY <2>2, SubSeqFull
  <2>5. 0 + Len(x) = Len(x) /\ 0 + 1 = 1
    BY <2>2
  <2>6. At(data, 0, x)
    BY <2>3, <2>4, <2>5 DEF At, Cut
  <2>. QED  BY <2>6 DEF x
<1>4. encode(source) = ((m \o v) \o u) \o b
  BY DEF encode, Header
<1> HIDE DEF m, v, u, b
<1>5. (m \o v) \o u \in Seq(Byte) /\ Len((m \o v) \o u) = Len(m \o v) + Len(u)
  <2>1. m \o v \in Seq(Byte)
    BY <1>1, <1>2
  <2>2. u \in Seq(Byte)
    BY <1>1, <1>2
  <2>. QED  BY <2>1, <2>2, CatBytes
<1>6. At(data, 0, (m \o v) \o u) /\ At(data, 0 + Len((m \o v) \o u), b)
  BY <1>2, <1>3, <1>4, <1>5, AtCat
<1>7. At(data, 0, m \o v) /\ At(data, 0 + Len(m \o v), u)
  BY <1>1, <1>2, <1>6, AtCat
<1>8. At(data, 0, m) /\ At(data, 0 + Len(m), v)
  BY <1>1, <1>7, AtCat
<1>9. 0 + Len(m) = 4 /\ 0 + Len(m \o v) = 5 /\ 0 + Len((m \o v) \o u) = 9
  BY <1>1, <1>2, <1>5
<1>. QED  BY <1>0, <1>6, <1>7, <1>8, <1>9 DEF m, v, u, b

\* Peek and PeekU16 read at the offset.
LEMMA PeekFacts ==
  ASSUME offset \in Nat
  PROVE  /\ \A k : PeekU16(k) = Num(data, offset + k)
         /\ PeekU16(0) = Num(data, offset)
         /\ \A k, n : Peek(k, n) = Cut(data, offset + k, n)
<1>1. \A k : PeekU16(k) = Num(data, offset + k)
  BY DEF PeekU16, Num
<1>2. offset + 0 = offset
  OBVIOUS
<1>3. PeekU16(0) = Num(data, offset)
  BY <1>1, <1>2
<1>4. \A k, n : Peek(k, n) = Cut(data, offset + k, n)
  BY DEF Peek, Cut
<1>. QED  BY <1>1, <1>3, <1>4

\* An error, on an input that is not intact.
LEMMA FailKeeps ==
  ASSUME DecoderInv, ~Intact, NEW r, Fail(r), pc # "idle",
         r \in {"InputTooLarge", "Truncated", "BadMagic", "UnsupportedVersion"}
  PROVE  DecoderInv'
<1>1. /\ pc' = "done" /\ result' = r /\ source' = source /\ data' = data /\ offset' = offset
      /\ count' = count /\ addrs' = addrs /\ entries' = entries
  BY DEF Fail, Finish, input
<1>2. DecoderTypeOK'
  BY <1>1 DEF DecoderInv, DecoderTypeOK
<1>3. source' \in Seq(Entry)
  BY <1>1 DEF DecoderInv
<1>4. Consumed'
  BY <1>1 DEF Consumed
<1>5. Follows'
  <2>1. ~Intact'
    BY <1>1 DEF Intact
  <2>. QED  BY <2>1 DEF Follows
<1>. QED  BY <1>2, <1>3, <1>4, <1>5 DEF DecoderInv

\* The size check (dht_state.rs, decode): an intact file passes it.
LEMMA CheckSizeKeeps ==
  ASSUME DecoderInv, CheckSize
  PROVE  DecoderInv'
<1>1. CASE Len(data) > MAX_DHT_EXPORT_BYTES /\ Fail("InputTooLarge")
  <2>1. ~Intact
    BY <1>1, DecoderTypes, WidthAssumption DEF Intact, DecoderInv
  <2>. QED  BY <1>1, <2>1, FailKeeps DEF CheckSize
<1>2. CASE pc' = "magic" /\ UNCHANGED <<input, offset, count, addrs, entries, result>>
  <2>1. /\ pc = "size" /\ source' = source /\ data' = data /\ offset' = offset
        /\ count' = count /\ addrs' = addrs /\ entries' = entries /\ result' = result
    BY <1>2 DEF input, CheckSize
  <2>2. DecoderTypeOK' /\ source' \in Seq(Entry)
    BY <1>2, <2>1 DEF DecoderInv, DecoderTypeOK
  <2>3. Consumed'
    BY <1>2, <2>1 DEF Consumed, DecoderInv
  <2>4. Follows'
    BY <1>2 DEF Follows
  <2>. QED  BY <2>2, <2>3, <2>4 DEF DecoderInv
<1>. QED  BY <1>1, <1>2 DEF CheckSize

\* Reading the magic: an intact file has it, and any file that passes starts with it.
LEMMA ReadMagicKeeps ==
  ASSUME DecoderInv, ReadMagic
  PROVE  DecoderInv'
<1>0. /\ data \in Seq(Byte) /\ Len(data) \in Nat /\ offset = 0 /\ pc = "magic"
      /\ source \in Seq(Entry) /\ entries = <<>> /\ addrs = 0 /\ result = "none"
  BY DecoderTypes DEF DecoderInv, Consumed, ReadMagic
<1>1. Peek(0, 4) = Cut(data, 0, 4) /\ (Fetches(4) <=> 4 <= Len(data))
  BY <1>0, PeekFacts DEF Fetches
<1>2. Intact => Fetches(4) /\ Peek(0, 4) = MAGIC
  <2> SUFFICES ASSUME Intact PROVE Fetches(4) /\ Peek(0, 4) = MAGIC
    OBVIOUS
  <2>1. At(data, 0, MAGIC) /\ Len(MAGIC) = 4
    BY <1>0, IntactFields, HeaderSeq, LenProperties
  <2>. QED  BY <1>0, <1>1, <2>1 DEF At
<1>3. CASE ~Fetches(4) /\ Truncated
  BY <1>0, <1>2, <1>3, FailKeeps DEF Truncated
<1>4. CASE Fetches(4) /\ Peek(0, 4) # MAGIC /\ Fail("BadMagic")
  BY <1>0, <1>2, <1>4, FailKeeps
<1>5. CASE /\ Fetches(4) /\ Peek(0, 4) = MAGIC
           /\ offset' = offset + 4 /\ pc' = "version"
           /\ UNCHANGED <<input, count, addrs, entries, result>>
  <2>1. /\ source' = source /\ data' = data /\ offset' = 4
        /\ count' = count /\ addrs' = addrs /\ entries' = entries /\ result' = result
    BY <1>0, <1>5 DEF input
  <2>2. DecoderTypeOK' /\ source' \in Seq(Entry)
    BY <1>0, <1>1, <1>5, <2>1 DEF DecoderInv, DecoderTypeOK
  <2>3. Consumed'
    BY <1>0, <1>1, <1>5, <2>1 DEF Consumed
  <2>4. Follows'
    BY <1>5 DEF Follows
  <2>. QED  BY <2>2, <2>3, <2>4 DEF DecoderInv
<1>. QED  BY <1>3, <1>4, <1>5 DEF ReadMagic

\* Reading the version byte, the same.
LEMMA ReadVersionKeeps ==
  ASSUME DecoderInv, ReadVersion
  PROVE  DecoderInv'
<1>0. /\ data \in Seq(Byte) /\ Len(data) \in Nat /\ offset = 4 /\ pc = "version"
      /\ source \in Seq(Entry) /\ entries = <<>> /\ addrs = 0 /\ result = "none"
      /\ Cut(data, 0, 4) = MAGIC /\ offset + 1 = 5
  BY DecoderTypes DEF DecoderInv, Consumed, ReadVersion
<1>1. Fetches(1) <=> 5 <= Len(data)
  BY <1>0 DEF Fetches
<1>2. 5 <= Len(data) => Cut(data, 4, 1) = <<data[5]>>
  <2> HAVE 5 <= Len(data)
  <2> DEFINE c == Cut(data, 4, 1)
  <2>1. c = SubSeq(data, 5, 5)
    BY DEF Cut
  <2> HIDE DEF c
  <2>2. c \in Seq(Byte) /\ Len(c) = 1
    BY <1>0, <2>1
  <2>3. c[1] = data[5]
    BY <1>0, <2>1
  <2>4. c = <<data[5]>>
    BY <2>2, <2>3
  <2>. QED  BY <2>4 DEF c
<1>3. Intact => Fetches(1) /\ data[offset + 1] = VERSION
  <2> SUFFICES ASSUME Intact PROVE Fetches(1) /\ data[offset + 1] = VERSION
    OBVIOUS
  <2>1. At(data, 4, <<VERSION>>) /\ Len(<<VERSION>>) = 1
    BY <1>0, IntactFields
  <2>2. 5 <= Len(data) /\ Cut(data, 4, 1) = <<VERSION>>
    BY <2>1 DEF At
  <2>. QED  BY <1>0, <1>1, <1>2, <2>2
<1>4. CASE ~Fetches(1) /\ Truncated
  BY <1>0, <1>3, <1>4, FailKeeps DEF Truncated
<1>5. CASE Fetches(1) /\ data[offset + 1] # VERSION /\ Fail("UnsupportedVersion")
  BY <1>0, <1>3, <1>5, FailKeeps
<1>6. CASE /\ Fetches(1) /\ data[offset + 1] = VERSION
           /\ offset' = offset + 1 /\ pc' = "count"
           /\ UNCHANGED <<input, count, addrs, entries, result>>
  <2>1. /\ source' = source /\ data' = data /\ offset' = 5
        /\ count' = count /\ addrs' = addrs /\ entries' = entries /\ result' = result
    BY <1>0, <1>6 DEF input
  <2>2. DecoderTypeOK' /\ source' \in Seq(Entry)
    BY <1>0, <1>1, <1>6, <2>1 DEF DecoderInv, DecoderTypeOK
  <2>3. Cut(data, 0, 5) = MAGIC \o <<VERSION>>
    <3>1. \A n, m \in Nat : n + m <= Len(data) =>
            Cut(data, 0, n) \o Cut(data, n, m) = Cut(data, 0, n + m)
      BY <1>0, CutFirstBytes
    <3>2. 4 + 1 <= Len(data) /\ 4 + 1 = 5
      BY <1>0, <1>1, <1>6
    <3>4. Cut(data, 0, 4) \o Cut(data, 4, 1) = Cut(data, 0, 5)
      BY <3>1, <3>2
    <3>5. data[5] = VERSION /\ Cut(data, 4, 1) = <<data[5]>>
      BY <1>0, <1>1, <1>2, <1>6
    <3>. QED  BY <1>0, <3>4, <3>5
  <2>4. Consumed'
    BY <1>0, <1>6, <2>1, <2>3 DEF Consumed
  <2>5. Follows'
    BY <1>6 DEF Follows
  <2>. QED  BY <2>2, <2>4, <2>5 DEF DecoderInv
<1>. QED  BY <1>4, <1>5, <1>6 DEF ReadVersion

\* What is left of an intact input, as the loops see it.
Left(es, k, addressesLeft, entriesLeft) ==
  \E rest \in Seq(Entry) :
    /\ entriesLeft = Len(rest)
    /\ \/ /\ addressesLeft = 0
          /\ source = es \o rest
          /\ At(data, k, Body(rest))
       \/ /\ addressesLeft > 0
          /\ \E more \in Seq(Seq(Byte)) :
               addressesLeft = Len(more) /\ Remains(es, k, more, rest)

\* The loop tests.
LEMMA AfterRead ==
  ASSUME source' = source, data' = data, source \in Seq(Entry), data \in Seq(Byte),
         result = "none",
         offset' \in Nat, offset' <= Len(data), count' \in Values32, addrs' \in Values16,
         entries' \in Seq(Entry), entries' = <<>> => addrs' = 0,
         Cut(data, 0, offset') = Header(Len(entries') + count') \o Sofar(entries', addrs'),
         Intact => Left(entries', offset', addrs', count'),
         NextRead(addrs', count')
  PROVE  DecoderInv'
<1>0. addrs' \in Nat /\ count' \in Nat /\ Len(data) \in Nat
  BY BaseFacts, LenProperties
<1>1. /\ pc' \in {"addr", "peer", "done"} /\ result' = IF pc' = "done" THEN "ok" ELSE "none"
      /\ pc' = "addr" => addrs' > 0
      /\ pc' = "peer" => addrs' = 0 /\ count' > 0
      /\ pc' = "done" => addrs' = 0 /\ count' = 0
  BY DEF NextRead, Finish
<1>2. DecoderTypeOK'
  <2>1. offset' \in 0 .. Len(data')
    BY <1>0
  <2>. QED  BY <1>1, <2>1 DEF DecoderTypeOK
<1>3. source' \in Seq(Entry)
  OBVIOUS
<1>4. Consumed'
  <2>1. pc' = "addr" => entries' # <<>>
    BY <1>1, <1>0
  <2>. QED  BY <1>1, <2>1 DEF Consumed
<1>5. Follows'
  <2> SUFFICES ASSUME Intact'
               PROVE  /\ pc' = "peer" => \E rest \in Seq(Entry) :
                           /\ source = entries' \o rest /\ count' = Len(rest)
                           /\ At(data, offset', Body(rest))
                      /\ pc' = "addr" => \E more \in Seq(Seq(Byte)), rest \in Seq(Entry) :
                           /\ count' = Len(rest) /\ addrs' = Len(more)
                           /\ Remains(entries', offset', more, rest)
                      /\ pc' = "done" => result' = "ok" /\ entries' = source
    BY DEF Follows, Remains
  <2>1. Intact
    BY DEF Intact
  <2>2. PICK rest \in Seq(Entry) :
          /\ count' = Len(rest)
          /\ \/ addrs' = 0 /\ source = entries' \o rest /\ At(data, offset', Body(rest))
             \/ /\ addrs' > 0
                /\ \E more \in Seq(Seq(Byte)) :
                     addrs' = Len(more) /\ Remains(entries', offset', more, rest)
    BY <2>1 DEF Left
  <2>3. pc' = "done" => entries' = source
    <3> SUFFICES ASSUME pc' = "done" PROVE entries' = source
      OBVIOUS
    <3>1. rest = <<>> /\ source = entries' \o rest
      BY <1>1, <2>2
    <3>. QED  BY <3>1, ConcatEmptySeq
  <2>4. CASE pc' = "peer"
    <3>1. source = entries' \o rest /\ count' = Len(rest) /\ At(data, offset', Body(rest))
      BY <1>0, <1>1, <2>2, <2>4
    <3>. QED  BY <1>1, <2>4, <3>1
  <2>5. CASE pc' = "addr"
    BY <1>1, <1>0, <2>2, <2>5
  <2>6. CASE pc' = "done"
    BY <1>1, <2>3, <2>6
  <2>. QED  BY <1>1, <2>4, <2>5, <2>6
<1>. QED  BY <1>2, <1>3, <1>4, <1>5 DEF DecoderInv

\* Reading the count: it announces the entries still to be read.
LEMMA ReadCountKeeps ==
  ASSUME DecoderInv, ReadCount
  PROVE  DecoderInv'
<1>0. /\ data \in Seq(Byte) /\ Len(data) \in Nat /\ offset = 5 /\ pc = "count"
      /\ source \in Seq(Entry) /\ entries = <<>> /\ addrs = 0 /\ result = "none"
      /\ Cut(data, 0, 5) = MAGIC \o <<VERSION>> /\ offset \in Nat /\ 5 \in Nat
  BY DecoderTypes DEF DecoderInv, Consumed, ReadCount
<1>1. Fetches(4) <=> 9 <= Len(data)
  BY <1>0 DEF Fetches
<1>2. PeekU16(0) * (Base * Base) + PeekU16(2) = Num32(data, 5)
  BY <1>0, PeekFacts DEF Num32
<1>3. Intact => Fetches(4) /\ Num32(data, 5) = Len(source) /\ At(data, 9, Body(source))
  <2> HAVE Intact
  <2>1. At(data, 5, U32(Len(source))) /\ At(data, 9, Body(source)) /\ Len(source) \in Values32
    BY <1>0, IntactFields
  <2>2. 5 + 4 <= Len(data) /\ Num32(data, 5) = Len(source)
    BY <1>0, <2>1, AtU32
  <2>. QED  BY <1>1, <2>1, <2>2
<1>4. CASE ~Fetches(4) /\ Truncated
  BY <1>0, <1>3, <1>4, FailKeeps DEF Truncated
<1>5. CASE /\ Fetches(4)
           /\ count' = PeekU16(0) * (Base * Base) + PeekU16(2)
           /\ offset' = offset + 4
           /\ NextRead(0, count')
           /\ UNCHANGED <<input, addrs, entries>>
  <2>1. /\ source' = source /\ data' = data /\ entries' = <<>> /\ addrs' = 0
        /\ count' = Num32(data, 5) /\ offset' = 9 /\ 9 <= Len(data) /\ 5 + 4 <= Len(data)
    BY <1>0, <1>1, <1>2, <1>5 DEF input
  <2>2. count' \in Values32 /\ U32(count') = Cut(data, 5, 4)
    BY <1>0, <2>1, ReadU32
  <2>3. Cut(data, 0, 9) = Header(0 + count') \o <<>>
    <3>1. \A k, n, m \in Nat : k + n + m <= Len(data) =>
            Cut(data, k, n) \o Cut(data, k + n, m) = Cut(data, k, n + m)
      BY <1>0, CutBytes
    <3>2. 0 + 5 + 4 <= Len(data) /\ 0 + 5 = 5 /\ 5 + 4 = 9
      BY <2>1
    <3>a. Cut(data, 0, 5) \o Cut(data, 0 + 5, 4) = Cut(data, 0, 5 + 4)
      BY <3>1, <3>2
    <3>3. Cut(data, 0, 5) \o Cut(data, 5, 4) = Cut(data, 0, 9)
      BY <3>2, <3>a
    <3>4. Header(count') = Cut(data, 0, 9)
      BY <1>0, <2>2, <3>3 DEF Header
    <3>b. count' \in Nat
      BY <2>2, BaseFacts
    <3>c. \A n \in Nat : 0 + n = n
      OBVIOUS
    <3>5. 0 + count' = count' /\ count' \in Nat
      BY <3>b, <3>c
    <3>6. Header(count') \in Seq(Byte)
      BY <3>5, HeaderSeq
    <3>7. Header(count') \o <<>> = Header(count')
      BY <3>6, ConcatEmptySeq
    <3>. QED  BY <3>4, <3>5, <3>7
  <2>4. Cut(data, 0, offset') = Header(Len(entries') + count') \o Sofar(entries', addrs')
    <3>1. Len(<<>>) = 0
      OBVIOUS
    <3>. QED  BY <2>1, <2>3, <3>1 DEF Sofar
  <2>5. Intact => Left(entries', offset', addrs', count')
    <3> HAVE Intact
    <3>1. count' = Len(source) /\ At(data, 9, Body(source))
      BY <1>3, <2>1
    <3>2. source = <<>> \o source
      BY <1>0, ConcatEmptySeq
    <3>. QED  BY <1>0, <2>1, <3>1, <3>2 DEF Left
  <2>6. NextRead(addrs', count')
    BY <1>5, <2>1
  <2>7. offset' \in Nat /\ entries' \in Seq(Entry) /\ addrs' \in Values16
    BY <2>1, BaseFacts
  <2>. QED  BY <1>0, <2>1, <2>2, <2>4, <2>5, <2>6, <2>7, AfterRead
<1>. QED  BY <1>4, <1>5 DEF ReadCount

\* PeekLen is the length field at the offset, when the data reach that far.
LEMMA PeekLenFacts ==
  ASSUME offset \in Nat, data \in Seq(Byte)
  PROVE  /\ PeekLen \in Nat
         /\ offset + 2 <= Len(data) => PeekLen = Num(data, offset)
<1>1. Fetches(2) <=> offset + 2 <= Len(data)
  BY DEF Fetches
<1>2. PeekU16(0) = Num(data, offset)
  BY PeekFacts
<1>3. offset + 2 <= Len(data) => Num(data, offset) \in Nat
  BY ReadU16, BaseFacts
<1>. QED  BY <1>1, <1>2, <1>3 DEF PeekLen

\* The element between two parts of a sequence.
LEMMA CatMiddle ==
  ASSUME NEW S, NEW s \in Seq(S), NEW e \in S, NEW t \in Seq(S)
  PROVE  /\ s \o Cons(e, t) \in Seq(S)
         /\ Len(s) + 1 \in DOMAIN (s \o Cons(e, t)) /\ (s \o Cons(e, t))[Len(s) + 1] = e
<1> DEFINE u == Cons(e, t)
<1>1. u \in Seq(S) /\ Len(u) = 1 + Len(t) /\ u[1] = e /\ Len(t) \in Nat /\ Len(s) \in Nat
  BY DEF Cons
<1> HIDE DEF u
<1>2. /\ s \o u \in Seq(S) /\ Len(s \o u) = Len(s) + Len(u)
      /\ \A i \in 1 .. Len(u) : (s \o u)[Len(s) + i] = u[i]
  <2>1. u \in Seq(S)
    BY <1>1
  <2>. QED  BY <2>1, CatIndex
<1>3. DOMAIN (s \o u) = 1 .. Len(s \o u)
  BY <1>2, LenProperties
<1>4. 1 \in 1 .. Len(u) /\ Len(s) + 1 \in 1 .. Len(s) + Len(u)
  BY <1>1
<1>. QED  BY <1>1, <1>2, <1>3, <1>4 DEF u

\* The next entry of an intact input.
LEMMA PeerAt ==
  ASSUME NEW d \in Seq(Byte), NEW k \in Nat, NEW e \in Entry, NEW t \in Seq(Byte), NEW n,
         n = Len(e.peer_id), n \in Values16, Len(e.addresses) \in Values16,
         At(d, k, EncodeEntry(e) \o t)
  PROVE  /\ k + 2 <= Len(d) /\ Num(d, k) = n /\ k + (2 + n + 2) <= Len(d)
         /\ Cut(d, k + 2, n) = e.peer_id
         /\ Num(d, k + (2 + n)) = Len(e.addresses)
         /\ At(d, k + (2 + n + 2), Addresses(e.addresses) \o t)
<1> DEFINE b == Bytes(e.peer_id)
           u == U16(Len(e.addresses))
           a == Addresses(e.addresses)
<1>0. e.peer_id \in Seq(Byte) /\ e.addresses \in Seq(Seq(Byte)) /\ n \in Nat /\ Len(d) \in Nat
      /\ Len(e.addresses) \in Nat
  BY EntryFields, LenProperties
<1>1. b \in Seq(Byte) /\ Len(b) = 2 + n
  BY <1>0, BytesSeq
<1>2. u \in Seq(Byte) /\ Len(u) = 2
  BY <1>0, U16Bytes
<1>3. a \in Seq(Byte)
  BY <1>0, AddressesFacts
<1>4. EncodeEntry(e) = (b \o u) \o a
  BY DEF EncodeEntry, Addresses
<1>d. At(d, k, EncodeEntry(e) \o t)
  OBVIOUS
<1> HIDE DEF b, u, a
<1>5. b \o u \in Seq(Byte) /\ Len(b \o u) = Len(b) + Len(u)
  BY <1>1, <1>2, CatBytes
<1>6. a \o t \in Seq(Byte)
  BY <1>3, CatIndex
<1>7. ((b \o u) \o a) \o t = (b \o u) \o (a \o t)
  <2>1. CatLeft(b \o u, a, t) = CatRight(b \o u, a, t)
    BY <1>3, <1>5, Regroup
  <2>. QED  BY <2>1 DEF CatLeft, CatRight
<1>8. At(d, k, (b \o u) \o (a \o t))
  BY <1>4, <1>7, <1>d
<1>9. At(d, k, b \o u) /\ At(d, k + Len(b \o u), a \o t)
  BY <1>5, <1>6, <1>8, AtCat
<1>10. At(d, k, b) /\ At(d, k + Len(b), u)
  BY <1>1, <1>2, <1>9, AtCat
<1>11. k + 2 <= Len(d) /\ Num(d, k) = n /\ Cut(d, k + 2, n) = e.peer_id
  BY <1>0, <1>10, AtBytes DEF b
<1>12. Len(b \o u) = 2 + n + 2 /\ k + (2 + n) \in Nat
  BY <1>0, <1>1, <1>2, <1>5
<1>13. At(d, k + (2 + n), U16(Len(e.addresses)))
  BY <1>1, <1>10 DEF u
<1>14. k + (2 + n) + 2 <= Len(d) /\ Num(d, k + (2 + n)) = Len(e.addresses)
  BY <1>12, <1>13, AtU16
<1>15. k + (2 + n + 2) <= Len(d)
  BY <1>0, <1>14
<1>16. At(d, k + (2 + n + 2), a \o t)
  BY <1>9, <1>12
<1>. QED  BY <1>11, <1>14, <1>15, <1>16 DEF a

\* The next address of an intact input.
LEMMA AddrAt ==
  ASSUME NEW d \in Seq(Byte), NEW k \in Nat, NEW a \in Seq(Byte), NEW more \in Seq(Seq(Byte)),
         NEW t \in Seq(Byte), Len(a) \in Values16,
         At(d, k, Addresses(Cons(a, more)) \o t)
  PROVE  /\ k + 2 <= Len(d) /\ Num(d, k) = Len(a) /\ k + (2 + Len(a)) <= Len(d)
         /\ Cut(d, k + 2, Len(a)) = a
         /\ At(d, k + (2 + Len(a)), Addresses(more) \o t)
<1> DEFINE b == Bytes(a)
           m == Addresses(more)
<1>1. b \in Seq(Byte) /\ Len(b) = 2 + Len(a) /\ Len(a) \in Nat /\ Len(d) \in Nat
  BY BytesSeq, LenProperties
<1>2. m \in Seq(Byte)
  BY AddressesFacts
<1>3. Addresses(Cons(a, more)) = b \o m
  BY AddressesFacts
<1> HIDE DEF b, m
<1>a. m \o t \in Seq(Byte)
  BY <1>2, CatBytes
<1>b. (b \o m) \o t = b \o (m \o t)
  <2>1. CatLeft(b, m, t) = CatRight(b, m, t)
    BY <1>1, <1>2, Regroup
  <2>. QED  BY <2>1 DEF CatLeft, CatRight
<1>4. (b \o m) \o t = b \o (m \o t) /\ m \o t \in Seq(Byte)
  BY <1>a, <1>b
<1>5. At(d, k, b \o (m \o t))
  BY <1>3, <1>4
<1>6. At(d, k, b) /\ At(d, k + Len(b), m \o t)
  BY <1>1, <1>4, <1>5, AtCat
<1>7. /\ k + 2 <= Len(d) /\ Num(d, k) = Len(a) /\ k + 2 + Len(a) <= Len(d)
      /\ Cut(d, k + 2, Len(a)) = a
  BY <1>6, AtBytes DEF b
<1>8. k + (2 + Len(a)) <= Len(d)
  BY <1>1, <1>7
<1>9. At(d, k + (2 + Len(a)), m \o t)
  BY <1>1, <1>6
<1>. QED  BY <1>7, <1>8, <1>9 DEF m

\* When no address is to come, the last entry is whole.
LEMMA RemainsNone ==
  ASSUME NEW es \in Seq(Entry), es # <<>>, NEW k, NEW more \in Seq(Seq(Byte)), Len(more) = 0,
         NEW rest \in Seq(Entry), Remains(es, k, more, rest)
  PROVE  source = es \o rest /\ At(data, k, Body(rest))
<1>1. Front(es) \in Seq(Entry) /\ Last(es) \in Entry /\ es = Append(Front(es), Last(es))
  BY FrontLast
<1>2. more = <<>> /\ Last(es).addresses \in Seq(Seq(Byte))
  BY <1>1, EntryFields
<1>3. Last(es).addresses \o <<>> = Last(es).addresses
  BY <1>2, ConcatEmptySeq
<1>4. [peer_id |-> Last(es).peer_id, addresses |-> Last(es).addresses] = Last(es)
  BY <1>1 DEF Entry
<1>5. Addresses(more) = <<>> /\ Body(rest) \in Seq(Byte)
  BY <1>2, AddressesFacts, BodyFacts
<1>6. Addresses(more) \o Body(rest) = Body(rest)
  BY <1>5, ConcatEmptySeq
<1>7. source = Append(Front(es), Last(es)) \o rest
  BY <1>2, <1>3, <1>4 DEF Remains
<1>. QED  BY <1>1, <1>6, <1>7 DEF Remains

\* What remains is what the outstanding numbers count.
LEMMA RemainsLeft ==
  ASSUME NEW es \in Seq(Entry), es # <<>>, NEW k, NEW more \in Seq(Seq(Byte)),
         NEW rest \in Seq(Entry), Remains(es, k, more, rest)
  PROVE  Left(es, k, Len(more), Len(rest))
<1>0. Len(more) \in Nat
  BY LenProperties
<1>1. CASE Len(more) = 0
  <2>1. source = es \o rest /\ At(data, k, Body(rest))
    BY <1>1, RemainsNone
  <2>. QED  BY <1>1, <2>1 DEF Left
<1>2. CASE Len(more) > 0
  BY <1>2 DEF Left
<1>. QED  BY <1>0, <1>1, <1>2

\* Reading a peer id and its number of addresses opens a new entry.
LEMMA ReadPeerKeeps ==
  ASSUME DecoderInv, ReadPeer
  PROVE  DecoderInv'
<1> DEFINE len == PeekLen
<1>0. /\ data \in Seq(Byte) /\ Len(data) \in Nat /\ offset \in Nat /\ offset <= Len(data)
      /\ pc = "peer" /\ source \in Seq(Entry) /\ addrs = 0 /\ result = "none"
      /\ entries \in Seq(Entry) /\ Len(entries) \in Nat /\ count \in Nat /\ count > 0
      /\ count \in Values32
      /\ Cut(data, 0, offset) = Header(Len(entries) + count) \o Sofar(entries, 0)
  BY DecoderTypes DEF DecoderInv, Consumed, ReadPeer
<1>1. len \in Nat /\ (offset + 2 <= Len(data) => len = Num(data, offset))
  BY <1>0, PeekLenFacts
<1> HIDE DEF len
<1>2. Fetches(2 + len + 2) <=> offset + (2 + len + 2) <= Len(data)
  BY DEF Fetches
\* An intact input has another entry.
<1>3. ASSUME Intact
      PROVE  \E e \in Entry, rest \in Seq(Entry) :
               /\ source = Append(entries, e) \o rest /\ count = Len(rest) + 1
               /\ len = Len(e.peer_id) /\ offset + (2 + len + 2) <= Len(data)
               /\ Cut(data, offset + 2, len) = e.peer_id
               /\ Num(data, offset + (2 + len)) = Len(e.addresses)
               /\ At(data, offset + (2 + len + 2), Addresses(e.addresses) \o Body(rest))
  <2>1. PICK all \in Seq(Entry) :
          source = entries \o all /\ count = Len(all) /\ At(data, offset, Body(all))
    BY <1>0, <1>3 DEF DecoderInv, Follows
  <2>2. PICK e \in Entry, rest \in Seq(Entry) : all = Cons(e, rest) /\ Len(all) = Len(rest) + 1
    BY <1>0, <2>1, ConsSplit
  <2>3. source = Append(entries, e) \o rest
    <3>1. entries \o Cons(e, rest) = Append(entries, e) \o rest
      BY <1>0, EntryCons
    <3>. QED  BY <2>1, <2>2, <3>1
  <2>4. Len(entries) + 1 \in DOMAIN source /\ source[Len(entries) + 1] = e
    BY <1>0, <2>1, <2>2, CatMiddle
  <2>5. Len(e.peer_id) \in Values16 /\ Len(e.addresses) \in Values16
    BY <1>3, <2>4 DEF Intact, Fits
  <2>6. Body(rest) \in Seq(Byte) /\ Body(all) = EncodeEntry(e) \o Body(rest)
    BY <2>2, BodyFacts
  <2>7. At(data, offset, EncodeEntry(e) \o Body(rest))
    BY <2>1, <2>6
  <2> DEFINE n == Len(e.peer_id)
  <2>8. n \in Values16
    BY <2>5
  <2>9. /\ offset + 2 <= Len(data) /\ Num(data, offset) = n /\ offset + (2 + n + 2) <= Len(data)
        /\ Cut(data, offset + 2, n) = e.peer_id
        /\ Num(data, offset + (2 + n)) = Len(e.addresses)
        /\ At(data, offset + (2 + n + 2), Addresses(e.addresses) \o Body(rest))
    BY <1>0, <2>5, <2>6, <2>7, <2>8, PeerAt
  <2>10. len = n
    BY <1>1, <2>9
  <2>. QED  BY <2>1, <2>2, <2>3, <2>9, <2>10
<1>4. CASE ~Fetches(2 + PeekLen + 2) /\ Truncated
  <2>1. ~Intact
    BY <1>2, <1>3, <1>4 DEF len
  <2>. QED  BY <1>0, <1>4, <2>1, FailKeeps DEF Truncated
<1>5. CASE TakePeer(PeekLen)
  <2> DEFINE p == Cut(data, offset + 2, len)
             f == [peer_id |-> p, addresses |-> <<>>]
  <2>1. /\ offset + (2 + len + 2) <= Len(data) /\ source' = source /\ data' = data
        /\ entries' = Append(entries, f) /\ addrs' = Num(data, offset + (2 + len))
        /\ offset' = offset + 2 + len + 2 /\ count' = count - 1 /\ NextRead(addrs', count')
    BY <1>0, <1>2, <1>5, PeekFacts DEF TakePeer, len, input
  <2>2. /\ offset + 2 <= Len(data) /\ offset + 2 + len <= Len(data) /\ 2 + len \in Nat
        /\ offset + (2 + len) \in Nat /\ offset + (2 + len) + 2 <= Len(data)
        /\ offset' = offset + ((2 + len) + 2) /\ offset' \in Nat /\ offset' <= Len(data)
        /\ offset' = offset + (2 + len + 2)
    BY <1>0, <1>1, <2>1
  <2>3. len = Num(data, offset)
    BY <1>1, <2>2
  <2>4. p \in Seq(Byte) /\ Bytes(p) = Cut(data, offset, 2 + len)
    BY <1>0, <2>2, <2>3, ReadBytes
  <2>5. addrs' \in Values16 /\ U16(addrs') = Cut(data, offset + (2 + len), 2)
    BY <1>0, <2>1, <2>2, ReadU16
  <2>6. addrs' \in Nat
    BY <2>5, BaseFacts
  <2>7. f \in Entry /\ Sofar(entries', addrs') = (Sofar(entries, 0) \o Bytes(p)) \o U16(addrs')
    <3>1. \A k \in Nat : f \in Entry
            /\ Sofar(Append(entries, f), k) = (Sofar(entries, 0) \o Bytes(p)) \o U16(k)
      BY <1>0, <2>4, SofarPeers
    <3>. QED  BY <2>1, <2>6, <3>1
  <2>8. /\ entries' \in Seq(Entry) /\ entries' # <<>> /\ Len(entries') = Len(entries) + 1
        /\ Front(entries') = entries /\ Last(entries') = f
    <3>1. /\ Append(entries, f) # <<>> /\ Front(Append(entries, f)) = entries
          /\ Last(Append(entries, f)) = f
      BY <1>0, <2>7, FrontLastAppend
    <3>2. Append(entries, f) \in Seq(Entry) /\ Len(Append(entries, f)) = Len(entries) + 1
      BY <1>0, <2>7, AppendProperties
    <3>. QED  BY <2>1, <3>1, <3>2
  <2>9. Len(entries') + count' = Len(entries) + count /\ count' \in Nat /\ count' \in Values32
    BY <1>0, <2>1, <2>8, BaseFacts DEF Values32
  <2> HIDE DEF p, f
  <2>10. Cut(data, 0, offset') = Header(Len(entries') + count') \o Sofar(entries', addrs')
    <3> DEFINE h == Header(Len(entries) + count)
               s == Sofar(entries, 0)
               b == Bytes(p)
               u == U16(addrs')
    <3>1. h \in Seq(Byte) /\ s \in Seq(Byte) /\ b \in Seq(Byte) /\ u \in Seq(Byte)
      BY <1>0, <2>4, <2>6, HeaderSeq, SofarSeq, BytesSeq, U16Bytes
    <3>2. s \o b \in Seq(Byte)
      BY <3>1, CatIndex
    <3>3. Cut(data, 0, offset) = h \o s
      BY <1>0
    <3>4. Cut(data, 0, offset) \o Cut(data, offset, 2 + len) = Cut(data, 0, offset + (2 + len))
      <4>1. offset + (2 + len) <= Len(data)
        BY <1>0, <2>2
      <4>2. \A n, m \in Nat : n + m <= Len(data) =>
              Cut(data, 0, n) \o Cut(data, n, m) = Cut(data, 0, n + m)
        BY <1>0, CutFirstBytes
      <4>3. offset \in Nat /\ 2 + len \in Nat
        BY <1>0, <2>2
      <4>. QED  BY <4>1, <4>2, <4>3
    <3>5. Cut(data, 0, offset + (2 + len)) \o Cut(data, offset + (2 + len), 2)
            = Cut(data, 0, offset + (2 + len) + 2)
      <4>1. \A n, m \in Nat : n + m <= Len(data) =>
              Cut(data, 0, n) \o Cut(data, n, m) = Cut(data, 0, n + m)
        BY <1>0, CutFirstBytes
      <4>. QED  BY <2>2, <4>1
    <3>6. offset + (2 + len) + 2 = offset'
      <4>1. offset \in Nat /\ len \in Nat /\ offset' = offset + (2 + len + 2)
        BY <1>0, <1>1, <2>2
      <4>. QED  BY <4>1
    <3>7. Cut(data, 0, offset') = ((h \o s) \o b) \o u
      BY <2>4, <2>5, <3>3, <3>4, <3>5, <3>6
    <3> HIDE DEF h, s, b, u
    <3>a. /\ CatLeft(h, s \o b, u) = CatRight(h, s \o b, u)
          /\ CatLeft(h, s, b) = CatRight(h, s, b)
      BY <3>1, <3>2, Regroup
    <3>8. h \o ((s \o b) \o u) = (h \o (s \o b)) \o u
      BY <3>a DEF CatLeft, CatRight
    <3>9. h \o (s \o b) = (h \o s) \o b
      BY <3>a DEF CatLeft, CatRight
    <3>10. Sofar(entries', addrs') = (s \o b) \o u
      BY <2>7 DEF s, b, u
    <3>11. Header(Len(entries') + count') = h
      BY <2>9 DEF h
    <3>. QED  BY <3>7, <3>8, <3>9, <3>10, <3>11
  <2>11. Intact => Left(entries', offset', addrs', count')
    <3> HAVE Intact
    <3>1. PICK e \in Entry, rest \in Seq(Entry) :
            /\ source = Append(entries, e) \o rest /\ count = Len(rest) + 1
            /\ Cut(data, offset + 2, len) = e.peer_id
            /\ Num(data, offset + (2 + len)) = Len(e.addresses)
            /\ At(data, offset + (2 + len + 2), Addresses(e.addresses) \o Body(rest))
      BY <1>3
    <3>2. f.peer_id = e.peer_id /\ f.addresses = <<>>
      BY <3>1 DEF f, p
    <3>3. e.addresses \in Seq(Seq(Byte)) /\ <<>> \o e.addresses = e.addresses
      BY EntryFields, ConcatEmptySeq
    <3>4. [peer_id |-> e.peer_id, addresses |-> e.addresses] = e
      BY DEF Entry
    <3>5. Remains(entries', offset', e.addresses, rest)
      BY <2>2, <2>8, <3>1, <3>2, <3>3, <3>4 DEF Remains
    <3>6. Left(entries', offset', Len(e.addresses), Len(rest))
      BY <2>8, <3>3, <3>5, RemainsLeft
    <3>7. addrs' = Len(e.addresses) /\ count' = Len(rest)
      <4>1. Len(rest) \in Nat
        BY LenProperties
      <4>. QED  BY <1>0, <2>1, <3>1, <4>1
    <3>. QED  BY <3>6, <3>7
  <2>. QED  BY <1>0, <2>1, <2>2, <2>5, <2>8, <2>9, <2>10, <2>11, AfterRead
<1>. QED  BY <1>4, <1>5 DEF ReadPeer

\* Reading an address adds it to the entry open, and may close it.
LEMMA ReadAddrKeeps ==
  ASSUME DecoderInv, ReadAddr
  PROVE  DecoderInv'
<1> DEFINE len == PeekLen
           last == Last(entries)
<1>0. /\ data \in Seq(Byte) /\ Len(data) \in Nat /\ offset \in Nat /\ offset <= Len(data)
      /\ pc = "addr" /\ source \in Seq(Entry) /\ addrs \in Nat /\ addrs > 0 /\ result = "none"
      /\ entries \in Seq(Entry) /\ Len(entries) \in Nat /\ count \in Nat /\ entries # <<>>
      /\ count \in Values32 /\ addrs \in Values16
      /\ Cut(data, 0, offset) = Header(Len(entries) + count) \o Sofar(entries, addrs)
  BY DecoderTypes DEF DecoderInv, Consumed, ReadAddr
<1>1. len \in Nat /\ (offset + 2 <= Len(data) => len = Num(data, offset))
  BY <1>0, PeekLenFacts
<1>2. Front(entries) \in Seq(Entry) /\ last \in Entry
  BY <1>0, FrontLast
<1>3. last.peer_id \in Seq(Byte) /\ last.addresses \in Seq(Seq(Byte))
  BY <1>2, EntryFields
<1> HIDE DEF len, last
<1>4. Fetches(2 + len) <=> offset + (2 + len) <= Len(data)
  BY DEF Fetches
\* An intact input has another address.
<1>5. ASSUME Intact
      PROVE  \E a \in Seq(Byte), more \in Seq(Seq(Byte)), rest \in Seq(Entry) :
               /\ source = Append(Front(entries), [peer_id |-> last.peer_id,
                                 addresses |-> Append(last.addresses, a) \o more]) \o rest
               /\ count = Len(rest) /\ addrs = Len(more) + 1
               /\ len = Len(a) /\ offset + (2 + len) <= Len(data)
               /\ Cut(data, offset + 2, len) = a
               /\ At(data, offset + (2 + len), Addresses(more) \o Body(rest))
  <2>1. PICK all \in Seq(Seq(Byte)), rest \in Seq(Entry) :
          count = Len(rest) /\ addrs = Len(all) /\ Remains(entries, offset, all, rest)
    BY <1>0, <1>5 DEF DecoderInv, Follows
  <2>2. PICK a \in Seq(Byte), more \in Seq(Seq(Byte)) :
          all = Cons(a, more) /\ Len(all) = Len(more) + 1
    BY <1>0, <2>1, ConsSplit
  <2> DEFINE x == last.addresses \o Cons(a, more)
             e == [peer_id |-> last.peer_id, addresses |-> x]
  <2>3. /\ x \in Seq(Seq(Byte)) /\ Len(last.addresses) + 1 \in DOMAIN x
        /\ x[Len(last.addresses) + 1] = a
    BY <1>3, <2>2, CatMiddle
  <2>4. x = Append(last.addresses, a) \o more
    BY <1>3, AddrCons
  <2> HIDE DEF x
  <2>5. e \in Entry /\ e.addresses = x
    BY <1>3, <2>3 DEF Entry
  <2>6. source = Append(Front(entries), e) \o rest /\ At(data, offset, Addresses(all) \o Body(rest))
    BY <2>1, <2>2 DEF Remains, x, last
  <2> HIDE DEF e
  <2>7. Front(entries) \o Cons(e, rest) = Append(Front(entries), e) \o rest
    BY <1>2, <2>5, EntryCons
  <2>8. /\ Len(Front(entries)) + 1 \in DOMAIN (Front(entries) \o Cons(e, rest))
        /\ (Front(entries) \o Cons(e, rest))[Len(Front(entries)) + 1] = e
    BY <1>2, <2>5, CatMiddle
  <2>9. Len(Front(entries)) + 1 \in DOMAIN source /\ source[Len(Front(entries)) + 1] = e
    BY <2>6, <2>7, <2>8
  <2>10. Len(e.addresses[Len(last.addresses) + 1]) \in Values16
    <3>1. \A j \in DOMAIN e.addresses : Len(e.addresses[j]) \in Values16
      BY <1>5, <2>9 DEF Intact, Fits
    <3>. QED  BY <2>3, <2>5, <3>1
  <2>11. Len(a) \in Values16
    BY <2>3, <2>5, <2>10
  <2>12. Body(rest) \in Seq(Byte)
    BY BodyFacts
  <2>13. /\ offset + 2 <= Len(data) /\ Num(data, offset) = Len(a)
         /\ offset + (2 + Len(a)) <= Len(data) /\ Cut(data, offset + 2, Len(a)) = a
         /\ At(data, offset + (2 + Len(a)), Addresses(more) \o Body(rest))
    BY <1>0, <2>2, <2>6, <2>11, <2>12, AddrAt
  <2>14. len = Len(a)
    BY <1>1, <2>13
  <2>15. source = Append(Front(entries), [peer_id |-> last.peer_id,
                            addresses |-> Append(last.addresses, a) \o more]) \o rest
    BY <2>4, <2>6 DEF e
  <2>. QED  BY <2>1, <2>2, <2>13, <2>14, <2>15
<1>6. CASE ~Fetches(2 + PeekLen) /\ Truncated
  <2>1. ~Intact
    BY <1>4, <1>5, <1>6 DEF len
  <2>. QED  BY <1>0, <1>6, <2>1, FailKeeps DEF Truncated
<1>7. CASE /\ Fetches(2 + PeekLen)
           /\ entries' = [entries EXCEPT ![Len(entries)].addresses = Append(@, Peek(2, PeekLen))]
           /\ addrs' = addrs - 1
           /\ offset' = offset + 2 + PeekLen
           /\ NextRead(addrs', count)
           /\ UNCHANGED <<input, count>>
  <2> DEFINE a == Cut(data, offset + 2, len)
  <2>1. /\ offset + (2 + len) <= Len(data) /\ source' = source /\ data' = data
        /\ entries' = [entries EXCEPT ![Len(entries)].addresses = Append(@, a)]
        /\ addrs' = addrs - 1 /\ offset' = offset + 2 + len
        /\ count' = count /\ NextRead(addrs', count')
    BY <1>0, <1>4, <1>7, PeekFacts DEF len, input
  <2>2. /\ offset + 2 <= Len(data) /\ offset + 2 + len <= Len(data) /\ 2 + len \in Nat
        /\ offset' = offset + (2 + len) /\ offset' \in Nat /\ offset' <= Len(data)
    <3>1. offset \in Nat /\ Len(data) \in Nat /\ len \in Nat
      BY <1>0, <1>1
    <3>2. offset + (2 + len) <= Len(data) /\ offset' = offset + 2 + len
      BY <2>1
    <3>. QED  BY <3>1, <3>2
  <2>3. len = Num(data, offset)
    BY <1>1, <2>2
  <2>4. a \in Seq(Byte) /\ Bytes(a) = Cut(data, offset, 2 + len)
    BY <1>0, <2>2, <2>3, ReadBytes
  <2> HIDE DEF a
  <2>5. /\ entries' \in Seq(Entry) /\ entries' # <<>> /\ Len(entries') = Len(entries)
        /\ Front(entries') = Front(entries)
        /\ Last(entries') = [peer_id |-> last.peer_id, addresses |-> Append(last.addresses, a)]
        /\ Sofar(entries', addrs - 1) = Sofar(entries, addrs) \o Bytes(a)
    <3>1. \A fs : fs = [entries EXCEPT ![Len(entries)].addresses = Append(@, a)] =>
            /\ fs \in Seq(Entry) /\ fs # <<>> /\ Len(fs) = Len(entries)
            /\ Front(fs) = Front(entries)
            /\ Last(fs) = [peer_id |-> last.peer_id, addresses |-> Append(last.addresses, a)]
            /\ Sofar(fs, addrs - 1) = Sofar(entries, addrs) \o Bytes(a)
      <4>1. entries \in Seq(Entry) /\ entries # <<>> /\ addrs \in Nat /\ addrs > 0
        BY <1>0
      <4>. QED  BY <2>4, <4>1, SofarAddr DEF last
    <3>. QED  BY <2>1, <3>1
  <2>6. addrs' \in Values16 /\ addrs' \in Nat
    <3>1. \A n \in Values16 : n > 0 => n - 1 \in Values16 /\ n - 1 \in Nat
      BY BaseFacts DEF Values16
    <3>. QED  BY <1>0, <2>1, <3>1
  <2>7. Cut(data, 0, offset') = Header(Len(entries') + count') \o Sofar(entries', addrs')
    <3> DEFINE h == Header(Len(entries) + count)
               s == Sofar(entries, addrs)
               b == Bytes(a)
    <3>1. h \in Seq(Byte) /\ s \in Seq(Byte) /\ b \in Seq(Byte)
      BY <1>0, <2>4, HeaderSeq, SofarSeq, BytesSeq
    <3>2. Cut(data, 0, offset) = h \o s
      BY <1>0
    <3>3. Cut(data, 0, offset) \o Cut(data, offset, 2 + len) = Cut(data, 0, offset + (2 + len))
      <4>1. \A n, m \in Nat : n + m <= Len(data) =>
              Cut(data, 0, n) \o Cut(data, n, m) = Cut(data, 0, n + m)
        BY <1>0, CutFirstBytes
      <4>. QED  BY <1>0, <2>1, <2>2, <4>1
    <3>4. Cut(data, 0, offset') = (h \o s) \o b
      BY <2>2, <2>4, <3>2, <3>3
    <3>5. Header(Len(entries') + count') = h /\ Sofar(entries', addrs') = s \o b
      BY <2>1, <2>5
    <3> HIDE DEF h, s, b
    <3>6. h \o (s \o b) = (h \o s) \o b
      BY <3>1, CatAssoc
    <3>. QED  BY <3>4, <3>5, <3>6
  <2>8. Intact => Left(entries', offset', addrs', count')
    <3> HAVE Intact
    <3>1. PICK a2 \in Seq(Byte), more \in Seq(Seq(Byte)), rest \in Seq(Entry) :
            /\ source = Append(Front(entries), [peer_id |-> last.peer_id,
                              addresses |-> Append(last.addresses, a2) \o more]) \o rest
            /\ count = Len(rest) /\ addrs = Len(more) + 1
            /\ Cut(data, offset + 2, len) = a2
            /\ At(data, offset + (2 + len), Addresses(more) \o Body(rest))
      BY <1>5
    <3>2. a2 = a
      BY <3>1 DEF a
    <3>3. /\ Last(entries').peer_id = last.peer_id
          /\ Last(entries').addresses = Append(last.addresses, a)
      BY <2>5
    <3>4. Remains(entries', offset', more, rest)
      BY <2>2, <2>5, <3>1, <3>2, <3>3 DEF Remains
    <3>5. Left(entries', offset', Len(more), Len(rest))
      BY <2>5, <3>4, RemainsLeft
    <3>6. addrs' = Len(more) /\ count' = Len(rest)
      <4>1. Len(more) \in Nat
        BY LenProperties
      <4>. QED  BY <1>0, <2>1, <3>1, <4>1
    <3>. QED  BY <3>5, <3>6
  <2>. QED  BY <1>0, <2>1, <2>2, <2>5, <2>6, <2>7, <2>8, AfterRead
<1>. QED  BY <1>6, <1>7 DEF ReadAddr

\* Every step of decode keeps the invariant.
LEMMA DecodeKeeps ==
  ASSUME DecoderInv, Decode
  PROVE  DecoderInv'
BY CheckSizeKeeps, ReadMagicKeeps, ReadVersionKeeps, ReadCountKeeps, ReadPeerKeeps,
   ReadAddrKeeps DEF Decode

\* The decoder starts out idle.
LEMMA DecoderInitKeeps ==
  ASSUME DecoderInit
  PROVE  DecoderInv
<1>1. DecoderTypeOK /\ source \in Seq(Entry)
  <2>1. Len(<<>>) = 0 /\ 0 \in 0 .. 0
    OBVIOUS
  <2>. QED  BY <2>1, BaseFacts DEF DecoderInit, DecoderTypeOK
<1>2. Consumed /\ Follows
  BY DEF DecoderInit, Consumed, Follows
<1>. QED  BY <1>1, <1>2 DEF DecoderInv

\* Handing bytes to an idle decoder.
LEMMA EnterKeeps ==
  ASSUME DecoderInv, pc = "idle", NEW bytes \in Seq(Byte), Enter(bytes)
  PROVE  DecoderInv'
<1>0. Len(bytes) \in Nat
  BY LenProperties
<1>1. /\ offset = 0 /\ entries = <<>> /\ addrs = 0 /\ result = "none"
      /\ count \in Values32 /\ source \in Seq(Entry)
  BY DEF DecoderInv, Consumed, DecoderTypeOK
<1>2. /\ pc' = "size" /\ data' = bytes /\ source' = source /\ offset' = offset
      /\ count' = count /\ addrs' = addrs /\ entries' = entries /\ result' = result
  BY DEF Enter
<1>3. DecoderTypeOK' /\ source' \in Seq(Entry)
  <2>1. 0 \in 0 .. Len(bytes)
    BY <1>0
  <2>. QED  BY <1>1, <1>2, <2>1, BaseFacts DEF DecoderTypeOK
<1>4. Consumed' /\ Follows'
  BY <1>1, <1>2 DEF Consumed, Follows
<1>. QED  BY <1>3, <1>4 DEF DecoderInv

\* Taking its result.
LEMMA LeaveKeeps ==
  ASSUME DecoderInv, Leave
  PROVE  DecoderInv'
<1>1. /\ pc' = "idle" /\ data' = <<>> /\ source' = source /\ offset' = 0
      /\ count' = 0 /\ addrs' = 0 /\ entries' = <<>> /\ result' = "none"
      /\ source \in Seq(Entry)
  BY DEF Leave, DecoderInv
<1>2. DecoderTypeOK' /\ source' \in Seq(Entry)
  <2>1. Len(<<>>) = 0 /\ 0 \in 0 .. 0
    OBVIOUS
  <2>. QED  BY <1>1, <2>1, BaseFacts DEF DecoderTypeOK
<1>3. Consumed' /\ Follows'
  BY <1>1 DEF Consumed, Follows
<1>. QED  BY <1>2, <1>3 DEF DecoderInv

\* While decode is not running, the history variable is free.
LEMMA SourceKeeps ==
  ASSUME DecoderInv, pc = "idle", source' \in Seq(Entry),
         UNCHANGED <<data, pc, offset, count, addrs, entries, result>>
  PROVE  DecoderInv'
<1>1. /\ pc' = pc /\ data' = data /\ offset' = offset /\ count' = count /\ addrs' = addrs
      /\ entries' = entries /\ result' = result
  OBVIOUS
<1>2. DecoderTypeOK' /\ Consumed'
  BY <1>1 DEF DecoderInv, DecoderTypeOK, Consumed
<1>3. Follows'
  BY <1>1 DEF Follows
<1>. QED  BY <1>2, <1>3 DEF DecoderInv

\* A step that leaves the decoder alone.
LEMMA DecoderStutters ==
  ASSUME DecoderInv, UNCHANGED decoder
  PROVE  DecoderInv'
<1>1. /\ pc' = pc /\ data' = data /\ offset' = offset /\ count' = count /\ addrs' = addrs
      /\ entries' = entries /\ result' = result /\ source' = source
  BY DEF decoder, input
<1>2. DecoderTypeOK' /\ Consumed' /\ source' \in Seq(Entry)
  BY <1>1 DEF DecoderInv, DecoderTypeOK, Consumed
<1>3. Follows'
  BY <1>1 DEF DecoderInv, Follows, Intact, Remains
<1>. QED  BY <1>2, <1>3 DEF DecoderInv

\* What the invariant says of a finished decode.
LEMMA DecoderExact ==
  ASSUME DecoderInv
  PROVE  RoundTrip /\ OnlyEncodings
<1>0. entries \in Seq(Entry) /\ Len(entries) \in Nat /\ offset \in Nat
  BY DecoderTypes DEF DecoderInv
<1>1. RoundTrip
  BY DEF DecoderInv, Follows, Intact, RoundTrip
<1>2. OnlyEncodings
  <2> SUFFICES ASSUME result = "ok" PROVE encode(entries) = SubSeq(data, 1, offset)
    BY DEF OnlyEncodings
  <2>1. addrs = 0 /\ count = 0
        /\ Cut(data, 0, offset) = Header(Len(entries) + count) \o Sofar(entries, addrs)
    BY DEF DecoderInv, Consumed
  <2>2. Sofar(entries, 0) = Body(entries)
    BY <1>0, SofarWhole
  <2>3. Len(entries) + 0 = Len(entries) /\ 0 + 1 = 1 /\ 0 + offset = offset
    BY <1>0
  <2>4. Cut(data, 0, offset) = encode(entries)
    BY <2>1, <2>2, <2>3 DEF encode
  <2>. QED  BY <2>3, <2>4 DEF Cut
<1>. QED  BY <1>1, <1>2

-----------------------------------------------------------------------------
(* The routing table across restarts.                                      *)

\* decode runs on the bytes of the file, and only while the node starts.
Phases ==
  /\ node \in {"decoding", "importing"} <=> pc # "idle"
  /\ node \in {"decoding", "importing"} => file # Absent /\ data = file
  /\ node = "importing" => pc = "done" /\ result = "ok"

\* Where the entries that the next node must know are: in the table of a node
\* that will export it, among the entries on their way to the file, and
\* otherwise in the file.
KeptSafe ==
  /\ node \in {"up", "exporting"} /\ Exports => kept \subseteq table
  /\ node = "writing" => kept \subseteq Survives(export)
  /\ node \in Booting \cup {"down", "stopping"} => kept \subseteq Saved
  /\ node \in {"up", "exporting"} /\ ~Exports => kept \subseteq Saved

SnapTypes == TypeOK /\ IsFiniteSet(table)

SnapInv == DecoderInv /\ SnapTypes /\ Phases /\ KeptSafe

\* The steps of decode stay on one input and never leave decode.
LEMMA DecodeStays ==
  ASSUME Decode
  PROVE  source' = source /\ data' = data /\ pc' # "idle" /\ pc # "done"
BY DEF Decode, CheckSize, ReadMagic, ReadVersion, ReadCount, ReadPeer, ReadAddr, TakePeer,
       NextRead, Truncated, Fail, Finish, input

\* A file that decode refuses keeps nothing.
LEMMA IntactReads ==
  ASSUME DecoderInv, pc = "done", data = file, NEW e \in Saved
  PROVE  result = "ok" /\ entries = source /\ e \in Range(entries)
<1>1. /\ file = encode(source) /\ Fits(source) /\ e \in Range(source)
      /\ Len(encode(source)) <= MAX_DHT_EXPORT_BYTES
  BY DEF Saved, Survives
<1>2. encode(source) \in Seq(Byte) /\ Len(encode(source)) \in Nat
  BY EncodeSeq DEF DecoderInv
<1>3. IsPrefix(encode(source), encode(source))
  <2> DEFINE x == encode(source)
  <2> HIDE DEF x
  <2>1. Len(x) <= Len(x)
    BY <1>2 DEF x
  <2>2. IsPrefix(x, x)
    BY <2>1 DEF IsPrefix
  <2>. QED  BY <2>2 DEF x
<1>4. Intact
  BY <1>1, <1>3 DEF Intact
<1>. QED  BY <1>1, <1>4 DEF DecoderInv, Follows

\* A sequence has finitely many elements.
LEMMA RangeFinite ==
  ASSUME NEW S, NEW s \in Seq(S)
  PROVE  IsFiniteSet(Range(s)) /\ Range(s) \subseteq S
<1>1. Len(s) \in Nat /\ DOMAIN s = 1 .. Len(s) /\ \A i \in DOMAIN s : s[i] \in S
  BY LenProperties, ElementOfSeq
<1>2. s \in Surjection(DOMAIN s, Range(s))
  <2>1. s \in [DOMAIN s -> Range(s)]
    BY <1>1 DEF Range
  <2>. QED  BY <2>1 DEF Surjection, Range
<1>3. IsFiniteSet(1 .. Len(s))
  BY <1>1, FS_Interval
<1>4. IsFiniteSet(Range(s))
  BY <1>1, <1>2, <1>3, FS_Surjection
<1>. QED  BY <1>1, <1>4 DEF Range

\* An export lists entries of the routing table.
LEMMA ExportSeq ==
  ASSUME IsFiniteSet(table), table \subseteq Entries, NEW s \in SetToSeqs(table)
  PROVE  s \in Seq(Entries)
<1>1. Cardinality(table) \in Nat
  BY FS_CardinalityType
<1>2. s \in [1 .. Cardinality(table) -> table]
  BY DEF SetToSeqs
<1> DEFINE n == Cardinality(table)
<1> HIDE DEF n
<1>3. n \in Nat /\ s \in [1 .. n -> Entries]
  BY <1>1, <1>2 DEF n
<1>. QED  BY <1>3

\* The table's entries are entries of the codec.
LEMMA EntriesSeq ==
  ASSUME NEW s \in Seq(Entries)
  PROVE  s \in Seq(Entry)
BY BoundsAssumption, SeqMonotonic

\* A damaged file is still a sequence of bytes.
LEMMA DamagedSeq ==
  ASSUME NEW f \in Seq(Byte), NEW g \in Damaged(f)
  PROVE  g \in Seq(Byte)
<1>0. Len(f) \in Nat
  BY LenProperties
<1>1. CASE g = f
  BY <1>1
<1>2. ASSUME NEW n \in 0 .. Len(f) - 1, g = SubSeq(f, 1, n)
      PROVE  g \in Seq(Byte)
  <2>1. \A i \in 1 .. n : f[i] \in Byte
    BY <1>0, ElementOfSeq
  <2>. QED  BY <1>0, <1>2, <2>1
<1>3. ASSUME NEW i \in DOMAIN f, NEW b \in Byte, g = [f EXCEPT ![i] = b]
      PROVE  g \in Seq(Byte)
  BY <1>3
<1>4. ASSUME NEW b \in Byte, g = Append(f, b)
      PROVE  g \in Seq(Byte)
  BY <1>4
<1>. QED  BY <1>1, <1>2, <1>3, <1>4 DEF Damaged

\* The invariant holds at the first boot.
LEMMA SnapInit == Init => SnapInv
<1> SUFFICES ASSUME Init PROVE SnapInv
  OBVIOUS
<1>1. DecoderInv
  BY DecoderInitKeeps DEF Init
<1>2. SnapTypes
  <2>1. 0 \in 0 .. MaxBoots /\ 0 \in 0 .. MaxFaults
    BY BoundsAssumption
  <2>2. <<>> \in Seq(Entries)
    OBVIOUS
  <2>. QED  BY <1>1, <2>1, <2>2, FS_EmptySet DEF SnapTypes, TypeOK, Init, DecoderInv
<1>3. Phases /\ KeptSafe
  BY DEF Init, DecoderInit, Phases, KeptSafe
<1>. QED  BY <1>1, <1>2, <1>3 DEF SnapInv

\* The decoder's invariant.
LEMMA SnapDecoder ==
  ASSUME SnapInv, [Next]_vars
  PROVE  DecoderInv'
<1>0. DecoderInv /\ (pc = "idle" <=> node \notin {"decoding", "importing"})
      /\ (file # Absent => file \in Seq(Byte)) /\ export \in Seq(Entries)
  BY DEF SnapInv, Phases, SnapTypes, TypeOK
<1>1. CASE UNCHANGED decoder
  BY <1>0, <1>1, DecoderStutters
<1>2. CASE DecodeStep
  BY <1>0, <1>2, DecodeKeeps DEF DecodeStep
<1>3. CASE Leave
  BY <1>0, <1>3, LeaveKeeps
<1>4. CASE ReadFile
  <2>1. CASE file # Absent /\ Enter(file)
    BY <1>0, <1>4, <2>1, EnterKeeps DEF ReadFile
  <2>. QED  BY <1>1, <1>4, <2>1 DEF ReadFile
<1>5. CASE Write
  <2>1. pc = "idle" /\ source' \in Seq(Entry)
    BY <1>0, <1>5, EntriesSeq DEF Write
  <2>. QED  BY <1>0, <1>5, <2>1, SourceKeeps DEF Write
<1>6. UNCHANGED decoder \/ DecodeStep \/ Leave \/ ReadFile \/ Write
  <2>1. CASE UNCHANGED vars
    BY <2>1 DEF vars
  <2>2. CASE Next
    BY <2>2 DEF Next, NodeStep, Start, ReadFails, Decoded, Import, Terminate, CleanupExits,
               Export, ExportRefused, WriteFails, StopNode, Learn, Forget, Panic, Kill, Damage
  <2>. QED  BY <2>1, <2>2
<1>. QED  BY <1>1, <1>2, <1>3, <1>4, <1>5, <1>6

\* The types; the table stays finite.
LEMMA SnapTypesKeep ==
  ASSUME SnapInv, [Next]_vars
  PROVE  SnapTypes'
<1>0. DecoderTypeOK' /\ entries \in Seq(Entry) /\ source \in Seq(Entry)
  BY SnapDecoder DEF DecoderInv, SnapInv, DecoderTypeOK
<1> DEFINE Node == {"down", "up"} \cup Booting \cup Terminating
<1>1. /\ node \in Node /\ config \in Config /\ loop \in {"running", "ended"}
      /\ table \subseteq Entries /\ (loop = "ended" => table = {}) /\ IsFiniteSet(table)
      /\ export \in Seq(Entries) /\ (file # Absent => file \in Seq(Byte))
      /\ boots \in 0 .. MaxBoots /\ faults \in 0 .. MaxFaults /\ kept \subseteq Entries
  BY DEF SnapInv, SnapTypes, TypeOK
<1>2. node' \in Node
  <2>1. CASE UNCHANGED node
    BY <1>1, <2>1
  <2>2. CASE node' \in Node
    BY <2>2
  <2>3. UNCHANGED node \/ node' \in Node
    <3>1. CASE UNCHANGED vars
      BY <3>1 DEF vars
    <3>2. CASE Next
      BY <3>2 DEF Next, NodeStep, Start, ReadFile, ReadFails, DecodeStep, Decoded, Import,
         Terminate, CleanupExits, Export, ExportRefused, Write, WriteFails, StopNode, Learn,
         Forget, Panic, Kill, Damage,
         Booting, Terminating
    <3>. QED  BY <3>1, <3>2
  <2>. QED  BY <2>1, <2>2, <2>3
<1>3. config' \in Config /\ loop' \in {"running", "ended"}
  <2>1. CASE UNCHANGED vars
    BY <1>1, <2>1 DEF vars
  <2>2. CASE Next
    BY <1>1, <2>2 DEF Next, NodeStep, Start, ReadFile, ReadFails, DecodeStep, Decoded, Import,
       Terminate, CleanupExits, Export, ExportRefused, Write, WriteFails, StopNode, Learn,
       Forget, Panic, Kill, Damage
  <2>. QED  BY <2>1, <2>2
<1>4. boots' \in 0 .. MaxBoots /\ faults' \in 0 .. MaxFaults
  <2>1. boots' = boots \/ (boots < MaxBoots /\ boots' = boots + 1)
    <3>1. CASE UNCHANGED vars
      BY <3>1 DEF vars
    <3>2. CASE Next
      BY <3>2 DEF Next, NodeStep, Start, ReadFile, ReadFails, DecodeStep, Decoded, Import,
         Terminate, CleanupExits, Export, ExportRefused, Write, WriteFails, StopNode, Learn,
         Forget, Panic, Kill, Damage
    <3>. QED  BY <3>1, <3>2
  <2>2. faults' = faults \/ (faults < MaxFaults /\ faults' = faults + 1)
    <3>1. CASE UNCHANGED vars
      BY <3>1 DEF vars
    <3>2. CASE Next
      BY <3>2 DEF Next, NodeStep, Start, ReadFile, ReadFails, DecodeStep, Decoded, Import,
         Terminate, CleanupExits, Export, ExportRefused, Write, WriteFails, StopNode, Learn,
         Forget, Panic, Kill, Damage,
         Fault
    <3>. QED  BY <3>1, <3>2
  <2>. QED  BY <1>1, <2>1, <2>2, BoundsAssumption
<1>5. table' \subseteq Entries /\ (loop' = "ended" => table' = {}) /\ IsFiniteSet(table')
  <2>1. CASE Import
    <3>1. IsFiniteSet(Range(entries))
      BY <1>0, RangeFinite
    <3>2. IsFiniteSet(Range(entries) \cap Entries)
      BY <3>1, FS_Subset
    <3>3. IsFiniteSet(table \cup (Range(entries) \cap Entries))
      BY <1>1, <3>2, FS_Union
    <3>4. loop' = loop /\ (table' = table \/ (loop = "running"
                            /\ table' = table \cup (Range(entries) \cap Entries)))
      BY <2>1 DEF Import
    <3>. QED  BY <1>1, <3>3, <3>4
  <2>2. ASSUME NEW e \in Entries, Learn(e) \/ Forget(e)
        PROVE  table' \subseteq Entries /\ (loop' = "ended" => table' = {}) /\ IsFiniteSet(table')
    <3>1. IsFiniteSet(table \cup {e}) /\ IsFiniteSet(table \ {e})
      BY <1>1, FS_AddElement, FS_RemoveElement
    <3>2. loop' = "running" /\ (table' = table \cup {e} \/ table' = table \ {e})
      BY <2>2 DEF Learn, Forget, Observes
    <3>. QED  BY <1>1, <3>1, <3>2
  <2>3. \/ Import
        \/ \E e \in Entries : Learn(e) \/ Forget(e)
        \/ table' = table /\ (loop' = loop \/ loop' = "running")
        \/ table' = {}
    <3>1. CASE UNCHANGED vars
      BY <3>1 DEF vars
    <3>2. CASE Next
      BY <3>2 DEF Next, NodeStep, Start, ReadFile, ReadFails, DecodeStep, Decoded,
         Terminate, CleanupExits, Export, ExportRefused, Write, WriteFails, StopNode, Panic,
         Kill, Damage
    <3>. QED  BY <3>1, <3>2
  <2>. QED  BY <1>1, <2>1, <2>2, <2>3, FS_EmptySet
<1>6. export' \in Seq(Entries)
  <2>1. export' = export \/ export' = <<>> \/ export' \in SetToSeqs(table)
    <3>1. CASE UNCHANGED vars
      BY <3>1 DEF vars
    <3>2. CASE Next
      BY <3>2 DEF Next, NodeStep, Start, ReadFile, ReadFails, DecodeStep, Decoded, Import,
         Terminate, CleanupExits, Export, ExportRefused, Write, WriteFails, StopNode, Learn,
         Forget, Panic, Kill, Damage
    <3>. QED  BY <3>1, <3>2
  <2>2. IsFiniteSet(table) /\ table \subseteq Entries
    BY <1>1
  <2>3. \A s \in SetToSeqs(table) : s \in Seq(Entries)
    BY ONLY <2>2, ExportSeq
  <2>4. export' \in SetToSeqs(table) => export' \in Seq(Entries)
    BY <2>3
  <2>5. <<>> \in Seq(Entries)
    OBVIOUS
  <2>6. export \in Seq(Entries)
    BY <1>1
  <2>. QED  BY ONLY <2>1, <2>4, <2>5, <2>6
<1>7. file' # Absent => file' \in Seq(Byte)
  <2>1. CASE Write
    <3>1. export \in Seq(Entry)
      BY <1>1, EntriesSeq
    <3>. QED  BY <2>1, <3>1, EncodeSeq DEF Write
  <2>2. CASE Damage
    BY <1>1, <2>2, DamagedSeq DEF Damage
  <2>3. Write \/ Damage \/ file' = file
    <3>1. CASE UNCHANGED vars
      BY <3>1 DEF vars
    <3>2. CASE Next
      BY <3>2 DEF Next, NodeStep, Start, ReadFile, ReadFails, DecodeStep, Decoded, Import,
         Terminate, CleanupExits, Export, ExportRefused, WriteFails, StopNode, Learn, Forget,
         Panic, Kill
    <3>. QED  BY <3>1, <3>2
  <2>. QED  BY <1>1, <2>1, <2>2, <2>3
<1>8. kept' \subseteq Entries
  <2>1. kept' \subseteq kept \/ kept' \subseteq table
    <3>1. CASE UNCHANGED vars
      BY <3>1 DEF vars
    <3>2. CASE Next
      BY <3>2 DEF Next, NodeStep, Start, ReadFile, ReadFails, DecodeStep, Decoded, Import,
         Terminate, CleanupExits, Export, ExportRefused, Write, WriteFails, StopNode, Learn,
         Forget, Panic, Kill, Damage
    <3>. QED  BY <3>1, <3>2
  <2>. QED  BY <1>1, <2>1
<1>. QED  BY <1>0, <1>2, <1>3, <1>4, <1>5, <1>6, <1>7, <1>8 DEF SnapTypes, TypeOK

\* Where the saving and restoring code stands fits the decoder.
LEMMA SnapPhases ==
  ASSUME SnapInv, [Next]_vars
  PROVE  Phases'
<1>0. Phases
  BY DEF SnapInv
<1>1. CASE UNCHANGED <<decoder, node, file>>
  BY <1>0, <1>1 DEF Phases, decoder, input
<1>2. CASE node \notin {"decoding", "importing"} /\ node' \notin {"decoding", "importing"}
           /\ UNCHANGED pc
  BY <1>0, <1>2 DEF Phases
<1>3. CASE Leave /\ node' \notin {"decoding", "importing"}
  BY <1>3 DEF Phases, Leave
<1>4. CASE ReadFile
  <2>1. CASE file # Absent /\ node' = "decoding" /\ Enter(file)
    BY <1>4, <2>1 DEF ReadFile, Enter, Phases
  <2>. QED  BY <1>2, <1>4, <2>1 DEF ReadFile, decoder, input
<1>5. CASE DecodeStep
  <2>1. data' = data /\ pc' # "idle" /\ node' = node /\ file' = file /\ node = "decoding"
    BY <1>5, DecodeStays DEF DecodeStep
  <2>. QED  BY <1>0, <2>1 DEF Phases
<1>6. CASE Decoded
  <2>1. CASE result = "ok" /\ node' = "importing" /\ UNCHANGED decoder
    <3>1. pc' = pc /\ data' = data /\ result' = result /\ file' = file
          /\ node = "decoding" /\ pc = "done"
      BY <1>6, <2>1 DEF Decoded, decoder, input
    <3>. QED  BY <1>0, <2>1, <3>1 DEF Phases
  <2>. QED  BY <1>3, <1>6, <2>1 DEF Decoded
<1>7. CASE Import \/ Kill
  BY <1>3, <1>7 DEF Import, Kill
<1>8. CASE Start(config') \/ ReadFails \/ Terminate \/ CleanupExits \/ Export \/ ExportRefused
             \/ Write \/ WriteFails \/ StopNode \/ Damage
  BY <1>2, <1>8 DEF Start, ReadFails, Terminate, CleanupExits, Export, ExportRefused, Write,
     WriteFails, StopNode, Damage,
     decoder, input
<1>9. CASE Panic \/ \E e \in Entries : Learn(e) \/ Forget(e)
  BY <1>1, <1>9 DEF Panic, Learn, Forget
<1>. QED
  <2>1. CASE UNCHANGED vars
    BY <1>1, <2>1 DEF vars
  <2>2. \A c : Start(c) => Start(config')
    BY DEF Start
  <2>3. CASE Next
    BY <1>4, <1>5, <1>6, <1>7, <1>8, <1>9, <2>2, <2>3 DEF Next, NodeStep
  <2>. QED  BY <2>1, <2>3

\* What the next node must know is where it can find it.
LEMMA SnapKept ==
  ASSUME SnapInv, [Next]_vars
  PROVE  KeptSafe'
<1> DEFINE S == Saved
           X == Exports
           Home == Booting \cup {"down", "stopping"}
<1>0. /\ DecoderInv /\ Phases /\ kept \subseteq Entries /\ export \in Seq(Entries)
      /\ node \in {"up", "exporting"} /\ X => kept \subseteq table
      /\ node = "writing" => kept \subseteq Survives(export)
      /\ node \in Home => kept \subseteq S
      /\ node \in {"up", "exporting"} /\ ~X => kept \subseteq S
  BY DEF SnapInv, SnapTypes, TypeOK, KeptSafe
<1>1. file' = file /\ source' = source => Saved' = S
  BY DEF Saved, Survives, Fits
<1>2. config' = config /\ loop' = loop => (Exports' <=> X)
  BY DEF Exports
<1>3. UNCHANGED decoder \/ Leave \/ Decode => source' = source
  BY DecodeStays DEF decoder, input, Leave
<1> HIDE DEF S, X
\* Steps that end where the file is what counts.
<1>4. CASE kept' \subseteq S /\ Saved' = S /\ (node' \in {"up", "exporting"} => ~Exports')
           /\ node' # "writing"
  BY <1>4 DEF KeptSafe
<1>5. CASE kept' \subseteq table' /\ node' \in {"up", "exporting"} /\ Exports'
  BY <1>5 DEF KeptSafe, Booting
<1>6. CASE UNCHANGED vars
  <2>1. /\ node' = node /\ kept' = kept /\ table' = table /\ file' = file /\ source' = source
        /\ export' = export /\ config' = config /\ loop' = loop
    BY <1>6 DEF vars, decoder, input
  <2>. QED  BY <1>0, <1>1, <1>2, <2>1 DEF KeptSafe, Survives, Fits
<1>7. ASSUME NEW c \in Config, Start(c)
      PROVE  KeptSafe'
  <2>1. kept \subseteq S /\ kept' = kept /\ Saved' = S /\ config' = c
        /\ node' = IF c.path THEN "reading" ELSE "up"
    BY <1>0, <1>1, <1>3, <1>7 DEF Start
  <2>2. node' \in {"up", "exporting"} => ~Exports'
    BY <2>1 DEF Exports
  <2>. QED  BY <1>4, <2>1, <2>2
<1>8. CASE ReadFile
  <2>1. kept \subseteq S /\ kept' = kept /\ Saved' = S /\ (Exports' <=> X) /\ table' = table
    <3>1. node \in Home /\ source' = source
      BY <1>3, <1>8 DEF ReadFile, Booting, Enter
    <3>. QED  BY <1>0, <1>1, <1>2, <1>8, <3>1 DEF ReadFile
  <2>2. CASE file = Absent /\ node' = "up"
    <3>1. S = {}
      BY <2>2 DEF S, Saved
    <3>. QED  BY <2>1, <3>1 DEF KeptSafe
  <2>3. CASE node' = "decoding"
    BY <1>4, <2>1, <2>3
  <2>. QED  BY <1>8, <2>2, <2>3 DEF ReadFile
<1>9. CASE ReadFails
  <2>1. kept \subseteq S /\ kept' = kept \cap table /\ Saved' = S /\ table' = table /\ node' = "up"
    <3>1. node \in Home
      BY <1>9 DEF ReadFails, Booting
    <3>. QED  BY <1>0, <1>1, <1>3, <1>9, <3>1 DEF ReadFails
  <2>. QED  BY <1>4, <1>5, <2>1
<1>10. CASE DecodeStep
  <2>1. kept \subseteq S /\ kept' = kept /\ Saved' = S /\ node' = "decoding"
    <3>1. node \in Home
      BY <1>10 DEF DecodeStep, Booting
    <3>. QED  BY <1>0, <1>1, <1>3, <1>10, <3>1 DEF DecodeStep
  <2>. QED  BY <1>4, <2>1
<1>11. CASE Decoded
  <2>1. kept \subseteq S /\ kept' = kept /\ Saved' = S /\ pc = "done" /\ data = file
    <3>1. node \in Home /\ source' = source
      BY <1>3, <1>11 DEF Decoded, Booting
    <3>. QED  BY <1>0, <1>1, <1>11, <3>1 DEF Decoded, Phases
  <2>2. CASE result # "ok" /\ node' = "up"
    <3>1. S = {}
      BY <1>0, <2>1, <2>2, IntactReads DEF S
    <3>. QED  BY <2>1, <3>1 DEF KeptSafe
  <2>3. CASE node' = "importing"
    BY <1>4, <2>1, <2>3
  <2>. QED  BY <1>11, <2>2, <2>3 DEF Decoded
<1>12. CASE Import
  <2>1. kept \subseteq S /\ kept' = kept /\ Saved' = S /\ (Exports' <=> X) /\ node' = "up"
        /\ pc = "done" /\ data = file
    <3>1. node \in Home /\ source' = source
      BY <1>3, <1>12 DEF Import, Booting
    <3>. QED  BY <1>0, <1>1, <1>2, <1>12, <3>1 DEF Import, Phases
  <2>2. \A e \in S : e \in Range(entries)
    BY <1>0, <2>1, IntactReads DEF S
  <2>3. X => table' = table \cup (Range(entries) \cap Entries)
    BY <1>12 DEF Import, Exports, X
  <2>4. X => kept' \subseteq table'
    BY <1>0, <2>1, <2>2, <2>3
  <2>. QED  BY <1>4, <1>5, <2>1, <2>4
<1>13. CASE Terminate
  <2>1. /\ Saved' = S /\ (Exports' <=> X) /\ table' = table /\ node = "up"
        /\ node' = IF config.path THEN "exporting" ELSE "stopping"
        /\ kept' = IF X THEN table ELSE kept
    BY <1>1, <1>2, <1>3, <1>13 DEF Terminate, X
  <2>2. X => node' = "exporting"
    BY <2>1 DEF X, Exports
  <2>. QED  BY <1>0, <1>4, <1>5, <2>1, <2>2
<1>14. CASE Export
  <2>1. CASE X /\ node' = "writing" /\ kept' = kept \cap Survives(export')
    BY <2>1 DEF KeptSafe, Booting, Survives, Fits
  <2>2. CASE ~X /\ node' = "stopping" /\ kept' = kept
    BY <1>0, <1>1, <1>3, <1>4, <1>14, <2>2 DEF Export
  <2>. QED  BY <1>14, <2>1, <2>2 DEF Export, X
<1>15. CASE Write
  <2>1. export \in Seq(Entry)
    BY <1>0, EntriesSeq
  <2>2. encode(export) # Absent
    BY <2>1, EncodeSeq, BoundsAssumption
  <2>3. file' = encode(export) /\ source' = export /\ kept' = kept /\ node' = "stopping"
        /\ node = "writing"
    BY <1>15 DEF Write
  <2>4. Saved' = Survives(export)
    BY <2>2, <2>3 DEF Saved, Survives, Fits
  <2>. QED  BY <1>0, <2>3, <2>4 DEF KeptSafe
<1>16. CASE CleanupExits \/ ExportRefused \/ WriteFails \/ Kill
  <2>1. kept' = kept \cap S /\ Saved' = S /\ node' \in {"down", "stopping"}
    BY <1>1, <1>3, <1>16 DEF CleanupExits, ExportRefused, WriteFails, Kill, S
  <2>. QED  BY <1>4, <2>1
<1>17. CASE StopNode
  <2>1. kept \subseteq S /\ kept' = kept /\ Saved' = S /\ node' = "down"
    BY <1>0, <1>1, <1>3, <1>17 DEF StopNode
  <2>. QED  BY <1>4, <2>1
<1>18. ASSUME NEW e \in Entries, Learn(e) \/ Forget(e)
       PROVE  KeptSafe'
  <2>1. /\ Saved' = S /\ (Exports' <=> X) /\ node' = node /\ node \in {"up", "exporting"}
        /\ \/ table' = table \cup {e} /\ kept' = kept
           \/ table' = table \ {e} /\ kept' = kept \ {e}
    BY <1>1, <1>2, <1>3, <1>18 DEF Learn, Forget, Observes
  <2>. QED  BY <1>0, <1>4, <1>5, <2>1
<1>19. CASE Panic
  <2>1. kept' = kept \cap S /\ Saved' = S /\ node' = node /\ ~Exports' /\ export' = export
    BY <1>1, <1>3, <1>19 DEF Panic, S, Exports
  <2>2. CASE node = "writing"
    BY <1>0, <2>1, <2>2 DEF KeptSafe, Booting, Survives, Fits
  <2>. QED  BY <1>4, <2>1, <2>2
<1>20. CASE Damage
  BY <1>20 DEF Damage, KeptSafe
<1>. QED
  BY <1>6, <1>7, <1>8, <1>9, <1>10, <1>11, <1>12, <1>13, <1>14, <1>15, <1>16, <1>17, <1>18,
     <1>19, <1>20 DEF Next, NodeStep

\* Every step keeps the invariant.
LEMMA SnapStep == SnapInv /\ [Next]_vars => SnapInv'
BY SnapDecoder, SnapTypesKeep, SnapPhases, SnapKept DEF SnapInv

\* The invariant holds throughout.
LEMMA SnapAlways == Spec => []SnapInv
BY SnapInit, SnapStep, PTL DEF Spec

\* dht_state.rs for every table, every width of a byte and every input that a
\* crash or damage leaves: decode gives back what encode was given, and accepts
\* nothing that encode does not write.
THEOREM CodecIsExact == Spec => []CodecExact
<1>1. SnapInv => CodecExact
  BY DecoderExact DEF SnapInv, SnapTypes, CodecExact
<1>. QED  BY <1>1, SnapAlways, PTL

\* node.ex: a node that is up with Kademlia and a path knows what the last
\* predecessor that saved its table knew when it began to terminate, over any
\* number of restarts, kills, panics, refused exports, exits of cleanup_node and
\* failed writes in between: each of these can keep a node from saving its own
\* table, and none of them takes from the file.
THEOREM TableSurvivesRestart == Spec => []RestartKeepsTable
<1>1. SnapInv => RestartKeepsTable
  BY DEF SnapInv, KeptSafe, RestartKeepsTable, Exports
<1>. QED  BY <1>1, SnapAlways, PTL

-----------------------------------------------------------------------------
(* The way of an event to the subscribers.                                 *)

Tags == {c[1] : c \in Clauses}

\* What subscribers can be told: a type and a peer.
Told1 == Tags \X (Peers \cup {nil})

\* Everything the swarm can report.
Reports ==
  Protocol
    \cup [kind : {"MdnsDiscovered"}, list : Seq([peer : Peers, addrs : Seq(Addrs)])]
    \cup [kind : {"ConnectionEstablished"}, peer : Peers, num : {1},
          endpoint : {"dialer", "listener"}]
    \cup [kind : {"ConnectionClosed"}, peer : Peers, num : {0}]
    \cup [kind : {"OutgoingConnectionError", "Response", "Request"}, peer : Peers]
    \cup [kind : {"MdnsExpired"}]

\* The messages that an event becomes.
Messages(e) ==
  CASE e.kind = "MdnsDiscovered" -> send_peers_discovered(e.list)
    [] e.kind = "MdnsExpired"    -> <<>>
    [] e.kind = "Response"       -> <<send_outbound_response(e)>>
    [] e.kind = "Request"        -> <<send_inbound_request(e)>>
    [] OTHER                     -> <<handle_swarm_event(e)>>

\* from_raw takes the term, and its struct tells o.
Term(t, o) == from_raw(t) = "ok" /\ t[1] \in Tags /\ Tells(t) = o /\ o \in Told1

\* handle_info takes every term of the message m, and they tell os.
Carries(m, os) ==
  /\ m = NOOP \/ m[1] = "libp2p_event"
  /\ os \in Seq(Told1)
  /\ Len(Unbatched(m)) = Len(os)
  /\ Unbatched(m) \in Seq(Range(Unbatched(m)))
  /\ \A i \in 1 .. Len(os) : Term(Unbatched(m)[i], os[i])

\* No two clauses of from_raw have the same tag.
LEMMA ClauseUnique ==
  \A c, d \in Clauses : c[1] = d[1] => c = d
BY DEF Clauses

\* No clause of from_raw is for a batch: those are split before.
LEMMA ClauseFacts ==
  \A c \in Clauses : c[3] \in Nat /\ c[1] # "peers_discovered"
BY DEF Clauses

\* A term with a peer, or nil where that is allowed, in its place.
LEMMA PeerTermTells ==
  ASSUME NEW c \in Clauses, NEW t, t[1] = c[1], Len(t) = c[2],
         c[3] # 0, NEW p \in Peers \cup {nil}, t[c[3]] = p, p = nil => c[1] \in NilAllowed
  PROVE  Term(t, <<c[1], p>>) /\ t[1] # "peers_discovered"
<1>2. \A d \in Clauses : d[1] = c[1] => d = c
  BY ClauseUnique
<1>4. from_raw(t) = "ok"
  <2>1. \E d \in Clauses : Matches(d, t)
    BY DEF Matches
  <2>2. ~\E d \in Clauses : Matches(d, t) /\ Raises(d, t)
    <3> SUFFICES ASSUME NEW d \in Clauses, Matches(d, t), Raises(d, t) PROVE FALSE
      OBVIOUS
    <3>1. d = c
      BY <1>2 DEF Matches
    <3>. QED  BY <3>1, EventAssumption DEF Raises
  <2>. QED  BY <2>1, <2>2 DEF from_raw
<1>5. (CHOOSE d \in Clauses : d[1] = t[1]) = c
  BY <1>2
<1>6. Tells(t) = <<c[1], p>>
  BY <1>5 DEF Tells, event_type_for
<1>7. t[1] \in Tags /\ <<c[1], p>> \in Told1
  BY DEF Tags, Told1
<1>. QED  BY <1>4, <1>6, <1>7, ClauseFacts DEF Term

\* A term without a peer.
LEMMA PlainTermTells ==
  ASSUME NEW c \in Clauses, NEW t, t[1] = c[1], Len(t) = c[2],
         c[3] = 0
  PROVE  Term(t, <<c[1], nil>>) /\ t[1] # "peers_discovered"
<1>2. \A d \in Clauses : d[1] = c[1] => d = c
  BY ClauseUnique
<1>4. from_raw(t) = "ok"
  <2>1. \E d \in Clauses : Matches(d, t)
    BY DEF Matches
  <2>2. ~\E d \in Clauses : Matches(d, t) /\ Raises(d, t)
    <3> SUFFICES ASSUME NEW d \in Clauses, Matches(d, t), Raises(d, t) PROVE FALSE
      OBVIOUS
    <3>1. d = c
      BY <1>2 DEF Matches
    <3>. QED  BY <3>1 DEF Raises
  <2>. QED  BY <2>1, <2>2 DEF from_raw
<1>5. (CHOOSE d \in Clauses : d[1] = t[1]) = c
  BY <1>2
<1>6. Tells(t) = <<c[1], nil>>
  BY <1>5 DEF Tells, event_type_for
<1>7. t[1] \in Tags /\ <<c[1], nil>> \in Told1
  BY DEF Tags, Told1
<1>. QED  BY <1>4, <1>6, <1>7, ClauseFacts DEF Term

\* A message of one term.
LEMMA OneCarried ==
  ASSUME NEW t, NEW o, Term(t, o), t[1] # "peers_discovered"
  PROVE  Carries(Event(t), <<o>>)
<1> DEFINE m == <<"libp2p_event", t>>
<1>1. m # NOOP /\ m[1] = "libp2p_event" /\ m[2] = t
  BY DEF NOOP
<1> HIDE DEF m
<1>2. Unbatched(m) = <<t>>
  BY <1>1 DEF Unbatched
<1>3. <<t>> \in Seq(Range(<<t>>)) /\ Len(<<t>>) = 1 /\ Len(<<o>>) = 1 /\ <<o>> \in Seq(Told1)
  BY DEF Range, Term
<1>4. \A i \in 1 .. 1 : Term(<<t>>[i], <<o>>[i])
  OBVIOUS
<1>. QED  BY <1>1, <1>2, <1>3, <1>4 DEF Carries, Event, m

\* A noop carries nothing.
LEMMA NoopCarried == Carries(NOOP, <<>>)
<1>1. Unbatched(NOOP) = <<>>
  BY DEF Unbatched
<1>2. <<>> \in Seq(Range(<<>>)) /\ <<>> \in Seq(Told1) /\ Len(<<>>) = 0
  OBVIOUS
<1>3. \A i \in 1 .. 0 : Term(<<>>[i], <<>>[i])
  OBVIOUS
<1>. QED  BY <1>1, <1>2, <1>3 DEF Carries

Found == [peer : Peers, addrs : Seq(Addrs)]

\* What a list of peers tells.
Finds(list) == [i \in DOMAIN list |-> <<"peer_discovered", list[i].peer>>]

\* The term for a discovered peer is accepted and tells of that peer.
LEMMA FoundTells ==
  ASSUME NEW r \in Found
  PROVE  Term(Peer(r), <<"peer_discovered", r.peer>>) /\ Peer(r)[1] # "peers_discovered"
<1> DEFINE t == <<"peer_discovered", r.peer, r.addrs>>
<1>1. t[1] = "peer_discovered" /\ Len(t) = 3 /\ t[2] = r.peer
  OBVIOUS
<1>2. r.peer \in Peers /\ r.peer # nil
  BY EventAssumption DEF Found
<1>3. <<"peer_discovered", 3, 2>> \in Clauses
  BY DEF Clauses
<1> DEFINE c == <<"peer_discovered", 3, 2>>
<1>4. c[1] = "peer_discovered" /\ c[2] = 3 /\ c[3] = 2 /\ c \in Clauses
  BY <1>3
<1> HIDE DEF t, c
<1>5. t[1] = c[1] /\ Len(t) = c[2] /\ c[3] # 0 /\ t[c[3]] = r.peer
  BY <1>1, <1>4
<1>6. Term(t, <<c[1], r.peer>>) /\ t[1] # "peers_discovered"
  BY <1>2, <1>4, <1>5, PeerTermTells
<1>. QED  BY <1>4, <1>6 DEF t, Peer

\* What a discovery tells: one peer_discovered per registration, in order.
LEMMA FindsFacts ==
  ASSUME NEW list \in Seq(Found)
  PROVE  /\ Len(list) \in Nat /\ DOMAIN list = 1 .. Len(list)
         /\ \A i \in 1 .. Len(list) : list[i] \in Found
         /\ Finds(list) \in Seq(Told1) /\ Len(Finds(list)) = Len(list)
         /\ \A i \in 1 .. Len(list) : Finds(list)[i] = <<"peer_discovered", list[i].peer>>
<1>1. /\ Len(list) \in Nat /\ DOMAIN list = 1 .. Len(list)
      /\ \A i \in 1 .. Len(list) : list[i] \in Found
  BY LenProperties, ElementOfSeq
<1>2. \A i \in 1 .. Len(list) : <<"peer_discovered", list[i].peer>> \in Told1
  BY <1>1, FoundTells DEF Term
<1>3. Finds(list) \in [1 .. Len(list) -> Told1]
  BY <1>1, <1>2 DEF Finds
<1>4. Finds(list) \in Seq(Told1) /\ Len(Finds(list)) = Len(list)
  BY <1>1, <1>3, FunSeq
<1>5. \A i \in 1 .. Len(list) : Finds(list)[i] = <<"peer_discovered", list[i].peer>>
  BY <1>1 DEF Finds
<1>. QED  BY <1>1, <1>4, <1>5

\* A discovery tells of every peer of its list, in their order.
LEMMA DiscoveryCarries ==
  ASSUME NEW list \in Seq(Found)
  PROVE  Carries(Discovery(list), Finds(list))
<1>0. /\ Len(list) \in Nat /\ DOMAIN list = 1 .. Len(list)
      /\ \A i \in 1 .. Len(list) : list[i] \in Found
      /\ Finds(list) \in Seq(Told1) /\ Len(Finds(list)) = Len(list)
      /\ \A i \in 1 .. Len(list) : Finds(list)[i] = <<"peer_discovered", list[i].peer>>
  BY FindsFacts
<1>1. CASE Len(list) = 1
  <2>1. Discovery(list) = Event(Peer(list[1]))
    BY <1>1 DEF Discovery
  <2> DEFINE o == <<"peer_discovered", list[1].peer>>
             t == Peer(list[1])
             s == Finds(list)
  <2>2. Term(t, o) /\ t[1] # "peers_discovered"
    BY <1>0, <1>1, FoundTells
  <2>3. s \in Seq(Told1) /\ Len(s) = 1 /\ s[1] = o
    BY <1>0, <1>1
  <2> HIDE DEF o, t, s
  <2>4. s = <<o>>
    BY <2>3
  <2>5. Carries(Event(t), <<o>>)
    BY <2>2, OneCarried
  <2>. QED  BY <2>1, <2>4, <2>5 DEF t, s
<1>2. CASE Len(list) # 1
  <2> DEFINE ts == [i \in DOMAIN list |-> Peer(list[i])]
             m == <<"libp2p_event", <<"peers_discovered", ts>>>>
  <2>1. Discovery(list) = m
    BY <1>2 DEF Discovery, Event
  <2>2. m # NOOP /\ m[1] = "libp2p_event" /\ m[2][1] = "peers_discovered" /\ m[2][2] = ts
    BY DEF NOOP
  <2>3. ts \in [1 .. Len(list) -> Range(ts)]
    BY <1>0 DEF Range
  <2>4. \A i \in 1 .. Len(list) : ts[i] = Peer(list[i])
    BY <1>0
  <2> HIDE DEF ts, m
  <2>5. ts \in Seq(Range(ts)) /\ Len(ts) = Len(list)
    BY <1>0, <2>3, FunSeq
  <2>6. Unbatched(m) = ts
    BY <2>2 DEF Unbatched
  <2>7. \A i \in 1 .. Len(list) : Term(ts[i], Finds(list)[i])
    BY <1>0, <2>4, FoundTells
  <2>. QED  BY <1>0, <2>1, <2>2, <2>5, <2>6, <2>7 DEF Carries
<1>. QED  BY <1>1, <1>2

\* An event becomes nothing and owes nothing, or one message that tells what
\* it owes.
Heard(e) ==
  \/ Messages(e) = <<>> /\ Owed(e) = <<>>
  \/ \E m : Messages(e) = <<m>> /\ Carries(m, Owed(e))

\* A report sent as one term that names its peer is heard ...
LEMMA HeardPeer ==
  ASSUME NEW e, NEW c \in Clauses, NEW t, t[1] = c[1], Len(t) = c[2], c[3] # 0,
         NEW p \in Peers \cup {nil}, t[c[3]] = p, p = nil => c[1] \in NilAllowed,
         Messages(e) = <<Event(t)>>, Owed(e) = <<<<c[1], p>>>>
  PROVE  Heard(e)
<1>1. Carries(Event(t), <<<<c[1], p>>>>)
  BY PeerTermTells, OneCarried
<1>. QED  BY <1>1 DEF Heard

\* ... and so is one sent as a term that names none.
LEMMA HeardPlain ==
  ASSUME NEW e, NEW c \in Clauses, NEW t, t[1] = c[1], Len(t) = c[2], c[3] = 0,
         Messages(e) = <<Event(t)>>, Owed(e) = <<<<c[1], nil>>>>
  PROVE  Heard(e)
<1>1. Carries(Event(t), <<<<c[1], nil>>>>)
  BY PlainTermTells, OneCarried
<1>. QED  BY <1>1 DEF Heard

\* The reports of the loop by kind, with the peer or the list each carries.
LEMMA ReportFacts ==
  ASSUME NEW e \in Reports
  PROVE  \/ /\ e.kind \in {"OutgoingConnectionError", "GossipsubMessage"}
            /\ e.peer \in Peers \cup {nil}
         \/ /\ e.kind \in {"ConnectionEstablished", "ConnectionClosed", "OutboundFailure",
                          "InboundFailure", "Dcutr", "ReservationReqAccepted", "Response",
                          "Request"}
            /\ e.peer \in Peers
         \/ e.kind \in {"NewListenAddr", "ExternalAddrConfirmed", "UpnpNewExternalAddr",
                        "StatusChanged", "Ping", "MdnsExpired"}
         \/ e.kind = "Kademlia" /\ e.result \in QueryResults
         \/ e.kind \in {"MdnsDiscovered", "RendezvousDiscovered"} /\ e.list \in Seq(Found)
<1>1. CASE e \in [kind : {"RendezvousDiscovered"}, list : Registrations]
  BY <1>1, EventAssumption DEF Found
<1>2. CASE e \in Protocol /\ e \notin [kind : {"RendezvousDiscovered"}, list : Registrations]
  BY <1>2 DEF Protocol
<1>3. CASE e \notin Protocol
  BY <1>3 DEF Reports, Found
<1>. QED  BY <1>1, <1>2, <1>3

\* One lemma per kind of report: the term the encoder builds matches a clause of
\* from_raw in tag, size and place of the peer, so that Elixir hears what was owed.
LEMMA HeardConnectionEstablished ==
  ASSUME NEW e, e.kind = "ConnectionEstablished", e.peer \in Peers
  PROVE  Heard(e)
<1> DEFINE t == <<"connection_established", e.peer, e.num, e.endpoint>>
           c == <<"connection_established", 4, 2>>
<1>1. Messages(e) = <<Event(t)>>
  BY DEF Messages, handle_swarm_event, connection_event
<1>2. Owed(e) = <<<<"connection_established", e.peer>>>>
  BY DEF Owed
<1>3. t[1] = "connection_established" /\ Len(t) = 4 /\ t[2] = e.peer
  OBVIOUS
<1>4. c \in Clauses /\ c[1] = "connection_established" /\ c[2] = 4 /\ c[3] = 2
  BY DEF Clauses
<1>5. e.peer \in Peers \cup {nil} /\ e.peer # nil
  BY EventAssumption
<1> HIDE DEF t, c
<1>6. t[1] = c[1] /\ Len(t) = c[2] /\ c[3] # 0 /\ t[c[3]] = e.peer
  BY <1>3, <1>4
<1>7. Owed(e) = <<<<c[1], e.peer>>>> /\ (e.peer = nil => c[1] \in NilAllowed)
  BY <1>2, <1>4, <1>5
<1>. QED  BY <1>1, <1>4, <1>5, <1>6, <1>7, HeardPeer

\* events.rs:43-62, told as connection_closed.
LEMMA HeardConnectionClosed ==
  ASSUME NEW e, e.kind = "ConnectionClosed", e.peer \in Peers
  PROVE  Heard(e)
<1> DEFINE t == <<"connection_closed", e.peer, e.num, "cause">>
           c == <<"connection_closed", 4, 2>>
<1>1. Messages(e) = <<Event(t)>>
  BY DEF Messages, handle_swarm_event, connection_event
<1>2. Owed(e) = <<<<"connection_closed", e.peer>>>>
  BY DEF Owed
<1>3. t[1] = "connection_closed" /\ Len(t) = 4 /\ t[2] = e.peer
  OBVIOUS
<1>4. c \in Clauses /\ c[1] = "connection_closed" /\ c[2] = 4 /\ c[3] = 2
  BY DEF Clauses
<1>5. e.peer \in Peers \cup {nil} /\ e.peer # nil
  BY EventAssumption
<1> HIDE DEF t, c
<1>6. t[1] = c[1] /\ Len(t) = c[2] /\ c[3] # 0 /\ t[c[3]] = e.peer
  BY <1>3, <1>4
<1>7. Owed(e) = <<<<c[1], e.peer>>>> /\ (e.peer = nil => c[1] \in NilAllowed)
  BY <1>2, <1>4, <1>5
<1>. QED  BY <1>1, <1>4, <1>5, <1>6, <1>7, HeardPeer

\* events.rs:84-95, told as dial_failure, with no peer when none is known.
LEMMA HeardOutgoingConnectionError ==
  ASSUME NEW e, e.kind = "OutgoingConnectionError", e.peer \in Peers \cup {nil}
  PROVE  Heard(e)
<1> DEFINE t == <<"dial_failure", e.peer, "error">>
           c == <<"dial_failure", 3, 2>>
<1>1. Messages(e) = <<Event(t)>>
  BY DEF Messages, handle_swarm_event, connection_event
<1>2. Owed(e) = <<<<"dial_failure", e.peer>>>>
  BY DEF Owed
<1>3. t[1] = "dial_failure" /\ Len(t) = 3 /\ t[2] = e.peer
  OBVIOUS
<1>4. c \in Clauses /\ c[1] = "dial_failure" /\ c[2] = 3 /\ c[3] = 2
  BY DEF Clauses
<1>5. e.peer \in Peers \cup {nil} /\ "dial_failure" \in NilAllowed
  BY DEF NilAllowed
<1> HIDE DEF t, c
<1>6. t[1] = c[1] /\ Len(t) = c[2] /\ c[3] # 0 /\ t[c[3]] = e.peer
  BY <1>3, <1>4
<1>7. Owed(e) = <<<<c[1], e.peer>>>> /\ (e.peer = nil => c[1] \in NilAllowed)
  BY <1>2, <1>4, <1>5
<1>. QED  BY <1>1, <1>4, <1>5, <1>6, <1>7, HeardPeer

\* A gossipsub message, which may have no source.
LEMMA HeardGossipsubMessage ==
  ASSUME NEW e, e.kind = "GossipsubMessage", e.peer \in Peers \cup {nil}
  PROVE  Heard(e)
<1> DEFINE t == <<"gossipsub_message", "topic", "data", e.peer, "id">>
           c == <<"gossipsub_message", 5, 4>>
<1>1. Messages(e) = <<Event(t)>>
  BY DEF Messages, handle_swarm_event, behaviour_event
<1>2. Owed(e) = <<<<"gossipsub_message", e.peer>>>>
  BY DEF Owed
<1>3. t[1] = "gossipsub_message" /\ Len(t) = 5 /\ t[4] = e.peer
  OBVIOUS
<1>4. c \in Clauses /\ c[1] = "gossipsub_message" /\ c[2] = 5 /\ c[3] = 4
  BY DEF Clauses
<1>5. e.peer \in Peers \cup {nil} /\ "gossipsub_message" \in NilAllowed
  BY DEF NilAllowed
<1> HIDE DEF t, c
<1>6. t[1] = c[1] /\ Len(t) = c[2] /\ c[3] # 0 /\ t[c[3]] = e.peer
  BY <1>3, <1>4
<1>7. Owed(e) = <<<<c[1], e.peer>>>> /\ (e.peer = nil => c[1] \in NilAllowed)
  BY <1>2, <1>4, <1>5
<1>. QED  BY <1>1, <1>4, <1>5, <1>6, <1>7, HeardPeer

\* A failed outbound request, told as dial_failure.
LEMMA HeardOutboundFailure ==
  ASSUME NEW e, e.kind = "OutboundFailure", e.peer \in Peers
  PROVE  Heard(e)
<1> DEFINE t == <<"dial_failure", e.peer, "rpc outbound">>
           c == <<"dial_failure", 3, 2>>
<1>1. Messages(e) = <<Event(t)>>
  BY DEF Messages, handle_swarm_event, behaviour_event
<1>2. Owed(e) = <<<<"dial_failure", e.peer>>>>
  BY DEF Owed
<1>3. t[1] = "dial_failure" /\ Len(t) = 3 /\ t[2] = e.peer
  OBVIOUS
<1>4. c \in Clauses /\ c[1] = "dial_failure" /\ c[2] = 3 /\ c[3] = 2
  BY DEF Clauses
<1>5. e.peer \in Peers \cup {nil} /\ e.peer # nil
  BY EventAssumption
<1> HIDE DEF t, c
<1>6. t[1] = c[1] /\ Len(t) = c[2] /\ c[3] # 0 /\ t[c[3]] = e.peer
  BY <1>3, <1>4
<1>7. Owed(e) = <<<<c[1], e.peer>>>> /\ (e.peer = nil => c[1] \in NilAllowed)
  BY <1>2, <1>4, <1>5
<1>. QED  BY <1>1, <1>4, <1>5, <1>6, <1>7, HeardPeer

\* A failed inbound request, told as dial_failure.
LEMMA HeardInboundFailure ==
  ASSUME NEW e, e.kind = "InboundFailure", e.peer \in Peers
  PROVE  Heard(e)
<1> DEFINE t == <<"dial_failure", e.peer, "rpc inbound">>
           c == <<"dial_failure", 3, 2>>
<1>1. Messages(e) = <<Event(t)>>
  BY DEF Messages, handle_swarm_event, behaviour_event
<1>2. Owed(e) = <<<<"dial_failure", e.peer>>>>
  BY DEF Owed
<1>3. t[1] = "dial_failure" /\ Len(t) = 3 /\ t[2] = e.peer
  OBVIOUS
<1>4. c \in Clauses /\ c[1] = "dial_failure" /\ c[2] = 3 /\ c[3] = 2
  BY DEF Clauses
<1>5. e.peer \in Peers \cup {nil} /\ e.peer # nil
  BY EventAssumption
<1> HIDE DEF t, c
<1>6. t[1] = c[1] /\ Len(t) = c[2] /\ c[3] # 0 /\ t[c[3]] = e.peer
  BY <1>3, <1>4
<1>7. Owed(e) = <<<<c[1], e.peer>>>> /\ (e.peer = nil => c[1] \in NilAllowed)
  BY <1>2, <1>4, <1>5
<1>. QED  BY <1>1, <1>4, <1>5, <1>6, <1>7, HeardPeer

\* The outcome of a hole punch.
LEMMA HeardDcutr ==
  ASSUME NEW e, e.kind = "Dcutr", e.peer \in Peers
  PROVE  Heard(e)
<1> DEFINE t == <<"hole_punch_outcome", e.peer, "result">>
           c == <<"hole_punch_outcome", 3, 2>>
<1>1. Messages(e) = <<Event(t)>>
  BY DEF Messages, handle_swarm_event, behaviour_event
<1>2. Owed(e) = <<<<"hole_punch_outcome", e.peer>>>>
  BY DEF Owed
<1>3. t[1] = "hole_punch_outcome" /\ Len(t) = 3 /\ t[2] = e.peer
  OBVIOUS
<1>4. c \in Clauses /\ c[1] = "hole_punch_outcome" /\ c[2] = 3 /\ c[3] = 2
  BY DEF Clauses
<1>5. e.peer \in Peers \cup {nil} /\ e.peer # nil
  BY EventAssumption
<1> HIDE DEF t, c
<1>6. t[1] = c[1] /\ Len(t) = c[2] /\ c[3] # 0 /\ t[c[3]] = e.peer
  BY <1>3, <1>4
<1>7. Owed(e) = <<<<c[1], e.peer>>>> /\ (e.peer = nil => c[1] \in NilAllowed)
  BY <1>2, <1>4, <1>5
<1>. QED  BY <1>1, <1>4, <1>5, <1>6, <1>7, HeardPeer

\* An accepted relay reservation.
LEMMA HeardReservationReqAccepted ==
  ASSUME NEW e, e.kind = "ReservationReqAccepted", e.peer \in Peers
  PROVE  Heard(e)
<1> DEFINE t == <<"relay_reservation_accepted", e.peer, "">>
           c == <<"relay_reservation_accepted", 3, 2>>
<1>1. Messages(e) = <<Event(t)>>
  BY DEF Messages, handle_swarm_event, behaviour_event
<1>2. Owed(e) = <<<<"relay_reservation_accepted", e.peer>>>>
  BY DEF Owed
<1>3. t[1] = "relay_reservation_accepted" /\ Len(t) = 3 /\ t[2] = e.peer
  OBVIOUS
<1>4. c \in Clauses /\ c[1] = "relay_reservation_accepted" /\ c[2] = 3 /\ c[3] = 2
  BY DEF Clauses
<1>5. e.peer \in Peers \cup {nil} /\ e.peer # nil
  BY EventAssumption
<1> HIDE DEF t, c
<1>6. t[1] = c[1] /\ Len(t) = c[2] /\ c[3] # 0 /\ t[c[3]] = e.peer
  BY <1>3, <1>4
<1>7. Owed(e) = <<<<c[1], e.peer>>>> /\ (e.peer = nil => c[1] \in NilAllowed)
  BY <1>2, <1>4, <1>5
<1>. QED  BY <1>1, <1>4, <1>5, <1>6, <1>7, HeardPeer

\* events.rs:349-375, told as outbound_response.
LEMMA HeardResponse ==
  ASSUME NEW e, e.kind = "Response", e.peer \in Peers
  PROVE  Heard(e)
<1> DEFINE t == <<"outbound_response", "id", e.peer, "data">>
           c == <<"outbound_response", 4, 3>>
<1>1. Messages(e) = <<Event(t)>>
  BY DEF Messages, send_outbound_response
<1>2. Owed(e) = <<<<"outbound_response", e.peer>>>>
  BY DEF Owed
<1>3. t[1] = "outbound_response" /\ Len(t) = 4 /\ t[3] = e.peer
  OBVIOUS
<1>4. c \in Clauses /\ c[1] = "outbound_response" /\ c[2] = 4 /\ c[3] = 3
  BY DEF Clauses
<1>5. e.peer \in Peers \cup {nil} /\ e.peer # nil
  BY EventAssumption
<1> HIDE DEF t, c
<1>6. t[1] = c[1] /\ Len(t) = c[2] /\ c[3] # 0 /\ t[c[3]] = e.peer
  BY <1>3, <1>4
<1>7. Owed(e) = <<<<c[1], e.peer>>>> /\ (e.peer = nil => c[1] \in NilAllowed)
  BY <1>2, <1>4, <1>5
<1>. QED  BY <1>1, <1>4, <1>5, <1>6, <1>7, HeardPeer

\* events.rs:318-347, told as inbound_request.
LEMMA HeardRequest ==
  ASSUME NEW e, e.kind = "Request", e.peer \in Peers
  PROVE  Heard(e)
<1> DEFINE t == <<"inbound_request", "id", "channel", e.peer, "data">>
           c == <<"inbound_request", 5, 4>>
<1>1. Messages(e) = <<Event(t)>>
  BY DEF Messages, send_inbound_request
<1>2. Owed(e) = <<<<"inbound_request", e.peer>>>>
  BY DEF Owed
<1>3. t[1] = "inbound_request" /\ Len(t) = 5 /\ t[4] = e.peer
  OBVIOUS
<1>4. c \in Clauses /\ c[1] = "inbound_request" /\ c[2] = 5 /\ c[3] = 4
  BY DEF Clauses
<1>5. e.peer \in Peers \cup {nil} /\ e.peer # nil
  BY EventAssumption
<1> HIDE DEF t, c
<1>6. t[1] = c[1] /\ Len(t) = c[2] /\ c[3] # 0 /\ t[c[3]] = e.peer
  BY <1>3, <1>4
<1>7. Owed(e) = <<<<c[1], e.peer>>>> /\ (e.peer = nil => c[1] \in NilAllowed)
  BY <1>2, <1>4, <1>5
<1>. QED  BY <1>1, <1>4, <1>5, <1>6, <1>7, HeardPeer

\* A new listen address, which is about no peer.
LEMMA HeardNewListenAddr ==
  ASSUME NEW e, e.kind = "NewListenAddr"
  PROVE  Heard(e)
<1> DEFINE t == <<"new_listen_addr", "addr", "id">>
           c == <<"new_listen_addr", 3, 0>>
<1>1. Messages(e) = <<Event(t)>>
  BY DEF Messages, handle_swarm_event, connection_event
<1>2. Owed(e) = <<<<"new_listen_addr", nil>>>>
  BY DEF Owed
<1>3. t[1] = "new_listen_addr" /\ Len(t) = 3
  OBVIOUS
<1>4. c \in Clauses /\ c[1] = "new_listen_addr" /\ c[2] = 3 /\ c[3] = 0
  BY DEF Clauses
<1> HIDE DEF t, c
<1>5. t[1] = c[1] /\ Len(t) = c[2] /\ Owed(e) = <<<<c[1], nil>>>>
  BY <1>2, <1>3, <1>4
<1>. QED  BY <1>1, <1>4, <1>5, HeardPlain

\* A confirmed external address.
LEMMA HeardExternalAddrConfirmed ==
  ASSUME NEW e, e.kind = "ExternalAddrConfirmed"
  PROVE  Heard(e)
<1> DEFINE t == <<"external_addr_confirmed", "addr">>
           c == <<"external_addr_confirmed", 2, 0>>
<1>1. Messages(e) = <<Event(t)>>
  BY DEF Messages, handle_swarm_event, connection_event
<1>2. Owed(e) = <<<<"external_addr_confirmed", nil>>>>
  BY DEF Owed
<1>3. t[1] = "external_addr_confirmed" /\ Len(t) = 2
  OBVIOUS
<1>4. c \in Clauses /\ c[1] = "external_addr_confirmed" /\ c[2] = 2 /\ c[3] = 0
  BY DEF Clauses
<1> HIDE DEF t, c
<1>5. t[1] = c[1] /\ Len(t) = c[2] /\ Owed(e) = <<<<c[1], nil>>>>
  BY <1>2, <1>3, <1>4
<1>. QED  BY <1>1, <1>4, <1>5, HeardPlain

\* An address that UPnP mapped, told as external_addr_confirmed.
LEMMA HeardUpnpNewExternalAddr ==
  ASSUME NEW e, e.kind = "UpnpNewExternalAddr"
  PROVE  Heard(e)
<1> DEFINE t == <<"external_addr_confirmed", "addr">>
           c == <<"external_addr_confirmed", 2, 0>>
<1>1. Messages(e) = <<Event(t)>>
  BY DEF Messages, handle_swarm_event, behaviour_event
<1>2. Owed(e) = <<<<"external_addr_confirmed", nil>>>>
  BY DEF Owed
<1>3. t[1] = "external_addr_confirmed" /\ Len(t) = 2
  OBVIOUS
<1>4. c \in Clauses /\ c[1] = "external_addr_confirmed" /\ c[2] = 2 /\ c[3] = 0
  BY DEF Clauses
<1> HIDE DEF t, c
<1>5. t[1] = c[1] /\ Len(t) = c[2] /\ Owed(e) = <<<<c[1], nil>>>>
  BY <1>2, <1>3, <1>4
<1>. QED  BY <1>1, <1>4, <1>5, HeardPlain

\* A change of the NAT status.
LEMMA HeardStatusChanged ==
  ASSUME NEW e, e.kind = "StatusChanged"
  PROVE  Heard(e)
<1> DEFINE t == <<"nat_status_changed", e.status, e.addr>>
           c == <<"nat_status_changed", 3, 0>>
<1>1. Messages(e) = <<Event(t)>>
  BY DEF Messages, handle_swarm_event, behaviour_event
<1>2. Owed(e) = <<<<"nat_status_changed", nil>>>>
  BY DEF Owed
<1>3. t[1] = "nat_status_changed" /\ Len(t) = 3
  OBVIOUS
<1>4. c \in Clauses /\ c[1] = "nat_status_changed" /\ c[2] = 3 /\ c[3] = 0
  BY DEF Clauses
<1> HIDE DEF t, c
<1>5. t[1] = c[1] /\ Len(t) = c[2] /\ Owed(e) = <<<<c[1], nil>>>>
  BY <1>2, <1>3, <1>4
<1>. QED  BY <1>1, <1>4, <1>5, HeardPlain

\* A query result other than closest_peers is told under its own tag.
LEMMA HeardKademlia ==
  ASSUME NEW e, e.kind = "Kademlia", e.result \in QueryResults \ {"closest_peers"}
  PROVE  Heard(e)
<1> DEFINE t == <<"dht_query_result", "id", e.result>>
           c == <<"dht_query_result", 3, 0>>
<1>1. Messages(e) = <<Event(t)>>
  BY DEF Messages, handle_swarm_event, behaviour_event, encode_kad_event, QueryResults
<1>2. Owed(e) = <<<<"dht_query_result", nil>>>>
  BY DEF Owed
<1>3. t[1] = "dht_query_result" /\ Len(t) = 3
  OBVIOUS
<1>4. c \in Clauses /\ c[1] = "dht_query_result" /\ c[2] = 3 /\ c[3] = 0
  BY DEF Clauses
<1> HIDE DEF t, c
<1>5. t[1] = c[1] /\ Len(t) = c[2] /\ Owed(e) = <<<<c[1], nil>>>>
  BY <1>2, <1>3, <1>4
<1>. QED  BY <1>1, <1>4, <1>5, HeardPlain

\* A ping and a closest_peers result are owed to nobody and send nothing.
LEMMA HeardNothing ==
  ASSUME NEW e, e.kind = "Ping" \/ (e.kind = "Kademlia" /\ e.result = "closest_peers")
  PROVE  Heard(e)
<1>1. Messages(e) = <<NOOP>>
  BY DEF Messages, handle_swarm_event, behaviour_event, encode_kad_event
<1>2. Owed(e) = <<>>
  BY DEF Owed
<1>. QED  BY <1>1, <1>2, NoopCarried DEF Heard

\* The expiry of an mDNS record becomes nothing.
LEMMA HeardExpired ==
  ASSUME NEW e, e.kind = "MdnsExpired"
  PROVE  Heard(e)
BY DEF Heard, Messages, Owed

\* A discovery, empty, of one peer or of a batch, tells every peer of its list.
LEMMA HeardDiscovered ==
  ASSUME NEW e, e.kind \in {"MdnsDiscovered", "RendezvousDiscovered"}, e.list \in Seq(Found)
  PROVE  Heard(e)
<1>1. Owed(e) = Finds(e.list)
  BY DEF Owed, Finds
<1>2. CASE e.list = <<>>
  <2>1. Finds(<<>>) = <<>>
    <3>1. Finds(<<>>) \in Seq(Told1) /\ Len(Finds(<<>>)) = Len(<<>>)
      BY <1>2, FindsFacts
    <3> DEFINE f == Finds(<<>>)
    <3> HIDE DEF f
    <3>2. f \in Seq(Told1) /\ Len(f) = 0
      BY <3>1 DEF f
    <3>3. f = <<>>
      BY <3>2, EmptySeq
    <3>. QED  BY <3>3 DEF f
  <2>2. Messages(e) = <<>> \/ Messages(e) = <<NOOP>>
    BY <1>2 DEF Messages, send_peers_discovered, handle_swarm_event, behaviour_event,
                rendezvous_discovered
  <2>. QED  BY <1>1, <1>2, <2>1, <2>2, NoopCarried DEF Heard
<1>3. CASE e.list # <<>>
  <2>1. Messages(e) = <<Discovery(e.list)>>
    BY <1>3 DEF Messages, send_peers_discovered, handle_swarm_event, behaviour_event,
                rendezvous_discovered
  <2>2. Carries(Discovery(e.list), Finds(e.list))
    BY DiscoveryCarries
  <2>. QED  BY <1>1, <2>1, <2>2 DEF Heard
<1>. QED  BY <1>2, <1>3

\* Whatever the swarm reports.
LEMMA EveryReportHeard ==
  ASSUME NEW e \in Reports
  PROVE  Heard(e)
<1>1. CASE e.kind = "Kademlia" /\ e.result \in QueryResults
  BY <1>1, HeardKademlia, HeardNothing
<1>2. CASE e.kind \in {"MdnsDiscovered", "RendezvousDiscovered"} /\ e.list \in Seq(Found)
  BY <1>2, HeardDiscovered
<1>. QED
  BY <1>1, <1>2, ReportFacts, HeardNothing, HeardExpired, HeardConnectionEstablished,
     HeardConnectionClosed, HeardOutgoingConnectionError, HeardGossipsubMessage,
     HeardOutboundFailure, HeardInboundFailure, HeardDcutr, HeardReservationReqAccepted,
     HeardResponse, HeardRequest, HeardNewListenAddr, HeardExternalAddrConfirmed,
     HeardUpnpNewExternalAddr, HeardStatusChanged

-----------------------------------------------------------------------------
(* Every event is told once, in its order.                                 *)

\* Flattening singletons gives back the sequence.
LEMMA FlattenSingles ==
  ASSUME NEW S, NEW s \in Seq(S)
  PROVE  FlattenSeq([i \in DOMAIN s |-> <<s[i]>>]) = s
<1> DEFINE F == [x \in S |-> <<x>>]
           A == {k \in Nat : \A t \in Seq(S) : Len(t) = k => FlatMap(F, t) = t}
<1>1. Maps(F, S, Seq(S)) /\ \A x \in S : F[x] = <<x>>
  BY DEF Maps
<1>2. Image(F, s) = [i \in DOMAIN s |-> <<s[i]>>]
  <2>1. \A i \in DOMAIN s : s[i] \in S
    BY ElementOfSeq
  <2>. QED  BY <1>1, <2>1 DEF Image
<1> HIDE DEF F
<1>3. 0 \in A
  <2> SUFFICES ASSUME NEW t \in Seq(S), Len(t) = 0 PROVE FlatMap(F, t) = t
    OBVIOUS
  <2>1. t = <<>>
    OBVIOUS
  <2>. QED  BY <1>1, <2>1, FlatMapSeq
<1>4. \A k \in Nat : k \in A => k + 1 \in A
  <2> SUFFICES ASSUME NEW k \in Nat, \A t \in Seq(S) : Len(t) = k => FlatMap(F, t) = t,
                      NEW t \in Seq(S), Len(t) = k + 1
               PROVE  FlatMap(F, t) = t
    OBVIOUS
  <2>1. t # <<>>
    OBVIOUS
  <2>2. Front(t) \in Seq(S) /\ Last(t) \in S /\ t = Append(Front(t), Last(t))
    BY <2>1, FrontLast
  <2> DEFINE f == Front(t)
             l == Last(t)
  <2> HIDE DEF f, l
  <2>3. f \in Seq(S) /\ l \in S /\ t = Append(f, l)
    BY <2>2 DEF f, l
  <2>4. Len(f) = k
    BY <2>3
  <2>5. FlatMap(F, Append(f, l)) = FlatMap(F, f) \o F[l]
    BY <1>1, <2>3, FlatMapAppend
  <2>6. f \o <<l>> = Append(f, l)
    BY <2>3
  <2>. QED  BY <1>1, <2>3, <2>4, <2>5, <2>6
<1> HIDE DEF A
<1>5. Nat \subseteq A
  BY <1>3, <1>4, NatSet
<1>6. Len(s) \in A
  BY <1>5
<1>. QED  BY <1>2, <1>6 DEF A, FlatMap

\* The image of two sequences joined.
LEMMA ImageCat ==
  ASSUME NEW S, NEW T, NEW F, Maps(F, S, T), NEW xs \in Seq(S), NEW ys \in Seq(S)
  PROVE  Image(F, xs \o ys) = Image(F, xs) \o Image(F, ys)
<1> DEFINE zs == xs \o ys
           l == Image(F, zs)
           a == Image(F, xs)
           b == Image(F, ys)
           r == a \o b
<1>1. /\ zs \in Seq(S) /\ Len(zs) = Len(xs) + Len(ys) /\ Len(xs) \in Nat /\ Len(ys) \in Nat
      /\ \A i \in 1 .. Len(xs) : zs[i] = xs[i]
      /\ \A i \in 1 .. Len(ys) : zs[Len(xs) + i] = ys[i]
  BY CatIndex
<1>2. a \in Seq(T) /\ Len(a) = Len(xs) /\ \A i \in 1 .. Len(xs) : a[i] = F[xs[i]]
  BY ImageSeq
<1>3. b \in Seq(T) /\ Len(b) = Len(ys) /\ \A i \in 1 .. Len(ys) : b[i] = F[ys[i]]
  BY ImageSeq
<1> HIDE DEF zs, a, b
<1>4. l \in Seq(T) /\ Len(l) = Len(zs) /\ \A i \in 1 .. Len(zs) : l[i] = F[zs[i]]
  BY <1>1, ImageSeq
<1>a. a \in Seq(T) /\ b \in Seq(T)
  BY <1>2, <1>3
<1>5. /\ r \in Seq(T) /\ Len(r) = Len(a) + Len(b)
      /\ \A i \in 1 .. Len(a) : r[i] = a[i]
      /\ \A i \in 1 .. Len(b) : r[Len(a) + i] = b[i]
  BY <1>a, CatIndex
<1> HIDE DEF l, r
<1>6. \A i \in 1 .. Len(l) : l[i] = r[i]
  <2> TAKE i \in 1 .. Len(l)
  <2>0. l[i] = F[zs[i]]
    BY <1>4
  <2>1. CASE i \in 1 .. Len(xs)
    <3>1. zs[i] = xs[i] /\ a[i] = F[xs[i]]
      BY <1>1, <1>2, <2>1
    <3>2. r[i] = a[i]
      BY <1>2, <1>5, <2>1
    <3>. QED  BY <2>0, <3>1, <3>2
  <2>2. CASE i \notin 1 .. Len(xs)
    <3>1. PICK j \in 1 .. Len(ys) : i = Len(xs) + j
      <4>1. i - Len(xs) \in 1 .. Len(ys) /\ i = Len(xs) + (i - Len(xs))
        BY <1>1, <1>4, <2>2
      <4>. QED  BY <4>1
    <3>2. zs[i] = ys[j] /\ b[j] = F[ys[j]]
      BY <1>1, <1>3, <3>1
    <3>3. r[i] = b[j]
      BY <1>2, <1>3, <1>5, <3>1
    <3>. QED  BY <2>0, <3>2, <3>3
  <2>. QED  BY <2>1, <2>2
<1>7. Len(l) = Len(r)
  BY <1>1, <1>2, <1>3, <1>4, <1>5
<1>8. l = r
  BY <1>4, <1>5, <1>6, <1>7, SeqEqual
<1>. QED  BY <1>8 DEF l, r, zs, a, b

\* A sequence is a prefix of any that continues it.
LEMMA PrefixCat ==
  ASSUME NEW S, NEW s \in Seq(S), NEW t \in Seq(S)
  PROVE  IsPrefix(s, s \o t)
<1> DEFINE u == s \o t
           n == Len(s)
           c == SubSeq(u, 1, n)
<1>1. /\ u \in Seq(S) /\ Len(u) = n + Len(t) /\ n \in Nat /\ Len(t) \in Nat
      /\ \A i \in 1 .. n : u[i] = s[i]
  BY CatIndex
<1> HIDE DEF u, n
<1>2. n <= Len(u) /\ \A i \in 1 .. n : u[i] \in S
  <2>1. n <= Len(u)
    BY <1>1
  <2>. QED  BY <1>1, <2>1, ElementOfSeq
<1>3. c \in Seq(S) /\ Len(c) = n /\ \A i \in 1 .. n : c[i] = u[i]
  BY <1>1, <1>2
<1> HIDE DEF c
<1>4. c = s
  <2>1. Len(c) = Len(s) /\ \A i \in 1 .. Len(c) : c[i] = s[i]
    BY <1>1, <1>3 DEF n
  <2>. QED  BY <1>3, <2>1, SeqEqual
<1>5. SubSeq(s, 1, Len(s)) = s
  BY SubSeqFull
<1>. QED  BY <1>2, <1>4, <1>5 DEF IsPrefix, u, n, c

\* The messages that can be in the mailbox, and their terms.
Mails == UNION {Range(Messages(e)) : e \in Reports}
Terms == UNION {Range(Unbatched(m)) : m \in Mails}

\* What a message tells.
Says(m) == [i \in DOMAIN Unbatched(m) |-> Tells(Unbatched(m)[i])]

OwedOf == [e \in Reports |-> Owed(e)]
SaysOf == [m \in Mails |-> Says(m)]
TellOf == [t \in Terms |-> Tells(t)]

\* What a message carries is what its terms tell.
LEMMA CarriesSays ==
  ASSUME NEW m, NEW os, Carries(m, os)
  PROVE  Says(m) = os /\ Says(m) \in Seq(Told1)
<1> DEFINE ts == Unbatched(m)
<1>1. /\ os \in Seq(Told1) /\ Len(ts) = Len(os) /\ ts \in Seq(Range(ts))
      /\ \A i \in 1 .. Len(os) : Tells(ts[i]) = os[i]
  BY DEF Carries, Term
<1> HIDE DEF ts
<1>2. DOMAIN ts = 1 .. Len(os) /\ Len(os) \in Nat
  BY <1>1, LenProperties
<1>3. [i \in DOMAIN ts |-> Tells(ts[i])] = [i \in 1 .. Len(os) |-> os[i]]
  BY <1>1, <1>2
<1>4. [i \in 1 .. Len(os) |-> os[i]] = os
  BY <1>1
<1>. QED  BY <1>1, <1>3, <1>4 DEF Says, ts

\* Every message the loop can send splits into terms that are accepted.
LEMMA MailCarries ==
  ASSUME NEW m \in Mails
  PROVE  /\ Carries(m, Says(m)) /\ Says(m) \in Seq(Told1)
         /\ Unbatched(m) \in Seq(Terms) /\ Range(Unbatched(m)) \subseteq Terms
<1>1. PICK e \in Reports : m \in Range(Messages(e))
  BY DEF Mails
<1>2. Heard(e)
  BY EveryReportHeard
<1>3. Messages(e) = <<m>> /\ Carries(m, Owed(e))
  <2>1. CASE Messages(e) = <<>>
    BY <1>1, <2>1 DEF Range
  <2>2. ASSUME NEW n, Messages(e) = <<n>>, Carries(n, Owed(e))
        PROVE  Messages(e) = <<m>> /\ Carries(m, Owed(e))
    <3>1. m = n
      BY <1>1, <2>2 DEF Range
    <3>. QED  BY <2>2, <3>1
  <2>. QED  BY <1>2, <2>1, <2>2 DEF Heard
<1>4. Says(m) = Owed(e) /\ Says(m) \in Seq(Told1)
  BY <1>3, CarriesSays
<1>5. Range(Unbatched(m)) \subseteq Terms
  BY DEF Terms
<1>6. Unbatched(m) \in Seq(Range(Unbatched(m)))
  BY <1>3 DEF Carries
<1>7. Unbatched(m) \in Seq(Terms)
  BY <1>5, <1>6, SeqMonotonic
<1>. QED  BY <1>3, <1>4, <1>5, <1>7

\* Every term of a message is one that from_raw takes.
LEMMA TermsGood ==
  ASSUME NEW t \in Terms
  PROVE  Term(t, Tells(t))
<1>1. PICK m \in Mails : t \in Range(Unbatched(m))
  BY DEF Terms
<1>2. Carries(m, Says(m))
  BY MailCarries
<1> DEFINE ts == Unbatched(m)
           os == Says(m)
<1>3. os \in Seq(Told1) /\ Len(ts) = Len(os) /\ ts \in Seq(Range(ts))
      /\ \A i \in 1 .. Len(os) : Term(ts[i], os[i])
  BY <1>2 DEF Carries
<1>4. t \in Range(ts)
  BY <1>1
<1> HIDE DEF ts, os
<1>5. PICK i \in DOMAIN ts : t = ts[i]
  BY <1>4 DEF Range
<1>6. i \in 1 .. Len(os)
  BY <1>3, <1>5, LenProperties
<1>7. Term(t, os[i])
  BY <1>3, <1>5, <1>6
<1>. QED  BY <1>7 DEF Term

\* A report sends one message that says what is owed, or nothing when nothing is.
LEMMA ReportSends ==
  ASSUME NEW e \in Reports
  PROVE  /\ Owed(e) \in Seq(Told1)
         /\ \/ Messages(e) = <<>> /\ Owed(e) = <<>>
            \/ \E m \in Mails : Messages(e) = <<m>> /\ Says(m) = Owed(e)
<1>1. Heard(e)
  BY EveryReportHeard
<1>2. CASE Messages(e) = <<>> /\ Owed(e) = <<>>
  BY <1>2
<1>3. ASSUME NEW m, Messages(e) = <<m>>, Carries(m, Owed(e))
      PROVE  m \in Mails /\ Says(m) = Owed(e) /\ Owed(e) \in Seq(Told1)
  <2>1. m \in Range(Messages(e))
    BY <1>3 DEF Range
  <2>2. m \in Mails
    BY <2>1 DEF Mails
  <2>. QED  BY <1>3, <2>2, CarriesSays
<1>. QED  BY <1>1, <1>2, <1>3 DEF Heard

\* The maps above have the types FlatMap needs.
LEMMA PathMaps ==
  /\ Maps(OwedOf, Reports, Seq(Told1)) /\ \A e \in Reports : OwedOf[e] = Owed(e)
  /\ Maps(SaysOf, Mails, Seq(Told1)) /\ \A m \in Mails : SaysOf[m] = Says(m)
  /\ Maps(TellOf, Terms, Told1) /\ \A t \in Terms : TellOf[t] = Tells(t)
<1>1. \A e \in Reports : Owed(e) \in Seq(Told1)
  BY ReportSends
<1>2. \A m \in Mails : Says(m) \in Seq(Told1)
  BY MailCarries
<1>3. \A t \in Terms : Tells(t) \in Told1
  BY TermsGood DEF Term
<1>. QED  BY <1>1, <1>2, <1>3 DEF Maps, OwedOf, SaysOf, TellOf

\* What has been told, followed by what the mailbox still tells, is what is
\* owed; the GenServer never crashes.
InTransit ==
  /\ genserver = "running"
  /\ mailbox \in Seq(Mails) /\ emitted \in Seq(Reports) /\ delivered \in Seq(Terms)
  /\ Image(TellOf, delivered) \o FlatMap(SaysOf, mailbox) = FlatMap(OwedOf, emitted)

\* The three sequences InTransit relates.
LEMMA TransitTypes ==
  ASSUME InTransit
  PROVE  /\ Image(TellOf, delivered) \in Seq(Told1)
         /\ FlatMap(SaysOf, mailbox) \in Seq(Told1)
         /\ FlatMap(OwedOf, emitted) \in Seq(Told1)
BY PathMaps, ImageSeq, FlatMapSeq DEF InTransit

\* One event leaves the swarm.
LEMMA SendKeeps ==
  ASSUME InTransit, NEW e \in Reports, Send(e, Messages(e))
  PROVE  InTransit'
<1> DEFINE D == Image(TellOf, delivered)
           M == FlatMap(SaysOf, mailbox)
           E == FlatMap(OwedOf, emitted)
           o == Owed(e)
<1>0. /\ genserver' = "running" /\ delivered' = delivered /\ mailbox \in Seq(Mails)
      /\ emitted \in Seq(Reports) /\ delivered \in Seq(Terms) /\ D \o M = E
  BY DEF InTransit, Send
<1>1. D \in Seq(Told1) /\ M \in Seq(Told1) /\ E \in Seq(Told1) /\ o \in Seq(Told1)
  BY TransitTypes, ReportSends
<1>2. CASE ~handler
  <2>1. emitted' = emitted /\ mailbox' = mailbox
    BY <1>2 DEF Send
  <2>. QED  BY <1>0, <2>1 DEF InTransit
<1>3. CASE handler
  <2>1. emitted' = Append(emitted, e) /\ mailbox' = mailbox \o Messages(e)
    BY <1>3 DEF Send
  <2>2. emitted' \in Seq(Reports)
    BY <1>0, <2>1, AppendProperties
  <2>3. FlatMap(OwedOf, emitted') = E \o o
    <3>1. FlatMap(OwedOf, Append(emitted, e)) = E \o OwedOf[e]
      BY <1>0, PathMaps, FlatMapAppend
    <3>. QED  BY <2>1, <3>1, PathMaps
  <2>4. CASE Messages(e) = <<>> /\ o = <<>>
    <3>1. mailbox' = mailbox
      BY <1>0, <2>1, <2>4, ConcatEmptySeq
    <3>2. E \o o = E
      BY <1>1, <2>4, ConcatEmptySeq
    <3>. QED  BY <1>0, <2>2, <2>3, <3>1, <3>2 DEF InTransit
  <2>5. ASSUME NEW m \in Mails, Messages(e) = <<m>>, Says(m) = o
        PROVE  InTransit'
    <3>1. mailbox' = Append(mailbox, m) /\ mailbox' \in Seq(Mails)
      <4>1. \A s \in Seq(Mails) : s \o <<m>> = Append(s, m) /\ Append(s, m) \in Seq(Mails)
        OBVIOUS
      <4>. QED  BY <1>0, <2>1, <2>5, <4>1
    <3>2. FlatMap(SaysOf, Append(mailbox, m)) = M \o SaysOf[m]
      BY <1>0, PathMaps, FlatMapAppend
    <3>3. FlatMap(SaysOf, mailbox') = M \o o
      BY <2>5, <3>1, <3>2, PathMaps
    <3> HIDE DEF D, M, E, o
    <3>4. CatLeft(D, M, o) = CatRight(D, M, o)
      BY <1>1, Regroup
    <3>5. D \o (M \o o) = E \o o
      BY <1>0, <3>4 DEF CatLeft, CatRight
    <3>6. Image(TellOf, delivered') \o FlatMap(SaysOf, mailbox') = FlatMap(OwedOf, emitted')
      BY <1>0, <2>3, <3>3, <3>5 DEF D
    <3>. QED  BY <1>0, <2>2, <3>1, <3>6 DEF InTransit
  <2>. QED  BY <2>4, <2>5, ReportSends
<1>. QED  BY <1>2, <1>3

\* The GenServer handles a message.
LEMMA HandleInfoKeeps ==
  ASSUME InTransit, HandleInfo
  PROVE  InTransit'
<1> DEFINE D == Image(TellOf, delivered)
           m == Head(mailbox)
           rest == Tail(mailbox)
           ts == Unbatched(m)
           R == FlatMap(SaysOf, rest)
           o == Says(m)
<1>0. /\ mailbox \in Seq(Mails) /\ mailbox # <<>> /\ emitted' = emitted
      /\ emitted \in Seq(Reports) /\ delivered \in Seq(Terms) /\ mailbox' = rest
      /\ D \o FlatMap(SaysOf, mailbox) = FlatMap(OwedOf, emitted)
  BY DEF InTransit, HandleInfo
<1>1. m \in Mails /\ rest \in Seq(Mails)
  BY <1>0, HeadTailProperties
<1>2. mailbox = Cons(m, rest)
  <2>1. \A s \in Seq(Mails) : s # <<>> => s = <<Head(s)>> \o Tail(s)
    OBVIOUS
  <2>. QED  BY <1>0, <2>1 DEF Cons
<1>3. o \in Seq(Told1) /\ ts \in Seq(Terms) /\ Carries(m, o)
  BY <1>1, MailCarries
<1>4. \A i \in DOMAIN ts : ts[i] \in Terms /\ from_raw(ts[i]) = "ok"
  <2>1. \A i \in DOMAIN ts : ts[i] \in Terms
    BY <1>3, ElementOfSeq
  <2>. QED  BY <2>1, TermsGood DEF Term
<1>5. delivered' = delivered \o ts /\ genserver' = "running"
  <2> DEFINE raises == {i \in DOMAIN ts : from_raw(ts[i]) = "raise"}
             done   == {i \in DOMAIN ts : \A j \in raises : i < j}
  <2>1. raises = {} /\ done = DOMAIN ts
    BY <1>4
  <2>2. /\ delivered' = delivered \o FlattenSeq([i \in done |-> dispatch_event(ts[i])])
        /\ genserver' = IF raises = {} THEN genserver ELSE "crashed"
    BY DEF HandleInfo
  <2>3. [i \in done |-> dispatch_event(ts[i])] = [i \in DOMAIN ts |-> <<ts[i]>>]
    BY <1>4, <2>1 DEF dispatch_event
  <2>4. FlattenSeq([i \in DOMAIN ts |-> <<ts[i]>>]) = ts
    BY <1>3, FlattenSingles
  <2>. QED  BY <2>1, <2>2, <2>3, <2>4 DEF InTransit
<1>6. Image(TellOf, ts) = o
  BY <1>4, PathMaps DEF Image, Says
<1>7. FlatMap(SaysOf, mailbox) = o \o R
  <2>0. \A ms \in Seq(Mails), mail \in Mails :
          FlatMap(SaysOf, Cons(mail, ms)) = SaysOf[mail] \o FlatMap(SaysOf, ms)
    BY PathMaps, FlatMapCons
  <2>1. FlatMap(SaysOf, Cons(m, rest)) = SaysOf[m] \o R
    BY <1>1, <2>0
  <2>. QED  BY <1>1, <1>2, <2>1, PathMaps
<1>8. D \in Seq(Told1) /\ R \in Seq(Told1)
  BY <1>0, <1>1, PathMaps, ImageSeq, FlatMapSeq
<1> HIDE DEF D, m, rest, ts, R, o
<1>9. delivered' \in Seq(Terms)
  BY <1>0, <1>3, <1>5, CatIndex
<1>10. Image(TellOf, delivered') = D \o o
  <2>1. Image(TellOf, delivered \o ts) = D \o Image(TellOf, ts)
    BY <1>0, <1>3, PathMaps, ImageCat DEF D
  <2>. QED  BY <1>5, <1>6, <2>1
<1>11. CatLeft(D, o, R) = CatRight(D, o, R)
  BY <1>3, <1>8, Regroup
<1>12. (D \o o) \o R = FlatMap(OwedOf, emitted')
  BY <1>0, <1>7, <1>11 DEF CatLeft, CatRight
<1>13. Image(TellOf, delivered') \o FlatMap(SaysOf, mailbox') = FlatMap(OwedOf, emitted')
  BY <1>0, <1>10, <1>12 DEF R
<1>. QED  BY <1>0, <1>1, <1>5, <1>9, <1>13 DEF InTransit

\* A step that touches neither end of the mailbox.
LEMMA TransitStutters ==
  ASSUME InTransit, UNCHANGED <<genserver, mailbox, emitted, delivered>>
  PROVE  InTransit'
BY DEF InTransit

\* Every event of the loop is a report that is sent as its messages.
LEMMA LoopSends ==
  ASSUME PathNext
  PROVE  \/ \E e \in Reports : Send(e, Messages(e))
         \/ HandleInfo
         \/ UNCHANGED <<genserver, mailbox, emitted, delivered>>
<1>1. ASSUME NEW pairs \in Batches, Discovered(pairs)
      PROVE  \E e \in Reports : Send(e, Messages(e))
  <2> DEFINE list == WithAddrs(pairs)
             e == [kind |-> "MdnsDiscovered", list |-> list]
  <2>1. pairs \in Seq(Peers \X Addrs)
    BY EventAssumption
  <2>2. Len(pairs) \in Nat /\ DOMAIN pairs = 1 .. Len(pairs)
        /\ \A i \in 1 .. Len(pairs) : pairs[i] \in Peers \X Addrs
    BY <2>1, LenProperties, ElementOfSeq
  <2>3. \A i \in 1 .. Len(pairs) :
          [peer |-> pairs[i][1], addrs |-> <<pairs[i][2]>>] \in Found
    <3> TAKE i \in 1 .. Len(pairs)
    <3>1. pairs[i][1] \in Peers /\ pairs[i][2] \in Addrs
      BY <2>2
    <3>2. <<pairs[i][2]>> \in Seq(Addrs)
      BY <3>1
    <3>. QED  BY <3>1, <3>2 DEF Found
  <2>4. list \in [1 .. Len(pairs) -> Found]
    BY <2>2, <2>3 DEF WithAddrs
  <2>5. list \in Seq(Found)
    BY <2>2, <2>4, FunSeq
  <2> HIDE DEF list
  <2>6. e \in Reports
    BY <2>5 DEF Reports, Found
  <2>7. Messages(e) = send_peers_discovered(list)
    BY DEF Messages
  <2>8. Send(e, send_peers_discovered(list))
    BY <1>1 DEF Discovered, list
  <2>. QED  BY <2>6, <2>7, <2>8
<1>2. ASSUME NEW p \in Peers, Established(p)
      PROVE  \E e \in Reports : Send(e, Messages(e))
  <2>1. PICK end \in {"dialer", "listener"} :
          Forward([kind |-> "ConnectionEstablished", peer |-> p, num |-> 1, endpoint |-> end])
    BY <1>2 DEF Established
  <2> DEFINE e == [kind |-> "ConnectionEstablished", peer |-> p, num |-> 1, endpoint |-> end]
  <2>2. e \in Reports
    BY DEF Reports
  <2>3. Messages(e) = <<handle_swarm_event(e)>>
    BY DEF Messages
  <2> HIDE DEF e
  <2>4. Forward(e)
    BY <2>1 DEF e
  <2>. QED  BY <2>2, <2>3, <2>4 DEF Forward
<1>3. ASSUME NEW p \in Peers, DialFails(p)
      PROVE  \E e \in Reports : Send(e, Messages(e))
  <2> DEFINE e == [kind |-> "OutgoingConnectionError", peer |-> p]
  <2>2. e \in Reports
    BY DEF Reports
  <2>3. Messages(e) = <<handle_swarm_event(e)>>
    BY DEF Messages
  <2>4. Forward(e)
    BY <1>3 DEF DialFails
  <2> HIDE DEF e
  <2>. QED  BY <2>2, <2>3, <2>4 DEF Forward
<1>4. ASSUME NEW p \in Peers, Closed(p)
      PROVE  \E e \in Reports : Send(e, Messages(e))
  <2> DEFINE e == [kind |-> "ConnectionClosed", peer |-> p, num |-> 0]
  <2>2. e \in Reports
    BY DEF Reports
  <2>3. Messages(e) = <<handle_swarm_event(e)>>
    BY DEF Messages
  <2>4. Forward(e)
    BY <1>4 DEF Closed
  <2> HIDE DEF e
  <2>. QED  BY <2>2, <2>3, <2>4 DEF Forward
<1>5. ASSUME NEW p \in Peers, Response(p)
      PROVE  \E e \in Reports : Send(e, Messages(e))
  <2> DEFINE e == [kind |-> "Response", peer |-> p]
  <2>2. e \in Reports
    BY DEF Reports
  <2>3. Messages(e) = <<send_outbound_response(e)>>
    BY DEF Messages
  <2>4. Send(e, <<send_outbound_response(e)>>)
    BY <1>5 DEF Response
  <2> HIDE DEF e
  <2>. QED  BY <2>2, <2>3, <2>4
<1>6. ASSUME NEW p \in Peers, Request(p)
      PROVE  \E e \in Reports : Send(e, Messages(e))
  <2> DEFINE e == [kind |-> "Request", peer |-> p]
  <2>2. e \in Reports
    BY DEF Reports
  <2>3. Messages(e) = <<send_inbound_request(e)>>
    BY DEF Messages
  <2>4. Send(e, <<send_inbound_request(e)>>)
    BY <1>6 DEF Request
  <2> HIDE DEF e
  <2>. QED  BY <2>2, <2>3, <2>4
<1>7. ASSUME NEW e \in Protocol, ProtocolEvent(e)
      PROVE  \E r \in Reports : Send(r, Messages(r))
  <2>1. e \in Reports
    BY DEF Reports
  <2>2. e.kind \notin {"MdnsDiscovered", "MdnsExpired", "Response", "Request"}
    BY DEF Protocol
  <2>3. Messages(e) = <<handle_swarm_event(e)>>
    BY <2>2 DEF Messages
  <2>. QED  BY <1>7, <2>1, <2>3 DEF ProtocolEvent, Forward
<1>8. CASE Expired
  <2> DEFINE e == [kind |-> "MdnsExpired"]
  <2>1. e \in Reports
    BY DEF Reports
  <2>2. Messages(e) = <<>>
    BY DEF Messages
  <2>3. Send(e, <<>>)
    BY <1>8 DEF Expired
  <2> HIDE DEF e
  <2>. QED  BY <2>1, <2>2, <2>3
<1>9. CASE RegisterEventHandler
  BY <1>9 DEF RegisterEventHandler
<1>. QED  BY <1>1, <1>2, <1>3, <1>4, <1>5, <1>6, <1>7, <1>8, <1>9 DEF PathNext

\* At the start nothing is owed and nothing was told.
LEMMA TransitInit == PathInit => InTransit
<1> SUFFICES ASSUME PathInit PROVE InTransit
  OBVIOUS
<1>1. Image(TellOf, <<>>) = <<>> /\ FlatMap(SaysOf, <<>>) = <<>> /\ FlatMap(OwedOf, <<>>) = <<>>
  <2>1. Image(TellOf, <<>>) = <<>>
    BY DEF Image
  <2>. QED  BY <2>1, PathMaps, FlatMapSeq
<1>2. <<>> \o <<>> = <<>>
  OBVIOUS
<1>3. <<>> \in Seq(Mails) /\ <<>> \in Seq(Reports) /\ <<>> \in Seq(Terms)
  OBVIOUS
<1>4. mailbox = <<>> /\ emitted = <<>> /\ delivered = <<>> /\ genserver = "running"
  BY DEF PathInit
<1>5. Image(TellOf, delivered) \o FlatMap(SaysOf, mailbox) = FlatMap(OwedOf, emitted)
  BY <1>1, <1>2, <1>4
<1>. QED  BY <1>3, <1>4, <1>5 DEF InTransit

\* InTransit is inductive ...
LEMMA TransitStep == InTransit /\ [PathNext]_pathVars => InTransit'
<1> SUFFICES ASSUME InTransit, [PathNext]_pathVars PROVE InTransit'
  OBVIOUS
<1>1. CASE UNCHANGED pathVars
  BY <1>1, TransitStutters DEF pathVars
<1>2. CASE PathNext
  BY <1>2, LoopSends, SendKeeps, HandleInfoKeeps, TransitStutters
<1>. QED  BY <1>1, <1>2

\* ... so it always holds.
LEMMA TransitAlways == PathSpec => []InTransit
BY TransitInit, TransitStep, PTL DEF PathSpec

\* Told and AllOwed are the sequences that InTransit is about.
LEMMA ToldAndOwed ==
  ASSUME InTransit
  PROVE  Told = Image(TellOf, delivered) /\ AllOwed = FlatMap(OwedOf, emitted)
<1>1. delivered \in Seq(Terms) /\ emitted \in Seq(Reports)
  BY DEF InTransit
<1>2. Told = Image(TellOf, delivered)
  <2>1. \A i \in DOMAIN delivered : delivered[i] \in Terms
    BY <1>1, ElementOfSeq
  <2>. QED  BY <2>1, PathMaps DEF Told, Image
<1>3. AllOwed = FlatMap(OwedOf, emitted)
  <2>1. \A i \in DOMAIN emitted : emitted[i] \in Reports
    BY <1>1, ElementOfSeq
  <2>2. [i \in DOMAIN emitted |-> Owed(emitted[i])] = Image(OwedOf, emitted)
    BY <2>1, PathMaps DEF Image
  <2>. QED  BY <2>2 DEF AllOwed, FlatMap
<1>. QED  BY <1>2, <1>3

\* node.rs, events.rs, event.ex and node.ex for any peers and any lists of
\* discovered peers: what the subscribers are told is, at every moment, the
\* beginning of what the swarm owes them, in the order of the events.
THEOREM EventsToldInOrder == PathSpec => []ToldInOrder
<1>1. InTransit => ToldInOrder
  <2> SUFFICES ASSUME InTransit PROVE ToldInOrder
    OBVIOUS
  <2> DEFINE D == Image(TellOf, delivered)
             M == FlatMap(SaysOf, mailbox)
  <2>1. D \in Seq(Told1) /\ M \in Seq(Told1)
    BY TransitTypes
  <2>2. Told = D /\ D \o M = AllOwed
    BY ToldAndOwed DEF InTransit
  <2> HIDE DEF D, M
  <2>3. IsPrefix(D, D \o M)
    BY <2>1, PrefixCat
  <2>. QED  BY <2>2, <2>3 DEF ToldInOrder
<1>. QED  BY <1>1, TransitAlways, PTL

\* The loop's own sets keep their types.
LoopTypes ==
  /\ kademlia \in BOOLEAN /\ auto_dial \in BOOLEAN /\ handler \in BOOLEAN
  /\ connected \subseteq Peers /\ dialing \subseteq Peers
  /\ \A x \in routes : x[1] \in Peers

\* The settings do not change, and peers come only from the network.
LEMMA LoopTypesStep ==
  ASSUME LoopTypes, [PathNext]_pathVars
  PROVE  LoopTypes'
<1>0. /\ kademlia \in BOOLEAN /\ auto_dial \in BOOLEAN /\ handler \in BOOLEAN
      /\ connected \subseteq Peers /\ dialing \subseteq Peers
      /\ \A x \in routes : x[1] \in Peers
  BY DEF LoopTypes
<1>1. kademlia' = kademlia /\ auto_dial' = auto_dial
  <2>1. CASE UNCHANGED pathVars
    BY <2>1 DEF pathVars, settings
  <2>2. CASE PathNext
    BY <2>2 DEF PathNext, RegisterEventHandler, Discovered, Expired, Established, DialFails,
       Closed, Response, Request, ProtocolEvent, HandleInfo, Forward, Send, settings
  <2>. QED  BY <2>1, <2>2
<1>2. handler' = handler \/ handler' = TRUE
  <2>1. CASE UNCHANGED pathVars
    BY <2>1 DEF pathVars
  <2>2. CASE PathNext
    BY <2>2 DEF PathNext, RegisterEventHandler, Discovered, Expired, Established, DialFails,
       Closed, Response, Request, ProtocolEvent, HandleInfo, Forward, Send
  <2>. QED  BY <2>1, <2>2
<1>3. ASSUME NEW pairs \in Batches, Discovered(pairs)
      PROVE  /\ connected' \subseteq Peers /\ dialing' \subseteq Peers
             /\ \A x \in routes' : x[1] \in Peers
  <2>1. Range(pairs) \subseteq Peers \X Addrs
    BY EventAssumption, RangeFinite
  <2>2. \A x \in Range(pairs) : x[1] \in Peers
    BY <2>1
  <2>3. /\ routes' = IF kademlia THEN routes \cup Range(pairs) ELSE routes
        /\ dialing' = IF auto_dial
                        THEN dialing \cup ({x[1] : x \in Range(pairs)} \ connected)
                        ELSE dialing
        /\ connected' = connected
    BY <1>3 DEF Discovered
  <2>. QED  BY <1>0, <2>2, <2>3
<1>4. ASSUME NEW p \in Peers, Established(p) \/ DialFails(p) \/ Closed(p)
      PROVE  connected' \subseteq Peers /\ dialing' \subseteq Peers /\ routes' = routes
  BY <1>0, <1>4 DEF Established, DialFails, Closed
<1>5. \/ \E pairs \in Batches : Discovered(pairs)
      \/ \E p \in Peers : Established(p) \/ DialFails(p) \/ Closed(p)
      \/ UNCHANGED swarm
  <2>1. CASE UNCHANGED pathVars
    BY <2>1 DEF pathVars
  <2>2. CASE PathNext
    BY <2>2 DEF PathNext, RegisterEventHandler, Expired, Response, Request, ProtocolEvent,
       HandleInfo
  <2>. QED  BY <2>1, <2>2
<1>6. /\ connected' \subseteq Peers /\ dialing' \subseteq Peers
      /\ \A x \in routes' : x[1] \in Peers
  BY <1>0, <1>3, <1>4, <1>5 DEF swarm
<1>. QED  BY <1>0, <1>1, <1>2, <1>6 DEF LoopTypes

\* The types, as far as TLC checks them.
LEMMA PathTypes ==
  ASSUME LoopTypes, InTransit
  PROVE  PathTypeOK
<1>1. \A i \in DOMAIN mailbox : mailbox[i] = NOOP \/ mailbox[i][1] = "libp2p_event"
  <2>1. \A i \in DOMAIN mailbox : mailbox[i] \in Mails
    BY ElementOfSeq DEF InTransit
  <2>. QED  BY <2>1, MailCarries DEF Carries
<1>2. \A i \in DOMAIN delivered : \E c \in Clauses : delivered[i][1] = c[1]
  <2>1. \A i \in DOMAIN delivered : delivered[i] \in Terms
    BY ElementOfSeq DEF InTransit
  <2>2. \A i \in DOMAIN delivered : delivered[i][1] \in Tags
    BY <2>1, TermsGood DEF Term
  <2>. QED  BY <2>2 DEF Tags
<1>3. {kademlia, auto_dial, handler} \subseteq BOOLEAN
  BY DEF LoopTypes
<1>. QED  BY <1>1, <1>2, <1>3 DEF LoopTypes, InTransit, PathTypeOK

\* No event of the swarm, for any peers and any lists of discovered peers, is of
\* a shape that from_raw does not know or raises on, so none crashes the
\* GenServer; what has not been told yet is still in the mailbox.  This is the
\* safety half of EventuallyTold.
THEOREM NoEventLost == PathSpec => []NothingLost
<1>1. PathInit => LoopTypes
  BY DEF PathInit, LoopTypes
<1>2. LoopTypes /\ [PathNext]_pathVars => LoopTypes'
  BY LoopTypesStep
<1>3. LoopTypes /\ InTransit => NothingLost
  <2> SUFFICES ASSUME LoopTypes, InTransit PROVE NothingLost
    OBVIOUS
  <2> DEFINE D == Image(TellOf, delivered)
  <2>1. Told = D /\ AllOwed = D \o FlatMap(SaysOf, mailbox)
    BY ToldAndOwed DEF InTransit
  <2>2. FlatMap(SaysOf, <<>>) = <<>>
    BY PathMaps, FlatMapSeq
  <2>3. D \in Seq(Told1)
    BY TransitTypes
  <2> HIDE DEF D
  <2>4. D \o <<>> = D
    BY <2>3, ConcatEmptySeq
  <2>5. genserver = "running" /\ PathTypeOK
    BY PathTypes DEF InTransit
  <2>. QED  BY <2>1, <2>2, <2>4, <2>5 DEF NothingLost
<1>. QED  BY <1>1, <1>2, <1>3, TransitAlways, PTL DEF PathSpec
===============================================================================
