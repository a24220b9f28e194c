---------------------------- MODULE PairedProofs ----------------------------
(***************************************************************************)
(* Theorems about PairedFixture, SymbolicPaired and PairedSearch, for      *)
(* every set of messages, every bound and every profile.  The fixture:     *)
(* what is committed is queued or delivered, nothing is delivered twice,   *)
(* an ordered channel keeps the order of its source, the counters agree    *)
(* with the histories, and a log replays to its state.  The encoding: its  *)
(* steps are the native ones.  The searches: a complete verdict is true,   *)
(* and a witness passes its check.                                         *)
(***************************************************************************)
EXTENDS PairedFixture, SymbolicPaired, PairedSearch, FiniteSetTheorems,
        SequenceTheorems, WellFoundedInduction, TLAPS

\* A non-empty set of positions has a greatest member: the one nearest to the
\* end, by the well-foundedness of < on the distances.
LEMMA Greatest ==
  ASSUME NEW n \in Nat, NEW S, S \subseteq 1 .. n, S # {}
  PROVE  \E x \in S : \A y \in S : y <= x
<1> DEFINE R == {p \in Nat \X Nat : p[1] < p[2]}
           T == {n - y : y \in S}
<1>1. IsWellFoundedOn(R, Nat)
  BY NatLessThanWellFounded DEF OpToRel
<1>2. T \subseteq Nat /\ T # {}
  <2>1. \A y \in S : y \in Int /\ n - y \in Nat
    OBVIOUS
  <2>2. QED
    BY <2>1
<1>3. PICK t \in T : \A u \in T : ~(<<u, t>> \in R)
  <2> HIDE DEF R, T
  <2>1. QED
    BY <1>1, <1>2, WFMin
<1>4. PICK x \in S : t = n - x
  OBVIOUS
<1>5. \A y \in S : n - y \in T
  OBVIOUS
<1>6. \A y \in S : ~(n - y < n - x)
  <2> HIDE DEF T
  <2>1. QED
    BY <1>2, <1>3, <1>4, <1>5
<1>7. QED
  BY <1>6

\* What holds of 0 and of the successor of each number it holds of, holds of
\* all: a least exception would have a predecessor that is none.
LEMMA AllNumbers ==
  ASSUME NEW A, 0 \in A, \A n \in Nat : n \in A => n + 1 \in A
  PROVE  Nat \subseteq A
<1> DEFINE R == {p \in Nat \X Nat : p[1] < p[2]}
           T == Nat \ A
<1> SUFFICES ASSUME T # {} PROVE FALSE
  OBVIOUS
<1>1. IsWellFoundedOn(R, Nat)
  BY NatLessThanWellFounded DEF OpToRel
<1>2. T \subseteq Nat
  OBVIOUS
<1>3. PICK t \in T : \A u \in T : ~(<<u, t>> \in R)
  <2> HIDE DEF R, T
  <2> QED BY <1>1, <1>2, WFMin
<1>4. t # 0 /\ t \in Nat
  OBVIOUS
<1>5. t - 1 \in Nat /\ (t - 1) + 1 = t /\ <<t - 1, t>> \in R
  BY <1>4
<1>6. t - 1 \in T
  BY <1>5
<1> QED BY <1>3, <1>5, <1>6

----------------------------------------------------------------------------
(* Sequences                                                               *)

\* A sequence without its i-th element.
LEMMA RemoveAtShape ==
  ASSUME NEW S, NEW q \in Seq(S), NEW i \in DOMAIN q
  PROVE  /\ RemoveAt(q, i) \in Seq(S)
         /\ Len(RemoveAt(q, i)) = Len(q) - 1
         /\ \A j \in 1 .. Len(q) - 1 :
              RemoveAt(q, i)[j] = IF j < i THEN q[j] ELSE q[j + 1]
<1>1. /\ SubSeq(q, 1, i - 1) \in Seq(S)
      /\ SubSeq(q, i + 1, Len(q)) \in Seq(S)
      /\ Len(SubSeq(q, 1, i - 1)) = i - 1
      /\ Len(SubSeq(q, i + 1, Len(q))) = Len(q) - i
      /\ \A j \in 1 .. i - 1 : SubSeq(q, 1, i - 1)[j] = q[j]
      /\ \A j \in 1 .. Len(q) - i : SubSeq(q, i + 1, Len(q))[j] = q[j + i]
  OBVIOUS
<1> DEFINE head == SubSeq(q, 1, i - 1)
           tail == SubSeq(q, i + 1, Len(q))
<1>2. i \in 1 .. Len(q) /\ Len(q) \in Nat
  OBVIOUS
<1>3. RemoveAt(q, i) = head \o tail
  BY DEF RemoveAt
<1> HIDE DEF head, tail
<1>4. /\ head \in Seq(S) /\ tail \in Seq(S)
      /\ Len(head) = i - 1 /\ Len(tail) = Len(q) - i
      /\ \A j \in 1 .. i - 1 : head[j] = q[j]
      /\ \A j \in 1 .. Len(q) - i : tail[j] = q[j + i]
  BY <1>1 DEF head, tail
<1>5. /\ head \o tail \in Seq(S)
      /\ Len(head \o tail) = Len(q) - 1
  BY <1>2, <1>4
<1>6. ASSUME NEW j \in 1 .. Len(q) - 1
      PROVE  (head \o tail)[j] = IF j < i THEN q[j] ELSE q[j + 1]
  <2>1. CASE j < i
    BY <1>2, <1>4, <2>1
  <2>2. CASE ~(j < i)
    <3>1. (head \o tail)[j] = tail[j - (i - 1)]
      BY <1>2, <1>4, <2>2, SMTT(30)
    <3>2. j - (i - 1) \in 1 .. Len(q) - i /\ j - (i - 1) + i = j + 1
      BY <1>2, <2>2
    <3>3. QED
      BY <1>4, <2>2, <3>1, <3>2
  <2>3. QED
    BY <2>1, <2>2
<1>7. QED
  BY <1>3, <1>5, <1>6

\* A sequence with one more element.
LEMMA AppendShape ==
  ASSUME NEW S, NEW q \in Seq(S), NEW e \in S
  PROVE  /\ Append(q, e) \in Seq(S)
         /\ Len(q) \in Nat
         /\ Len(Append(q, e)) = Len(q) + 1
         /\ \A j \in DOMAIN Append(q, e) :
              \/ j \in DOMAIN q /\ Append(q, e)[j] = q[j]
              \/ j = Len(q) + 1 /\ Append(q, e)[j] = e
OBVIOUS

\* The second part of a sequence.
LEMMA TailElement ==
  ASSUME NEW d \in Seq(Message), NEW p \in Seq(Message), NEW k \in DOMAIN p
  PROVE  /\ Len(d) + k \in DOMAIN (d \o p)
         /\ (d \o p)[Len(d) + k] = p[k]
OBVIOUS

\* Two sequences with the same elements are equal.
LEMMA SameElements ==
  ASSUME NEW S, NEW q \in Seq(S), NEW r \in Seq(S), Len(q) = Len(r),
         \A j \in 1 .. Len(q) : q[j] = r[j]
  PROVE  q = r
OBVIOUS

\* Moving the head of the queue to the end of the deliveries.
LEMMA MoveHead ==
  ASSUME NEW d \in Seq(Message), NEW p \in Seq(Message), 1 \in DOMAIN p
  PROVE  Append(d, p[1]) \o RemoveAt(p, 1) = d \o p
<1> DEFINE q == Append(d, p[1]) \o RemoveAt(p, 1)
           t == RemoveAt(p, 1)
<1>1. /\ t \in Seq(Message) /\ Len(t) = Len(p) - 1
      /\ \A j \in 1 .. Len(p) - 1 : t[j] = p[j + 1]
  <2>1. /\ t \in Seq(Message) /\ Len(t) = Len(p) - 1
        /\ \A j \in 1 .. Len(p) - 1 : t[j] = IF j < 1 THEN p[j] ELSE p[j + 1]
    BY RemoveAtShape
  <2> HIDE DEF t
  <2>2. \A j \in 1 .. Len(p) - 1 : ~(j < 1)
    OBVIOUS
  <2>3. QED
    BY <2>1, <2>2
<1> HIDE DEF t
<1>2. /\ Append(d, p[1]) \in Seq(Message)
      /\ Len(Append(d, p[1])) = Len(d) + 1
      /\ \A j \in 1 .. Len(d) + 1 :
           Append(d, p[1])[j] = IF j <= Len(d) THEN d[j] ELSE p[1]
  OBVIOUS
<1> DEFINE a == Append(d, p[1])
<1> HIDE DEF a
<1>3. /\ a \in Seq(Message) /\ Len(a) = Len(d) + 1
      /\ \A j \in 1 .. Len(d) + 1 : a[j] = IF j <= Len(d) THEN d[j] ELSE p[1]
  BY <1>2 DEF a
<1>4. /\ a \o t \in Seq(Message) /\ d \o p \in Seq(Message)
      /\ Len(a \o t) = Len(d) + Len(p) /\ Len(d \o p) = Len(d) + Len(p)
  <2>1. Len(d) \in Nat /\ Len(p) \in Nat
    OBVIOUS
  <2>2. /\ a \o t \in Seq(Message) /\ d \o p \in Seq(Message)
        /\ Len(a \o t) = Len(a) + Len(t) /\ Len(d \o p) = Len(d) + Len(p)
    BY <1>1, <1>3, ConcatProperties
  <2>3. Len(a) + Len(t) = Len(d) + Len(p)
    BY <1>1, <1>3, <2>1
  <2>4. QED
    BY <2>2, <2>3
<1>5. ASSUME NEW j \in 1 .. Len(d) + Len(p)
      PROVE  (a \o t)[j] = (d \o p)[j]
  <2>1. CASE j <= Len(d)
    BY <1>1, <1>3, <2>1
  <2>2. CASE j = Len(d) + 1
    BY <1>1, <1>3, <2>2
  <2>3. CASE j > Len(d) + 1
    <3>1. (a \o t)[j] = t[j - (Len(d) + 1)]
      BY <1>1, <1>3, <2>3
    <3>2. j - (Len(d) + 1) \in 1 .. Len(p) - 1 /\ j - (Len(d) + 1) + 1 = j - Len(d)
      BY <2>3
    <3>3. t[j - (Len(d) + 1)] = p[j - Len(d)]
      BY <1>1, <3>2
    <3>4. (d \o p)[j] = p[j - Len(d)]
      BY <2>3
    <3>5. QED
      BY <3>1, <3>3, <3>4
  <2>4. j \in Int /\ Len(d) \in Int
    OBVIOUS
  <2>5. j <= Len(d) \/ j = Len(d) + 1 \/ j > Len(d) + 1
    BY <2>4
  <2>6. QED
    BY <2>1, <2>2, <2>3, <2>5
<1>6. a \o t = d \o p
  BY <1>4, <1>5, SameElements
<1>7. QED
  BY <1>6 DEF a, t

\* Removing from the second part of a sequence.
LEMMA RemoveFromTail ==
  ASSUME NEW d \in Seq(Message), NEW p \in Seq(Message), NEW k \in DOMAIN p
  PROVE  RemoveAt(d \o p, Len(d) + k) = d \o RemoveAt(p, k)
<1> DEFINE c == d \o p
           r == RemoveAt(c, Len(d) + k)
           t == RemoveAt(p, k)
<1>1. /\ c \in Seq(Message) /\ Len(c) = Len(d) + Len(p)
      /\ \A j \in 1 .. Len(d) : c[j] = d[j]
      /\ \A j \in 1 .. Len(p) : c[Len(d) + j] = p[j]
      /\ Len(d) + k \in DOMAIN c
  OBVIOUS
<1>2. k \in 1 .. Len(p) /\ Len(p) \in Nat /\ Len(d) \in Nat
  OBVIOUS
<1>3. /\ t \in Seq(Message) /\ Len(t) = Len(p) - 1
      /\ \A j \in 1 .. Len(p) - 1 : t[j] = IF j < k THEN p[j] ELSE p[j + 1]
  BY RemoveAtShape
<1> HIDE DEF c, t
<1>4. /\ r \in Seq(Message) /\ Len(r) = Len(c) - 1
      /\ \A j \in 1 .. Len(c) - 1 :
           r[j] = IF j < Len(d) + k THEN c[j] ELSE c[j + 1]
  BY <1>1, RemoveAtShape
<1> HIDE DEF r
<1>5. d \o t \in Seq(Message) /\ Len(d \o t) = Len(d) + Len(p) - 1
  <2>1. d \o t \in Seq(Message) /\ Len(d \o t) = Len(d) + Len(t)
    BY <1>3, ConcatProperties
  <2>2. Len(d) + Len(t) = Len(d) + Len(p) - 1
    BY <1>2, <1>3
  <2>3. QED
    BY <2>1, <2>2
<1>6. ASSUME NEW j \in 1 .. Len(d) + Len(p) - 1
      PROVE  r[j] = (d \o t)[j]
  <2>1. CASE j <= Len(d)
    <3>1. j \in 1 .. Len(d) /\ j < Len(d) + k /\ j \in 1 .. Len(c) - 1
      BY <1>1, <1>2, <2>1
    <3>2. r[j] = c[j] /\ c[j] = d[j]
      BY <1>1, <1>4, <3>1
    <3>3. (d \o t)[j] = d[j]
      BY <1>3, <3>1
    <3>4. QED
      BY <3>2, <3>3
  <2>2. CASE ~(j <= Len(d))
    <3>1. PICK n \in 1 .. Len(p) - 1 : j = Len(d) + n
      <4>1. /\ j - Len(d) \in 1 .. Len(p) - 1
            /\ j = Len(d) + (j - Len(d))
        BY <1>2, <2>2
      <4>2. QED
        BY <4>1
    <3>2. (d \o t)[j] = t[n]
      BY <1>2, <1>3, <3>1
    <3>3. r[j] = IF n < k THEN p[n] ELSE p[n + 1]
      <4>1. c[Len(d) + n] = p[n] /\ c[Len(d) + (n + 1)] = p[n + 1]
        <5>1. n \in 1 .. Len(p) /\ n + 1 \in 1 .. Len(p)
          BY ONLY <1>2, <3>1
        <5> QED BY ONLY <1>1, <5>1
      <4>2. Len(d) + n + 1 = Len(d) + (n + 1) /\ (Len(d) + n < Len(d) + k <=> n < k)
        BY <1>2, <3>1
      <4>3. QED
        <5>1. j \in 1 .. Len(c) - 1
          BY <1>1
        <5>2. r[j] = IF j < Len(d) + k THEN c[j] ELSE c[j + 1]
          BY <1>4, <5>1
        <5>3. QED
          BY <3>1, <4>1, <4>2, <5>2
    <3>4. QED
      BY <1>3, <3>1, <3>2, <3>3
  <2>3. QED
    BY <2>1, <2>2
<1>7. r = d \o t
  <2>1. Len(r) = Len(d) + Len(p) - 1
    BY <1>1, <1>2, <1>4
  <2>2. QED
    BY <1>4, <1>5, <1>6, <2>1, SameElements
<1>8. QED
  BY <1>7 DEF r, c, t

\* Appending to the second part of a sequence.
LEMMA AppendToTail ==
  ASSUME NEW d \in Seq(Message), NEW p \in Seq(Message), NEW m \in Message
  PROVE  Append(d \o p, m) = d \o Append(p, m)
<1>1. d \o p \in Seq(Message) /\ <<m>> \in Seq(Message)
  BY ConcatProperties
<1>2. /\ Append(d \o p, m) = (d \o p) \o <<m>>
      /\ Append(p, m) = p \o <<m>>
  BY <1>1, AppendIsConcat
<1>3. (d \o p) \o <<m>> = d \o (p \o <<m>>)
  BY <1>1, ConcatAssociative
<1>4. QED
  BY <1>2, <1>3

\* The copies of an identity in a sequence are finitely many.
LEMMA CopiesFinite ==
  ASSUME NEW q \in Seq(Message), NEW id
  PROVE  /\ IsFiniteSet({i \in DOMAIN q : Identity(q[i]) = id})
         /\ Copies(q, id) \in Nat
<1>1. DOMAIN q = 1 .. Len(q) /\ Len(q) \in Nat /\ 1 \in Int /\ Len(q) \in Int
  OBVIOUS
<1>2. IsFiniteSet(1 .. Len(q))
  BY <1>1, FS_Interval, Zenon
<1>3. {i \in DOMAIN q : Identity(q[i]) = id} \subseteq 1 .. Len(q)
  BY <1>1
<1>4. IsFiniteSet({i \in DOMAIN q : Identity(q[i]) = id})
  BY <1>2, <1>3, FS_Subset, Zenon
<1>5. QED
  BY <1>4, FS_CardinalityType, Zenon DEF Copies

\* Whether a message counts as a copy of an identity.
One(m, id) == IF Identity(m) = id THEN 1 ELSE 0

\* Appending a message adds one copy of its identity.
LEMMA CopiesAppend ==
  ASSUME NEW q \in Seq(Message), NEW m \in Message, NEW id
  PROVE  Copies(Append(q, m), id) = Copies(q, id) + One(m, id)
<1> DEFINE I(s) == {i \in DOMAIN s : Identity(s[i]) = id}
<1>1. IsFiniteSet(I(q)) /\ Cardinality(I(q)) \in Nat
  BY CopiesFinite, FS_CardinalityType
<1>2. /\ DOMAIN Append(q, m) = DOMAIN q \cup {Len(q) + 1}
      /\ Append(q, m)[Len(q) + 1] = m
      /\ Len(q) + 1 \notin DOMAIN q
      /\ \A i \in DOMAIN q : Append(q, m)[i] = q[i]
  OBVIOUS
<1>3. CASE Identity(m) = id
  <2>1. I(Append(q, m)) = I(q) \cup {Len(q) + 1}
    BY <1>2, <1>3, Zenon
  <2>2. Len(q) + 1 \notin I(q)
    BY <1>2
  <2> HIDE DEF I
  <2>3. Cardinality(I(q) \cup {Len(q) + 1}) = Cardinality(I(q)) + 1
    BY <1>1, <2>2, FS_AddElement, Zenon
  <2>4. Cardinality(I(Append(q, m))) = Cardinality(I(q)) + 1
    BY <2>1, <2>3, Zenon
  <2>5. QED
    BY <1>3, <2>4 DEF Copies, One, I
<1>4. CASE Identity(m) # id
  <2>1. I(Append(q, m)) = I(q)
    BY <1>2, <1>4, Zenon
  <2> HIDE DEF I
  <2>2. Cardinality(I(Append(q, m))) = Cardinality(I(q)) + 0
    BY <1>1, <2>1
  <2>3. QED
    BY <1>4, <2>2 DEF Copies, One, I
<1>5. QED
  BY <1>3, <1>4

\* Removing an element removes one copy of its identity.
LEMMA CopiesRemove ==
  ASSUME NEW q \in Seq(Message), NEW i \in DOMAIN q, NEW id
  PROVE  Copies(RemoveAt(q, i), id) = Copies(q, id) - One(q[i], id)
<1> DEFINE r == RemoveAt(q, i)
           before == {j \in DOMAIN q : Identity(q[j]) = id}
           after == {j \in DOMAIN r : Identity(r[j]) = id}
           f == [j \in after |-> IF j < i THEN j ELSE j + 1]
<1>1. /\ r \in Seq(Message)
      /\ DOMAIN r = 1 .. Len(q) - 1
      /\ \A j \in 1 .. Len(q) - 1 : r[j] = IF j < i THEN q[j] ELSE q[j + 1]
  BY RemoveAtShape
<1>2. i \in 1 .. Len(q) /\ DOMAIN q = 1 .. Len(q) /\ Len(q) \in Nat
  OBVIOUS
<1>3. /\ IsFiniteSet(before) /\ Cardinality(before) \in Nat
      /\ IsFiniteSet(after)
  BY <1>1, CopiesFinite, FS_CardinalityType
<1> HIDE DEF r
<1>4. f \in Bijection(after, before \ {i})
  <2>1. \A j \in after : j \in 1 .. Len(q) - 1 /\ Identity(r[j]) = id
    BY <1>1
  <2>2. \A j \in after : f[j] \in before \ {i}
    BY <1>1, <1>2, <2>1
  <2>3. \A j, k \in after : f[j] = f[k] => j = k
    BY <1>2, <2>1
  <2>4. \A k \in before \ {i} : \E j \in after : f[j] = k
    <3> TAKE k \in before \ {i}
    <3>1. k \in 1 .. Len(q) /\ k # i /\ Identity(q[k]) = id
      BY <1>2
    <3>2. CASE k < i
      <4>1. k \in 1 .. Len(q) - 1 /\ r[k] = q[k]
        BY <1>1, <1>2, <3>1, <3>2
      <4>2. k \in after
        BY <1>1, <3>1, <4>1
      <4>3. QED
        BY <3>2, <4>2
    <3>3. CASE ~(k < i)
      <4>1. k - 1 \in 1 .. Len(q) - 1 /\ ~(k - 1 < i) /\ k - 1 + 1 = k
        BY <1>2, <3>1, <3>3
      <4>2. r[k - 1] = q[k]
        BY <1>1, <4>1
      <4>3. k - 1 \in after
        BY <1>1, <3>1, <4>1, <4>2
      <4>4. f[k - 1] = k
        BY <4>1, <4>3
      <4>5. QED
        BY <4>3, <4>4
    <3>4. QED
      BY <3>2, <3>3
  <2> HIDE DEF before, after
  <2>5. f \in [after -> before \ {i}]
    BY <2>2
  <2> HIDE DEF f
  <2>6. DOMAIN f = after
    BY <2>5
  <2>7. QED
    BY <2>3, <2>4, <2>5, <2>6 DEF Bijection, Injection, Surjection, IsInjective
<1> HIDE DEF before, after, f
<1>5. Cardinality(before \ {i}) = Cardinality(after)
  BY <1>3, <1>4, FS_Bijection, Zenon DEF ExistsBijection
<1>6. Cardinality(before \ {i})
        = IF i \in before THEN Cardinality(before) - 1 ELSE Cardinality(before)
  BY <1>3, FS_RemoveElement, Zenon
<1>7. i \in before <=> Identity(q[i]) = id
  BY <1>2 DEF before
<1>8. Copies(r, id) = Cardinality(after) /\ Copies(q, id) = Cardinality(before)
  BY DEF Copies, before, after
<1>9. QED
  BY <1>3, <1>5, <1>6, <1>7, <1>8 DEF One, r

\* The search from the end of the queue finds a message of the identity.
LEMMA LastPendingFound ==
  ASSUME NEW s, s.pending \in Seq(Message), NEW m, LastPending(s, m) # 0
  PROVE  /\ LastPending(s, m) \in DOMAIN s.pending
         /\ Identity(s.pending[LastPending(s, m)]) = Identity(m)
<1> DEFINE I == {i \in 1 .. Len(s.pending) : Identity(s.pending[i]) = Identity(m)}
<1>1. LastPending(s, m) = IF I # {} THEN Max(I) ELSE 0
  BY DEF LastPending, SelectLastInSeq
<1>2. I # {}
  BY <1>1
<1>3. I \subseteq 1 .. Len(s.pending) /\ Len(s.pending) \in Nat
  OBVIOUS
<1>4. DOMAIN s.pending = 1 .. Len(s.pending)
  OBVIOUS
<1>5. \E x \in I : \A y \in I : x >= y
  <2> HIDE DEF I
  <2>1. PICK x \in I : \A y \in I : y <= x
    BY <1>2, <1>3, Greatest
  <2>2. \A y \in I : y \in Int
    BY <1>3
  <2>3. QED
    BY <2>1, <2>2
<1>6. Max(I) \in I
  <2> HIDE DEF I
  <2>1. QED
    BY <1>5 DEF Max
<1>7. QED
  BY <1>1, <1>2, <1>4, <1>6

----------------------------------------------------------------------------
(* The invariant                                                           *)

Shape ==
  /\ profile \in Profile
  /\ state = [committed |-> state.committed, pending |-> state.pending,
              delivered |-> state.delivered, received |-> state.received,
              sourceClock |-> state.sourceClock,
              destinationClock |-> state.destinationClock,
              channel |-> state.channel, log |-> state.log]
  /\ state.committed \in Seq(Message)
  /\ state.pending \in Seq(Message)
  /\ state.delivered \in Seq(Message)
  /\ state.log \in Seq(LogEntry)
  /\ state.sourceClock \in Nat
  /\ state.destinationClock \in Nat
  /\ state.channel \in Nat

\* The histories and counters of a state with that shape.
LEMMA ShapeTypes ==
  ASSUME Shape
  PROVE  /\ state.committed \in Seq(Message) /\ Len(state.committed) \in Nat
         /\ state.pending \in Seq(Message) /\ Len(state.pending) \in Nat
         /\ state.delivered \in Seq(Message) /\ Len(state.delivered) \in Nat
         /\ state.log \in Seq(LogEntry) /\ Len(state.log) \in Nat
         /\ state.sourceClock \in Nat /\ state.destinationClock \in Nat
         /\ state.channel \in Nat
<1>1. /\ state.committed \in Seq(Message) /\ state.pending \in Seq(Message)
      /\ state.delivered \in Seq(Message) /\ state.log \in Seq(LogEntry)
      /\ state.sourceClock \in Nat /\ state.destinationClock \in Nat
      /\ state.channel \in Nat
  BY DEF Shape
<1>2. QED
  BY <1>1

\* The bounds; a channel transition is also a transaction.
Bounded ==
  /\ Len(state.log) <= MaxTransactions
  /\ state.channel <= MaxChannel
  /\ state.channel <= Len(state.log)
  /\ Len(state.pending) <= MaxPending

\* Without duplicates the canonical history names no identity twice.
CommittedOnce ==
  ~profile.duplicates =>
    \A i, j \in DOMAIN state.committed :
      i # j => Identity(state.committed[i]) # Identity(state.committed[j])

PairedInv ==
  /\ Shape
  /\ Bounded
  /\ CountersAgree
  /\ ChannelConserves
  /\ CommittedOnce
  /\ InOrderChannel

\* The empty channel satisfies the invariant.
LEMMA PairedInitInv == PairedInit => PairedInv
<1> SUFFICES ASSUME PairedInit PROVE PairedInv
  OBVIOUS
<1>1. /\ state.committed = << >> /\ state.pending = << >> /\ state.delivered = << >>
      /\ state.log = << >>
      /\ state.sourceClock = 0 /\ state.destinationClock = 0 /\ state.channel = 0
  BY DEF PairedInit, Initial
<1>2. Shape
  <2>1. profile \in Profile
    BY ProfilesType DEF PairedInit
  <2>2. state = Initial
    BY DEF PairedInit
  <2>3. QED
    BY <1>1, <2>1, <2>2 DEF Shape, Initial
<1>3. Bounded /\ CountersAgree
  BY <1>1, BoundsPositive DEF Bounded, CountersAgree
<1>4. ChannelConserves
  <2>1. ASSUME NEW id PROVE Copies(<< >>, id) = 0
    <3>1. {i \in DOMAIN << >> : Identity(<< >>[i]) = id} = {}
      OBVIOUS
    <3>2. QED
      BY <3>1, FS_EmptySet DEF Copies
  <2>2. QED
    BY <1>1, <2>1 DEF ChannelConserves
<1>5. CommittedOnce /\ InOrderChannel
  BY <1>1 DEF CommittedOnce, InOrderChannel
<1>6. QED
  BY <1>2, <1>3, <1>4, <1>5 DEF PairedInv

----------------------------------------------------------------------------
(* What each move does to the fields of the state                          *)

LEMMA EnqueueEffect ==
  ASSUME Shape, NEW m \in Message, Enqueue(m)
  PROVE  /\ Shape'
         /\ state'.committed = Append(state.committed, m)
         /\ state'.pending = Append(state.pending, m)
         /\ state'.delivered = state.delivered
         /\ state'.sourceClock = state.sourceClock + 1
         /\ state'.destinationClock = state.destinationClock
         /\ state'.channel = state.channel + 1
         /\ Len(state'.log) = Len(state.log) + 1
<1>1. state' = Enqueued(state, m) /\ profile' = profile
  BY DEF Enqueue
<1>2. Entry("enqueue", m, state.channel + 1) \in LogEntry
  BY DEF Entry, LogEntry, Shape
<1> DEFINE e == Entry("enqueue", m, state.channel + 1)
<1> HIDE DEF e
<1>3. state' = [committed |-> Append(state.committed, m),
                pending |-> Append(state.pending, m),
                delivered |-> state.delivered, received |-> state.received,
                sourceClock |-> state.sourceClock + 1,
                destinationClock |-> state.destinationClock,
                channel |-> state.channel + 1, log |-> Append(state.log, e)]
  BY <1>1 DEF Enqueued, Shape, e
<1>4. /\ Append(state.committed, m) \in Seq(Message)
      /\ Append(state.pending, m) \in Seq(Message)
      /\ Append(state.log, e) \in Seq(LogEntry)
      /\ Len(Append(state.log, e)) = Len(state.log) + 1
  BY <1>2, ShapeTypes, AppendShape DEF e
<1>5. /\ state.sourceClock + 1 \in Nat /\ state.channel + 1 \in Nat
      /\ state.delivered \in Seq(Message) /\ state.destinationClock \in Nat
      /\ profile \in Profile
  BY ShapeTypes DEF Shape
<1>6. Shape'
  BY <1>1, <1>3, <1>4, <1>5 DEF Shape
<1>7. QED
  BY <1>3, <1>4, <1>6

LEMMA DeliverEffect ==
  ASSUME Shape, NEW i \in DOMAIN state.pending, Deliver(i)
  PROVE  /\ Shape'
         /\ state'.committed = state.committed
         /\ state'.pending = RemoveAt(state.pending, i)
         /\ state'.delivered = Append(state.delivered, state.pending[i])
         /\ state'.sourceClock = state.sourceClock
         /\ state'.destinationClock = state.destinationClock + 1
         /\ state'.channel = state.channel + 1
         /\ Len(state'.log) = Len(state.log) + 1
<1> DEFINE m == state.pending[i]
           e == Entry("deliver", m, state.channel + 1)
           got == [state.received EXCEPT ![m.nonce] = m.payload]
<1>1. state' = Delivered(state, i) /\ profile' = profile
  BY DEF Deliver
<1>2. m \in Message
  BY DEF Shape
<1>3. e \in LogEntry
  <2> HIDE DEF m
  <2> QED
    BY <1>2 DEF Entry, LogEntry, Shape
<1>4. state' = [committed |-> state.committed,
                pending |-> RemoveAt(state.pending, i),
                delivered |-> Append(state.delivered, m),
                received |-> got,
                sourceClock |-> state.sourceClock,
                destinationClock |-> state.destinationClock + 1,
                channel |-> state.channel + 1, log |-> Append(state.log, e)]
  <2>1. state' = [state EXCEPT !.pending = RemoveAt(@, i),
                               !.delivered = Append(@, m), !.received = got,
                               !.destinationClock = @ + 1, !.channel = @ + 1,
                               !.log = Append(@, e)]
    BY <1>1 DEF Delivered
  <2> HIDE DEF m, e, got
  <2>2. QED
    BY <2>1 DEF Shape
<1> HIDE DEF m, e, got
<1>5. /\ RemoveAt(state.pending, i) \in Seq(Message)
      /\ Append(state.delivered, m) \in Seq(Message)
      /\ Append(state.log, e) \in Seq(LogEntry)
      /\ Len(Append(state.log, e)) = Len(state.log) + 1
  <2>1. RemoveAt(state.pending, i) \in Seq(Message)
    BY ShapeTypes, RemoveAtShape
  <2>2. Append(state.delivered, m) \in Seq(Message)
    BY <1>2, ShapeTypes, AppendShape
  <2>3. QED
    BY <1>3, <2>1, <2>2, ShapeTypes, AppendShape
<1>6. /\ state.destinationClock + 1 \in Nat /\ state.channel + 1 \in Nat
      /\ state.committed \in Seq(Message) /\ state.sourceClock \in Nat
      /\ profile \in Profile
  BY ShapeTypes DEF Shape
<1>7. Shape'
  BY <1>1, <1>4, <1>5, <1>6 DEF Shape
<1>8. QED
  BY <1>4, <1>5, <1>7 DEF m

LEMMA ReorgEffect ==
  ASSUME Shape, CountersAgree, NEW i \in DOMAIN state.committed, Reorg(i)
  PROVE  LET k == LastPending(state, state.committed[i])
         IN  /\ Shape'
             /\ k \in DOMAIN state.pending
             /\ Identity(state.pending[k]) = Identity(state.committed[i])
             /\ state'.committed = RemoveAt(state.committed, i)
             /\ state'.pending = RemoveAt(state.pending, k)
             /\ state'.delivered = state.delivered
             /\ state'.sourceClock = state.sourceClock - 1
             /\ state'.destinationClock = state.destinationClock
             /\ state'.channel = state.channel
             /\ Len(state'.log) = Len(state.log) + 1
<1> DEFINE m == state.committed[i]
           k == LastPending(state, m)
           e == Entry("reorg", m, state.channel)
<1>1. /\ state' = Reorged(state, i) /\ profile' = profile
      /\ k # 0
  BY DEF Reorg, CanReorg
<1>2. m \in Message
  BY DEF Shape
<1>3. e \in LogEntry
  <2> HIDE DEF m
  <2> QED
    BY <1>2 DEF Entry, LogEntry, Shape
<1>4. k \in DOMAIN state.pending /\ Identity(state.pending[k]) = Identity(m)
  BY <1>1, LastPendingFound DEF Shape
<1>5. state' = [committed |-> RemoveAt(state.committed, i),
                pending |-> RemoveAt(state.pending, k),
                delivered |-> state.delivered, received |-> state.received,
                sourceClock |-> state.sourceClock - 1,
                destinationClock |-> state.destinationClock,
                channel |-> state.channel, log |-> Append(state.log, e)]
  BY <1>1 DEF Reorged, Shape
<1> HIDE DEF m, e, k
<1>6. /\ RemoveAt(state.pending, k) \in Seq(Message)
      /\ RemoveAt(state.committed, i) \in Seq(Message)
      /\ Append(state.log, e) \in Seq(LogEntry)
      /\ Len(Append(state.log, e)) = Len(state.log) + 1
  <2>1. /\ RemoveAt(state.pending, k) \in Seq(Message)
        /\ RemoveAt(state.committed, i) \in Seq(Message)
    BY <1>4, ShapeTypes, RemoveAtShape
  <2>2. QED
    BY <1>3, <2>1, ShapeTypes, AppendShape
<1>7. state.sourceClock - 1 \in Nat
  BY DEF CountersAgree, Shape
<1>8. Shape'
  BY <1>1, <1>5, <1>6, <1>7 DEF Shape
<1>9. QED
  BY <1>4, <1>5, <1>6, <1>8 DEF m, k

----------------------------------------------------------------------------
(* One step per move                                                       *)

\* Committing a message keeps the invariant.
LEMMA EnqueueInv ==
  ASSUME PairedInv, NEW m \in Message, Enqueue(m)
  PROVE  PairedInv'
<1> USE DEF PairedInv
<1>1. /\ Shape'
      /\ state'.committed = Append(state.committed, m)
      /\ state'.pending = Append(state.pending, m)
      /\ state'.delivered = state.delivered
      /\ state'.sourceClock = state.sourceClock + 1
      /\ state'.destinationClock = state.destinationClock
      /\ state'.channel = state.channel + 1
      /\ Len(state'.log) = Len(state.log) + 1
  BY EnqueueEffect
<1>2. CanEnqueue(profile, state, m) /\ profile' = profile
  BY DEF Enqueue
<1>3. /\ Len(state.log) \in Nat /\ Len(state.committed) \in Nat
      /\ Len(state.pending) \in Nat /\ Len(state.delivered) \in Nat
      /\ Len(state'.committed) = Len(state.committed) + 1
      /\ Len(state'.pending) = Len(state.pending) + 1
  <2>1. /\ Len(Append(state.committed, m)) = Len(state.committed) + 1
        /\ Len(Append(state.pending, m)) = Len(state.pending) + 1
    BY ShapeTypes, AppendShape
  <2>2. QED
    BY <1>1, <2>1, ShapeTypes
<1>4. Bounded'
  <2>1. /\ Len(state.log) < MaxTransactions /\ state.channel < MaxChannel
        /\ Len(state.pending) < MaxPending
    BY <1>2 DEF CanEnqueue, HasChannel, HasTransaction
  <2>2. state.channel <= Len(state.log) /\ state.channel \in Nat
    BY DEF Bounded, Shape
  <2>3. /\ Len(state.log) + 1 <= MaxTransactions /\ state.channel + 1 <= MaxChannel
        /\ state.channel + 1 <= Len(state.log) + 1
        /\ Len(state.pending) + 1 <= MaxPending
    <3> DEFINE h == state.channel
               l == Len(state.log)
               p == Len(state.pending)
    <3>1. h \in Nat /\ l \in Nat /\ p \in Nat
      BY <1>3, <2>2
    <3> HIDE DEF h, l, p
    <3>2. l < MaxTransactions /\ h < MaxChannel /\ p < MaxPending /\ h <= l
      BY <2>1, <2>2 DEF h, l, p
    <3>3. l + 1 <= MaxTransactions /\ h + 1 <= MaxChannel /\ h + 1 <= l + 1
          /\ p + 1 <= MaxPending
      BY <3>1, <3>2, BoundsPositive
    <3>4. QED
      BY <3>3 DEF h, l, p
  <2>4. QED
    BY <1>1, <1>3, <2>3 DEF Bounded
<1>5. CountersAgree'
  <2>1. /\ state.sourceClock = Len(state.committed)
        /\ state.destinationClock = Len(state.delivered)
        /\ state.channel \in Nat
        /\ 2 * state.channel = Len(state.log) + Len(state.committed) + Len(state.delivered)
    BY DEF CountersAgree, Shape
  <2>2. 2 * (state.channel + 1)
          = (Len(state.log) + 1) + (Len(state.committed) + 1) + Len(state.delivered)
    <3> DEFINE h == state.channel
               l == Len(state.log)
               c == Len(state.committed)
               d == Len(state.delivered)
    <3>1. h \in Nat /\ l \in Nat /\ c \in Nat /\ d \in Nat /\ 2 * h = l + c + d
      BY <1>3, <2>1
    <3> HIDE DEF h, l, c, d
    <3>2. 2 * (h + 1) = (l + 1) + (c + 1) + d
      BY <3>1
    <3>3. QED
      BY <3>2 DEF h, l, c, d
  <2>3. QED
    BY <1>1, <1>3, <2>1, <2>2 DEF CountersAgree
<1>6. ChannelConserves'
  <2>1. ASSUME NEW id \in {Identity(n) : n \in Message}
        PROVE  Copies(state'.committed, id)
                 = Copies(state'.pending, id) + Copies(state'.delivered, id)
    <3>1. /\ Copies(state'.committed, id) = Copies(state.committed, id) + One(m, id)
          /\ Copies(state'.pending, id) = Copies(state.pending, id) + One(m, id)
      BY <1>1, CopiesAppend DEF Shape
    <3>2. Copies(state.committed, id)
            = Copies(state.pending, id) + Copies(state.delivered, id)
      BY DEF ChannelConserves
    <3>3. /\ Copies(state.pending, id) \in Nat /\ Copies(state.delivered, id) \in Nat
          /\ One(m, id) \in Nat
      BY CopiesFinite DEF Shape, One
    <3>4. QED
      BY <1>1, <3>1, <3>2, <3>3
  <2>2. QED
    BY <2>1 DEF ChannelConserves
<1>7. CommittedOnce'
  <2> SUFFICES ASSUME ~profile.duplicates, NEW i \in DOMAIN state'.committed,
                      NEW j \in DOMAIN state'.committed, i # j
               PROVE  Identity(state'.committed[i]) # Identity(state'.committed[j])
    BY <1>2 DEF CommittedOnce
  <2>1. \A k \in DOMAIN state.committed : Identity(state.committed[k]) # Identity(m)
    BY <1>2 DEF CanEnqueue
  <2>2. \A k \in DOMAIN state'.committed :
          \/ k \in DOMAIN state.committed /\ state'.committed[k] = state.committed[k]
          \/ k = Len(state.committed) + 1 /\ state'.committed[k] = m
    <3>1. \A k \in DOMAIN Append(state.committed, m) :
            \/ /\ k \in DOMAIN state.committed
               /\ Append(state.committed, m)[k] = state.committed[k]
            \/ k = Len(state.committed) + 1 /\ Append(state.committed, m)[k] = m
      BY ShapeTypes, AppendShape
    <3>2. QED
      BY <1>1, <3>1
  <2>3. QED
    BY <2>1, <2>2 DEF CommittedOnce
<1>8. InOrderChannel'
  <2>1. state.committed = state.delivered \o state.pending
          => Append(state.committed, m) = state.delivered \o Append(state.pending, m)
    <3>1. state.delivered \in Seq(Message) /\ state.pending \in Seq(Message)
      BY DEF Shape
    <3>2. Append(state.delivered \o state.pending, m)
            = state.delivered \o Append(state.pending, m)
      BY <3>1, AppendToTail
    <3>3. QED
      BY <3>2
  <2>2. QED
    BY <1>1, <1>2, <2>1 DEF InOrderChannel
<1>9. QED
  BY <1>1, <1>4, <1>5, <1>6, <1>7, <1>8

\* Delivering a message keeps the invariant.
LEMMA DeliverInv ==
  ASSUME PairedInv, NEW i \in DOMAIN state.pending, Deliver(i)
  PROVE  PairedInv'
<1> USE DEF PairedInv
<1>1. /\ Shape'
      /\ state'.committed = state.committed
      /\ state'.pending = RemoveAt(state.pending, i)
      /\ state'.delivered = Append(state.delivered, state.pending[i])
      /\ state'.sourceClock = state.sourceClock
      /\ state'.destinationClock = state.destinationClock + 1
      /\ state'.channel = state.channel + 1
      /\ Len(state'.log) = Len(state.log) + 1
  BY DeliverEffect
<1>2. CanDeliver(profile, state, i) /\ profile' = profile
  BY DEF Deliver
<1>3. /\ Len(state.log) \in Nat /\ Len(state.committed) \in Nat
      /\ Len(state.pending) \in Nat /\ Len(state.delivered) \in Nat
      /\ Len(state'.delivered) = Len(state.delivered) + 1
      /\ Len(state'.pending) = Len(state.pending) - 1
  <2>1. state.pending[i] \in Message
    BY ShapeTypes
  <2>2. Len(Append(state.delivered, state.pending[i])) = Len(state.delivered) + 1
    BY <2>1, ShapeTypes, AppendShape
  <2>3. Len(RemoveAt(state.pending, i)) = Len(state.pending) - 1
    BY ShapeTypes, RemoveAtShape
  <2>4. QED
    BY <1>1, <2>2, <2>3, ShapeTypes
<1>4. Bounded'
  <2>1. Len(state.log) < MaxTransactions /\ state.channel < MaxChannel
    BY <1>2 DEF CanDeliver, HasChannel, HasTransaction
  <2>2. /\ state.channel <= Len(state.log) /\ state.channel \in Nat
        /\ Len(state.pending) <= MaxPending
    BY DEF Bounded, Shape
  <2>3. /\ Len(state.log) + 1 <= MaxTransactions /\ state.channel + 1 <= MaxChannel
        /\ state.channel + 1 <= Len(state.log) + 1
        /\ Len(state.pending) - 1 <= MaxPending
    <3> DEFINE h == state.channel
               l == Len(state.log)
               p == Len(state.pending)
    <3>1. h \in Nat /\ l \in Nat /\ p \in Nat
      BY <1>3, <2>2
    <3> HIDE DEF h, l, p
    <3>2. l < MaxTransactions /\ h < MaxChannel /\ p <= MaxPending /\ h <= l
      BY <2>1, <2>2 DEF h, l, p
    <3>3. l + 1 <= MaxTransactions /\ h + 1 <= MaxChannel /\ h + 1 <= l + 1
          /\ p - 1 <= MaxPending
      BY <3>1, <3>2, BoundsPositive
    <3>4. QED
      BY <3>3 DEF h, l, p
  <2>4. QED
    BY <1>1, <1>3, <2>3 DEF Bounded
<1>5. CountersAgree'
  <2>1. /\ state.sourceClock = Len(state.committed)
        /\ state.destinationClock = Len(state.delivered)
        /\ state.channel \in Nat
        /\ 2 * state.channel = Len(state.log) + Len(state.committed) + Len(state.delivered)
    BY DEF CountersAgree, Shape
  <2>2. 2 * (state.channel + 1)
          = (Len(state.log) + 1) + Len(state.committed) + (Len(state.delivered) + 1)
    <3> DEFINE h == state.channel
               l == Len(state.log)
               c == Len(state.committed)
               d == Len(state.delivered)
    <3>1. h \in Nat /\ l \in Nat /\ c \in Nat /\ d \in Nat /\ 2 * h = l + c + d
      BY <1>3, <2>1
    <3> HIDE DEF h, l, c, d
    <3>2. 2 * (h + 1) = (l + 1) + c + (d + 1)
      BY <3>1
    <3>3. QED
      BY <3>2 DEF h, l, c, d
  <2>3. QED
    BY <1>1, <1>3, <2>1, <2>2 DEF CountersAgree
<1>6. ChannelConserves'
  <2> DEFINE m == state.pending[i]
  <2>1. ASSUME NEW id \in {Identity(n) : n \in Message}
        PROVE  Copies(state'.committed, id)
                 = Copies(state'.pending, id) + Copies(state'.delivered, id)
    <3>1. m \in Message
      BY DEF Shape
    <3>2. /\ Copies(state'.delivered, id) = Copies(state.delivered, id) + One(m, id)
          /\ Copies(state'.pending, id) = Copies(state.pending, id) - One(m, id)
      BY <1>1, <3>1, CopiesAppend, CopiesRemove DEF Shape
    <3>3. Copies(state.committed, id)
            = Copies(state.pending, id) + Copies(state.delivered, id)
      BY DEF ChannelConserves
    <3>4. /\ Copies(state.pending, id) \in Nat /\ Copies(state.delivered, id) \in Nat
          /\ One(m, id) \in Nat
      BY CopiesFinite DEF Shape, One
    <3>5. QED
      BY <1>1, <3>2, <3>3, <3>4
  <2>2. QED
    BY <2>1 DEF ChannelConserves
<1>7. CommittedOnce'
  BY <1>1, <1>2 DEF CommittedOnce
<1>8. InOrderChannel'
  <2> SUFFICES ASSUME ~profile.reorder, ~profile.duplicates
               PROVE  state'.committed = state'.delivered \o state'.pending
    BY <1>2 DEF InOrderChannel
  <2>1. i = 1
    BY <1>2 DEF CanDeliver
  <2>2. Append(state.delivered, state.pending[1]) \o RemoveAt(state.pending, 1)
          = state.delivered \o state.pending
    BY <2>1, MoveHead DEF Shape
  <2>3. QED
    BY <1>1, <2>1, <2>2 DEF InOrderChannel
<1>9. QED
  BY <1>1, <1>4, <1>5, <1>6, <1>7, <1>8

\* Rolling a message back keeps the invariant.
LEMMA ReorgInv ==
  ASSUME PairedInv, NEW i \in DOMAIN state.committed, Reorg(i)
  PROVE  PairedInv'
<1> USE DEF PairedInv
<1> DEFINE m == state.committed[i]
           k == LastPending(state, m)
<1>1. /\ Shape'
      /\ k \in DOMAIN state.pending
      /\ Identity(state.pending[k]) = Identity(m)
      /\ state'.committed = RemoveAt(state.committed, i)
      /\ state'.pending = RemoveAt(state.pending, k)
      /\ state'.delivered = state.delivered
      /\ state'.sourceClock = state.sourceClock - 1
      /\ state'.destinationClock = state.destinationClock
      /\ state'.channel = state.channel
      /\ Len(state'.log) = Len(state.log) + 1
  BY ReorgEffect
<1>2. CanReorg(profile, state, i) /\ profile' = profile
  BY DEF Reorg
<1> HIDE DEF k
<1>3. /\ Len(state.log) \in Nat /\ Len(state.committed) \in Nat
      /\ Len(state.pending) \in Nat /\ Len(state.delivered) \in Nat
      /\ Len(state'.committed) = Len(state.committed) - 1
      /\ Len(state'.pending) = Len(state.pending) - 1
  <2>1. /\ Len(RemoveAt(state.committed, i)) = Len(state.committed) - 1
        /\ Len(RemoveAt(state.pending, k)) = Len(state.pending) - 1
    BY <1>1, ShapeTypes, RemoveAtShape
  <2>2. QED
    BY <1>1, <2>1, ShapeTypes
<1>4. Bounded'
  <2>1. Len(state.log) < MaxTransactions
    BY <1>2 DEF CanReorg, HasTransaction
  <2>2. /\ state.channel <= MaxChannel /\ state.channel <= Len(state.log)
        /\ state.channel \in Nat /\ Len(state.pending) <= MaxPending
    BY DEF Bounded, Shape
  <2>3. /\ Len(state.log) + 1 <= MaxTransactions
        /\ state.channel <= Len(state.log) + 1
        /\ Len(state.pending) - 1 <= MaxPending
    BY <1>3, <2>1, <2>2, BoundsPositive
  <2>4. QED
    BY <1>1, <1>3, <2>2, <2>3 DEF Bounded
<1>5. CountersAgree'
  <2>1. /\ state.sourceClock = Len(state.committed)
        /\ state.destinationClock = Len(state.delivered)
        /\ state.channel \in Nat
        /\ 2 * state.channel = Len(state.log) + Len(state.committed) + Len(state.delivered)
    BY DEF CountersAgree, Shape
  <2>2. 2 * state.channel
          = (Len(state.log) + 1) + (Len(state.committed) - 1) + Len(state.delivered)
    <3> DEFINE h == state.channel
               l == Len(state.log)
               c == Len(state.committed)
               d == Len(state.delivered)
    <3>1. h \in Nat /\ l \in Nat /\ c \in Nat /\ d \in Nat /\ 2 * h = l + c + d
      BY <1>3, <2>1
    <3> HIDE DEF h, l, c, d
    <3>2. 2 * h = (l + 1) + (c - 1) + d
      BY <3>1
    <3>3. QED
      BY <3>2 DEF h, l, c, d
  <2>3. QED
    BY <1>1, <1>3, <2>1, <2>2 DEF CountersAgree
<1>6. ChannelConserves'
  <2>1. ASSUME NEW id \in {Identity(n) : n \in Message}
        PROVE  Copies(state'.committed, id)
                 = Copies(state'.pending, id) + Copies(state'.delivered, id)
    <3>1. /\ Copies(state'.committed, id) = Copies(state.committed, id) - One(m, id)
          /\ Copies(state'.pending, id)
               = Copies(state.pending, id) - One(state.pending[k], id)
      BY <1>1, CopiesRemove DEF Shape
    <3>2. Copies(state.committed, id)
            = Copies(state.pending, id) + Copies(state.delivered, id)
      BY DEF ChannelConserves
    <3>3. One(state.pending[k], id) = One(m, id)
      BY <1>1 DEF One
    <3>4. /\ Copies(state.pending, id) \in Nat /\ Copies(state.delivered, id) \in Nat
          /\ One(m, id) \in Nat
      BY CopiesFinite DEF Shape, One
    <3>5. QED
      BY <1>1, <3>1, <3>2, <3>3, <3>4
  <2>2. QED
    BY <2>1 DEF ChannelConserves
<1>7. CommittedOnce'
  <2> SUFFICES ASSUME ~profile.duplicates, NEW a \in DOMAIN state'.committed,
                      NEW b \in DOMAIN state'.committed, a # b
               PROVE  Identity(state'.committed[a]) # Identity(state'.committed[b])
    BY <1>2 DEF CommittedOnce
  <2>1. \A j \in DOMAIN state'.committed :
          /\ j \in 1 .. Len(state.committed) - 1
          /\ state'.committed[j]
               = IF j < i THEN state.committed[j] ELSE state.committed[j + 1]
    <3>1. /\ Len(RemoveAt(state.committed, i)) = Len(state.committed) - 1
          /\ RemoveAt(state.committed, i) \in Seq(Message)
          /\ \A j \in 1 .. Len(state.committed) - 1 :
               RemoveAt(state.committed, i)[j]
                 = IF j < i THEN state.committed[j] ELSE state.committed[j + 1]
      BY RemoveAtShape DEF Shape
    <3>2. DOMAIN RemoveAt(state.committed, i) = 1 .. Len(state.committed) - 1
      BY <3>1
    <3>3. QED
      BY <1>1, <3>1, <3>2
  <2> DEFINE old(j) == IF j < i THEN j ELSE j + 1
  <2>2. /\ old(a) \in DOMAIN state.committed /\ old(b) \in DOMAIN state.committed
        /\ old(a) # old(b)
    <3>1. i \in 1 .. Len(state.committed) /\ DOMAIN state.committed = 1 .. Len(state.committed)
      BY DEF Shape
    <3>2. /\ a \in 1 .. Len(state.committed) - 1
          /\ b \in 1 .. Len(state.committed) - 1
      BY <2>1
    <3>3. QED
      BY <1>3, <3>1, <3>2
  <2>3. /\ state'.committed[a] = state.committed[old(a)]
        /\ state'.committed[b] = state.committed[old(b)]
    BY <2>1
  <2>4. QED
    BY <2>2, <2>3 DEF CommittedOnce
<1>8. InOrderChannel'
  <2> SUFFICES ASSUME ~profile.reorder, ~profile.duplicates
               PROVE  state'.committed = state'.delivered \o state'.pending
    BY <1>2 DEF InOrderChannel
  <2>1. state.committed = state.delivered \o state.pending
    BY DEF InOrderChannel
  <2>2. /\ Len(state.delivered) + k \in DOMAIN state.committed
        /\ state.committed[Len(state.delivered) + k] = state.pending[k]
    <3>1. /\ Len(state.delivered) + k \in DOMAIN (state.delivered \o state.pending)
          /\ (state.delivered \o state.pending)[Len(state.delivered) + k]
               = state.pending[k]
      BY <1>1, ShapeTypes, TailElement
    <3>2. QED
      BY <2>1, <3>1
  <2>3. i = Len(state.delivered) + k
    BY <1>1, <2>2 DEF CommittedOnce
  <2>4. RemoveAt(state.delivered \o state.pending, Len(state.delivered) + k)
          = state.delivered \o RemoveAt(state.pending, k)
    BY <1>1, RemoveFromTail DEF Shape
  <2>5. QED
    BY <1>1, <2>1, <2>3, <2>4
<1>9. QED
  BY <1>1, <1>4, <1>5, <1>6, <1>7, <1>8

----------------------------------------------------------------------------
(* The theorems                                                            *)

\* The invariant holds throughout every behaviour of the fixture.
THEOREM PairedInvariant == PairedSpec => []PairedInv
<1>1. PairedInit => PairedInv
  BY PairedInitInv
<1>2. PairedInv /\ [PairedNext]_pairedVars => PairedInv'
  <2> SUFFICES ASSUME PairedInv, [PairedNext]_pairedVars PROVE PairedInv'
    OBVIOUS
  <2>1. CASE UNCHANGED pairedVars
    BY <2>1 DEF pairedVars, PairedInv, Shape, Bounded, CountersAgree,
                ChannelConserves, CommittedOnce, InOrderChannel
  <2>2. CASE \E m \in Message : Enqueue(m)
    BY <2>2, EnqueueInv
  <2>3. CASE \E i \in DOMAIN state.pending : Deliver(i)
    BY <2>3, DeliverInv
  <2>4. CASE \E i \in DOMAIN state.committed : Reorg(i)
    BY <2>4, ReorgInv
  <2>5. QED
    BY <2>1, <2>2, <2>3, <2>4 DEF PairedNext
<1>3. QED
  BY <1>1, <1>2, PTL DEF PairedSpec

\* DualChainState keeps its shape and its bounds (paired.py:118-148, 269-285).
THEOREM PairedTypeCorrect == PairedSpec => []PairedTypeOK
<1>1. PairedInv => PairedTypeOK
  <2> SUFFICES ASSUME PairedInv PROVE PairedTypeOK
    OBVIOUS
  <2> USE DEF PairedInv
  <2>1. /\ Len(state.committed) \in Nat /\ Len(state.delivered) \in Nat
        /\ Len(state.log) \in Nat
    BY DEF Shape
  <2>2. /\ state.sourceClock \in 0 .. MaxTransactions
        /\ state.destinationClock \in 0 .. MaxTransactions
        /\ state.channel \in 0 .. MaxChannel
    BY <2>1, BoundsPositive DEF Shape, Bounded, CountersAgree
  <2>3. {"committed", "pending", "delivered", "log"} \subseteq DOMAIN state
    BY DEF Shape
  <2>4. QED
    BY <2>2, <2>3 DEF PairedTypeOK, Shape, Bounded
<1>2. QED
  BY <1>1, PairedInvariant, PTL

\* The channel neither loses, forges nor doubles a message
\* (paired.py:186-261).
THEOREM ChannelConservation == PairedSpec => []ChannelConserves
<1>1. PairedInv => ChannelConserves
  BY DEF PairedInv
<1>2. QED
  BY <1>1, PairedInvariant, PTL

\* A channel without reordering and duplicates keeps the order of its source
\* (paired.py:208, 249-258).
THEOREM OrderedDelivery == PairedSpec => []InOrderChannel
<1>1. PairedInv => InOrderChannel
  BY DEF PairedInv
<1>2. QED
  BY <1>1, PairedInvariant, PTL

\* The clocks and counters agree with the histories (paired.py:259-260, 283-285).
THEOREM CounterAgreement == PairedSpec => []CountersAgree
<1>1. PairedInv => CountersAgree
  BY DEF PairedInv
<1>2. QED
  BY <1>1, PairedInvariant, PTL

\* What a history holds once at most.
LEMMA TwoCopies ==
  ASSUME NEW q \in Seq(Message), NEW i \in DOMAIN q, NEW j \in DOMAIN q, i # j,
         Identity(q[i]) = Identity(q[j])
  PROVE  Copies(q, Identity(q[i])) >= 2
<1> DEFINE D == {n \in DOMAIN q : Identity(q[n]) = Identity(q[i])}
<1>1. IsFiniteSet(D)
  BY CopiesFinite
<1>2. {i} \subseteq D /\ j \in D /\ j \notin {i}
  OBVIOUS
<1>3. Copies(q, Identity(q[i])) = Cardinality(D)
  BY DEF Copies
<1> HIDE DEF D
<1>4. IsFiniteSet({i}) /\ Cardinality({i}) = 1
  BY FS_Singleton
<1>5. Cardinality({i} \cup {j}) = 2
  <2>1. Cardinality({i} \cup {j}) = Cardinality({i}) + 1
    BY <1>2, <1>4, FS_AddElement, Zenon
  <2> QED BY ONLY <1>4, <2>1
<1>6. {i} \cup {j} \subseteq D
  BY <1>2
<1>7. Cardinality({i} \cup {j}) <= Cardinality(D)
  BY <1>1, <1>6, FS_Subset
<1> QED BY <1>3, <1>5, <1>7

LEMMA OneCopy ==
  ASSUME NEW q \in Seq(Message), NEW id,
         \A i, j \in DOMAIN q : i # j => Identity(q[i]) # Identity(q[j])
  PROVE  Copies(q, id) <= 1
<1> DEFINE C == {n \in DOMAIN q : Identity(q[n]) = id}
<1>1. Copies(q, id) = Cardinality(C)
  BY DEF Copies
<1>2. CASE C = {}
  <2>1. Cardinality({}) = 0
    BY FS_EmptySet
  <2> QED BY ONLY <1>1, <1>2, <2>1
<1>3. CASE C # {}
  <2>1. PICK n \in C : TRUE
    BY <1>3
  <2>2. C = {n}
    BY <2>1
  <2>3. Cardinality({n}) = 1
    BY FS_Singleton
  <2> HIDE DEF C
  <2>4. Copies(q, id) = Cardinality({n})
    BY <1>1, <2>2
  <2> QED BY ONLY <2>3, <2>4
<1> QED BY <1>2, <1>3

\* Without duplicates the queue and the deliveries name each identity once.
LEMMA NamedOnce ==
  ASSUME PairedInv, ~profile.duplicates, NEW q \in {state.pending, state.delivered},
         NEW i \in DOMAIN q, NEW j \in DOMAIN q, i # j
  PROVE  Identity(q[i]) # Identity(q[j])
<1> SUFFICES ASSUME Identity(q[i]) = Identity(q[j]) PROVE FALSE
  OBVIOUS
<1> DEFINE id == Identity(q[i])
<1> USE DEF PairedInv
<1>1. /\ q \in Seq(Message) /\ state.committed \in Seq(Message)
      /\ state.pending \in Seq(Message) /\ state.delivered \in Seq(Message)
  BY DEF Shape
<1>2. q[i] \in Message
  BY <1>1
<1>3. Copies(q, id) >= 2
  BY <1>1, TwoCopies
<1>4. Copies(state.committed, id) <= 1
  BY <1>1, OneCopy DEF CommittedOnce
<1>5. Copies(state.committed, id)
        = Copies(state.pending, id) + Copies(state.delivered, id)
  BY <1>2 DEF ChannelConserves
<1>6. /\ Copies(state.pending, id) \in Nat /\ Copies(state.delivered, id) \in Nat
      /\ Copies(state.committed, id) \in Nat
  BY <1>1, CopiesFinite
<1>7. Copies(q, id) \in {Copies(state.pending, id), Copies(state.delivered, id)}
  BY Zenon
<1> HIDE DEF id
<1> QED BY <1>3, <1>4, <1>5, <1>6, <1>7

\* Without duplicates no identity is delivered twice (paired.py:191-195, 245-247).
THEOREM SingleDelivery == PairedSpec => []DeliveredOnce
<1>1. PairedInv => DeliveredOnce
  BY NamedOnce DEF DeliveredOnce
<1>2. QED
  BY <1>1, PairedInvariant, PTL

(* The channel keeps messages: none is lost, forged or doubled, whatever   *)
(* is rolled back (paired.py:186-261).                                     *)
THEOREM ChannelKeeping == PairedSpec => []ChannelKeepsMessages
<1>1. ChannelConserves /\ DeliveredOnce => ChannelKeepsMessages
  BY DEF ChannelKeepsMessages
<1>2. QED
  BY <1>1, ChannelConservation, SingleDelivery, PTL

----------------------------------------------------------------------------
(* Replay.  A recursive function is some function that satisfies its       *)
(* equation; there is one, built up by length, and any two agree.          *)

\* What a replay makes of one more entry.
Replaying(p, s, e, n) == IF s = None THEN None ELSE ReplayStep(p, s, e, n)

ReplayOf(p, b, log, n, f) ==
  f = [k \in 0 .. n |-> IF k = 0 THEN b ELSE Replaying(p, f[k - 1], log[k], k)]

LEMMA ReplayExists ==
  ASSUME NEW p, NEW b, NEW log, NEW n \in Nat
  PROVE  \E f : ReplayOf(p, b, log, n, f)
<1> DEFINE A == {k \in Nat : \E f : ReplayOf(p, b, log, k, f)}
<1>1. 0 \in A
  <2>1. ReplayOf(p, b, log, 0, [k \in 0 .. 0 |-> b])
    BY DEF ReplayOf
  <2> QED BY <2>1
<1>2. ASSUME NEW k \in Nat, k \in A PROVE k + 1 \in A
  <2>1. PICK f : ReplayOf(p, b, log, k, f)
    BY <1>2
  <2> DEFINE g == [j \in 0 .. k + 1 |->
                     IF j = k + 1 THEN Replaying(p, f[k], log[k + 1], k + 1) ELSE f[j]]
  <2>2. ASSUME NEW j \in 0 .. k + 1
        PROVE  g[j] = IF j = 0 THEN b ELSE Replaying(p, g[j - 1], log[j], j)
    <3>1. CASE j = 0
      BY <2>1, <3>1 DEF ReplayOf
    <3>2. CASE j \in 1 .. k
      <4>1. j # k + 1 /\ j - 1 # k + 1 /\ j - 1 \in 0 .. k + 1 /\ j \in 0 .. k /\ j # 0
        BY <3>2
      <4>2. g[j] = f[j] /\ g[j - 1] = f[j - 1]
        BY <4>1
      <4>3. f[j] = Replaying(p, f[j - 1], log[j], j)
        BY ONLY <2>1, <4>1 DEF ReplayOf
      <4> QED BY ONLY <4>1, <4>2, <4>3
    <3>3. CASE j = k + 1
      <4>1. j # 0 /\ j - 1 = k /\ k # k + 1 /\ k \in 0 .. k + 1
        BY <3>3
      <4>2. g[j] = Replaying(p, f[k], log[k + 1], k + 1) /\ g[j - 1] = f[k]
        BY <3>3, <4>1
      <4> QED BY ONLY <3>3, <4>1, <4>2
    <3> QED BY <3>1, <3>2, <3>3
  <2>3. g = [j \in 0 .. k + 1 |-> g[j]]
    OBVIOUS
  <2> HIDE DEF g
  <2>4. ReplayOf(p, b, log, k + 1, g)
    BY ONLY <2>2, <2>3 DEF ReplayOf
  <2> QED BY <2>4
<1>3. Nat \subseteq A
  <2> HIDE DEF A
  <2> QED BY <1>1, <1>2, AllNumbers
<1> QED BY <1>3

\* Two replays agree as far as their logs do.
LEMMA ReplaysAgree ==
  ASSUME NEW p, NEW b, NEW log, NEW more, NEW n \in Nat, NEW m \in Nat, n <= m,
         \A k \in 1 .. n : log[k] = more[k],
         NEW f, ReplayOf(p, b, log, n, f), NEW g, ReplayOf(p, b, more, m, g)
  PROVE  f[n] = g[n]
<1> DEFINE A == {k \in Nat : k <= n => f[k] = g[k]}
<1>1. 0 \in A
  <2>1. 0 \in 0 .. n /\ 0 \in 0 .. m
    OBVIOUS
  <2>2. f[0] = b /\ g[0] = b
    BY ONLY <2>1, ReplayOf(p, b, log, n, f), ReplayOf(p, b, more, m, g) DEF ReplayOf
  <2> QED BY <2>2
<1>2. ASSUME NEW k \in Nat, k \in A PROVE k + 1 \in A
  <2> SUFFICES ASSUME k + 1 <= n PROVE f[k + 1] = g[k + 1]
    OBVIOUS
  <2>1. /\ k + 1 \in 0 .. n /\ k + 1 \in 0 .. m /\ k + 1 # 0 /\ (k + 1) - 1 = k
        /\ k <= n /\ k + 1 \in 1 .. n
    OBVIOUS
  <2>2. /\ f[k + 1] = Replaying(p, f[k], log[k + 1], k + 1)
        /\ g[k + 1] = Replaying(p, g[k], more[k + 1], k + 1)
    BY ONLY <2>1, ReplayOf(p, b, log, n, f), ReplayOf(p, b, more, m, g) DEF ReplayOf
  <2> QED BY <1>2, <2>1, <2>2
<1>3. Nat \subseteq A
  <2> HIDE DEF A
  <2> QED BY <1>1, <1>2, AllNumbers
<1> QED BY <1>3

LEMMA ReplayedRuns ==
  ASSUME NEW p, NEW b, NEW log, Len(log) \in Nat
  PROVE  \E f : ReplayOf(p, b, log, Len(log), f) /\ Replayed(p, b, log) = f[Len(log)]
<1> DEFINE f == CHOOSE g : ReplayOf(p, b, log, Len(log), g)
<1>1. ReplayOf(p, b, log, Len(log), f)
  BY ReplayExists
<1>2. Replayed(p, b, log) = f[Len(log)]
  BY DEF Replayed, ReplayOf, Replaying
<1> QED BY <1>1, <1>2

LEMMA ReplayedAppend ==
  ASSUME NEW p, NEW b, NEW log \in Seq(LogEntry), NEW e \in LogEntry
  PROVE  Replayed(p, b, Append(log, e))
           = Replaying(p, Replayed(p, b, log), e, Len(log) + 1)
<1> DEFINE more == Append(log, e)
           n == Len(log)
<1>1. /\ n \in Nat /\ Len(more) = n + 1 /\ Len(more) \in Nat /\ more[n + 1] = e
      /\ n + 1 # 0 /\ (n + 1) - 1 = n /\ n <= n + 1 /\ n + 1 \in 0 .. n + 1
      /\ \A k \in 1 .. n : log[k] = more[k]
  OBVIOUS
<1> HIDE DEF more, n
<1>2. PICK f : ReplayOf(p, b, log, n, f) /\ Replayed(p, b, log) = f[n]
  BY <1>1, ReplayedRuns DEF n
<1>3. PICK g : ReplayOf(p, b, more, n + 1, g) /\ Replayed(p, b, more) = g[n + 1]
  BY <1>1, ReplayedRuns
<1>4. f[n] = g[n]
  BY <1>1, <1>2, <1>3, ReplaysAgree
<1>5. g[n + 1] = Replaying(p, g[n], more[n + 1], n + 1)
  BY ONLY <1>1, <1>3 DEF ReplayOf
<1> QED BY <1>1, <1>2, <1>3, <1>4, <1>5 DEF more, n

LEMMA ReplayedEmpty == \A p, b : Replayed(p, b, << >>) = b
<1> SUFFICES ASSUME NEW p, NEW b PROVE Replayed(p, b, << >>) = b
  OBVIOUS
<1>1. Len(<< >>) = 0 /\ 0 \in Nat /\ 0 \in 0 .. 0
  OBVIOUS
<1>2. PICK f : ReplayOf(p, b, << >>, 0, f) /\ Replayed(p, b, << >>) = f[0]
  BY <1>1, ReplayedRuns
<1> QED BY ONLY <1>1, <1>2 DEF ReplayOf

----------------------------------------------------------------------------
(* What a move makes of a state of the fixture                             *)

Nonces == {m.nonce : m \in Message}
Payloads == {m.payload : m \in Message}

Fields(s) ==
  [committed |-> s.committed, pending |-> s.pending, delivered |-> s.delivered,
   received |-> s.received, sourceClock |-> s.sourceClock,
   destinationClock |-> s.destinationClock, channel |-> s.channel, log |-> s.log]

LEMMA StateFields ==
  ASSUME NEW s \in DualChainState
  PROVE  /\ s = Fields(s)
         /\ s.committed \in Seq(Message) /\ s.pending \in Seq(Message)
         /\ s.delivered \in Seq(Message)
         /\ s.received \in [Nonces -> Payloads \cup {None}]
         /\ s.sourceClock \in Int /\ s.destinationClock \in Nat
         /\ s.channel \in Nat /\ s.log \in Seq(LogEntry)
         /\ s # None
BY NoneIsApart DEF DualChainState, Nonces, Payloads, Fields

LEMMA EntryTyped ==
  ASSUME NEW a \in {"enqueue", "deliver", "reorg"}, NEW m \in Message, NEW c \in Nat
  PROVE  /\ Entry(a, m, c) \in LogEntry
         /\ Entry(a, m, c).action = a /\ Entry(a, m, c).message = m
         /\ Entry(a, m, c).channel = c
BY DEF Entry, LogEntry

LEMMA EnqueuedFields ==
  ASSUME NEW s \in DualChainState, NEW m \in Message
  PROVE  /\ Enqueued(s, m) \in DualChainState
         /\ Enqueued(s, m) =
              [committed |-> Append(s.committed, m), pending |-> Append(s.pending, m),
               delivered |-> s.delivered, received |-> s.received,
               sourceClock |-> s.sourceClock + 1, destinationClock |-> s.destinationClock,
               channel |-> s.channel + 1,
               log |-> Append(s.log, Entry("enqueue", m, s.channel + 1))]
         /\ Entry("enqueue", m, s.channel + 1) \in LogEntry
<1>1. s.channel + 1 \in Nat /\ s.sourceClock + 1 \in Int
  BY StateFields
<1>2. PICK e \in LogEntry : e = Entry("enqueue", m, s.channel + 1)
  BY <1>1, EntryTyped
<1>3. Enqueued(s, m) =
        [committed |-> Append(s.committed, m), pending |-> Append(s.pending, m),
         delivered |-> s.delivered, received |-> s.received,
         sourceClock |-> s.sourceClock + 1, destinationClock |-> s.destinationClock,
         channel |-> s.channel + 1, log |-> Append(s.log, e)]
  <2>1. s = Fields(s)
    BY StateFields
  <2>2. Enqueued(s, m) =
          [s EXCEPT !.pending = Append(@, m), !.committed = Append(@, m),
                    !.sourceClock = @ + 1, !.channel = @ + 1, !.log = Append(@, e)]
    BY <1>2 DEF Enqueued
  <2> QED BY ONLY <2>1, <2>2 DEF Fields
<1>4. /\ Append(s.committed, m) \in Seq(Message) /\ Append(s.pending, m) \in Seq(Message)
      /\ Append(s.log, e) \in Seq(LogEntry)
  BY StateFields, AppendShape
<1>5. Enqueued(s, m) \in DualChainState
  BY <1>1, <1>3, <1>4, StateFields DEF DualChainState, Nonces, Payloads
<1> QED BY <1>2, <1>3, <1>5

LEMMA DeliveredFields ==
  ASSUME NEW s \in DualChainState, NEW i \in DOMAIN s.pending, NEW m, m = s.pending[i]
  PROVE  /\ m \in Message
         /\ Delivered(s, i) \in DualChainState
         /\ Delivered(s, i) =
              [committed |-> s.committed, pending |-> RemoveAt(s.pending, i),
               delivered |-> Append(s.delivered, m),
               received |-> [s.received EXCEPT ![m.nonce] = m.payload],
               sourceClock |-> s.sourceClock, destinationClock |-> s.destinationClock + 1,
               channel |-> s.channel + 1,
               log |-> Append(s.log, Entry("deliver", m, s.channel + 1))]
         /\ Entry("deliver", m, s.channel + 1) \in LogEntry
<1>1. /\ s.channel + 1 \in Nat /\ s.destinationClock + 1 \in Nat /\ m \in Message
      /\ RemoveAt(s.pending, i) \in Seq(Message)
  BY StateFields, RemoveAtShape
<1>2. PICK e \in LogEntry : e = Entry("deliver", m, s.channel + 1)
  BY <1>1, EntryTyped
<1> DEFINE got == [s.received EXCEPT ![m.nonce] = m.payload]
<1>3. Delivered(s, i) =
        [s EXCEPT !.pending = RemoveAt(@, i), !.delivered = Append(@, m),
                  !.received = got, !.destinationClock = @ + 1, !.channel = @ + 1,
                  !.log = Append(@, e)]
  BY <1>2 DEF Delivered
<1>4. got \in [Nonces -> Payloads \cup {None}]
  BY <1>1, StateFields DEF Nonces, Payloads
<1> HIDE DEF got
<1>5. Delivered(s, i) =
        [committed |-> s.committed, pending |-> RemoveAt(s.pending, i),
         delivered |-> Append(s.delivered, m), received |-> got,
         sourceClock |-> s.sourceClock, destinationClock |-> s.destinationClock + 1,
         channel |-> s.channel + 1, log |-> Append(s.log, e)]
  <2>1. s = Fields(s)
    BY StateFields
  <2> QED BY ONLY <1>3, <2>1 DEF Fields
<1>6. Append(s.delivered, m) \in Seq(Message) /\ Append(s.log, e) \in Seq(LogEntry)
  BY <1>1, StateFields, AppendShape
<1>7. Delivered(s, i) \in DualChainState
  BY <1>1, <1>4, <1>5, <1>6, StateFields DEF DualChainState, Nonces, Payloads
<1> QED BY <1>1, <1>2, <1>5, <1>7 DEF got

LEMMA ReorgedFields ==
  ASSUME NEW s \in DualChainState, NEW i \in DOMAIN s.committed,
         NEW m, m = s.committed[i], LastPending(s, m) # 0
  PROVE  /\ m \in Message
         /\ LastPending(s, m) \in DOMAIN s.pending
         /\ Reorged(s, i) \in DualChainState
         /\ Reorged(s, i) =
              [committed |-> RemoveAt(s.committed, i),
               pending |-> RemoveAt(s.pending, LastPending(s, m)),
               delivered |-> s.delivered, received |-> s.received,
               sourceClock |-> s.sourceClock - 1, destinationClock |-> s.destinationClock,
               channel |-> s.channel, log |-> Append(s.log, Entry("reorg", m, s.channel))]
         /\ Entry("reorg", m, s.channel) \in LogEntry
<1>1. /\ LastPending(s, m) \in DOMAIN s.pending /\ m \in Message
      /\ s.sourceClock - 1 \in Int /\ s.channel \in Nat
  BY StateFields, LastPendingFound
<1>2. PICK e \in LogEntry : e = Entry("reorg", m, s.channel)
  BY <1>1, EntryTyped
<1>3. Reorged(s, i) =
        [committed |-> RemoveAt(s.committed, i),
         pending |-> RemoveAt(s.pending, LastPending(s, m)),
         delivered |-> s.delivered, received |-> s.received,
         sourceClock |-> s.sourceClock - 1, destinationClock |-> s.destinationClock,
         channel |-> s.channel, log |-> Append(s.log, e)]
  <2>1. s = Fields(s)
    BY StateFields
  <2>2. Reorged(s, i) =
          [s EXCEPT !.pending = RemoveAt(@, LastPending(s, m)),
                    !.committed = RemoveAt(@, i), !.sourceClock = @ - 1,
                    !.log = Append(@, e)]
    BY <1>2 DEF Reorged
  <2> QED BY ONLY <2>1, <2>2 DEF Fields
<1>4. /\ RemoveAt(s.committed, i) \in Seq(Message)
      /\ RemoveAt(s.pending, LastPending(s, m)) \in Seq(Message)
      /\ Append(s.log, e) \in Seq(LogEntry)
  BY <1>1, StateFields, AppendShape, RemoveAtShape
<1>5. Reorged(s, i) \in DualChainState
  BY <1>1, <1>3, <1>4, StateFields DEF DualChainState, Nonces, Payloads
<1> QED BY <1>1, <1>2, <1>3, <1>5

LEMMA InitialTyped == Initial \in DualChainState /\ Initial.log = << >>
BY DEF Initial, DualChainState

\* A move that an entry records is the one its replay makes.
LEMMA ReplayOfMove ==
  ASSUME NEW p, NEW s \in DualChainState, NEW t \in DualChainState, NEW e \in LogEntry,
         t = Applied(p, s, e.action, e.message), t.log = Append(s.log, e)
  PROVE  Replaying(p, s, e, Len(s.log) + 1) = t
<1>1. s # None /\ t # None /\ s.log \in Seq(LogEntry)
  BY StateFields
<1>2. t.log[Len(t.log)] = e /\ Len(t.log) = Len(s.log) + 1
  BY <1>1
<1> QED BY <1>1, <1>2 DEF Replaying, ReplayStep

\* Each move of a replay writes one entry.
LEMMA AppliedLonger ==
  ASSUME NEW p, NEW s \in DualChainState, NEW a, NEW m \in Message,
         NEW t, t = Applied(p, s, a, m), t # None
  PROVE  Len(s.log) \in Nat /\ Len(t.log) = Len(s.log) + 1
<1>1. \E e \in LogEntry : t.log = Append(s.log, e)
  <2>1. CASE a = "enqueue"
    <3>1. t = Enqueued(s, m)
      BY <2>1 DEF Applied
    <3>2. PICK e \in LogEntry : e = Entry("enqueue", m, s.channel + 1)
      BY EnqueuedFields
    <3>3. t = [committed |-> Append(s.committed, m), pending |-> Append(s.pending, m),
               delivered |-> s.delivered, received |-> s.received,
               sourceClock |-> s.sourceClock + 1, destinationClock |-> s.destinationClock,
               channel |-> s.channel + 1, log |-> Append(s.log, e)]
      BY <3>1, <3>2, EnqueuedFields
    <3>4. t.log = Append(s.log, e)
      BY ONLY <3>3
    <3> QED BY <3>4
  <2>2. CASE a = "deliver"
    <3> DEFINE i == FirstPending(s, m)
    <3>1. CanDeliver(p, s, i) /\ t = Delivered(s, i)
      BY <2>2 DEF Applied
    <3>2. i \in DOMAIN s.pending
      BY <3>1 DEF CanDeliver
    <3> HIDE DEF i
    <3>3. PICK l : l = s.pending[i]
      OBVIOUS
    <3>4. PICK e \in LogEntry : e = Entry("deliver", l, s.channel + 1)
      BY <3>2, <3>3, DeliveredFields
    <3>5. t.log = Append(s.log, e)
      BY <3>1, <3>2, <3>3, <3>4, DeliveredFields
    <3> QED BY <3>5
  <2>3. CASE a = "reorg"
    <3> DEFINE i == Len(s.committed)
    <3>1. CanReorg(p, s, i) /\ t = Reorged(s, i)
      BY <2>3 DEF Applied
    <3>2. i \in DOMAIN s.committed /\ LastPending(s, s.committed[i]) # 0
      BY <3>1 DEF CanReorg
    <3> HIDE DEF i
    <3>3. PICK l : l = s.committed[i]
      OBVIOUS
    <3>4. PICK e \in LogEntry : e = Entry("reorg", l, s.channel)
      BY <3>2, <3>3, ReorgedFields
    <3>5. t.log = Append(s.log, e)
      BY <3>1, <3>2, <3>3, <3>4, ReorgedFields
    <3> QED BY <3>5
  <2>4. CASE a \notin {"enqueue", "deliver", "reorg"}
    BY <2>4 DEF Applied
  <2> QED BY <2>1, <2>2, <2>3, <2>4
<1>2. s.log \in Seq(LogEntry)
  BY StateFields
<1> QED BY <1>1, <1>2

\* A log that starts with the first entry is not replayed on a state that has
\* a history of its own.
LEMMA InheritedRefused ==
  ASSUME NEW p, NEW b \in DualChainState, b.log # << >>,
         NEW log \in Seq(LogEntry), log # << >>
  PROVE  Replayed(p, b, log) = None
<1> DEFINE n == Len(log)
<1>1. /\ n \in Nat /\ n >= 1 /\ b # None /\ log[1] \in LogEntry
      /\ b.log \in Seq(LogEntry) /\ Len(b.log) \in Nat /\ Len(b.log) # 0
  BY StateFields
<1>2. PICK f : ReplayOf(p, b, log, n, f) /\ Replayed(p, b, log) = f[n]
  BY <1>1, ReplayedRuns
<1> HIDE DEF n
<1>3. f[0] = b /\ \A k \in 1 .. n : f[k] = Replaying(p, f[k - 1], log[k], k)
  <2>1. 0 \in 0 .. n /\ \A k \in 1 .. n : k \in 0 .. n /\ k # 0
    BY <1>1
  <2> QED BY ONLY <1>2, <2>1 DEF ReplayOf
<1>4. f[1] = None
  <2> DEFINE t == Applied(p, b, log[1].action, log[1].message)
  <2>1. 1 \in 1 .. n /\ 1 - 1 = 0
    BY <1>1
  <2>2. f[1] = ReplayStep(p, b, log[1], 1)
    BY <1>1, <1>3, <2>1 DEF Replaying
  <2>3. CASE t = None
    BY <2>2, <2>3 DEF ReplayStep
  <2>4. CASE t # None
    <3>1. log[1].message \in Message
      BY <1>1 DEF LogEntry
    <3>2. Len(t.log) = Len(b.log) + 1
      BY <2>4, <3>1, AppliedLonger
    <3>3. Len(t.log) # 1
      BY <1>1, <3>2
    <3> QED BY <2>2, <2>4, <3>3 DEF ReplayStep
  <2> QED BY <2>3, <2>4
<1> DEFINE A == {k \in Nat : k + 1 <= n => f[k + 1] = None}
<1>5. 0 \in A
  BY <1>4
<1>6. ASSUME NEW k \in Nat, k \in A PROVE k + 1 \in A
  <2> SUFFICES ASSUME (k + 1) + 1 <= n PROVE f[(k + 1) + 1] = None
    OBVIOUS
  <2>1. (k + 1) + 1 \in 1 .. n /\ ((k + 1) + 1) - 1 = k + 1 /\ k + 1 <= n
    BY <1>1
  <2>2. f[k + 1] = None
    BY <1>6, <2>1
  <2>3. f[(k + 1) + 1] = Replaying(p, f[k + 1], log[(k + 1) + 1], (k + 1) + 1)
    BY <1>3, <2>1
  <2> QED BY <2>2, <2>3 DEF Replaying
<1>7. Nat \subseteq A
  <2> HIDE DEF A
  <2> QED BY <1>5, <1>6, AllNumbers
<1>8. n - 1 \in Nat /\ (n - 1) + 1 = n /\ n <= n
  BY <1>1
<1>9. f[(n - 1) + 1] = None
  BY <1>7, <1>8
<1> QED BY <1>2, <1>8, <1>9

----------------------------------------------------------------------------
(* ReplayReproduces.  Its condition makes the move that a log entry names  *)
(* the one that was made: the queued message at hand is the first of its   *)
(* identity, and the message rolled back is the latest.                    *)

ReplayInv == state \in DualChainState /\ ReplayReproduces

\* The position of the first message of an identity is found.
LEMMA FirstPendingFound ==
  ASSUME NEW s, s.pending \in Seq(Message), NEW m, NEW i \in DOMAIN s.pending,
         Identity(s.pending[i]) = Identity(m),
         \A j \in DOMAIN s.pending : Identity(s.pending[j]) = Identity(m) => i <= j
  PROVE  FirstPending(s, m) = i
<1> DEFINE I == {j \in 1 .. Len(s.pending) : Identity(s.pending[j]) = Identity(m)}
<1>1. DOMAIN s.pending = 1 .. Len(s.pending) /\ Len(s.pending) \in Nat
  OBVIOUS
<1>2. FirstPending(s, m) = IF I # {} THEN Min(I) ELSE 0
  BY DEF FirstPending, SelectInSeq
<1>3. i \in I /\ (\A j \in I : i <= j) /\ I \subseteq Int
  BY <1>1
<1> HIDE DEF I
<1>4. \A j \in I : (\A k \in I : j <= k) => j = i
  BY <1>3
<1>5. Min(I) = i
  BY <1>3, <1>4 DEF Min
<1> QED BY <1>2, <1>3, <1>5

LEMMA ReplayStepInv ==
  ASSUME PairedInv, ReplayInv, [PairedNext]_pairedVars
  PROVE  ReplayInv'
<1> DEFINE Evident == /\ profile.reorg => profile.depth = 1
                      /\ profile.duplicates => ~profile.reorder
<1> USE DEF ReplayInv
<1>1. CASE UNCHANGED pairedVars
  BY <1>1 DEF pairedVars, ReplayReproduces
<1>2. ASSUME NEW e \in LogEntry, state' \in DualChainState,
             state'.log = Append(state.log, e), profile' = profile,
             Evident => state' = Applied(profile, state, e.action, e.message)
      PROVE  ReplayInv'
  <2>1. ASSUME Evident PROVE Replayed(profile, Initial, state'.log) = state'
    <3>1. Replayed(profile, Initial, state.log) = state
      BY <2>1 DEF ReplayReproduces
    <3>2. Replaying(profile, state, e, Len(state.log) + 1) = state'
      BY <1>2, <2>1, ReplayOfMove
    <3>3. Replayed(profile, Initial, Append(state.log, e))
            = Replaying(profile, Replayed(profile, Initial, state.log), e, Len(state.log) + 1)
      BY StateFields, ReplayedAppend
    <3> QED BY <1>2, <3>1, <3>2, <3>3
  <2> QED BY <1>2, <2>1 DEF ReplayReproduces
<1>3. ASSUME NEW m \in Message, Enqueue(m) PROVE ReplayInv'
  <2>1. /\ state' = Enqueued(state, m) /\ profile' = profile
        /\ CanEnqueue(profile, state, m)
    BY <1>3 DEF Enqueue
  <2>2. PICK e \in LogEntry : e = Entry("enqueue", m, state.channel + 1)
    BY EnqueuedFields
  <2>3. state' \in DualChainState /\ state'.log = Append(state.log, e)
    BY <2>1, <2>2, EnqueuedFields, SMTT(30)
  <2>4. e.action = "enqueue" /\ e.message = m
    BY <2>2 DEF Entry
  <2>5. state' = Applied(profile, state, "enqueue", m)
    BY <2>1 DEF Applied
  <2> QED BY <1>2, <2>1, <2>3, <2>4, <2>5
<1>4. ASSUME NEW i \in DOMAIN state.pending, Deliver(i) PROVE ReplayInv'
  <2> DEFINE m == state.pending[i]
  <2>1. /\ state' = Delivered(state, i) /\ profile' = profile
        /\ CanDeliver(profile, state, i)
    BY <1>4 DEF Deliver
  <2>2. PICK e \in LogEntry : e = Entry("deliver", m, state.channel + 1)
    BY DeliveredFields
  <2>3. state' \in DualChainState /\ state'.log = Append(state.log, e)
    BY <2>1, <2>2, DeliveredFields
  <2>4. e.action = "deliver" /\ e.message = m
    BY <2>2 DEF Entry
  <2>5. ASSUME Evident PROVE FirstPending(state, m) = i
    <3>1. \A j \in DOMAIN state.pending :
            Identity(state.pending[j]) = Identity(m) => i <= j
      <4>1. CASE ~profile.reorder
        BY <2>1, <4>1, StateFields DEF CanDeliver
      <4>2. CASE profile.reorder
        <5>1. profile.reorder \in BOOLEAN /\ profile.duplicates \in BOOLEAN
          BY DEF PairedInv, Shape, Profile
        <5>2. \A j \in DOMAIN state.pending :
                Identity(state.pending[j]) = Identity(m) => i = j
          BY <2>5, <4>2, <5>1, NamedOnce
        <5> QED BY <5>2, StateFields
      <4> QED BY <4>1, <4>2
    <3> QED BY <3>1, StateFields, FirstPendingFound
  <2>6. Evident => state' = Applied(profile, state, "deliver", m)
    BY <2>1, <2>5 DEF Applied
  <2> QED BY <1>2, <2>1, <2>3, <2>4, <2>6
<1>5. ASSUME NEW i \in DOMAIN state.committed, Reorg(i) PROVE ReplayInv'
  <2> DEFINE m == state.committed[i]
  <2>1. /\ state' = Reorged(state, i) /\ profile' = profile
        /\ CanReorg(profile, state, i)
    BY <1>5 DEF Reorg
  <2>2. LastPending(state, m) # 0 /\ profile.reorg /\ Len(state.committed) - i < profile.depth
    BY <2>1 DEF CanReorg
  <2>3. PICK e \in LogEntry : e = Entry("reorg", m, state.channel)
    BY <2>2, ReorgedFields
  <2>4. state' \in DualChainState /\ state'.log = Append(state.log, e)
    BY <2>1, <2>2, <2>3, ReorgedFields
  <2>5. e.action = "reorg" /\ e.message = m
    BY <2>3 DEF Entry
  <2>6. Evident => i = Len(state.committed)
    BY <2>2, StateFields
  <2>7. Evident => state' = Applied(profile, state, "reorg", m)
    BY <2>1, <2>6 DEF Applied
  <2> QED BY <1>2, <2>1, <2>4, <2>5, <2>7
<1> QED BY <1>1, <1>3, <1>4, <1>5 DEF PairedNext

(* Replaying the log of a state from the start is accepted and leads to    *)
(* that state, for every bound and any number of messages, wherever a log  *)
(* entry names the message that was moved (witness.py:122-145).            *)
THEOREM ReplayIsEvidence == PairedSpec => []ReplayReproduces
<1>1. PairedInit => ReplayInv
  BY InitialTyped, ReplayedEmpty DEF PairedInit, ReplayInv, ReplayReproduces
<1>2. PairedInv /\ ReplayInv /\ [PairedNext]_pairedVars => ReplayInv'
  BY ReplayStepInv
<1>3. ReplayInv => ReplayReproduces
  BY DEF ReplayInv
<1> QED BY <1>1, <1>2, <1>3, PairedInvariant, PTL DEF PairedSpec

----------------------------------------------------------------------------
(* The arrays of the encoding.  Up to its count an array holds candidates, *)
(* and None from there on; what it stands for is the sequence of them.     *)

Table(a, width, count) ==
  /\ DOMAIN a = 0 .. width - 1 /\ count \in 0 .. width
  /\ \A k \in 0 .. count - 1 : a[k] \in Candidate
  /\ \A k \in count .. width - 1 : a[k] = None

LEMMA ValuesTyped ==
  ASSUME NEW width \in Nat, NEW a, NEW count, Table(a, width, count)
  PROVE  /\ Values(a, count) \in Seq(Candidate) /\ Values(a, count) \in Seq(Message)
         /\ count \in Nat /\ Len(Values(a, count)) = count
         /\ DOMAIN Values(a, count) = 1 .. count
         /\ \A i \in 1 .. count :
              Values(a, count)[i] = a[i - 1] /\ Values(a, count)[i] \in Candidate
<1>1. count \in Nat /\ \A i \in 1 .. count : i - 1 \in 0 .. count - 1
  BY DEF Table
<1>2. \A i \in 1 .. count : a[i - 1] \in Candidate
  BY <1>1 DEF Table
<1>3. Values(a, count) \in [1 .. count -> Candidate]
  BY <1>2 DEF Values
<1>4. Values(a, count) \in Seq(Candidate) /\ Len(Values(a, count)) = count
  BY <1>1, <1>3
<1>5. \A S, T, q : S \subseteq T /\ q \in Seq(S) => q \in Seq(T)
  OBVIOUS
<1>6. Values(a, count) \in Seq(Message)
  BY <1>4, <1>5, CandidatesDiffer
<1> QED BY <1>1, <1>2, <1>3, <1>4, <1>6 DEF Values

LEMMA AppendTable ==
  ASSUME NEW width \in Nat, NEW a, NEW count, Table(a, width, count), count < width,
         NEW m \in Candidate
  PROVE  /\ Table(AppendRelation(a, count, m), width, count + 1)
         /\ Values(AppendRelation(a, count, m), count + 1) = Append(Values(a, count), m)
<1> DEFINE b == AppendRelation(a, count, m)
<1>1. /\ count \in Nat /\ DOMAIN b = 0 .. width - 1 /\ count + 1 \in 0 .. width
      /\ \A k \in 0 .. width - 1 :
           b[k] = IF k < count THEN a[k] ELSE IF k = count THEN m ELSE None
  BY DEF Table, AppendRelation
<1> HIDE DEF b
<1>2. Table(b, width, count + 1)
  BY <1>1 DEF Table
<1>3. /\ Values(b, count + 1) \in Seq(Candidate) /\ Len(Values(b, count + 1)) = count + 1
      /\ \A i \in 1 .. count + 1 : Values(b, count + 1)[i] = b[i - 1]
  BY <1>2, ValuesTyped
<1>4. /\ Values(a, count) \in Seq(Candidate) /\ Len(Values(a, count)) = count
      /\ \A i \in 1 .. count : Values(a, count)[i] = a[i - 1]
  BY ValuesTyped
<1> DEFINE q == Append(Values(a, count), m)
<1>5. /\ q \in Seq(Candidate) /\ Len(q) = count + 1
      /\ \A i \in 1 .. count : q[i] = a[i - 1]
      /\ q[count + 1] = m
  BY <1>1, <1>4
<1> HIDE DEF q
<1>6. ASSUME NEW i \in 1 .. count + 1 PROVE Values(b, count + 1)[i] = q[i]
  <2>1. i - 1 \in 0 .. width - 1 /\ Values(b, count + 1)[i] = b[i - 1]
    BY <1>1, <1>3
  <2>2. CASE i <= count
    <3>1. i \in 1 .. count /\ i - 1 < count
      BY <1>1, <2>2
    <3> QED BY <1>1, <1>5, <2>1, <3>1
  <2>3. CASE i = count + 1
    <3>1. i - 1 = count /\ ~(i - 1 < count)
      BY <1>1, <2>3
    <3> QED BY <1>1, <1>5, <2>1, <2>3, <3>1
  <2> QED BY <1>1, <2>2, <2>3
<1>7. Values(b, count + 1) = q
  BY <1>3, <1>5, <1>6, SameElements
<1> QED BY <1>2, <1>7 DEF b, q

LEMMA RemoveTable ==
  ASSUME NEW width \in Nat, NEW a, NEW count, Table(a, width, count),
         NEW k \in 0 .. count - 1
  PROVE  /\ Table(RemoveSlot(a, count, k), width, count - 1)
         /\ Values(RemoveSlot(a, count, k), count - 1) = RemoveAt(Values(a, count), k + 1)
<1> DEFINE b == RemoveSlot(a, count, k)
<1>1. /\ count \in Nat /\ DOMAIN b = 0 .. width - 1 /\ count - 1 \in 0 .. width
      /\ \A j \in 0 .. width - 1 :
           b[j] = IF j < k THEN a[j] ELSE IF j < count - 1 THEN a[j + 1] ELSE None
  BY DEF Table, RemoveSlot
<1> HIDE DEF b
<1>2. Table(b, width, count - 1)
  BY <1>1 DEF Table
<1>3. /\ Values(b, count - 1) \in Seq(Candidate) /\ Len(Values(b, count - 1)) = count - 1
      /\ \A i \in 1 .. count - 1 : Values(b, count - 1)[i] = b[i - 1]
  BY <1>2, ValuesTyped
<1>4. /\ Values(a, count) \in Seq(Candidate) /\ Len(Values(a, count)) = count
      /\ DOMAIN Values(a, count) = 1 .. count
      /\ \A i \in 1 .. count : Values(a, count)[i] = a[i - 1]
  BY ValuesTyped
<1> DEFINE q == RemoveAt(Values(a, count), k + 1)
<1>5. /\ q \in Seq(Candidate) /\ Len(q) = count - 1
      /\ \A i \in 1 .. count - 1 :
           q[i] = IF i < k + 1 THEN Values(a, count)[i] ELSE Values(a, count)[i + 1]
  <2>1. k + 1 \in DOMAIN Values(a, count)
    BY <1>1, <1>4
  <2> QED BY <1>4, <2>1, RemoveAtShape
<1> HIDE DEF q
<1>6. ASSUME NEW i \in 1 .. count - 1 PROVE Values(b, count - 1)[i] = q[i]
  <2>1. /\ i - 1 \in 0 .. width - 1 /\ i \in 1 .. count /\ i + 1 \in 1 .. count
        /\ i - 1 < count - 1 /\ (i - 1 < k <=> i < k + 1)
        /\ (i - 1) + 1 = i /\ (i + 1) - 1 = i
    BY <1>1
  <2>2. Values(b, count - 1)[i] = IF i < k + 1 THEN a[i - 1] ELSE a[i]
    BY <1>1, <1>3, <2>1
  <2> QED BY <1>4, <1>5, <2>1, <2>2
<1>7. Values(b, count - 1) = q
  BY <1>3, <1>5, <1>6, SameElements
<1> QED BY <1>2, <1>7 DEF b, q

LEMMA Least ==
  ASSUME NEW S, S \subseteq Nat, S # {}
  PROVE  \E x \in S : \A y \in S : x <= y
<1> DEFINE R == {p \in Nat \X Nat : p[1] < p[2]}
<1>1. IsWellFoundedOn(R, Nat)
  BY NatLessThanWellFounded DEF OpToRel
<1>2. PICK x \in S : \A y \in S : ~(<<y, x>> \in R)
  <2> HIDE DEF R
  <2> QED BY <1>1, WFMin
<1>3. ASSUME NEW y \in S, y < x PROVE FALSE
  <2>1. <<y, x>> \in R
    BY <1>3
  <2> QED BY <1>2, <2>1
<1>4. \A y \in S : ~(y < x) /\ y \in Nat /\ x \in Nat
  BY <1>3
<1> HIDE DEF R
<1> QED BY ONLY <1>4

LEMMA SameCandidate ==
  \A l, m \in Candidate : Identity(l) = Identity(m) <=> l = m
BY CandidatesDiffer

\* The position of the last message of an identity is found.
LEMMA LastPendingIs ==
  ASSUME NEW s, s.pending \in Seq(Message), NEW m, NEW i \in DOMAIN s.pending,
         Identity(s.pending[i]) = Identity(m),
         \A j \in DOMAIN s.pending : Identity(s.pending[j]) = Identity(m) => j <= i
  PROVE  LastPending(s, m) = i
<1> DEFINE I == {j \in 1 .. Len(s.pending) : Identity(s.pending[j]) = Identity(m)}
<1>1. DOMAIN s.pending = 1 .. Len(s.pending) /\ Len(s.pending) \in Nat
  OBVIOUS
<1>2. LastPending(s, m) = IF I # {} THEN Max(I) ELSE 0
  BY DEF LastPending, SelectLastInSeq
<1>3. i \in I /\ (\A j \in I : j <= i) /\ I \subseteq Int
  BY <1>1
<1> HIDE DEF I
<1>4. \A j \in I : (\A k \in I : j >= k) => j = i
  BY <1>3
<1>5. Max(I) = i
  BY <1>3, <1>4 DEF Max
<1> QED BY <1>2, <1>3, <1>5

\* The slot the encoding takes a message from is its place in the queue.
LEMMA FirstMatchFound ==
  ASSUME NEW width \in Nat, NEW a, NEW count, Table(a, width, count),
         NEW m \in Candidate, Queued(a, count, m),
         NEW s, s.pending = Values(a, count)
  PROVE  /\ FirstMatch(a, count, m) \in 0 .. count - 1
         /\ a[FirstMatch(a, count, m)] = m
         /\ \A j \in 0 .. FirstMatch(a, count, m) - 1 : a[j] # m
         /\ FirstPending(s, m) = FirstMatch(a, count, m) + 1
<1> DEFINE S == {k \in 0 .. count - 1 : a[k] = m}
           First(k) == a[k] = m /\ \A j \in 0 .. k - 1 : a[j] # m
           x == FirstMatch(a, count, m)
<1>1. count \in Nat
  BY ValuesTyped
<1>2. S # {} /\ S \subseteq Nat
  BY <1>1 DEF Queued
<1>3. PICK k \in S : \A j \in S : k <= j
  <2> HIDE DEF S
  <2> QED BY <1>2, Least
<1>4. k \in 0 .. count - 1 /\ First(k)
  BY <1>1, <1>3
<1>5. x \in 0 .. count - 1 /\ First(x)
  <2>1. x = CHOOSE j \in 0 .. count - 1 : First(j)
    BY DEF FirstMatch
  <2> HIDE DEF First, x
  <2> QED BY <1>4, <2>1
<1> HIDE DEF x
<1>6. /\ s.pending \in Seq(Message) /\ DOMAIN s.pending = 1 .. count
      /\ \A i \in 1 .. count : s.pending[i] = a[i - 1] /\ s.pending[i] \in Candidate
  BY ValuesTyped
<1>7. x + 1 \in 1 .. count /\ s.pending[x + 1] = m
  BY <1>1, <1>5, <1>6
<1>8. ASSUME NEW j \in 1 .. count, Identity(s.pending[j]) = Identity(m) PROVE x + 1 <= j
  <2>1. a[j - 1] = m
    BY <1>6, <1>8, SameCandidate
  <2>2. j - 1 \notin 0 .. x - 1
    BY <1>5, <2>1
  <2> QED BY <1>1, <1>5, <2>2
<1>9. FirstPending(s, m) = x + 1
  BY <1>6, <1>7, <1>8, FirstPendingFound
<1> QED BY <1>5, <1>9 DEF x

LEMMA LastMatchFound ==
  ASSUME NEW width \in Nat, NEW a, NEW count, Table(a, width, count),
         NEW m \in Candidate, Queued(a, count, m),
         NEW s, s.pending = Values(a, count)
  PROVE  /\ LastMatch(a, count, m) \in 0 .. count - 1
         /\ a[LastMatch(a, count, m)] = m
         /\ LastPending(s, m) = LastMatch(a, count, m) + 1
<1> DEFINE S == {k \in 1 .. count : a[k - 1] = m}
           Final(k) == a[k] = m /\ \A j \in k + 1 .. count - 1 : a[j] # m
           x == LastMatch(a, count, m)
<1>1. count \in Nat
  BY ValuesTyped
<1>2. S # {} /\ S \subseteq 1 .. count
  <2>1. PICK k \in 0 .. count - 1 : a[k] = m
    BY DEF Queued
  <2>2. k + 1 \in 1 .. count /\ (k + 1) - 1 = k
    BY <1>1
  <2>3. k + 1 \in S
    BY <2>1, <2>2
  <2> QED BY <2>3
<1>3. PICK k \in S : \A j \in S : j <= k
  <2> HIDE DEF S
  <2> QED BY <1>1, <1>2, Greatest
<1>4. k - 1 \in 0 .. count - 1 /\ Final(k - 1)
  <2>1. k \in 1 .. count /\ a[k - 1] = m
    BY <1>3
  <2>2. ASSUME NEW j \in (k - 1) + 1 .. count - 1, a[j] = m PROVE FALSE
    <3>1. j + 1 \in 1 .. count /\ (j + 1) - 1 = j /\ ~(j + 1 <= k)
      BY <1>1, <2>1
    <3> QED BY <1>3, <2>2, <3>1
  <2> QED BY <1>1, <2>1, <2>2
<1>5. x \in 0 .. count - 1 /\ Final(x)
  <2>1. x = CHOOSE j \in 0 .. count - 1 : Final(j)
    BY DEF LastMatch
  <2> HIDE DEF Final, x
  <2> QED BY <1>4, <2>1
<1> HIDE DEF x
<1>6. /\ s.pending \in Seq(Message) /\ DOMAIN s.pending = 1 .. count
      /\ \A i \in 1 .. count : s.pending[i] = a[i - 1] /\ s.pending[i] \in Candidate
  BY ValuesTyped
<1>7. x + 1 \in 1 .. count /\ s.pending[x + 1] = m
  BY <1>1, <1>5, <1>6
<1>8. ASSUME NEW j \in 1 .. count, Identity(s.pending[j]) = Identity(m) PROVE j <= x + 1
  <2>1. a[j - 1] = m
    BY <1>6, <1>8, SameCandidate
  <2>2. j - 1 \notin x + 1 .. count - 1
    BY <1>5, <2>1
  <2> QED BY <1>1, <1>5, <2>2
<1>9. LastPending(s, m) = x + 1
  BY <1>6, <1>7, <1>8, LastPendingIs
<1> QED BY <1>5, <1>9 DEF x

\* Whether the encoding sees a message queued is whether it is.
LEMMA QueuedIsPending ==
  ASSUME NEW width \in Nat, NEW a, NEW count, Table(a, width, count),
         NEW m \in Candidate, NEW s, s.pending = Values(a, count)
  PROVE  Queued(a, count, m) <=> LastPending(s, m) # 0
<1>1. /\ s.pending \in Seq(Message) /\ DOMAIN s.pending = 1 .. count /\ count \in Nat
      /\ \A i \in 1 .. count : s.pending[i] = a[i - 1] /\ s.pending[i] \in Candidate
  BY ValuesTyped
<1>2. ASSUME Queued(a, count, m) PROVE LastPending(s, m) # 0
  BY <1>1, <1>2, LastMatchFound
<1>3. ASSUME LastPending(s, m) # 0 PROVE Queued(a, count, m)
  <2>1. PICK i \in 1 .. count : Identity(s.pending[i]) = Identity(m)
    BY <1>1, <1>3, LastPendingFound
  <2>2. a[i - 1] = m /\ i - 1 \in 0 .. count - 1
    BY <1>1, <2>1, SameCandidate
  <2> QED BY <2>2 DEF Queued
<1> QED BY <1>2, <1>3

\* The payload received last under a nonce, after one more delivery.
LEMMA ReceivedAppended ==
  ASSUME NEW q \in Seq(Message), NEW m \in Message, NEW n
  PROVE  LastReceived(Append(q, m), n) =
           IF m.nonce = n THEN m.payload ELSE LastReceived(q, n)
<1> DEFINE r == Append(q, m)
           len == Len(q)
           I == {i \in 1 .. len : q[i].nonce = n}
           J == {i \in 1 .. len + 1 : r[i].nonce = n}
           i0 == IF I # {} THEN Max(I) ELSE 0
           j0 == IF J # {} THEN Max(J) ELSE 0
<1>1. /\ len \in Nat /\ Len(r) = len + 1 /\ r[len + 1] = m
      /\ \A i \in 1 .. len : r[i] = q[i]
  OBVIOUS
<1>2. /\ LastReceived(q, n) = IF i0 = 0 THEN None ELSE q[i0].payload
      /\ LastReceived(r, n) = IF j0 = 0 THEN None ELSE r[j0].payload
  <2> HIDE DEF r
  <2> QED BY <1>1 DEF LastReceived, SelectLastInSeq
<1> HIDE DEF r, len
<1>3. CASE m.nonce = n
  <2>1. len + 1 \in J /\ (\A j \in J : j <= len + 1) /\ J \subseteq Int
    BY <1>1, <1>3
  <2> HIDE DEF J
  <2>2. \A j \in J : (\A k \in J : j >= k) => j = len + 1
    BY <1>1, <2>1
  <2>3. Max(J) = len + 1
    BY <1>1, <2>1, <2>2 DEF Max
  <2>4. j0 = len + 1 /\ j0 # 0
    BY <1>1, <2>1, <2>3
  <2> HIDE DEF j0
  <2> QED BY <1>1, <1>2, <1>3, <2>4 DEF r
<1>4. CASE m.nonce # n
  <2>1. J = I
    BY <1>1, <1>4
  <2>2. i0 = j0
    BY <2>1
  <2>3. i0 # 0 => i0 \in 1 .. len
    <3>1. CASE I = {}
      BY <3>1
    <3>2. CASE I # {}
      <4>1. I \subseteq 1 .. len
        OBVIOUS
      <4> HIDE DEF I
      <4>2. PICK x \in I : \A y \in I : y <= x
        BY <1>1, <3>2, <4>1, Greatest
      <4>3. \A y \in I : x >= y
        BY <1>1, <4>1, <4>2
      <4>4. Max(I) \in I
        BY <4>3 DEF Max
      <4> QED BY <4>1, <4>4
    <3> QED BY <3>1, <3>2
  <2> HIDE DEF i0, j0
  <2> QED BY <1>1, <1>2, <1>4, <2>2, <2>3 DEF r
<1> QED BY <1>3, <1>4 DEF r

LEMMA ReceivedTyped ==
  ASSUME NEW q \in Seq(Message), NEW n
  PROVE  LastReceived(q, n) \in Payloads \cup {None}
<1> DEFINE I == {i \in 1 .. Len(q) : q[i].nonce = n}
           i0 == IF I # {} THEN Max(I) ELSE 0
<1>1. LastReceived(q, n) = IF i0 = 0 THEN None ELSE q[i0].payload
  BY DEF LastReceived, SelectLastInSeq
<1>2. i0 # 0 => i0 \in 1 .. Len(q)
  <2>1. CASE I = {}
    BY <2>1
  <2>2. CASE I # {}
    <3>1. I \subseteq 1 .. Len(q) /\ Len(q) \in Nat
      OBVIOUS
    <3> HIDE DEF I
    <3>2. PICK x \in I : \A y \in I : y <= x
      BY <2>2, <3>1, Greatest
    <3>3. \A y \in I : x >= y
      BY <3>1, <3>2
    <3>4. Max(I) \in I
      BY <3>3 DEF Max
    <3> QED BY <3>1, <3>4
  <2> QED BY <2>1, <2>2
<1> HIDE DEF i0
<1>3. \A i \in 1 .. Len(q) : q[i].payload \in Payloads
  BY DEF Payloads
<1> QED BY <1>1, <1>2, <1>3

----------------------------------------------------------------------------
(* The picks as an action log                                              *)

Moves == {"enqueue", "deliver", "reorg"}

LogOf(picks) ==
  [i \in 1 .. Len(picks) |-> Entry(picks[i][1], picks[i][2], OnChannel(picks, i))]

LEMMA OnChannelFinite ==
  ASSUME NEW picks, NEW n \in Nat
  PROVE  /\ IsFiniteSet({i \in 1 .. n : picks[i][1] # "reorg"})
         /\ OnChannel(picks, n) \in Nat
<1>1. IsFiniteSet(1 .. n)
  BY FS_Interval
<1>2. IsFiniteSet({i \in 1 .. n : picks[i][1] # "reorg"})
  BY <1>1, FS_Subset
<1> QED BY <1>2, FS_CardinalityType DEF OnChannel

LEMMA LogTyped ==
  ASSUME NEW picks \in Seq(Moves \X Candidate)
  PROVE  LogOf(picks) \in Seq(LogEntry) /\ Len(LogOf(picks)) = Len(picks)
<1>1. Len(picks) \in Nat
  OBVIOUS
<1>2. ASSUME NEW i \in 1 .. Len(picks)
      PROVE  Entry(picks[i][1], picks[i][2], OnChannel(picks, i)) \in LogEntry
  <2>1. picks[i] \in Moves \X Candidate /\ i \in Nat
    BY <1>1
  <2>2. picks[i][1] \in Moves /\ picks[i][2] \in Message
    BY <2>1, CandidatesDiffer
  <2> QED BY <2>1, <2>2, OnChannelFinite, EntryTyped DEF Moves
<1>3. LogOf(picks) \in [1 .. Len(picks) -> LogEntry]
  BY <1>2 DEF LogOf
<1> QED BY <1>1, <1>3

LEMMA LogAppended ==
  ASSUME NEW picks \in Seq(Moves \X Candidate), NEW a \in Moves, NEW m \in Candidate,
         NEW c, c = OnChannel(picks, Len(picks)) + (IF a = "reorg" THEN 0 ELSE 1)
  PROVE  LET more == Append(picks, <<a, m>>) IN
         /\ more \in Seq(Moves \X Candidate) /\ Len(more) = Len(picks) + 1
         /\ OnChannel(more, Len(more)) = c
         /\ LogOf(more) = Append(LogOf(picks), Entry(a, m, c))
<1> DEFINE more == Append(picks, <<a, m>>)
           n == Len(picks)
<1>1. /\ more \in Seq(Moves \X Candidate) /\ n \in Nat /\ Len(more) = n + 1
      /\ \A i \in 1 .. n : more[i] = picks[i]
      /\ more[n + 1] = <<a, m>>
  OBVIOUS
<1> HIDE DEF more, n
<1>2. ASSUME NEW i \in 1 .. n PROVE OnChannel(more, i) = OnChannel(picks, i)
  <2>1. {j \in 1 .. i : more[j][1] # "reorg"} = {j \in 1 .. i : picks[j][1] # "reorg"}
    BY <1>1
  <2> QED BY <2>1 DEF OnChannel
<1>3. OnChannel(more, n + 1) = c
  <2> DEFINE I == {j \in 1 .. n : picks[j][1] # "reorg"}
             J == {j \in 1 .. n + 1 : more[j][1] # "reorg"}
  <2>1. IsFiniteSet(I) /\ Cardinality(I) \in Nat /\ OnChannel(picks, n) = Cardinality(I)
    BY <1>1, OnChannelFinite DEF OnChannel
  <2>2. OnChannel(more, n + 1) = Cardinality(J)
    BY DEF OnChannel
  <2>3. n + 1 \notin I
    BY <1>1
  <2>4. CASE a = "reorg"
    <3>1. J = I
      BY <1>1, <2>4
    <3> HIDE DEF I, J
    <3> QED BY <2>1, <2>2, <2>4, <3>1 DEF n
  <2>5. CASE a # "reorg"
    <3>1. J = I \cup {n + 1}
      BY <1>1, <2>5
    <3> HIDE DEF I, J
    <3>2. Cardinality(J) = Cardinality(I) + 1
      BY <2>1, <2>3, <3>1, FS_AddElement
    <3> QED BY <2>1, <2>2, <2>5, <3>2 DEF n
  <2> QED BY <2>4, <2>5
<1> DEFINE q == Append(LogOf(picks), Entry(a, m, c))
<1>4. Entry(a, m, c) \in LogEntry
  <2>1. OnChannel(picks, n) \in Nat
    BY <1>1, OnChannelFinite
  <2>2. c \in Nat
    <3> DEFINE o == OnChannel(picks, n)
    <3>1. o \in Nat /\ (c = o \/ c = o + 1)
      <4>1. c = o + (IF a = "reorg" THEN 0 ELSE 1)
        BY DEF n
      <4>2. o \in Nat
        BY <2>1
      <4> HIDE DEF o
      <4> QED BY ONLY <4>1, <4>2
    <3> HIDE DEF o
    <3> QED BY ONLY <3>1
  <2>3. m \in Message
    BY CandidatesDiffer
  <2> QED BY <2>2, <2>3, EntryTyped DEF Moves
<1>5. LogOf(picks) \in Seq(LogEntry) /\ Len(LogOf(picks)) = n
  BY LogTyped DEF n
<1>6. /\ q \in Seq(LogEntry) /\ Len(q) = n + 1
      /\ \A i \in 1 .. n : q[i] = LogOf(picks)[i]
      /\ q[n + 1] = Entry(a, m, c)
  BY <1>1, <1>4, <1>5
<1>7. LogOf(more) \in Seq(LogEntry) /\ Len(LogOf(more)) = n + 1
  BY <1>1, LogTyped
<1> HIDE DEF q
<1>8. ASSUME NEW i \in 1 .. n + 1 PROVE LogOf(more)[i] = q[i]
  <2>1. LogOf(more)[i] = Entry(more[i][1], more[i][2], OnChannel(more, i))
    BY <1>1 DEF LogOf
  <2>2. CASE i \in 1 .. n
    BY <1>1, <1>2, <1>6, <2>1, <2>2 DEF LogOf, n
  <2>3. CASE i = n + 1
    BY <1>1, <1>3, <1>6, <2>1, <2>3
  <2> QED BY <1>1, <2>2, <2>3
<1>9. LogOf(more) = q
  BY <1>6, <1>7, <1>8, SameElements
<1> QED BY <1>1, <1>3, <1>9 DEF more, n, q

----------------------------------------------------------------------------
(* The deliveries among the picks                                          *)

Delivering(x, q) == IF x[1] = "deliver" THEN Append(q, x[2]) ELSE q

DeliveriesOf(picks, n, f) ==
  f = [k \in 0 .. n |-> IF k = 0 THEN << >> ELSE Delivering(picks[k], f[k - 1])]

LEMMA DeliveriesExist ==
  ASSUME NEW picks, NEW n \in Nat
  PROVE  \E f : DeliveriesOf(picks, n, f)
<1> DEFINE A == {k \in Nat : \E f : DeliveriesOf(picks, k, f)}
<1>1. 0 \in A
  <2>1. DeliveriesOf(picks, 0, [k \in 0 .. 0 |-> << >>])
    BY DEF DeliveriesOf
  <2> QED BY <2>1
<1>2. ASSUME NEW k \in Nat, k \in A PROVE k + 1 \in A
  <2>1. PICK f : DeliveriesOf(picks, k, f)
    BY <1>2
  <2> DEFINE g == [j \in 0 .. k + 1 |->
                     IF j = k + 1 THEN Delivering(picks[k + 1], f[k]) ELSE f[j]]
  <2>2. ASSUME NEW j \in 0 .. k + 1
        PROVE  g[j] = IF j = 0 THEN << >> ELSE Delivering(picks[j], g[j - 1])
    <3>1. CASE j = 0
      BY <2>1, <3>1 DEF DeliveriesOf
    <3>2. CASE j \in 1 .. k
      <4>1. j # k + 1 /\ j - 1 # k + 1 /\ j - 1 \in 0 .. k + 1 /\ j \in 0 .. k /\ j # 0
        BY <3>2
      <4>2. g[j] = f[j] /\ g[j - 1] = f[j - 1]
        BY <4>1
      <4>3. f[j] = Delivering(picks[j], f[j - 1])
        BY ONLY <2>1, <4>1 DEF DeliveriesOf
      <4> QED BY ONLY <4>1, <4>2, <4>3
    <3>3. CASE j = k + 1
      <4>1. j # 0 /\ j - 1 = k /\ k # k + 1 /\ k \in 0 .. k + 1
        BY <3>3
      <4>2. g[j] = Delivering(picks[k + 1], f[k]) /\ g[j - 1] = f[k]
        BY <3>3, <4>1
      <4> QED BY ONLY <3>3, <4>1, <4>2
    <3> QED BY <3>1, <3>2, <3>3
  <2>3. g = [j \in 0 .. k + 1 |-> g[j]]
    OBVIOUS
  <2> HIDE DEF g
  <2>4. DeliveriesOf(picks, k + 1, g)
    BY ONLY <2>2, <2>3 DEF DeliveriesOf
  <2> QED BY <2>4
<1>3. Nat \subseteq A
  <2> HIDE DEF A
  <2> QED BY <1>1, <1>2, AllNumbers
<1> QED BY <1>3

LEMMA DeliveriesRun ==
  ASSUME NEW picks, Len(picks) \in Nat
  PROVE  \E f : DeliveriesOf(picks, Len(picks), f) /\ Deliveries(picks) = f[Len(picks)]
<1> DEFINE f == CHOOSE g : DeliveriesOf(picks, Len(picks), g)
<1>1. DeliveriesOf(picks, Len(picks), f)
  BY DeliveriesExist
<1>2. Deliveries(picks) = f[Len(picks)]
  BY DEF Deliveries, DeliveriesOf, Delivering
<1> QED BY <1>1, <1>2

LEMMA DeliveriesAppended ==
  ASSUME NEW picks \in Seq(Moves \X Candidate), NEW a \in Moves, NEW m \in Candidate
  PROVE  Deliveries(Append(picks, <<a, m>>)) =
           IF a = "deliver" THEN Append(Deliveries(picks), m) ELSE Deliveries(picks)
<1> DEFINE more == Append(picks, <<a, m>>)
           n == Len(picks)
<1>1. /\ n \in Nat /\ Len(more) = n + 1 /\ Len(more) \in Nat /\ more[n + 1] = <<a, m>>
      /\ n + 1 \in Nat /\ n <= n + 1
      /\ n + 1 # 0 /\ (n + 1) - 1 = n /\ n + 1 \in 0 .. n + 1
      /\ \A k \in 1 .. n : picks[k] = more[k]
  OBVIOUS
<1> HIDE DEF more, n
<1>2. PICK f : DeliveriesOf(picks, n, f) /\ Deliveries(picks) = f[n]
  BY <1>1, DeliveriesRun DEF n
<1>3. PICK g : DeliveriesOf(more, n + 1, g) /\ Deliveries(more) = g[n + 1]
  BY <1>1, DeliveriesRun
<1> DEFINE A == {k \in Nat : k <= n => f[k] = g[k]}
<1>4. 0 \in A
  <2>1. 0 \in 0 .. n /\ 0 \in 0 .. n + 1
    BY <1>1
  <2>2. f[0] = << >> /\ g[0] = << >>
    BY ONLY <1>2, <1>3, <2>1 DEF DeliveriesOf
  <2> QED BY <2>2
<1>5. ASSUME NEW k \in Nat, k \in A PROVE k + 1 \in A
  <2> SUFFICES ASSUME k + 1 <= n PROVE f[k + 1] = g[k + 1]
    OBVIOUS
  <2>1. /\ k + 1 \in 0 .. n /\ k + 1 \in 0 .. n + 1 /\ k + 1 # 0 /\ (k + 1) - 1 = k
        /\ k <= n /\ k + 1 \in 1 .. n
    BY <1>1
  <2>2. /\ f[k + 1] = Delivering(picks[k + 1], f[k])
        /\ g[k + 1] = Delivering(more[k + 1], g[k])
    BY ONLY <1>2, <1>3, <2>1 DEF DeliveriesOf
  <2> QED BY <1>1, <1>5, <2>1, <2>2
<1>6. Nat \subseteq A
  <2> HIDE DEF A
  <2> QED BY <1>4, <1>5, AllNumbers
<1>7. f[n] = g[n]
  BY <1>1, <1>6
<1>8. g[n + 1] = Delivering(more[n + 1], g[n])
  BY ONLY <1>1, <1>3 DEF DeliveriesOf
<1>9. Deliveries(more) = Delivering(<<a, m>>, Deliveries(picks))
  BY ONLY <1>1, <1>2, <1>3, <1>7, <1>8
<1> QED BY <1>9 DEF Delivering, more

LEMMA DeliveriesEmpty == Deliveries(<< >>) = << >>
<1>1. Len(<< >>) = 0 /\ 0 \in Nat /\ 0 \in 0 .. 0
  OBVIOUS
<1>2. PICK f : DeliveriesOf(<< >>, 0, f) /\ Deliveries(<< >>) = f[0]
  BY <1>1, DeliveriesRun
<1> QED BY ONLY <1>1, <1>2 DEF DeliveriesOf

LEMMA DeliveriesTyped ==
  ASSUME NEW picks \in Seq(Moves \X Candidate)
  PROVE  Deliveries(picks) \in Seq(Message) /\ Len(Deliveries(picks)) <= Len(picks)
<1>1. /\ Len(picks) \in Nat
      /\ \A k \in 1 .. Len(picks) : picks[k] \in Moves \X Candidate
  OBVIOUS
<1>2. PICK f : DeliveriesOf(picks, Len(picks), f) /\ Deliveries(picks) = f[Len(picks)]
  BY <1>1, DeliveriesRun
<1> DEFINE A == {k \in Nat : k <= Len(picks) => f[k] \in Seq(Message) /\ Len(f[k]) <= k}
<1>3. 0 \in A
  <2>1. 0 \in 0 .. Len(picks)
    BY <1>1
  <2>2. f[0] = << >>
    BY ONLY <1>2, <2>1 DEF DeliveriesOf
  <2>3. << >> \in Seq(Message) /\ Len(<< >>) = 0
    OBVIOUS
  <2>4. f[0] \in Seq(Message) /\ Len(f[0]) <= 0
    BY ONLY <2>2, <2>3
  <2> QED BY ONLY <2>4
<1>4. ASSUME NEW k \in Nat, k \in A PROVE k + 1 \in A
  <2> SUFFICES ASSUME k + 1 <= Len(picks)
               PROVE  f[k + 1] \in Seq(Message) /\ Len(f[k + 1]) <= k + 1
    OBVIOUS
  <2>1. /\ k + 1 \in 0 .. Len(picks) /\ k + 1 # 0 /\ (k + 1) - 1 = k
        /\ k <= Len(picks) /\ k + 1 \in 1 .. Len(picks)
    BY <1>1
  <2>2. f[k + 1] = Delivering(picks[k + 1], f[k])
    BY ONLY <1>2, <2>1 DEF DeliveriesOf
  <2>3. f[k] \in Seq(Message) /\ Len(f[k]) <= k
    BY <1>4, <2>1
  <2>4. picks[k + 1][2] \in Message
    BY <1>1, <2>1, CandidatesDiffer
  <2>5. \A q \in Seq(Message), m \in Message :
          Append(q, m) \in Seq(Message) /\ Len(Append(q, m)) = Len(q) + 1 /\ Len(q) \in Nat
    OBVIOUS
  <2> QED BY ONLY <2>2, <2>3, <2>4, <2>5, k \in Nat DEF Delivering
<1>5. Nat \subseteq A
  <2> HIDE DEF A
  <2> QED BY <1>3, <1>4, AllNumbers
<1> QED BY <1>1, <1>2, <1>5

----------------------------------------------------------------------------
(* The solver's variables, and the fixture state they stand for            *)

SymFields(s) ==
  [pending |-> s.pending, pendingCount |-> s.pendingCount,
   committed |-> s.committed, committedCount |-> s.committedCount,
   delivered |-> s.delivered, deliveredCount |-> s.deliveredCount,
   sourceClock |-> s.sourceClock, destinationClock |-> s.destinationClock,
   tx |-> s.tx, channel |-> s.channel, picks |-> s.picks]

Tables(s) ==
  /\ Table(s.pending, MaxPending, s.pendingCount)
  /\ Table(s.committed, MaxTransactions, s.committedCount)

Counts(s) ==
  /\ s.picks \in Seq(Moves \X Candidate)
  /\ s.tx = Len(s.picks) /\ s.channel = OnChannel(s.picks, Len(s.picks))
  /\ s.committedCount <= s.tx /\ s.deliveredCount \in 0 .. MaxTransactions
  /\ s.sourceClock \in Int /\ s.destinationClock \in Nat

Solved(s) == s = SymFields(s) /\ Tables(s) /\ Counts(s)

LEMMA DecodedFields ==
  ASSUME NEW s, Solved(s)
  PROVE  /\ Decoded(s) \in DualChainState
         /\ Decoded(s).committed = Values(s.committed, s.committedCount)
         /\ Decoded(s).pending = Values(s.pending, s.pendingCount)
         /\ Decoded(s).delivered = Deliveries(s.picks)
         /\ Decoded(s).received =
              [n \in Nonces |-> LastReceived(Deliveries(s.picks), n)]
         /\ Decoded(s).sourceClock = s.sourceClock
         /\ Decoded(s).destinationClock = s.destinationClock
         /\ Decoded(s).channel = s.channel /\ Decoded(s).log = LogOf(s.picks)
         /\ Len(LogOf(s.picks)) = s.tx
<1> DEFINE d == Deliveries(s.picks)
           r == [n \in Nonces |-> LastReceived(d, n)]
<1>1. Decoded(s) =
        [committed |-> Values(s.committed, s.committedCount),
         pending |-> Values(s.pending, s.pendingCount), delivered |-> d,
         received |-> r, sourceClock |-> s.sourceClock,
         destinationClock |-> s.destinationClock, channel |-> s.channel,
         log |-> LogOf(s.picks)]
  BY DEF Decoded, LogOf, Nonces
<1>2. MaxPending \in Nat /\ MaxTransactions \in Nat
  BY BoundsPositive
<1>3. /\ Values(s.committed, s.committedCount) \in Seq(Message)
      /\ Values(s.pending, s.pendingCount) \in Seq(Message)
      /\ d \in Seq(Message)
  <2>1. d \in Seq(Message)
    BY DeliveriesTyped DEF Solved, Counts
  <2> QED BY <1>2, <2>1, ValuesTyped DEF Solved, Tables
<1>4. r \in [Nonces -> Payloads \cup {None}]
  <2> HIDE DEF d
  <2> QED BY <1>3, ReceivedTyped
<1>5. /\ LogOf(s.picks) \in Seq(LogEntry) /\ Len(LogOf(s.picks)) = s.tx
      /\ s.channel \in Nat /\ s.sourceClock \in Int /\ s.destinationClock \in Nat
  <2>1. Len(s.picks) \in Nat
    BY DEF Solved, Counts
  <2> QED BY <2>1, LogTyped, OnChannelFinite DEF Solved, Counts
<1> HIDE DEF d, r
<1> DEFINE c == Values(s.committed, s.committedCount)
           w == Values(s.pending, s.pendingCount)
           g == LogOf(s.picks)
<1> HIDE DEF c, w, g
<1>6. Decoded(s) \in DualChainState
  <2>1. /\ c \in Seq(Message) /\ w \in Seq(Message) /\ d \in Seq(Message)
        /\ g \in Seq(LogEntry)
    BY <1>3, <1>5 DEF c, w, g
  <2>2. Decoded(s) =
          [committed |-> c, pending |-> w, delivered |-> d, received |-> r,
           sourceClock |-> s.sourceClock,
           destinationClock |-> s.destinationClock, channel |-> s.channel, log |-> g]
    BY ONLY <1>1 DEF c, w, g
  <2>3. DualChainState =
          [committed : Seq(Message), pending : Seq(Message), delivered : Seq(Message),
           received : [Nonces -> Payloads \cup {None}],
           sourceClock : Int, destinationClock : Nat, channel : Nat, log : Seq(LogEntry)]
    BY DEF DualChainState, Nonces, Payloads
  <2> QED BY ONLY <1>4, <1>5, <2>1, <2>2, <2>3
<1> QED BY ONLY <1>1, <1>5, <1>6 DEF d, r

LEMMA SolvedInitially == Solved(SymbolicInitial) /\ Decoded(SymbolicInitial) = Initial
<1> DEFINE s == SymbolicInitial
<1>1. MaxPending \in Nat \ {0} /\ MaxTransactions \in Nat \ {0}
  BY BoundsPositive
<1>2. \A w \in Nat : Table(Filled(w), w, 0)
  BY DEF Table, Filled
<1>3. OnChannel(<< >>, 0) = 0
  <2>1. {i \in 1 .. 0 : << >>[i][1] # "reorg"} = {}
    OBVIOUS
  <2> QED BY <2>1, FS_EmptySet DEF OnChannel
<1>4. Solved(s)
  BY <1>1, <1>2, <1>3 DEF SymbolicInitial, Solved, SymFields, Tables, Counts
<1>5. Decoded(s).received = [n \in Nonces |-> None]
  <2>1. s.picks = << >>
    BY DEF SymbolicInitial
  <2>2. Deliveries(s.picks) = << >>
    BY <2>1, DeliveriesEmpty
  <2>3. \A n : LastReceived(<< >>, n) = None
    BY DEF LastReceived, SelectLastInSeq
  <2> HIDE DEF s
  <2> QED BY <1>4, <2>2, <2>3, DecodedFields
<1>6. /\ Decoded(s).committed = << >> /\ Decoded(s).pending = << >>
      /\ Decoded(s).delivered = Deliveries(<< >>) /\ Decoded(s).log = << >>
      /\ Decoded(s).sourceClock = 0 /\ Decoded(s).destinationClock = 0
      /\ Decoded(s).channel = 0
  BY DEF Decoded, SymbolicInitial, Values
<1>7. Decoded(s) = Fields(Decoded(s))
  <2> HIDE DEF s
  <2> QED BY <1>4, DecodedFields, StateFields
<1> HIDE DEF s
<1>8. Decoded(s) = Initial
  BY ONLY <1>5, <1>6, <1>7, DeliveriesEmpty DEF Fields, Initial, Nonces
<1> QED BY <1>4, <1>8 DEF s

(* The steps of the encoding are the moves of the fixture.                 *)

LEMMA PickedEnqueue ==
  ASSUME NEW p \in Profile, NEW s, Solved(s), NEW m \in Candidate
  PROVE  /\ MayPickEnqueue(p, s, m) <=> CanEnqueue(p, Decoded(s), m)
         /\ MayPickEnqueue(p, s, m) =>
              /\ Solved(PickEnqueue(s, m))
              /\ Counted(s) => Counted(PickEnqueue(s, m))
              /\ Decoded(PickEnqueue(s, m)) = Enqueued(Decoded(s), m)
<1> DEFINE d == Decoded(s)
           t == PickEnqueue(s, m)
<1>1. /\ MaxPending \in Nat /\ MaxTransactions \in Nat /\ m \in Message /\ m # None
      /\ Table(s.pending, MaxPending, s.pendingCount)
      /\ Table(s.committed, MaxTransactions, s.committedCount)
  BY BoundsPositive, CandidatesDiffer, NoneIsApart DEF Solved, Tables
<1>2. /\ d \in DualChainState
      /\ d.committed = Values(s.committed, s.committedCount)
      /\ d.pending = Values(s.pending, s.pendingCount)
      /\ d.delivered = Deliveries(s.picks)
      /\ d.received = [n \in Nonces |-> LastReceived(d.delivered, n)]
      /\ d.sourceClock = s.sourceClock /\ d.destinationClock = s.destinationClock
      /\ d.channel = s.channel /\ d.log = LogOf(s.picks) /\ Len(d.log) = s.tx
  BY DecodedFields
<1> HIDE DEF d
<1>3. /\ s.pendingCount \in Nat /\ Len(d.pending) = s.pendingCount
      /\ s.committedCount \in Nat /\ DOMAIN d.committed = 1 .. s.committedCount
      /\ \A i \in 1 .. s.committedCount : d.committed[i] = s.committed[i - 1]
      /\ s.tx \in Nat /\ s.deliveredCount \in Nat
  <2>1. s.tx \in Nat /\ s.deliveredCount \in Nat
    BY <1>1 DEF Solved, Counts
  <2>2. /\ s.pendingCount \in Nat
        /\ Len(Values(s.pending, s.pendingCount)) = s.pendingCount
    BY ONLY <1>1, ValuesTyped
  <2>3. /\ s.committedCount \in Nat
        /\ DOMAIN Values(s.committed, s.committedCount) = 1 .. s.committedCount
        /\ \A i \in 1 .. s.committedCount :
             Values(s.committed, s.committedCount)[i] = s.committed[i - 1]
    BY ONLY <1>1, ValuesTyped, BoundsPositive
  <2> QED BY ONLY <1>2, <2>1, <2>2, <2>3
<1>4. (\A k \in DOMAIN s.committed : s.committed[k] # m)
        <=> \A i \in DOMAIN d.committed : Identity(d.committed[i]) # Identity(m)
  <2>1. ASSUME NEW k \in DOMAIN s.committed, s.committed[k] = m
        PROVE  \E i \in DOMAIN d.committed : Identity(d.committed[i]) = Identity(m)
    <3>1. k \in 0 .. s.committedCount - 1
      BY <1>1, <1>3, <2>1 DEF Table
    <3>2. k + 1 \in DOMAIN d.committed /\ (k + 1) - 1 = k
      BY <1>3, <3>1
    <3>3. d.committed[k + 1] = m
      BY <1>3, <2>1, <3>2
    <3> QED BY <3>2, <3>3
  <2>2. ASSUME NEW i \in DOMAIN d.committed, Identity(d.committed[i]) = Identity(m)
        PROVE  \E k \in DOMAIN s.committed : s.committed[k] = m
    <3>1. i - 1 \in 0 .. s.committedCount - 1 /\ d.committed[i] = s.committed[i - 1]
      BY <1>3
    <3>2. s.committed[i - 1] \in Candidate /\ i - 1 \in DOMAIN s.committed
      BY <1>1, <1>3, <3>1 DEF Table
    <3> QED BY <2>2, <3>1, <3>2, SameCandidate
  <2> QED BY <2>1, <2>2
<1>5. MayPickEnqueue(p, s, m) <=> CanEnqueue(p, d, m)
  <2>1. p.duplicates \in BOOLEAN
    BY DEF Profile
  <2> QED BY <1>2, <1>3, <1>4, <2>1
          DEF MayPickEnqueue, CanEnqueue, HasChannel, HasTransaction
<1>6. ASSUME MayPickEnqueue(p, s, m)
      PROVE  Solved(t) /\ Decoded(t) = Enqueued(d, m) /\ (Counted(s) => Counted(t))
  <2>1. t = [pending |-> AppendRelation(s.pending, s.pendingCount, m),
             pendingCount |-> s.pendingCount + 1,
             committed |-> AppendRelation(s.committed, s.committedCount, m),
             committedCount |-> s.committedCount + 1,
             delivered |-> s.delivered, deliveredCount |-> s.deliveredCount,
             sourceClock |-> s.sourceClock + 1,
             destinationClock |-> s.destinationClock, tx |-> s.tx + 1,
             channel |-> s.channel + 1, picks |-> Append(s.picks, <<"enqueue", m>>)]
    <3>1. s = SymFields(s)
      BY DEF Solved
    <3>2. t = [s EXCEPT !.pending = AppendRelation(@, s.pendingCount, m),
                        !.pendingCount = @ + 1,
                        !.committed = AppendRelation(@, s.committedCount, m),
                        !.committedCount = @ + 1,
                        !.sourceClock = @ + 1, !.tx = @ + 1, !.channel = @ + 1,
                        !.picks = Append(@, <<"enqueue", m>>)]
      BY DEF PickEnqueue
    <3> QED BY ONLY <3>1, <3>2 DEF SymFields
  <2> HIDE DEF t
  <2>2. s.pendingCount < MaxPending /\ s.tx < MaxTransactions
        /\ s.committedCount < MaxTransactions
    BY <1>1, <1>3, <1>6 DEF MayPickEnqueue, Solved, Counts
  <2>3. /\ Table(t.pending, MaxPending, t.pendingCount)
        /\ Values(t.pending, t.pendingCount) = Append(d.pending, m)
    BY <1>1, <1>2, <2>1, <2>2, AppendTable
  <2>4. /\ Table(t.committed, MaxTransactions, t.committedCount)
        /\ Values(t.committed, t.committedCount) = Append(d.committed, m)
    BY <1>1, <1>2, <2>1, <2>2, AppendTable
  <2>5. /\ t.picks \in Seq(Moves \X Candidate) /\ Len(t.picks) = s.tx + 1
        /\ t.channel = OnChannel(t.picks, Len(t.picks))
        /\ LogOf(t.picks) = Append(d.log, Entry("enqueue", m, d.channel + 1))
        /\ Deliveries(t.picks) = Deliveries(s.picks)
    <3>1. /\ s.picks \in Seq(Moves \X Candidate) /\ Len(s.picks) = s.tx
          /\ s.channel + 1 =
               OnChannel(s.picks, Len(s.picks)) + (IF "enqueue" = "reorg" THEN 0 ELSE 1)
          /\ "enqueue" \in Moves
      BY DEF Solved, Counts, Moves
    <3>2. LET more == Append(s.picks, <<"enqueue", m>>) IN
          /\ more \in Seq(Moves \X Candidate) /\ Len(more) = Len(s.picks) + 1
          /\ OnChannel(more, Len(more)) = s.channel + 1
          /\ LogOf(more) = Append(LogOf(s.picks), Entry("enqueue", m, s.channel + 1))
      BY <3>1, LogAppended
    <3>3. t.picks = Append(s.picks, <<"enqueue", m>>) /\ t.channel = s.channel + 1
      BY ONLY <2>1
    <3>4. Deliveries(Append(s.picks, <<"enqueue", m>>)) = Deliveries(s.picks)
      BY <3>1, DeliveriesAppended
    <3> QED BY ONLY <1>2, <3>1, <3>2, <3>3, <3>4
  <2>6. Solved(t)
    <3>1. t = SymFields(t)
      BY ONLY <2>1 DEF SymFields
    <3>2. Tables(t)
      BY <1>1, <2>1, <2>3, <2>4 DEF Tables
    <3>3. Counts(t)
      BY <1>3, <2>1, <2>5, SMTT(30) DEF Solved, Counts
    <3> QED BY <3>1, <3>2, <3>3 DEF Solved
  <2>7. /\ Decoded(t).committed = Append(d.committed, m)
        /\ Decoded(t).pending = Append(d.pending, m)
        /\ Decoded(t).delivered = d.delivered /\ Decoded(t).received = d.received
        /\ Decoded(t).sourceClock = d.sourceClock + 1
        /\ Decoded(t).destinationClock = d.destinationClock
        /\ Decoded(t).channel = d.channel + 1
        /\ Decoded(t).log = Append(d.log, Entry("enqueue", m, d.channel + 1))
    <3>1. /\ Decoded(t).committed = Values(t.committed, t.committedCount)
          /\ Decoded(t).pending = Values(t.pending, t.pendingCount)
          /\ Decoded(t).delivered = Deliveries(t.picks)
          /\ Decoded(t).received =
               [n \in Nonces |-> LastReceived(Deliveries(t.picks), n)]
          /\ Decoded(t).sourceClock = t.sourceClock
          /\ Decoded(t).destinationClock = t.destinationClock
          /\ Decoded(t).channel = t.channel /\ Decoded(t).log = LogOf(t.picks)
      BY <2>6, DecodedFields
    <3>2. /\ t.sourceClock = s.sourceClock + 1
          /\ t.destinationClock = s.destinationClock /\ t.channel = s.channel + 1
      BY ONLY <2>1
    <3> QED BY ONLY <1>2, <2>3, <2>4, <2>5, <3>1, <3>2
  <2>8. Decoded(t) = Fields(Decoded(t))
    BY <2>6, DecodedFields, StateFields
  <2>9. Enqueued(d, m) =
          [committed |-> Append(d.committed, m), pending |-> Append(d.pending, m),
           delivered |-> d.delivered, received |-> d.received,
           sourceClock |-> d.sourceClock + 1, destinationClock |-> d.destinationClock,
           channel |-> d.channel + 1,
           log |-> Append(d.log, Entry("enqueue", m, d.channel + 1))]
    BY <1>1, <1>2, EnqueuedFields
  <2>10. Decoded(t) = Enqueued(d, m)
    BY ONLY <2>7, <2>8, <2>9 DEF Fields
  <2>11. Counted(s) => Counted(t)
    BY <2>1, <2>5 DEF Counted
  <2> QED BY <2>6, <2>10, <2>11
<1> QED BY <1>5, <1>6 DEF d

LEMMA PickedDeliver ==
  ASSUME NEW p \in Profile, NEW s, Solved(s), NEW m \in Candidate,
         MayPickDeliver(p, s, m)
  PROVE  LET i == FirstMatch(s.pending, s.pendingCount, m) + 1
         IN  /\ i \in DOMAIN Decoded(s).pending /\ Decoded(s).pending[i] = m
             /\ CanDeliver(p, Decoded(s), i)
             /\ Solved(PickDeliver(s, m))
             /\ Counted(s) => Counted(PickDeliver(s, m))
             /\ Decoded(PickDeliver(s, m)) = Delivered(Decoded(s), i)
<1> DEFINE d == Decoded(s)
           t == PickDeliver(s, m)
           x == FirstMatch(s.pending, s.pendingCount, m)
           i == x + 1
<1>1. /\ MaxPending \in Nat /\ MaxTransactions \in Nat /\ m \in Message
      /\ Table(s.pending, MaxPending, s.pendingCount)
      /\ Table(s.committed, MaxTransactions, s.committedCount)
  BY BoundsPositive, CandidatesDiffer DEF Solved, Tables
<1>2. /\ d \in DualChainState
      /\ d.committed = Values(s.committed, s.committedCount)
      /\ d.pending = Values(s.pending, s.pendingCount)
      /\ d.delivered = Deliveries(s.picks)
      /\ d.received = [n \in Nonces |-> LastReceived(d.delivered, n)]
      /\ d.sourceClock = s.sourceClock /\ d.destinationClock = s.destinationClock
      /\ d.channel = s.channel /\ d.log = LogOf(s.picks) /\ Len(d.log) = s.tx
  BY DecodedFields
<1> HIDE DEF d
<1>3. /\ s.pendingCount \in Nat /\ DOMAIN d.pending = 1 .. s.pendingCount
      /\ \A j \in 1 .. s.pendingCount : d.pending[j] = s.pending[j - 1]
      /\ s.tx \in Nat /\ s.deliveredCount \in Nat /\ s.committedCount \in Nat
      /\ d.delivered \in Seq(Message)
  <2>1. s.tx \in Nat /\ s.deliveredCount \in Nat
    BY <1>1 DEF Solved, Counts
  <2>2. d.delivered \in Seq(Message)
    BY <1>2, StateFields
  <2> QED BY <1>1, <1>2, <2>1, <2>2, ValuesTyped
<1>4. /\ p.reorder \/ s.pending[0] = m
      /\ s.tx < MaxTransactions /\ s.channel < MaxChannel
      /\ Queued(s.pending, s.pendingCount, m)
  BY DEF MayPickDeliver, Profile
<1>5. /\ x \in 0 .. s.pendingCount - 1 /\ s.pending[x] = m
      /\ \A j \in 0 .. x - 1 : s.pending[j] # m
  BY <1>1, <1>2, <1>4, FirstMatchFound
<1> HIDE DEF x
<1>6. i \in DOMAIN d.pending /\ d.pending[i] = m /\ i - 1 = x
  BY <1>3, <1>5
<1>7. p.reorder \/ i = 1
  BY <1>4, <1>5
<1>8. CanDeliver(p, d, i)
  BY <1>2, <1>4, <1>6, <1>7 DEF CanDeliver, HasChannel, HasTransaction
<1>9. t = [pending |-> RemoveSlot(s.pending, s.pendingCount, x),
           pendingCount |-> s.pendingCount - 1,
           committed |-> s.committed, committedCount |-> s.committedCount,
           delivered |-> AppendRelation(s.delivered, s.deliveredCount, m),
           deliveredCount |-> s.deliveredCount + 1,
           sourceClock |-> s.sourceClock,
           destinationClock |-> s.destinationClock + 1, tx |-> s.tx + 1,
           channel |-> s.channel + 1, picks |-> Append(s.picks, <<"deliver", m>>)]
  <2>1. s = SymFields(s)
    BY DEF Solved
  <2>2. t = [s EXCEPT !.pending = RemoveSlot(@, s.pendingCount, x),
                      !.pendingCount = @ - 1,
                      !.delivered = AppendRelation(@, s.deliveredCount, m),
                      !.deliveredCount = @ + 1,
                      !.destinationClock = @ + 1, !.tx = @ + 1, !.channel = @ + 1,
                      !.picks = Append(@, <<"deliver", m>>)]
    BY DEF PickDeliver, x
  <2> QED BY ONLY <2>1, <2>2 DEF SymFields
<1> HIDE DEF t
<1>10. /\ Table(t.pending, MaxPending, t.pendingCount)
       /\ Values(t.pending, t.pendingCount) = RemoveAt(d.pending, i)
  BY <1>1, <1>2, <1>5, <1>9, RemoveTable
<1>11. s.deliveredCount < MaxTransactions
  BY DEF MayPickDeliver
<1>12. Deliveries(t.picks) = Append(d.delivered, m)
  <2>1. s.picks \in Seq(Moves \X Candidate) /\ "deliver" \in Moves
    BY DEF Solved, Counts, Moves
  <2> QED BY <1>2, <1>9, <2>1, DeliveriesAppended
<1>13. /\ t.picks \in Seq(Moves \X Candidate) /\ Len(t.picks) = s.tx + 1
       /\ t.channel = OnChannel(t.picks, Len(t.picks))
       /\ LogOf(t.picks) = Append(d.log, Entry("deliver", m, d.channel + 1))
  <2>1. /\ s.picks \in Seq(Moves \X Candidate) /\ Len(s.picks) = s.tx
        /\ s.channel + 1 =
             OnChannel(s.picks, Len(s.picks)) + (IF "deliver" = "reorg" THEN 0 ELSE 1)
        /\ "deliver" \in Moves
    BY DEF Solved, Counts, Moves
  <2>2. LET more == Append(s.picks, <<"deliver", m>>) IN
        /\ more \in Seq(Moves \X Candidate) /\ Len(more) = Len(s.picks) + 1
        /\ OnChannel(more, Len(more)) = s.channel + 1
        /\ LogOf(more) = Append(LogOf(s.picks), Entry("deliver", m, s.channel + 1))
    BY <2>1, LogAppended
  <2> QED BY ONLY <1>2, <1>9, <2>1, <2>2
<1>14. Solved(t)
  <2>1. t = SymFields(t)
    BY ONLY <1>9 DEF SymFields
  <2>2. Tables(t)
    BY <1>1, <1>9, <1>10 DEF Tables
  <2>3. Counts(t)
    <3>1. /\ s.committedCount <= s.tx
          /\ s.sourceClock \in Int /\ s.destinationClock \in Nat
      BY DEF Solved, Counts
    <3>2. /\ t.committedCount = s.committedCount /\ t.sourceClock = s.sourceClock
          /\ t.deliveredCount = s.deliveredCount + 1 /\ t.tx = s.tx + 1
          /\ t.destinationClock = s.destinationClock + 1
      BY ONLY <1>9
    <3>3. /\ t.committedCount <= t.tx /\ t.deliveredCount \in 0 .. MaxTransactions
          /\ t.sourceClock \in Int /\ t.destinationClock \in Nat /\ t.tx = Len(t.picks)
      <4>1. /\ s.tx \in Nat /\ s.deliveredCount \in Nat /\ s.committedCount \in Nat
            /\ Len(t.picks) = s.tx + 1 /\ MaxTransactions \in Nat
        BY ONLY <1>1, <1>3, <1>13
      <4> QED BY ONLY <1>11, <3>1, <3>2, <4>1
    <3> QED BY <1>13, <3>3 DEF Counts
  <2> QED BY <2>1, <2>2, <2>3 DEF Solved
<1>15. Decoded(t).received = [d.received EXCEPT ![m.nonce] = m.payload]
  <2>1. Decoded(t).received =
          [n \in Nonces |-> LastReceived(Append(d.delivered, m), n)]
    BY <1>12, <1>14, DecodedFields
  <2>2. \A n : LastReceived(Append(d.delivered, m), n) =
                 IF m.nonce = n THEN m.payload ELSE LastReceived(d.delivered, n)
    BY <1>1, <1>3, ReceivedAppended
  <2>3. m.nonce \in Nonces
    BY <1>1 DEF Nonces
  <2> QED BY <1>2, <2>1, <2>2, <2>3
<1>16. /\ Decoded(t).committed = d.committed
       /\ Decoded(t).pending = RemoveAt(d.pending, i)
       /\ Decoded(t).delivered = Append(d.delivered, m)
       /\ Decoded(t).sourceClock = d.sourceClock
       /\ Decoded(t).destinationClock = d.destinationClock + 1
       /\ Decoded(t).channel = d.channel + 1
       /\ Decoded(t).log = Append(d.log, Entry("deliver", m, d.channel + 1))
  <2>1. /\ Decoded(t).committed = Values(t.committed, t.committedCount)
        /\ Decoded(t).pending = Values(t.pending, t.pendingCount)
        /\ Decoded(t).delivered = Deliveries(t.picks)
        /\ Decoded(t).received =
             [n \in Nonces |-> LastReceived(Deliveries(t.picks), n)]
        /\ Decoded(t).sourceClock = t.sourceClock
        /\ Decoded(t).destinationClock = t.destinationClock
        /\ Decoded(t).channel = t.channel /\ Decoded(t).log = LogOf(t.picks)
    BY <1>14, DecodedFields
  <2>2. /\ t.committed = s.committed /\ t.committedCount = s.committedCount
        /\ t.sourceClock = s.sourceClock
        /\ t.destinationClock = s.destinationClock + 1 /\ t.channel = s.channel + 1
    BY ONLY <1>9
  <2> QED BY ONLY <1>2, <1>10, <1>12, <1>13, <2>1, <2>2
<1>17. Decoded(t) = Fields(Decoded(t))
  BY <1>14, DecodedFields, StateFields
<1>18. Delivered(d, i) =
         [committed |-> d.committed, pending |-> RemoveAt(d.pending, i),
          delivered |-> Append(d.delivered, m),
          received |-> [d.received EXCEPT ![m.nonce] = m.payload],
          sourceClock |-> d.sourceClock, destinationClock |-> d.destinationClock + 1,
          channel |-> d.channel + 1,
          log |-> Append(d.log, Entry("deliver", m, d.channel + 1))]
  BY <1>2, <1>6, DeliveredFields
<1>19. Decoded(t) = Delivered(d, i)
  BY ONLY <1>15, <1>16, <1>17, <1>18 DEF Fields
<1>20. Counted(s) => Counted(t)
  <2>1. Len(Append(d.delivered, m)) = Len(d.delivered) + 1
    BY <1>1, <1>3
  <2> QED BY <1>2, <1>9, <1>12, <2>1 DEF Counted
<1> QED BY <1>6, <1>8, <1>14, <1>19, <1>20 DEF d, x, t

\* The oldest queued copy of a message is encoded.
LEMMA DeliveryEncoded ==
  ASSUME NEW p \in Profile, NEW s, Solved(s), NEW i \in DOMAIN Decoded(s).pending,
         CanDeliver(p, Decoded(s), i), Counted(s),
         \A j \in 1 .. i - 1 : Decoded(s).pending[j] # Decoded(s).pending[i]
  PROVE  LET m == Decoded(s).pending[i]
         IN  /\ m \in Candidate /\ MayPickDeliver(p, s, m)
             /\ i = FirstMatch(s.pending, s.pendingCount, m) + 1
<1> DEFINE d == Decoded(s)
           m == d.pending[i]
<1>1. MaxPending \in Nat /\ Table(s.pending, MaxPending, s.pendingCount)
  BY BoundsPositive DEF Solved, Tables
<1>2. /\ d.pending = Values(s.pending, s.pendingCount)
      /\ d.channel = s.channel /\ Len(d.log) = s.tx
  BY DecodedFields
<1> HIDE DEF d
<1>3. /\ s.pendingCount \in Nat /\ DOMAIN d.pending = 1 .. s.pendingCount
      /\ \A j \in 1 .. s.pendingCount :
           d.pending[j] = s.pending[j - 1] /\ d.pending[j] \in Candidate
  <2>1. s.pendingCount \in Nat /\ DOMAIN d.pending = 1 .. s.pendingCount
    BY <1>1, <1>2, ValuesTyped
  <2>2. ASSUME NEW j \in 1 .. s.pendingCount
        PROVE  d.pending[j] = s.pending[j - 1] /\ d.pending[j] \in Candidate
    <3>1. d.pending[j] = s.pending[j - 1]
      BY <1>1, <1>2, ValuesTyped
    <3>2. j - 1 \in 0 .. s.pendingCount - 1
      BY <2>1
    <3>3. s.pending[j - 1] \in Candidate
      BY <1>1, <3>2 DEF Table
    <3> QED BY <3>1, <3>3
  <2> QED BY <2>1, <2>2
<1>4. /\ i \in 1 .. s.pendingCount /\ i - 1 \in 0 .. s.pendingCount - 1
      /\ m = s.pending[i - 1] /\ m \in Candidate
      /\ \A j \in 1 .. i - 1 : d.pending[j] # m
  BY <1>3 DEF d
<1> HIDE DEF m
<1>5. Queued(s.pending, s.pendingCount, m)
  BY <1>4 DEF Queued
<1>6. /\ p.reorder \/ i = 1
      /\ s.tx < MaxTransactions /\ s.channel < MaxChannel
  BY <1>2 DEF CanDeliver, HasChannel, HasTransaction, d
<1>7. ~p.reorder => s.pending[0] = m
  BY <1>4, <1>6
<1>13. s.deliveredCount < MaxTransactions
  <2>1. /\ Deliveries(s.picks) \in Seq(Message) /\ Len(Deliveries(s.picks)) <= Len(s.picks)
        /\ s.tx = Len(s.picks) /\ s.picks \in Seq(Moves \X Candidate)
    BY DeliveriesTyped DEF Solved, Counts
  <2>2. Len(Deliveries(s.picks)) \in Nat /\ Len(s.picks) \in Nat /\ MaxTransactions \in Nat
    BY <2>1, BoundsPositive
  <2>3. s.deliveredCount = Len(Deliveries(s.picks))
    BY DEF Counted
  <2> QED BY ONLY <1>6, <2>1, <2>2, <2>3
<1>8. MayPickDeliver(p, s, m)
  BY <1>5, <1>6, <1>7, <1>13 DEF MayPickDeliver
<1> DEFINE x == FirstMatch(s.pending, s.pendingCount, m)
<1>9. /\ x \in 0 .. s.pendingCount - 1 /\ s.pending[x] = m
      /\ \A j \in 0 .. x - 1 : s.pending[j] # m
  BY <1>1, <1>2, <1>4, <1>5, FirstMatchFound
<1> HIDE DEF x
<1>10. x + 1 \in 1 .. s.pendingCount /\ d.pending[x + 1] = m
  BY <1>3, <1>9
<1>11. ~(x < i - 1) /\ ~(i - 1 < x)
  <2>1. x < i - 1 => x + 1 \in 1 .. i - 1
    BY <1>3, <1>4, <1>9
  <2>2. i - 1 < x => i - 1 \in 0 .. x - 1
    BY <1>4, <1>9
  <2> QED BY <1>4, <1>9, <1>10, <2>1, <2>2
<1>12. i = x + 1
  BY <1>3, <1>4, <1>9, <1>11
<1> QED BY <1>4, <1>8, <1>12 DEF d, m, x

\* Only the message committed last is picked for a rollback.
LEMMA PickedReorg ==
  ASSUME NEW p \in Profile, NEW s, Solved(s), NEW m \in Candidate
  PROVE  LET d == Decoded(s)
             i == Len(Decoded(s).committed)
         IN  /\ MayPickReorg(p, s, m) <=> CanReorg(p, d, i) /\ m = d.committed[i]
             /\ MayPickReorg(p, s, m) =>
                  /\ i \in DOMAIN d.committed
                  /\ \A c \in 0 .. MaxTransactions :
                       /\ Solved(PickReorg(s, m, c))
                       /\ Decoded(PickReorg(s, m, c)) = Reorged(d, i)
                  /\ Counted(s) => Counted(PickReorg(s, m, s.deliveredCount))
                  /\ d.pending[LastPending(d, m)] = m
<1> DEFINE d == Decoded(s)
           i == Len(d.committed)
           x == LastMatch(s.pending, s.pendingCount, m)
<1>1. /\ MaxPending \in Nat /\ MaxTransactions \in Nat /\ m \in Message
      /\ Table(s.pending, MaxPending, s.pendingCount)
      /\ Table(s.committed, MaxTransactions, s.committedCount)
  BY BoundsPositive, CandidatesDiffer DEF Solved, Tables
<1>2. /\ d \in DualChainState
      /\ d.committed = Values(s.committed, s.committedCount)
      /\ d.pending = Values(s.pending, s.pendingCount)
      /\ d.delivered = Deliveries(s.picks)
      /\ d.received = [n \in Nonces |-> LastReceived(d.delivered, n)]
      /\ d.sourceClock = s.sourceClock /\ d.destinationClock = s.destinationClock
      /\ d.channel = s.channel /\ d.log = LogOf(s.picks) /\ Len(d.log) = s.tx
  BY DecodedFields
<1> HIDE DEF d
<1>3. /\ s.pendingCount \in Nat /\ DOMAIN d.pending = 1 .. s.pendingCount
      /\ \A j \in 1 .. s.pendingCount : d.pending[j] = s.pending[j - 1]
      /\ s.tx \in Nat /\ s.deliveredCount \in Nat /\ s.committedCount \in Nat
      /\ i = s.committedCount /\ DOMAIN d.committed = 1 .. i
      /\ \A j \in 1 .. i : d.committed[j] = s.committed[j - 1]
  <2>1. s.tx \in Nat /\ s.deliveredCount \in Nat
    BY <1>1 DEF Solved, Counts
  <2> QED BY <1>1, <1>2, <2>1, ValuesTyped
<1> HIDE DEF i
<1>4. MayPickReorg(p, s, m) <=> CanReorg(p, d, i) /\ m = d.committed[i]
  <2>1. Queued(s.pending, s.pendingCount, m) <=> LastPending(d, m) # 0
    BY <1>1, <1>2, QueuedIsPending
  <2>2. p.reorg \in BOOLEAN /\ p.depth \in Nat /\ (p.reorg => p.depth >= 1)
    BY DEF Profile
  <2>3. p.reorg => Len(d.committed) - i < p.depth
    BY <1>3, <2>2 DEF i
  <2>4. s.committedCount > 0 <=> i \in DOMAIN d.committed
    BY <1>3
  <2>5. i \in DOMAIN d.committed => d.committed[i] = s.committed[s.committedCount - 1]
    BY <1>3
  <2>6. ASSUME MayPickReorg(p, s, m) PROVE CanReorg(p, d, i) /\ m = d.committed[i]
    <3>1. /\ p.reorg /\ i \in DOMAIN d.committed /\ s.tx < MaxTransactions
          /\ m = d.committed[i] /\ LastPending(d, m) # 0
      BY <2>1, <2>4, <2>5, <2>6 DEF MayPickReorg
    <3> QED BY <1>2, <2>3, <3>1 DEF CanReorg, HasTransaction
  <2>7. ASSUME CanReorg(p, d, i), m = d.committed[i] PROVE MayPickReorg(p, s, m)
    <3>1. /\ p.reorg /\ i \in DOMAIN d.committed /\ s.tx < MaxTransactions
          /\ LastPending(d, m) # 0
      BY <1>2, <2>7 DEF CanReorg, HasTransaction
    <3> QED BY <2>1, <2>4, <2>5, <2>7, <3>1 DEF MayPickReorg
  <2> QED BY <2>6, <2>7
<1>5. ASSUME MayPickReorg(p, s, m), NEW c \in 0 .. MaxTransactions
      PROVE  /\ i \in DOMAIN d.committed /\ Solved(PickReorg(s, m, c))
             /\ Decoded(PickReorg(s, m, c)) = Reorged(d, i)
             /\ d.pending[LastPending(d, m)] = m
             /\ Counted(s) /\ c = s.deliveredCount => Counted(PickReorg(s, m, c))
  <2> DEFINE t == PickReorg(s, m, c)
  <2>1. /\ CanReorg(p, d, i) /\ m = d.committed[i] /\ i \in DOMAIN d.committed
        /\ LastPending(d, m) # 0 /\ s.tx < MaxTransactions
        /\ Queued(s.pending, s.pendingCount, m)
    BY <1>4, <1>5 DEF CanReorg, MayPickReorg
  <2>2. /\ x \in 0 .. s.pendingCount - 1 /\ s.pending[x] = m
        /\ LastPending(d, m) = x + 1
    BY <1>1, <1>2, <2>1, LastMatchFound
  <2> HIDE DEF x
  <2>3. d.pending[LastPending(d, m)] = m
    BY <1>3, <2>2
  <2>4. t = [pending |-> RemoveSlot(s.pending, s.pendingCount, x),
             pendingCount |-> s.pendingCount - 1,
             committed |-> RemoveSlot(s.committed, s.committedCount, s.committedCount - 1),
             committedCount |-> s.committedCount - 1,
             delivered |-> s.delivered, deliveredCount |-> c,
             sourceClock |-> s.sourceClock - 1,
             destinationClock |-> s.destinationClock, tx |-> s.tx + 1,
             channel |-> s.channel, picks |-> Append(s.picks, <<"reorg", m>>)]
    <3>1. s = SymFields(s)
      BY DEF Solved
    <3>2. t = [s EXCEPT !.pending = RemoveSlot(@, s.pendingCount, x),
                        !.pendingCount = @ - 1,
                        !.committed = RemoveSlot(@, s.committedCount, s.committedCount - 1),
                        !.committedCount = @ - 1,
                        !.deliveredCount = c,
                        !.sourceClock = @ - 1, !.tx = @ + 1,
                        !.picks = Append(@, <<"reorg", m>>)]
      BY DEF PickReorg, x
    <3> QED BY ONLY <3>1, <3>2 DEF SymFields
  <2> HIDE DEF t
  <2>5. /\ Table(t.pending, MaxPending, t.pendingCount)
        /\ Values(t.pending, t.pendingCount) = RemoveAt(d.pending, LastPending(d, m))
    BY <1>1, <1>2, <2>2, <2>4, RemoveTable
  <2>6. /\ Table(t.committed, MaxTransactions, t.committedCount)
        /\ Values(t.committed, t.committedCount) = RemoveAt(d.committed, i)
    <3>1. s.committedCount - 1 \in 0 .. s.committedCount - 1
          /\ (s.committedCount - 1) + 1 = i
      BY <1>3, <2>1
    <3> QED BY <1>1, <1>2, <2>4, <3>1, RemoveTable
  <2>7. /\ t.picks \in Seq(Moves \X Candidate) /\ Len(t.picks) = s.tx + 1
        /\ t.channel = OnChannel(t.picks, Len(t.picks))
        /\ LogOf(t.picks) = Append(d.log, Entry("reorg", m, d.channel))
        /\ Deliveries(t.picks) = Deliveries(s.picks)
    <3>1. /\ s.picks \in Seq(Moves \X Candidate) /\ Len(s.picks) = s.tx
          /\ "reorg" \in Moves /\ Len(s.picks) \in Nat
          /\ s.channel = OnChannel(s.picks, Len(s.picks))
      BY DEF Solved, Counts, Moves
    <3>2. s.channel \in Nat
      BY <3>1, OnChannelFinite
    <3>3. s.channel =
            OnChannel(s.picks, Len(s.picks)) + (IF "reorg" = "reorg" THEN 0 ELSE 1)
      BY <3>1, <3>2
    <3>4. LET more == Append(s.picks, <<"reorg", m>>) IN
          /\ more \in Seq(Moves \X Candidate) /\ Len(more) = Len(s.picks) + 1
          /\ OnChannel(more, Len(more)) = s.channel
          /\ LogOf(more) = Append(LogOf(s.picks), Entry("reorg", m, s.channel))
      BY <3>1, <3>3, LogAppended
    <3>5. t.picks = Append(s.picks, <<"reorg", m>>) /\ t.channel = s.channel
      BY ONLY <2>4
    <3>6. Deliveries(Append(s.picks, <<"reorg", m>>)) = Deliveries(s.picks)
      BY <3>1, DeliveriesAppended
    <3> QED BY ONLY <1>2, <3>1, <3>4, <3>5, <3>6
  <2>8. Solved(t)
    <3>1. t = SymFields(t)
      BY ONLY <2>4 DEF SymFields
    <3>2. Tables(t)
      BY <1>1, <2>4, <2>5, <2>6 DEF Tables
    <3>3. Counts(t)
      BY <1>3, <2>4, <2>7, SMTT(30) DEF Solved, Counts
    <3> QED BY <3>1, <3>2, <3>3 DEF Solved
  <2>9. /\ Decoded(t).committed = RemoveAt(d.committed, i)
        /\ Decoded(t).pending = RemoveAt(d.pending, LastPending(d, m))
        /\ Decoded(t).delivered = d.delivered /\ Decoded(t).received = d.received
        /\ Decoded(t).sourceClock = d.sourceClock - 1
        /\ Decoded(t).destinationClock = d.destinationClock
        /\ Decoded(t).channel = d.channel
        /\ Decoded(t).log = Append(d.log, Entry("reorg", m, d.channel))
    <3>1. /\ Decoded(t).committed = Values(t.committed, t.committedCount)
          /\ Decoded(t).pending = Values(t.pending, t.pendingCount)
          /\ Decoded(t).delivered = Deliveries(t.picks)
          /\ Decoded(t).received =
               [n \in Nonces |-> LastReceived(Deliveries(t.picks), n)]
          /\ Decoded(t).sourceClock = t.sourceClock
          /\ Decoded(t).destinationClock = t.destinationClock
          /\ Decoded(t).channel = t.channel /\ Decoded(t).log = LogOf(t.picks)
      BY <2>8, DecodedFields
    <3>2. /\ t.sourceClock = s.sourceClock - 1
          /\ t.destinationClock = s.destinationClock /\ t.channel = s.channel
      BY ONLY <2>4
    <3> QED BY ONLY <1>2, <2>5, <2>6, <2>7, <3>1, <3>2
  <2>10. Decoded(t) = Fields(Decoded(t))
    BY <2>8, DecodedFields, StateFields
  <2>11. Reorged(d, i) =
           [committed |-> RemoveAt(d.committed, i),
            pending |-> RemoveAt(d.pending, LastPending(d, m)),
            delivered |-> d.delivered, received |-> d.received,
            sourceClock |-> d.sourceClock - 1, destinationClock |-> d.destinationClock,
            channel |-> d.channel, log |-> Append(d.log, Entry("reorg", m, d.channel))]
    BY <1>2, <2>1, ReorgedFields
  <2>12. Decoded(t) = Reorged(d, i)
    BY ONLY <2>9, <2>10, <2>11 DEF Fields
  <2>13. Counted(s) /\ c = s.deliveredCount => Counted(t)
    BY <2>4, <2>7 DEF Counted
  <2> QED BY <2>1, <2>3, <2>8, <2>12, <2>13 DEF t
<1>6. s.deliveredCount \in 0 .. MaxTransactions
  BY DEF Solved, Counts
<1> QED BY <1>4, <1>5, <1>6 DEF d, i

(* Without duplicates no message is queued twice, and a queued message is  *)
(* committed: the place of a message in the queue is then the only one.    *)
QueuedOnce(p, d) ==
  ~p.duplicates =>
    /\ \A i, j \in DOMAIN d.pending : d.pending[i] = d.pending[j] => i = j
    /\ \A i \in DOMAIN d.pending : \E j \in DOMAIN d.committed : d.committed[j] = d.pending[i]

SymbolicInv == profile \in Profile /\ Solved(sym) /\ QueuedOnce(profile, Decoded(sym))

LEMMA RemovedElements ==
  ASSUME NEW S, NEW q \in Seq(S), NEW i \in DOMAIN q
  PROVE  /\ Len(q) \in Nat /\ DOMAIN q = 1 .. Len(q)
         /\ DOMAIN RemoveAt(q, i) = 1 .. Len(q) - 1
         /\ \A j \in 1 .. Len(q) - 1 :
              /\ j < i => RemoveAt(q, i)[j] = q[j]
              /\ ~(j < i) => RemoveAt(q, i)[j] = q[j + 1]
<1>1. /\ RemoveAt(q, i) \in Seq(S) /\ Len(RemoveAt(q, i)) = Len(q) - 1
      /\ \A j \in 1 .. Len(q) - 1 :
           RemoveAt(q, i)[j] = IF j < i THEN q[j] ELSE q[j + 1]
  BY RemoveAtShape
<1>2. Len(q) \in Nat /\ DOMAIN q = 1 .. Len(q)
  OBVIOUS
<1>3. DOMAIN RemoveAt(q, i) = 1 .. Len(q) - 1
  BY <1>1
<1> QED BY <1>1, <1>2, <1>3

\* What is left of a queue without repetitions, and that it lost one element.
LEMMA RemovedOnce ==
  ASSUME NEW S, NEW q \in Seq(S), NEW i \in DOMAIN q,
         \A j, k \in DOMAIN q : q[j] = q[k] => j = k
  PROVE  /\ \A j, k \in DOMAIN RemoveAt(q, i) :
              RemoveAt(q, i)[j] = RemoveAt(q, i)[k] => j = k
         /\ \A j \in DOMAIN RemoveAt(q, i) :
              RemoveAt(q, i)[j] # q[i] /\ \E k \in DOMAIN q : q[k] = RemoveAt(q, i)[j]
<1> DEFINE r == RemoveAt(q, i)
           from(j) == IF j < i THEN j ELSE j + 1
<1>1. /\ Len(q) \in Nat /\ DOMAIN q = 1 .. Len(q) /\ DOMAIN r = 1 .. Len(q) - 1
      /\ \A j \in 1 .. Len(q) - 1 :
           (j < i => r[j] = q[j]) /\ (~(j < i) => r[j] = q[j + 1])
  BY RemovedElements
<1> HIDE DEF r
<1>2. \A j \in DOMAIN r : from(j) \in DOMAIN q /\ from(j) # i /\ r[j] = q[from(j)]
  BY <1>1
<1>3. \A j, k \in DOMAIN r : from(j) = from(k) => j = k
  BY <1>1
<1> HIDE DEF from
<1>4. \A j, k \in DOMAIN r : r[j] = r[k] => j = k
  BY <1>2, <1>3
<1>5. \A j \in DOMAIN r : r[j] # q[i] /\ \E k \in DOMAIN q : q[k] = r[j]
  BY <1>2
<1> QED BY <1>4, <1>5 DEF r

LEMMA EnqueuedOnce ==
  ASSUME NEW p \in Profile, NEW d \in DualChainState, NEW m \in Message,
         QueuedOnce(p, d), CanEnqueue(p, d, m)
  PROVE  QueuedOnce(p, Enqueued(d, m))
<1> DEFINE e == Enqueued(d, m)
<1> SUFFICES ASSUME ~p.duplicates
             PROVE  QueuedOnce(p, e)
  BY DEF QueuedOnce
<1>1. /\ d.pending \in Seq(Message) /\ d.committed \in Seq(Message)
      /\ e.pending = Append(d.pending, m) /\ e.committed = Append(d.committed, m)
  <2>1. e = [committed |-> Append(d.committed, m), pending |-> Append(d.pending, m),
             delivered |-> d.delivered, received |-> d.received,
             sourceClock |-> d.sourceClock + 1, destinationClock |-> d.destinationClock,
             channel |-> d.channel + 1,
             log |-> Append(d.log, Entry("enqueue", m, d.channel + 1))]
    BY EnqueuedFields
  <2> QED BY <2>1, StateFields
<1> HIDE DEF e
<1>2. /\ \A i, j \in DOMAIN d.pending : d.pending[i] = d.pending[j] => i = j
      /\ \A i \in DOMAIN d.pending :
           \E j \in DOMAIN d.committed : d.committed[j] = d.pending[i]
  BY DEF QueuedOnce
<1>3. \A j \in DOMAIN d.committed : d.committed[j] # m
  BY DEF CanEnqueue
<1>4. \A i \in DOMAIN d.pending : d.pending[i] # m
  BY <1>2, <1>3
<1>5. /\ \A i \in DOMAIN e.pending :
           \/ i \in DOMAIN d.pending /\ e.pending[i] = d.pending[i]
           \/ i = Len(d.pending) + 1 /\ e.pending[i] = m
      /\ \A i \in DOMAIN d.committed :
           i \in DOMAIN e.committed /\ e.committed[i] = d.committed[i]
      /\ \E i \in DOMAIN e.committed : e.committed[i] = m
  <2>1. Len(d.committed) + 1 \in DOMAIN e.committed
        /\ e.committed[Len(d.committed) + 1] = m
    BY <1>1
  <2> QED BY <1>1, <2>1, AppendShape, SMTT(30)
<1>6. \A i, j \in DOMAIN e.pending : e.pending[i] = e.pending[j] => i = j
  BY ONLY <1>2, <1>4, <1>5
<1>7. \A i \in DOMAIN e.pending : \E j \in DOMAIN e.committed : e.committed[j] = e.pending[i]
  BY ONLY <1>2, <1>5
<1> QED BY <1>6, <1>7 DEF QueuedOnce

LEMMA DeliveredStaysOnce ==
  ASSUME NEW p \in Profile, NEW d \in DualChainState, NEW i \in DOMAIN d.pending,
         QueuedOnce(p, d)
  PROVE  QueuedOnce(p, Delivered(d, i))
<1> DEFINE e == Delivered(d, i)
<1>1. /\ d.pending \in Seq(Message)
      /\ e.pending = RemoveAt(d.pending, i) /\ e.committed = d.committed
  BY StateFields, DeliveredFields
<1> HIDE DEF e
<1>2. ASSUME ~p.duplicates
      PROVE  /\ \A j, k \in DOMAIN e.pending : e.pending[j] = e.pending[k] => j = k
             /\ \A j \in DOMAIN e.pending :
                  \E k \in DOMAIN e.committed : e.committed[k] = e.pending[j]
  <2>1. /\ \A j, k \in DOMAIN d.pending : d.pending[j] = d.pending[k] => j = k
        /\ \A j \in DOMAIN d.pending :
             \E k \in DOMAIN d.committed : d.committed[k] = d.pending[j]
    BY <1>2 DEF QueuedOnce
  <2>2. /\ \A j, k \in DOMAIN e.pending : e.pending[j] = e.pending[k] => j = k
        /\ \A j \in DOMAIN e.pending : \E k \in DOMAIN d.pending : d.pending[k] = e.pending[j]
    BY <1>1, <2>1, RemovedOnce
  <2> QED BY <1>1, <2>1, <2>2
<1> QED BY <1>2 DEF QueuedOnce, e

LEMMA ReorgedOnce ==
  ASSUME NEW p \in Profile, NEW d \in DualChainState, QueuedOnce(p, d),
         NEW i \in DOMAIN d.committed, NEW m, m = d.committed[i],
         LastPending(d, m) # 0, d.pending[LastPending(d, m)] = m
  PROVE  QueuedOnce(p, Reorged(d, i))
<1> DEFINE n == Len(d.committed)
           e == Reorged(d, i)
           l == LastPending(d, m)
<1>1. /\ d.pending \in Seq(Message) /\ d.committed \in Seq(Message)
      /\ l \in DOMAIN d.pending
      /\ e.pending = RemoveAt(d.pending, l) /\ e.committed = RemoveAt(d.committed, i)
  BY StateFields, ReorgedFields, SMTT(30)
<1>2. d.pending[l] = m /\ d.committed[i] = m /\ i \in DOMAIN d.committed
  OBVIOUS
<1> HIDE DEF e, l
<1>3. /\ n \in Nat /\ DOMAIN d.committed = 1 .. n /\ DOMAIN e.committed = 1 .. n - 1
      /\ \A j \in 1 .. n - 1 :
           /\ j < i => e.committed[j] = d.committed[j]
           /\ ~(j < i) => e.committed[j] = d.committed[j + 1]
  <2>1. /\ n \in Nat /\ DOMAIN d.committed = 1 .. n
        /\ DOMAIN RemoveAt(d.committed, i) = 1 .. n - 1
        /\ \A j \in 1 .. n - 1 :
             /\ j < i => RemoveAt(d.committed, i)[j] = d.committed[j]
             /\ ~(j < i) => RemoveAt(d.committed, i)[j] = d.committed[j + 1]
    <3>1. d.committed \in Seq(Message) /\ i \in DOMAIN d.committed
      BY <1>1, <1>2
    <3> QED BY ONLY <3>1, RemovedElements, Zenon DEF n
  <2> QED BY ONLY <1>1, <2>1, Zenon
<1> HIDE DEF n
<1>4. ASSUME ~p.duplicates
      PROVE  /\ \A j, k \in DOMAIN e.pending : e.pending[j] = e.pending[k] => j = k
             /\ \A j \in DOMAIN e.pending :
                  \E k \in DOMAIN e.committed : e.committed[k] = e.pending[j]
  <2>1. /\ \A j, k \in DOMAIN d.pending : d.pending[j] = d.pending[k] => j = k
        /\ \A j \in DOMAIN d.pending :
             \E k \in DOMAIN d.committed : d.committed[k] = d.pending[j]
    BY <1>4 DEF QueuedOnce
  <2>2. /\ \A j, k \in DOMAIN e.pending : e.pending[j] = e.pending[k] => j = k
        /\ \A j \in DOMAIN e.pending :
             e.pending[j] # m /\ \E k \in DOMAIN d.pending : d.pending[k] = e.pending[j]
    BY <1>1, <1>2, <2>1, RemovedOnce
  <2>3. ASSUME NEW j \in DOMAIN e.pending
        PROVE  \E k \in DOMAIN e.committed : e.committed[k] = e.pending[j]
    <3>1. PICK k \in 1 .. n : d.committed[k] = e.pending[j]
      BY <1>3, <2>1, <2>2
    <3>2. k # i
      BY <1>2, <2>2, <3>1
    <3>3. CASE k < i
      <4>1. k \in 1 .. n - 1
        BY <1>2, <1>3, <3>3
      <4> QED BY <1>3, <3>1, <3>3, <4>1
    <3>4. CASE ~(k < i)
      <4>1. k - 1 \in 1 .. n - 1 /\ ~(k - 1 < i) /\ (k - 1) + 1 = k
        BY <1>2, <1>3, <3>2, <3>4
      <4> QED BY <1>3, <3>1, <4>1
    <3> QED BY <3>3, <3>4
  <2> QED BY <2>2, <2>3
<1> QED BY <1>4 DEF QueuedOnce, e

LEMMA NativeMoves ==
  /\ Native!Initial = Initial
  /\ \A p, s, m : Native!CanEnqueue(p, s, m) <=> CanEnqueue(p, s, m)
  /\ \A s, m : Native!Enqueued(s, m) = Enqueued(s, m)
  /\ \A p, s, i : Native!CanDeliver(p, s, i) <=> CanDeliver(p, s, i)
  /\ \A s, i : Native!Delivered(s, i) = Delivered(s, i)
  /\ \A p, s, i : Native!CanReorg(p, s, i) <=> CanReorg(p, s, i)
  /\ \A s, i : Native!Reorged(s, i) = Reorged(s, i)
<1>1. Native!Initial = Initial
  BY DEF Native!Initial, Initial
<1>2. \A a, m, c : Native!Entry(a, m, c) = Entry(a, m, c)
  BY DEF Native!Entry, Entry
<1>3. \A s, m : Native!LastPending(s, m) = LastPending(s, m)
  BY DEF Native!LastPending, LastPending, Native!Identity, Identity,
         Native!SelectLastInSeq, SelectLastInSeq, Native!Max, Max
<1>4. \A p, s, m : Native!CanEnqueue(p, s, m) <=> CanEnqueue(p, s, m)
  BY DEF Native!CanEnqueue, CanEnqueue, Native!HasChannel, HasChannel,
         Native!HasTransaction, HasTransaction, Native!Identity, Identity
<1>5. \A p, s, i : Native!CanDeliver(p, s, i) <=> CanDeliver(p, s, i)
  BY DEF Native!CanDeliver, CanDeliver, Native!HasChannel, HasChannel,
         Native!HasTransaction, HasTransaction
<1>6. \A p, s, i : Native!CanReorg(p, s, i) <=> CanReorg(p, s, i)
  BY <1>3 DEF Native!CanReorg, CanReorg, Native!HasTransaction, HasTransaction
<1>7. \A s, m : Native!Enqueued(s, m) = Enqueued(s, m)
  BY DEF Native!Enqueued, Enqueued, Native!Entry, Entry
<1>8. \A s, i : Native!Delivered(s, i) = Delivered(s, i)
  BY DEF Native!Delivered, Delivered, Native!Entry, Entry, Native!RemoveAt, RemoveAt
<1>9. \A s, i : Native!Reorged(s, i) = Reorged(s, i)
  BY DEF Native!Reorged, Reorged, Native!Entry, Entry, Native!LastPending, LastPending,
         Native!Identity, Identity, Native!RemoveAt, RemoveAt,
         Native!SelectLastInSeq, SelectLastInSeq, Native!Max, Max
<1> QED BY <1>1, <1>4, <1>5, <1>6, <1>7, <1>8, <1>9

LEMMA SymbolicInitInv == SymbolicInit => SymbolicInv /\ Native!PairedInit
<1> SUFFICES ASSUME SymbolicInit PROVE SymbolicInv /\ Native!PairedInit
  OBVIOUS
<1>1. profile \in Profiles /\ profile \in Profile /\ sym = SymbolicInitial
  BY ProfilesType DEF SymbolicInit
<1>2. Solved(sym) /\ Decoded(sym) = Initial
  BY <1>1, SolvedInitially
<1>3. Initial.pending = << >>
  BY DEF Initial
<1>4. QueuedOnce(profile, Decoded(sym))
  BY <1>2, <1>3 DEF QueuedOnce
<1>5. Native!PairedInit
  BY <1>1, <1>2, NativeMoves DEF Native!PairedInit
<1> QED BY <1>1, <1>2, <1>4, <1>5 DEF SymbolicInv

LEMMA SymbolicStep ==
  SymbolicInv /\ [SymbolicNext]_symbolicVars
    => SymbolicInv' /\ [Native!PairedNext]_(Native!pairedVars)
<1> SUFFICES ASSUME SymbolicInv, [SymbolicNext]_symbolicVars
             PROVE  SymbolicInv' /\ [Native!PairedNext]_(Native!pairedVars)
  OBVIOUS
<1>1. CASE UNCHANGED symbolicVars
  <2>1. profile' = profile /\ sym' = sym
    BY <1>1 DEF symbolicVars
  <2>2. Decoded(sym') = Decoded(sym)
    BY <2>1
  <2>3. UNCHANGED Native!pairedVars
    BY <2>1, <2>2 DEF Native!pairedVars
  <2>4. SymbolicInv'
    BY <2>1, <2>2 DEF SymbolicInv
  <2> QED BY <2>3, <2>4
<1>2. CASE SymbolicNext
  <2>1. profile' = profile /\ profile \in Profile /\ Solved(sym)
        /\ QueuedOnce(profile, Decoded(sym)) /\ Decoded(sym) \in DualChainState
    BY <1>2, DecodedFields DEF SymbolicNext, SymbolicInv
  <2>2. PICK m \in Candidate :
          \/ MayPickEnqueue(profile, sym, m) /\ sym' = PickEnqueue(sym, m)
          \/ MayPickDeliver(profile, sym, m) /\ sym' = PickDeliver(sym, m)
          \/ /\ MayPickReorg(profile, sym, m)
             /\ \E c \in 0 .. MaxTransactions : sym' = PickReorg(sym, m, c)
    BY <1>2 DEF SymbolicNext
  <2>3. m \in Message
    BY CandidatesDiffer
  <2>4. ASSUME Solved(sym'), QueuedOnce(profile, Decoded(sym')) PROVE SymbolicInv'
    BY <2>1, <2>4 DEF SymbolicInv
  <2>5. CASE MayPickEnqueue(profile, sym, m) /\ sym' = PickEnqueue(sym, m)
    <3>1. /\ CanEnqueue(profile, Decoded(sym), m) /\ Solved(sym')
          /\ Decoded(sym') = Enqueued(Decoded(sym), m)
      BY <2>1, <2>5, PickedEnqueue
    <3>2. SymbolicInv'
      BY <2>1, <2>3, <2>4, <3>1, EnqueuedOnce
    <3>3. Native!Enqueue(m)
      BY <2>1, <3>1, NativeMoves DEF Native!Enqueue
    <3> QED BY <2>3, <3>2, <3>3 DEF Native!PairedNext
  <2>6. CASE MayPickDeliver(profile, sym, m) /\ sym' = PickDeliver(sym, m)
    <3>1. PICK i \in DOMAIN Decoded(sym).pending :
            /\ CanDeliver(profile, Decoded(sym), i) /\ Solved(sym')
            /\ Decoded(sym') = Delivered(Decoded(sym), i)
      BY <2>1, <2>6, PickedDeliver
    <3>2. SymbolicInv'
      BY <2>1, <2>4, <3>1, DeliveredStaysOnce
    <3>3. Native!Deliver(i)
      BY <2>1, <3>1, NativeMoves DEF Native!Deliver
    <3> QED BY <3>2, <3>3 DEF Native!PairedNext
  <2>7. CASE /\ MayPickReorg(profile, sym, m)
             /\ \E c \in 0 .. MaxTransactions : sym' = PickReorg(sym, m, c)
    <3> DEFINE d == Decoded(sym)
               i == Len(d.committed)
    <3>1. /\ CanReorg(profile, d, i) /\ m = d.committed[i] /\ i \in DOMAIN d.committed
          /\ Solved(sym') /\ Decoded(sym') = Reorged(d, i)
          /\ d.pending[LastPending(d, m)] = m
      BY <2>1, <2>7, PickedReorg
    <3>2. LastPending(d, m) # 0
      BY <3>1 DEF CanReorg
    <3>3. SymbolicInv'
      BY <2>1, <2>4, <3>1, <3>2, ReorgedOnce
    <3>4. Native!Reorg(i)
      BY <2>1, <3>1, NativeMoves DEF Native!Reorg
    <3> QED BY <3>1, <3>3, <3>4 DEF Native!PairedNext
  <2> QED BY <2>2, <2>5, <2>6, <2>7
<1> QED BY <1>1, <1>2

LEMMA SymbolicInvariant == SymbolicSpec => []SymbolicInv
BY SymbolicInitInv, SymbolicStep, PTL DEF SymbolicSpec

(* The encoding of the transition relation over arrays of fixed width      *)
(* implements the fixture, for every number of transactions, messages and  *)
(* queue places: each pick is the enqueue, the delivery or the rollback    *)
(* that its kind and selection decode to, with the same queue, history and *)
(* log, whatever count of the deliveries a rollback leaves                 *)
(* (symbolic_paired.py:399-501, 627-690).                                  *)
THEOREM SymbolicRefines == SymbolicSpec => SymbolicImplementsFixture
<1>1. SymbolicInit => Native!PairedInit
  BY SymbolicInitInv
<1>2. SymbolicInv /\ [SymbolicNext]_symbolicVars => [Native!PairedNext]_(Native!pairedVars)
  BY SymbolicStep
<1> QED BY <1>1, <1>2, SymbolicInvariant, PTL
        DEF SymbolicSpec, SymbolicImplementsFixture, Native!PairedSpec

LEMMA MovesEncoded ==
  SymbolicInv => EveryMoveIsEncoded
<1> SUFFICES ASSUME SymbolicInv
             PROVE  EveryMoveIsEncoded
  OBVIOUS
<1> DEFINE d == Decoded(sym)
<1>1. /\ profile \in Profile /\ Solved(sym) /\ QueuedOnce(profile, d)
      /\ d \in DualChainState /\ sym.deliveredCount \in 0 .. MaxTransactions
  BY DecodedFields DEF SymbolicInv, Solved, Counts
<1>2. ASSUME NEW t \in Encoded(profile, sym)
      PROVE  Decoded(t) \in Successors(profile, d)
  <2>1. CASE \E m \in Candidate : MayPickEnqueue(profile, sym, m) /\ t = PickEnqueue(sym, m)
    <3>1. \E m \in Candidate : CanEnqueue(profile, d, m) /\ Decoded(t) = Enqueued(d, m)
      BY <1>1, <2>1, PickedEnqueue
    <3> HIDE DEF d
    <3> QED BY <3>1 DEF Successors, EnqueueSuccessors
  <2>2. CASE \E m \in Candidate : MayPickDeliver(profile, sym, m) /\ t = PickDeliver(sym, m)
    <3>1. \E i \in DOMAIN d.pending : CanDeliver(profile, d, i) /\ Decoded(t) = Delivered(d, i)
      BY <1>1, <2>2, PickedDeliver
    <3> HIDE DEF d
    <3> QED BY <3>1 DEF Successors, DeliverSuccessors
  <2>3. CASE \E m \in Candidate, c \in 0 .. MaxTransactions :
               MayPickReorg(profile, sym, m) /\ t = PickReorg(sym, m, c)
    <3>1. /\ CanReorg(profile, d, Len(d.committed))
          /\ Decoded(t) = Reorged(d, Len(d.committed))
      BY <1>1, <2>3, PickedReorg
    <3> HIDE DEF d
    <3> QED BY <3>1 DEF Successors, ReorgSuccessors
  <2> QED BY <2>1, <2>2, <2>3 DEF Encoded
<1>3. ASSUME profile.duplicates => ~profile.reorder, Counted(sym),
             NEW n \in Successors(profile, d)
      PROVE  \E t \in Encoded(profile, sym) : Counted(t) /\ Decoded(t) = n
  <2>1. CASE n \in EnqueueSuccessors(profile, d)
    <3>1. PICK m \in Candidate : CanEnqueue(profile, d, m) /\ n = Enqueued(d, m)
      BY <2>1 DEF EnqueueSuccessors
    <3>2. /\ MayPickEnqueue(profile, sym, m) /\ Counted(PickEnqueue(sym, m))
          /\ Decoded(PickEnqueue(sym, m)) = n
      BY <1>1, <1>3, <3>1, PickedEnqueue
    <3>3. PickEnqueue(sym, m) \in Encoded(profile, sym)
      BY <3>2 DEF Encoded
    <3> QED BY <3>2, <3>3
  <2>2. CASE n \in DeliverSuccessors(profile, d)
    <3>1. PICK i \in DOMAIN d.pending : CanDeliver(profile, d, i) /\ n = Delivered(d, i)
      BY <2>2 DEF DeliverSuccessors
    <3>2. /\ profile.reorder \in BOOLEAN /\ profile.duplicates \in BOOLEAN
          /\ d.pending \in Seq(Message) /\ DOMAIN d.pending = 1 .. Len(d.pending)
      BY <1>1, StateFields DEF Profile
    <3>3. \A j \in 1 .. i - 1 : d.pending[j] # d.pending[i]
      <4>1. CASE i = 1
        BY <4>1
      <4>2. CASE i # 1
        <5>1. ~profile.duplicates
          BY <1>3, <3>1, <3>2, <4>2 DEF CanDeliver
        <5>2. \A j, k \in DOMAIN d.pending : d.pending[j] = d.pending[k] => j = k
          BY <1>1, <5>1 DEF QueuedOnce
        <5>3. \A j \in 1 .. i - 1 : j \in DOMAIN d.pending /\ j # i
          BY <3>1, <3>2
        <5> QED BY <3>1, <5>2, <5>3
      <4> QED BY <4>1, <4>2
    <3>4. PICK m \in Candidate :
            /\ MayPickDeliver(profile, sym, m)
            /\ i = FirstMatch(sym.pending, sym.pendingCount, m) + 1
      BY <1>1, <1>3, <3>1, <3>3, DeliveryEncoded
    <3>5. Decoded(PickDeliver(sym, m)) = n /\ Counted(PickDeliver(sym, m))
      BY <1>1, <1>3, <3>1, <3>4, PickedDeliver
    <3>6. PickDeliver(sym, m) \in Encoded(profile, sym)
      BY <3>4 DEF Encoded
    <3> QED BY <3>5, <3>6
  <2>3. CASE n \in ReorgSuccessors(profile, d)
    <3> DEFINE i == Len(d.committed)
    <3>1. CanReorg(profile, d, i) /\ n = Reorged(d, i)
      BY <2>3 DEF ReorgSuccessors
    <3>2. d.committed[i] \in Candidate
      <4>1. MaxTransactions \in Nat
        BY BoundsPositive
      <4>2. d.committed = Values(sym.committed, sym.committedCount)
        BY <1>1, DecodedFields
      <4>3. Table(sym.committed, MaxTransactions, sym.committedCount)
        BY <1>1 DEF Solved, Tables
      <4>4. \A j \in DOMAIN d.committed : d.committed[j] \in Candidate
        BY <4>1, <4>2, <4>3, ValuesTyped
      <4> QED BY <3>1, <4>4 DEF CanReorg
    <3>3. PICK m \in Candidate : m = d.committed[i]
      BY <3>2
    <3> DEFINE t == PickReorg(sym, m, sym.deliveredCount)
    <3>4. MayPickReorg(profile, sym, m) /\ Decoded(t) = n /\ Counted(t)
      BY <1>1, <1>3, <3>1, <3>3, PickedReorg
    <3>5. t \in Encoded(profile, sym)
      <4>1. <<m, sym.deliveredCount>> \in
              {c \in Candidate : MayPickReorg(profile, sym, c)} \X (0 .. MaxTransactions)
        BY <1>1, <3>4
      <4>2. t = PickReorg(sym, <<m, sym.deliveredCount>>[1], <<m, sym.deliveredCount>>[2])
        OBVIOUS
      <4> HIDE DEF t
      <4> QED BY <4>1, <4>2 DEF Encoded
    <3> QED BY <3>4, <3>5
  <2> QED BY <2>1, <2>2, <2>3 DEF Successors
<1> QED BY <1>2, <1>3 DEF EveryMoveIsEncoded

(* The encoding is complete: each step it allows leads where one of the    *)
(* concrete explorer's does, and each of the explorer's can be picked with *)
(* the right count of the deliveries, so that an unsatisfiable encoding    *)
(* leaves no schedule out (symbolic_paired.py:399-501,                     *)
(* paired_explorer.py:173-200).                                            *)
THEOREM EncodingIsExact == SymbolicSpec => []EveryMoveIsEncoded
BY SymbolicInvariant, MovesEncoded, PTL

----------------------------------------------------------------------------
(* PairedSearch.  What the recursive definitions of the search satisfy:    *)
(* recursion over 0 .. n has a solution, and one in the set its steps stay *)
(* in.                                                                     *)

Runs(V, b, n, F) ==
  \E f \in [0 .. n -> V] : f[0] = b /\ \A j \in 1 .. n : f[j] = F[<<j, f[j - 1]>>]

LEMMA Recursion ==
  ASSUME NEW V, NEW b \in V, NEW n \in Nat, NEW F \in [(1 .. n) \X V -> V]
  PROVE  Runs(V, b, n, F)
<1> DEFINE A == {k \in Nat : k <= n => \E f \in [0 .. k -> V] :
                   f[0] = b /\ \A j \in 1 .. k : f[j] = F[<<j, f[j - 1]>>]}
<1>1. 0 \in A
  <2> DEFINE f == [i \in 0 .. 0 |-> b]
  <2>1. f \in [0 .. 0 -> V] /\ f[0] = b /\ \A j \in 1 .. 0 : f[j] = F[<<j, f[j - 1]>>]
    OBVIOUS
  <2> QED BY <2>1
<1>2. ASSUME NEW k \in Nat, k \in A PROVE k + 1 \in A
  <2> SUFFICES ASSUME k + 1 <= n
               PROVE  \E f \in [0 .. k + 1 -> V] :
                        f[0] = b /\ \A j \in 1 .. k + 1 : f[j] = F[<<j, f[j - 1]>>]
    OBVIOUS
  <2>1. PICK f \in [0 .. k -> V] :
          f[0] = b /\ \A j \in 1 .. k : f[j] = F[<<j, f[j - 1]>>]
    BY <1>2
  <2> DEFINE v == F[<<k + 1, f[k]>>]
             g == [j \in 0 .. k + 1 |-> IF j = k + 1 THEN v ELSE f[j]]
  <2>2. v \in V
    <3>1. <<k + 1, f[k]>> \in (1 .. n) \X V
      BY <2>1
    <3> QED BY <3>1
  <2>3. g \in [0 .. k + 1 -> V]
    <3> HIDE DEF v
    <3> QED BY <2>1, <2>2
  <2>4. /\ g[k + 1] = v /\ \A j \in 0 .. k : g[j] = f[j]
    <3> HIDE DEF v
    <3> QED OBVIOUS
  <2> HIDE DEF g
  <2>5. ASSUME NEW j \in 1 .. k + 1 PROVE g[j] = F[<<j, g[j - 1]>>]
    <3>1. CASE j = k + 1
      BY <2>4, <3>1
    <3>2. CASE j # k + 1
      <4>1. j \in 1 .. k /\ j \in 0 .. k /\ j - 1 \in 0 .. k
        BY <3>2
      <4> HIDE DEF v
      <4> QED BY <2>1, <2>4, <4>1
    <3> QED BY <3>1, <3>2
  <2>6. g[0] = b
    BY <2>1, <2>4
  <2> QED BY <2>3, <2>5, <2>6
<1>3. Nat \subseteq A
  <2> HIDE DEF A
  <2> QED BY <1>1, <1>2, AllNumbers
<1> QED BY <1>3 DEF Runs

\* An enumeration of a finite set has all its members.
LEMMA Enumerated ==
  ASSUME NEW S, IsFiniteSet(S)
  PROVE  /\ SetToSeq(S) \in Seq(S)
         /\ \A x \in S : \E i \in DOMAIN SetToSeq(S) : SetToSeq(S)[i] = x
<1> DEFINE n == Cardinality(S)
           q == SetToSeq(S)
<1>1. n \in Nat /\ ExistsBijection(1 .. n, S)
  BY FS_CardinalityType
<1>2. PICK f : f \in [1 .. n -> S] /\ IsInjective(f)
  BY <1>1 DEF ExistsBijection, Bijection, Injection
<1>3. q \in [1 .. n -> S] /\ IsInjective(q)
  BY <1>2 DEF SetToSeq
<1> HIDE DEF q
<1>4. q \in Injection(1 .. n, S)
  BY <1>3 DEF Injection
<1>5. Cardinality(1 .. n) = n
  BY <1>1, FS_Interval
<1>6. q \in Surjection(1 .. n, S)
  <2> HIDE DEF n
  <2>1. Cardinality(1 .. n) = Cardinality(S) <=> q \in Surjection(1 .. n, S)
    BY <1>4, FS_Injection
  <2> QED BY <1>5, <2>1 DEF n
<1>7. \A x \in S : \E i \in 1 .. n : q[i] = x
  BY <1>6 DEF Surjection
<1>8. q \in Seq(S) /\ DOMAIN q = 1 .. n
  BY <1>1, <1>3
<1> QED BY <1>7, <1>8 DEF q

Members(q) == {q[i] : i \in DOMAIN q}

LEMMA MembersOfParts ==
  ASSUME NEW S, NEW q \in Seq(S), NEW r \in Seq(S)
  PROVE  q \o r \in Seq(S) /\ Members(q \o r) = Members(q) \cup Members(r)
<1> DEFINE c == q \o r
<1>1. /\ c \in Seq(S) /\ DOMAIN q = 1 .. Len(q) /\ DOMAIN r = 1 .. Len(r)
      /\ DOMAIN c = 1 .. Len(q) + Len(r) /\ Len(q) \in Nat /\ Len(r) \in Nat
      /\ \A i \in 1 .. Len(q) : c[i] = q[i]
      /\ \A i \in 1 .. Len(r) : c[Len(q) + i] = r[i]
  OBVIOUS
<1> HIDE DEF c
<1>2. ASSUME NEW i \in DOMAIN c PROVE c[i] \in Members(q) \cup Members(r)
  <2>1. CASE i <= Len(q)
    <3>1. i \in DOMAIN q
      BY <1>1, <2>1
    <3> QED BY <1>1, <3>1 DEF Members
  <2>2. CASE ~(i <= Len(q))
    <3>1. i - Len(q) \in DOMAIN r /\ Len(q) + (i - Len(q)) = i
      BY <1>1, <2>2
    <3>2. c[i] = r[i - Len(q)]
      BY <1>1, <3>1
    <3> QED BY <3>1, <3>2 DEF Members
  <2> QED BY <2>1, <2>2
<1>3. ASSUME NEW i \in DOMAIN q PROVE q[i] \in Members(c)
  <2>1. i \in DOMAIN c /\ c[i] = q[i]
    BY <1>1
  <2> QED BY <2>1 DEF Members
<1>4. ASSUME NEW i \in DOMAIN r PROVE r[i] \in Members(c)
  <2>1. Len(q) + i \in DOMAIN c /\ c[Len(q) + i] = r[i]
    BY <1>1
  <2> QED BY <2>1 DEF Members
<1>5. Members(c) \subseteq Members(q) \cup Members(r)
  BY <1>2 DEF Members
<1>6. Members(q) \subseteq Members(c) /\ Members(r) \subseteq Members(c)
  BY <1>3, <1>4 DEF Members
<1> QED BY <1>1, <1>5, <1>6 DEF c

LEMMA HeadAndTail ==
  ASSUME NEW S, NEW q \in Seq(S), q # << >>
  PROVE  /\ Head(q) \in S /\ Head(q) \in Members(q)
         /\ Tail(q) \in Seq(S) /\ Members(q) = {Head(q)} \cup Members(Tail(q))
<1>1. /\ DOMAIN q = 1 .. Len(q) /\ Len(q) \in Nat /\ 1 \in DOMAIN q /\ Head(q) = q[1]
      /\ Tail(q) \in Seq(S) /\ DOMAIN Tail(q) = 1 .. Len(q) - 1
      /\ \A i \in 1 .. Len(q) - 1 : Tail(q)[i] = q[i + 1]
  OBVIOUS
<1>2. ASSUME NEW i \in DOMAIN q, i # 1 PROVE q[i] \in Members(Tail(q))
  <2>1. i - 1 \in 1 .. Len(q) - 1 /\ (i - 1) + 1 = i
    BY <1>1, <1>2
  <2>2. i - 1 \in DOMAIN Tail(q) /\ Tail(q)[i - 1] = q[i]
    BY <1>1, <2>1
  <2> QED BY <2>2 DEF Members
<1>3. ASSUME NEW i \in DOMAIN Tail(q) PROVE Tail(q)[i] \in Members(q)
  <2>1. i + 1 \in DOMAIN q /\ Tail(q)[i] = q[i + 1]
    BY <1>1
  <2> QED BY <2>1 DEF Members
<1>4. Members(Tail(q)) \subseteq Members(q)
  BY <1>3 DEF Members
<1>5. Members(q) \subseteq {Head(q)} \cup Members(Tail(q))
  BY <1>1, <1>2 DEF Members
<1>6. Head(q) \in Members(q) /\ Head(q) \in S
  BY <1>1 DEF Members
<1> QED BY <1>1, <1>4, <1>5, <1>6

----------------------------------------------------------------------------
(* The moves the explorers try, and the states they reach                  *)

LEMMA SuccessorIs ==
  ASSUME NEW p, NEW s \in DualChainState, NEW t \in Successors(p, s)
  PROVE  \/ \E m \in Candidate : CanEnqueue(p, s, m) /\ t = Enqueued(s, m)
         \/ \E i \in DOMAIN s.pending : CanDeliver(p, s, i) /\ t = Delivered(s, i)
         \/ CanReorg(p, s, Len(s.committed)) /\ t = Reorged(s, Len(s.committed))
BY DEF Successors, EnqueueSuccessors, DeliverSuccessors, ReorgSuccessors

LEMMA IsSuccessor ==
  ASSUME NEW p, NEW s \in DualChainState, NEW t,
         \/ \E m \in Candidate : CanEnqueue(p, s, m) /\ t = Enqueued(s, m)
         \/ \E i \in DOMAIN s.pending : CanDeliver(p, s, i) /\ t = Delivered(s, i)
         \/ CanReorg(p, s, Len(s.committed)) /\ t = Reorged(s, Len(s.committed))
  PROVE  t \in Successors(p, s)
<1>1. CASE \E m \in Candidate : CanEnqueue(p, s, m) /\ t = Enqueued(s, m)
  BY <1>1 DEF Successors, EnqueueSuccessors
<1>2. CASE \E i \in DOMAIN s.pending : CanDeliver(p, s, i) /\ t = Delivered(s, i)
  BY <1>2 DEF Successors, DeliverSuccessors
<1>3. CASE CanReorg(p, s, Len(s.committed)) /\ t = Reorged(s, Len(s.committed))
  BY <1>3 DEF Successors, ReorgSuccessors
<1> QED BY <1>1, <1>2, <1>3

\* A move is typed, takes one transaction and is named by its log entry.
Recorded(s, action, m, t) ==
  \E e \in LogEntry : t.log = Append(s.log, e) /\ e.action = action /\ e.message = m

LEMMA EnqueueMove ==
  ASSUME NEW p, NEW s \in DualChainState, NEW m \in Candidate, CanEnqueue(p, s, m),
         NEW t, t = Enqueued(s, m)
  PROVE  /\ t \in DualChainState /\ Recorded(s, "enqueue", m, t)
         /\ Len(s.log) < MaxTransactions
         /\ t.committed = Append(s.committed, m) /\ t.pending = Append(s.pending, m)
<1>1. m \in Message
  BY CandidatesDiffer
<1>2. PICK e \in LogEntry : e = Entry("enqueue", m, s.channel + 1)
  BY <1>1, EnqueuedFields
<1>3. t \in DualChainState
  BY <1>1, EnqueuedFields
<1>4. t = [committed |-> Append(s.committed, m), pending |-> Append(s.pending, m),
           delivered |-> s.delivered, received |-> s.received,
           sourceClock |-> s.sourceClock + 1, destinationClock |-> s.destinationClock,
           channel |-> s.channel + 1, log |-> Append(s.log, e)]
  BY <1>1, <1>2, EnqueuedFields
<1>5. e.action = "enqueue" /\ e.message = m
  BY <1>2 DEF Entry
<1>6. Len(s.log) < MaxTransactions
  BY DEF CanEnqueue, HasChannel, HasTransaction
<1>7. /\ t.log = Append(s.log, e)
      /\ t.committed = Append(s.committed, m) /\ t.pending = Append(s.pending, m)
  BY ONLY <1>4
<1> QED BY ONLY <1>3, <1>5, <1>6, <1>7 DEF Recorded

LEMMA DeliverMove ==
  ASSUME NEW p, NEW s \in DualChainState, NEW i \in DOMAIN s.pending,
         CanDeliver(p, s, i), NEW t, t = Delivered(s, i)
  PROVE  /\ t \in DualChainState /\ Recorded(s, "deliver", s.pending[i], t)
         /\ Len(s.log) < MaxTransactions
         /\ t.committed = s.committed /\ t.pending = RemoveAt(s.pending, i)
<1> DEFINE m == s.pending[i]
<1>1. PICK e \in LogEntry : e = Entry("deliver", m, s.channel + 1)
  BY DeliveredFields
<1>2. t \in DualChainState
  BY DeliveredFields
<1> DEFINE got == [s.received EXCEPT ![m.nonce] = m.payload]
<1>3. t = [committed |-> s.committed, pending |-> RemoveAt(s.pending, i),
           delivered |-> Append(s.delivered, m), received |-> got,
           sourceClock |-> s.sourceClock, destinationClock |-> s.destinationClock + 1,
           channel |-> s.channel + 1, log |-> Append(s.log, e)]
  BY <1>1, DeliveredFields
<1> HIDE DEF got
<1>4. e.action = "deliver" /\ e.message = m
  BY <1>1 DEF Entry
<1>5. Len(s.log) < MaxTransactions
  BY DEF CanDeliver, HasChannel, HasTransaction
<1>6. /\ t.log = Append(s.log, e)
      /\ t.committed = s.committed /\ t.pending = RemoveAt(s.pending, i)
  BY ONLY <1>3
<1> QED BY ONLY <1>2, <1>4, <1>5, <1>6 DEF Recorded

LEMMA ReorgMove ==
  ASSUME NEW p, NEW s \in DualChainState, NEW n \in DOMAIN s.committed,
         CanReorg(p, s, n), NEW t, t = Reorged(s, n), NEW m, m = s.committed[n]
  PROVE  /\ LastPending(s, m) # 0
         /\ t \in DualChainState /\ Recorded(s, "reorg", m, t)
         /\ Len(s.log) < MaxTransactions
         /\ t.committed = RemoveAt(s.committed, n)
         /\ t.pending = RemoveAt(s.pending, LastPending(s, m))
<1>1. LastPending(s, m) # 0 /\ Len(s.log) < MaxTransactions
  BY DEF CanReorg, HasTransaction
<1>2. PICK e \in LogEntry : e = Entry("reorg", m, s.channel)
  BY <1>1, ReorgedFields
<1>3. t \in DualChainState
  BY <1>1, ReorgedFields
<1>4. t = [committed |-> RemoveAt(s.committed, n),
           pending |-> RemoveAt(s.pending, LastPending(s, m)),
           delivered |-> s.delivered, received |-> s.received,
           sourceClock |-> s.sourceClock - 1, destinationClock |-> s.destinationClock,
           channel |-> s.channel, log |-> Append(s.log, e)]
  BY <1>1, <1>2, ReorgedFields
<1>5. e.action = "reorg" /\ e.message = m
  BY <1>2 DEF Entry
<1>6. /\ t.log = Append(s.log, e) /\ t.committed = RemoveAt(s.committed, n)
      /\ t.pending = RemoveAt(s.pending, LastPending(s, m))
  BY ONLY <1>4
<1>7. Recorded(s, "reorg", m, t)
  BY ONLY <1>5, <1>6 DEF Recorded
<1> QED BY <1>1, <1>3, <1>6, <1>7

LEMMA SuccessorTyped ==
  ASSUME NEW p, NEW s \in DualChainState, NEW t \in Successors(p, s)
  PROVE  /\ t \in DualChainState /\ Len(s.log) \in Nat
         /\ Len(t.log) = Len(s.log) + 1 /\ Len(s.log) < MaxTransactions
<1>1. /\ t \in DualChainState /\ Len(s.log) < MaxTransactions
      /\ \E action, m : Recorded(s, action, m, t)
  <2>1. CASE \E m \in Candidate : CanEnqueue(p, s, m) /\ t = Enqueued(s, m)
    BY <2>1, EnqueueMove
  <2>2. CASE \E i \in DOMAIN s.pending : CanDeliver(p, s, i) /\ t = Delivered(s, i)
    BY <2>2, DeliverMove
  <2>3. CASE CanReorg(p, s, Len(s.committed)) /\ t = Reorged(s, Len(s.committed))
    <3>1. Len(s.committed) \in DOMAIN s.committed
      BY <2>3 DEF CanReorg
    <3> QED BY <2>3, <3>1, ReorgMove
  <2> QED BY <2>1, <2>2, <2>3, SuccessorIs
<1>2. PICK e \in LogEntry : t.log = Append(s.log, e)
  BY <1>1 DEF Recorded
<1>3. s.log \in Seq(LogEntry)
  BY StateFields
<1> QED BY <1>1, <1>2, <1>3

(* The fixtures a caller can have made: their messages are candidates, and *)
(* without duplicates none is queued twice.                                *)
OfCandidates(s) == s.pending \in Seq(Candidate) /\ s.committed \in Seq(Candidate)

Started(p, s) ==
  /\ s \in DualChainState /\ OfCandidates(s) /\ QueuedOnce(p, s)
  /\ Len(s.log) \in Nat /\ Len(s.log) <= MaxTransactions

LEMMA CallerMoveKept ==
  ASSUME NEW p \in Profile, NEW s, Started(p, s), NEW t \in CallerMoves(p, s)
  PROVE  Started(p, t)
<1>1. /\ s \in DualChainState /\ QueuedOnce(p, s)
      /\ s.pending \in Seq(Candidate) /\ s.committed \in Seq(Candidate)
      /\ s.pending \in Seq(Message) /\ DOMAIN s.pending = 1 .. Len(s.pending)
      /\ \A i \in DOMAIN s.pending : s.pending[i] \in Candidate
      /\ \A i \in DOMAIN s.committed : s.committed[i] \in Candidate
      /\ s.log \in Seq(LogEntry)
  BY StateFields DEF Started, OfCandidates
<1>2. ASSUME NEW e \in LogEntry, t.log = Append(s.log, e), Len(s.log) < MaxTransactions
      PROVE  Len(t.log) \in Nat /\ Len(t.log) <= MaxTransactions
  <2>1. Len(s.log) \in Nat /\ Len(t.log) = Len(s.log) + 1 /\ MaxTransactions \in Nat
    BY <1>1, <1>2, BoundsPositive
  <2> QED BY ONLY <1>2, <2>1
<1>3. ASSUME NEW m \in Candidate, CanEnqueue(p, s, m), t = Enqueued(s, m)
      PROVE  Started(p, t)
  <2>1. /\ t \in DualChainState /\ Recorded(s, "enqueue", m, t)
        /\ Len(s.log) < MaxTransactions
        /\ t.committed = Append(s.committed, m) /\ t.pending = Append(s.pending, m)
    BY <1>1, <1>3, EnqueueMove
  <2>2. OfCandidates(t)
    BY <1>1, <2>1, AppendShape DEF OfCandidates
  <2>3. QueuedOnce(p, t)
    <3>1. m \in Message
      BY CandidatesDiffer
    <3> QED BY <1>1, <1>3, <3>1, EnqueuedOnce
  <2>4. Len(t.log) \in Nat /\ Len(t.log) <= MaxTransactions
    BY <1>2, <2>1 DEF Recorded
  <2> QED BY ONLY <2>1, <2>2, <2>3, <2>4 DEF Started
<1>4. ASSUME NEW i \in DOMAIN s.pending, CanDeliver(p, s, i), t = Delivered(s, i)
      PROVE  Started(p, t)
  <2>1. /\ t \in DualChainState /\ Recorded(s, "deliver", s.pending[i], t)
        /\ Len(s.log) < MaxTransactions
        /\ t.committed = s.committed /\ t.pending = RemoveAt(s.pending, i)
    BY <1>1, <1>4, DeliverMove
  <2>2. OfCandidates(t)
    BY <1>1, <2>1, RemoveAtShape DEF OfCandidates
  <2>3. QueuedOnce(p, t)
    BY <1>1, <1>4, DeliveredStaysOnce
  <2>4. Len(t.log) \in Nat /\ Len(t.log) <= MaxTransactions
    BY <1>2, <2>1 DEF Recorded
  <2> QED BY ONLY <2>1, <2>2, <2>3, <2>4 DEF Started
<1>5. ASSUME NEW i \in DOMAIN s.committed, CanReorg(p, s, i), t = Reorged(s, i)
      PROVE  Started(p, t)
  <2> DEFINE m == s.committed[i]
             l == LastPending(s, m)
  <2>1. /\ l # 0 /\ t \in DualChainState /\ Recorded(s, "reorg", m, t)
        /\ Len(s.log) < MaxTransactions
        /\ t.committed = RemoveAt(s.committed, i) /\ t.pending = RemoveAt(s.pending, l)
    BY <1>1, <1>5, ReorgMove
  <2>2. m \in Candidate
    BY <1>1
  <2>3. l \in DOMAIN s.pending /\ s.pending[l] = m
    <3>1. l \in DOMAIN s.pending /\ Identity(s.pending[l]) = Identity(m)
      BY <1>1, <2>1, LastPendingFound
    <3> HIDE DEF m, l
    <3> QED BY <1>1, <2>2, <3>1, SameCandidate
  <2>4. OfCandidates(t)
    <3> HIDE DEF m, l
    <3> QED BY <1>1, <2>1, <2>3, RemoveAtShape DEF OfCandidates
  <2>5. QueuedOnce(p, t)
    BY <1>1, <1>5, <2>1, <2>3, ReorgedOnce
  <2>6. Len(t.log) \in Nat /\ Len(t.log) <= MaxTransactions
    BY <1>2, <2>1 DEF Recorded
  <2> QED BY ONLY <2>1, <2>4, <2>5, <2>6 DEF Started
<1>6. \/ \E m \in Candidate : CanEnqueue(p, s, m) /\ t = Enqueued(s, m)
      \/ \E i \in DOMAIN s.pending : CanDeliver(p, s, i) /\ t = Delivered(s, i)
      \/ \E i \in DOMAIN s.committed : CanReorg(p, s, i) /\ t = Reorged(s, i)
  BY DEF CallerMoves, EnqueueSuccessors, DeliverSuccessors
<1> QED BY <1>3, <1>4, <1>5, <1>6

InHistory(p, f) ==
  f = [n \in 0 .. MaxHistory |->
         IF n = 0 THEN {Initial}
         ELSE f[n - 1] \cup UNION {CallerMoves(p, s) : s \in f[n - 1]}]

LEMMA InitialStarted == \A p : Started(p, Initial)
<1>1. Initial.pending = << >> /\ Initial.committed = << >> /\ Len(Initial.log) = 0
  BY DEF Initial
<1>2. \A p : OfCandidates(Initial) /\ QueuedOnce(p, Initial)
  BY <1>1 DEF OfCandidates, QueuedOnce
<1> QED BY <1>1, <1>2, InitialTyped, BoundsPositive DEF Started

LEMMA InHistoryExists ==
  ASSUME NEW p \in Profile
  PROVE  \E f : InHistory(p, f)
<1> DEFINE V == SUBSET {s \in DualChainState : Started(p, s)}
           N == MaxHistory
           next(S) == S \cup UNION {CallerMoves(p, s) : s \in S}
           F == [x \in (1 .. N) \X V |-> next(x[2])]
<1>1. N \in Nat /\ {Initial} \in V
  BY SearchConstants, InitialStarted, InitialTyped
<1>2. \A S \in V : next(S) \in V
  <2>1. \A s : \A t \in CallerMoves(p, s) :
          Started(p, s) => Started(p, t) /\ t \in DualChainState
    BY CallerMoveKept DEF Started
  <2> QED BY <2>1
<1> HIDE DEF next, N
<1>3. F \in [(1 .. N) \X V -> V]
  <2>1. \A x \in (1 .. N) \X V : next(x[2]) \in V
    BY <1>2
  <2> HIDE DEF V
  <2> QED BY <2>1
<1>4. \A j \in 1 .. N : \A S \in V : F[<<j, S>>] = next(S)
  <2> HIDE DEF V
  <2> QED OBVIOUS
<1> HIDE DEF F, V
<1>5. PICK f \in [0 .. N -> V] : f[0] = {Initial} /\ \A j \in 1 .. N : f[j] = F[<<j, f[j - 1]>>]
  <2>1. Runs(V, {Initial}, N, F)
    BY <1>1, <1>3, Recursion
  <2> QED BY ONLY <2>1 DEF Runs
<1>6. \A j \in 1 .. N : j - 1 \in 0 .. N /\ f[j - 1] \in V
  BY <1>1, <1>5
<1>7. \A j \in 1 .. N : f[j] = next(f[j - 1])
  BY <1>4, <1>5, <1>6
<1>8. \A j \in 0 .. N : f[j] = IF j = 0 THEN {Initial} ELSE next(f[j - 1])
  BY <1>1, <1>5, <1>7
<1>9. f = [j \in 0 .. N |-> IF j = 0 THEN {Initial} ELSE next(f[j - 1])]
  BY <1>5, <1>8
<1> QED BY <1>9 DEF InHistory, next, N

LEMMA StartTyped ==
  ASSUME NEW p \in Profiles, NEW b \in Starts[p]
  PROVE  p \in Profile /\ Started(p, b) /\ b \in DualChainState
<1> DEFINE f == CHOOSE g : InHistory(p, g)
           N == MaxHistory
<1>1. p \in Profile /\ N \in Nat
  BY ProfilesType, SearchConstants
<1>2. InHistory(p, f)
  BY <1>1, InHistoryExists
<1>3. b \in f[N]
  BY DEF Starts, InHistory
<1> HIDE DEF f
<1> DEFINE A == {n \in Nat : n <= N => \A s \in f[n] : Started(p, s)}
<1>4. 0 \in A
  <2>1. 0 \in 0 .. N
    BY <1>1
  <2>2. f[0] = {Initial}
    BY ONLY <1>2, <2>1 DEF InHistory
  <2> QED BY <2>2, InitialStarted
<1>5. ASSUME NEW n \in Nat, n \in A PROVE n + 1 \in A
  <2> SUFFICES ASSUME n + 1 <= N, NEW t \in f[n + 1] PROVE Started(p, t)
    OBVIOUS
  <2>1. n <= N /\ n + 1 \in 0 .. N /\ n + 1 # 0 /\ (n + 1) - 1 = n
    BY <1>1
  <2>2. f[n + 1] = f[n] \cup UNION {CallerMoves(p, s) : s \in f[n]}
    BY ONLY <1>2, <2>1 DEF InHistory
  <2>3. \A s \in f[n] : Started(p, s)
    BY <1>5, <2>1
  <2> QED BY <1>1, <2>2, <2>3, CallerMoveKept
<1>6. Nat \subseteq A
  <2> HIDE DEF A
  <2> QED BY <1>4, <1>5, AllNumbers
<1>7. Started(p, b)
  BY <1>1, <1>3, <1>6
<1> QED BY <1>1, <1>7 DEF Started

(* The states the moves reach from a fixture.                              *)
UpTo(p, b, f) ==
  f = [n \in 0 .. MaxTransactions |->
         IF n = 0 THEN {b}
         ELSE f[n - 1] \cup UNION {Successors(p, s) : s \in f[n - 1]}]

LEMMA UpToExists ==
  ASSUME NEW p, NEW b \in DualChainState
  PROVE  \E f : UpTo(p, b, f)
<1> DEFINE V == SUBSET DualChainState
           N == MaxTransactions
           next(S) == S \cup UNION {Successors(p, s) : s \in S}
           F == [x \in (1 .. N) \X V |-> next(x[2])]
<1>1. N \in Nat /\ {b} \in V
  BY BoundsPositive
<1>2. \A S \in V : next(S) \in V
  BY SuccessorTyped
<1> HIDE DEF next, N
<1>3. F \in [(1 .. N) \X V -> V]
  <2>1. \A x \in (1 .. N) \X V : next(x[2]) \in V
    BY <1>2
  <2> HIDE DEF V
  <2> QED BY <2>1
<1>4. \A j \in 1 .. N : \A S \in V : F[<<j, S>>] = next(S)
  <2> HIDE DEF V
  <2> QED OBVIOUS
<1> HIDE DEF F, V
<1>5. PICK f \in [0 .. N -> V] : f[0] = {b} /\ \A j \in 1 .. N : f[j] = F[<<j, f[j - 1]>>]
  <2>1. Runs(V, {b}, N, F)
    BY <1>1, <1>3, Recursion
  <2> QED BY ONLY <2>1 DEF Runs
<1>6. \A j \in 1 .. N : j - 1 \in 0 .. N /\ f[j - 1] \in V
  BY <1>1, <1>5
<1>7. \A j \in 1 .. N : f[j] = next(f[j - 1])
  BY <1>4, <1>5, <1>6
<1>8. \A j \in 0 .. N : f[j] = IF j = 0 THEN {b} ELSE next(f[j - 1])
  BY <1>1, <1>5, <1>7
<1>9. f = [j \in 0 .. N |-> IF j = 0 THEN {b} ELSE next(f[j - 1])]
  BY <1>5, <1>8
<1>10. UpTo(p, b, f)
  BY <1>9 DEF UpTo, next, N
<1> QED BY <1>10

LEMMA ReachableRuns ==
  ASSUME NEW p \in Profiles, NEW b \in Starts[p]
  PROVE  \E f : UpTo(p, b, f) /\ Reachable[p][b] = f[MaxTransactions]
<1> DEFINE f == CHOOSE g : UpTo(p, b, g)
<1>1. UpTo(p, b, f)
  BY StartTyped, UpToExists
<1>2. Reachable[p][b] = f[MaxTransactions]
  BY DEF Reachable, UpTo
<1> QED BY <1>1, <1>2

LEMMA UpToStep ==
  ASSUME NEW p, NEW b, NEW f, UpTo(p, b, f), NEW n \in Nat, n <= MaxTransactions
  PROVE  /\ f[0] = {b}
         /\ n # 0 => f[n] = f[n - 1] \cup UNION {Successors(p, s) : s \in f[n - 1]}
<1>1. MaxTransactions \in Nat
  BY BoundsPositive
<1>2. n \in 0 .. MaxTransactions /\ 0 \in 0 .. MaxTransactions
  BY <1>1
<1> QED BY ONLY <1>2, UpTo(p, b, f) DEF UpTo

\* The reachable states are the least set with the fixture's own that the
\* moves stay in.
LEMMA ReachableLeast ==
  ASSUME NEW p \in Profiles, NEW b \in Starts[p], NEW D, b \in D,
         \A s \in D : \A t \in Successors(p, s) : t \in D
  PROVE  Reachable[p][b] \subseteq D
<1>1. PICK f : UpTo(p, b, f) /\ Reachable[p][b] = f[MaxTransactions]
  BY ReachableRuns
<1> DEFINE A == {n \in Nat : n <= MaxTransactions => f[n] \subseteq D}
<1>2. 0 \in A
  BY <1>1, UpToStep
<1>3. ASSUME NEW n \in Nat, n \in A PROVE n + 1 \in A
  <2> SUFFICES ASSUME n + 1 <= MaxTransactions PROVE f[n + 1] \subseteq D
    OBVIOUS
  <2>1. n <= MaxTransactions /\ n + 1 \in Nat /\ n + 1 # 0 /\ (n + 1) - 1 = n
    BY BoundsPositive
  <2>2. f[n + 1] = f[n] \cup UNION {Successors(p, s) : s \in f[n]}
    BY <1>1, <2>1, UpToStep
  <2>3. f[n] \subseteq D
    BY <1>3, <2>1
  <2> QED BY <2>2, <2>3
<1>4. Nat \subseteq A
  <2> HIDE DEF A
  <2> QED BY <1>2, <1>3, AllNumbers
<1>5. MaxTransactions \in Nat
  BY BoundsPositive
<1> QED BY <1>1, <1>4, <1>5

LEMMA ReachableClosed ==
  ASSUME NEW p \in Profiles, NEW b \in Starts[p]
  PROVE  /\ b \in Reachable[p][b]
         /\ \A s \in Reachable[p][b] :
              /\ s \in DualChainState
              /\ \A t \in Successors(p, s) : t \in Reachable[p][b]
<1>1. PICK f : UpTo(p, b, f) /\ Reachable[p][b] = f[MaxTransactions]
  BY ReachableRuns
<1> DEFINE N == MaxTransactions
<1>2. N \in Nat
  BY BoundsPositive
<1>3. \A n \in Nat : n + 1 <= N =>
        f[n + 1] = f[n] \cup UNION {Successors(p, s) : s \in f[n]}
  <2> SUFFICES ASSUME NEW n \in Nat, n + 1 <= N
               PROVE  f[n + 1] = f[n] \cup UNION {Successors(p, s) : s \in f[n]}
    OBVIOUS
  <2>1. n + 1 \in Nat /\ n + 1 # 0 /\ (n + 1) - 1 = n
    OBVIOUS
  <2> QED BY <1>1, <2>1, UpToStep
<1>4. f[0] = {b}
  BY <1>1, <1>2, UpToStep
\* The states of a level are typed and have at most so many entries of
\* their own in the log.
<1> DEFINE L == Len(b.log)
           Level(s) == /\ s \in DualChainState /\ Len(s.log) - L \in Nat
                       /\ s \in f[Len(s.log) - L]
           A == {n \in Nat : n <= N => \A s \in f[n] : Level(s)}
<1>0. L \in Nat /\ b \in DualChainState
  BY StartTyped DEF Started
<1> HIDE DEF L, Level
<1>5. 0 \in A
  <2>1. Len(b.log) - L = 0
    BY <1>0 DEF L
  <2>2. Level(b)
    BY <1>0, <1>4, <2>1 DEF Level
  <2> QED BY <1>4, <2>2
<1>6. ASSUME NEW n \in Nat, n \in A PROVE n + 1 \in A
  <2> SUFFICES ASSUME n + 1 <= N, NEW t \in f[n + 1]
               PROVE  Level(t)
    OBVIOUS
  <2>1. n <= N /\ f[n + 1] = f[n] \cup UNION {Successors(p, s) : s \in f[n]}
    BY <1>2, <1>3
  <2>2. \A s \in f[n] : Level(s)
    BY <1>6, <2>1
  <2>3. CASE t \in f[n]
    BY <2>2, <2>3
  <2>4. CASE t \notin f[n]
    <3>1. PICK s \in f[n] : t \in Successors(p, s)
      BY <2>1, <2>4
    <3> DEFINE k == Len(s.log) - L
    <3>2. /\ s \in DualChainState /\ s \in f[k] /\ t \in DualChainState /\ k \in Nat
          /\ Len(t.log) - L = k + 1 /\ k < N
      <4>1. s \in DualChainState /\ s \in f[k] /\ k \in Nat
        BY <2>2, <3>1 DEF Level
      <4>2. /\ t \in DualChainState /\ Len(s.log) \in Nat /\ Len(s.log) < N
            /\ Len(t.log) = Len(s.log) + 1
        BY <3>1, <4>1, SuccessorTyped
      <4> QED BY <1>0, <1>2, <4>1, <4>2
    <3> HIDE DEF k
    <3>3. f[k + 1] = f[k] \cup UNION {Successors(p, x) : x \in f[k]}
      <4>1. k + 1 <= N
        BY ONLY <1>2, <3>2
      <4> QED BY ONLY <1>3, <3>2, <4>1
    <3>4. t \in f[k + 1]
      BY <3>1, <3>2, <3>3
    <3> QED BY <3>2, <3>4 DEF Level
  <2> QED BY <2>3, <2>4
<1>7. Nat \subseteq A
  <2> HIDE DEF A
  <2> QED BY <1>5, <1>6, AllNumbers
<1>8. \A s \in f[N] : Level(s)
  BY <1>2, <1>7
\* A level holds the levels before it.
<1>9. ASSUME NEW k \in Nat, k <= N PROVE f[k] \subseteq f[N]
  <2> DEFINE B == {n \in Nat : k + n <= N => f[k] \subseteq f[k + n]}
  <2>1. 0 \in B
    OBVIOUS
  <2>2. ASSUME NEW n \in Nat, n \in B PROVE n + 1 \in B
    <3> SUFFICES ASSUME k + (n + 1) <= N PROVE f[k] \subseteq f[k + (n + 1)]
      OBVIOUS
    <3>1. k + (n + 1) = (k + n) + 1 /\ k + n \in Nat /\ (k + n) + 1 <= N /\ k + n <= N
      BY <1>2
    <3>2. f[k] \subseteq f[k + n]
      BY <2>2, <3>1
    <3>3. f[k + n] \subseteq f[(k + n) + 1]
      BY <1>3, <3>1
    <3> QED BY <3>1, <3>2, <3>3
  <2>3. Nat \subseteq B
    <3> HIDE DEF B
    <3> QED BY <2>1, <2>2, AllNumbers
  <2>4. N - k \in Nat /\ k + (N - k) = N
    BY <1>2, <1>9
  <2>5. k + (N - k) <= N => f[k] \subseteq f[k + (N - k)]
    BY <2>3, <2>4
  <2> QED BY <1>2, <2>4, <2>5
<1>10. b \in f[N]
  BY <1>2, <1>4, <1>9
<1>11. ASSUME NEW s \in f[N], NEW t \in Successors(p, s) PROVE t \in f[N]
  <2> DEFINE k == Len(s.log) - L
  <2>1. s \in DualChainState /\ s \in f[k] /\ k \in Nat /\ k < N
    <3>1. s \in DualChainState /\ s \in f[k] /\ k \in Nat
      BY <1>8 DEF Level
    <3>2. Len(s.log) \in Nat /\ Len(s.log) < N
      BY <1>11, <3>1, SuccessorTyped
    <3> QED BY <1>0, <1>2, <3>1, <3>2
  <2> HIDE DEF k
  <2>2. k + 1 \in Nat /\ k + 1 <= N
    BY <1>2, <2>1
  <2>3. t \in f[k + 1]
    BY <1>3, <1>11, <2>1, <2>2
  <2> QED BY <1>9, <2>2, <2>3
<1> QED BY <1>1, <1>8, <1>10, <1>11 DEF Level

----------------------------------------------------------------------------
(* Schedules, played on the native fixture                                 *)

Moment == Moves \X Candidate

Playing(p, s, x) == IF s = None THEN None ELSE Applied(p, s, x[1], x[2])

LEMMA AppliedMove ==
  ASSUME NEW p, NEW s \in DualChainState, NEW a \in Moves, NEW m \in Candidate,
         NEW t, t = Applied(p, s, a, m), t # None
  PROVE  /\ t \in DualChainState /\ t \in Successors(p, s)
         /\ \E l \in Message : Recorded(s, a, l, t)
<1>1. CASE a = "enqueue"
  <2>1. CanEnqueue(p, s, m) /\ t = Enqueued(s, m)
    BY <1>1 DEF Applied
  <2>2. t \in DualChainState /\ Recorded(s, a, m, t) /\ m \in Message
    BY <1>1, <2>1, EnqueueMove, CandidatesDiffer
  <2>3. t \in Successors(p, s)
    BY <2>1, IsSuccessor
  <2> QED BY <2>2, <2>3
<1>2. CASE a = "deliver"
  <2> DEFINE i == FirstPending(s, m)
  <2>1. CanDeliver(p, s, i) /\ t = Delivered(s, i)
    BY <1>2 DEF Applied
  <2>2. i \in DOMAIN s.pending
    BY <2>1 DEF CanDeliver
  <2> HIDE DEF i
  <2>3. t \in DualChainState /\ Recorded(s, a, s.pending[i], t) /\ s.pending[i] \in Message
    BY <1>2, <2>1, <2>2, DeliverMove, DeliveredFields
  <2>4. t \in Successors(p, s)
    BY <2>1, <2>2, IsSuccessor
  <2> QED BY <2>3, <2>4
<1>3. CASE a = "reorg"
  <2>1. CanReorg(p, s, Len(s.committed)) /\ t = Reorged(s, Len(s.committed))
    BY <1>3 DEF Applied
  <2> DEFINE m1 == s.committed[Len(s.committed)]
  <2>2. t \in DualChainState /\ Recorded(s, a, m1, t)
    <3>1. Len(s.committed) \in DOMAIN s.committed
      BY <2>1 DEF CanReorg
    <3> QED BY <1>3, <2>1, <3>1, ReorgMove
  <2>3. m1 \in Message
    BY <2>1, StateFields DEF CanReorg
  <2>4. t \in Successors(p, s)
    BY <2>1, IsSuccessor
  <2> HIDE DEF m1
  <2> QED BY <2>2, <2>3, <2>4
<1> QED BY <1>1, <1>2, <1>3 DEF Moves, Applied

LEMMA PlayingTyped ==
  ASSUME NEW p, NEW s \in DualChainState \cup {None}, NEW x \in Moment
  PROVE  Playing(p, s, x) \in DualChainState \cup {None}
<1>1. x[1] \in Moves /\ x[2] \in Candidate
  BY DEF Moment
<1>2. CASE s = None
  BY <1>2 DEF Playing
<1>3. CASE s # None /\ Applied(p, s, x[1], x[2]) # None
  BY <1>1, <1>3, AppliedMove DEF Playing
<1>4. CASE s # None /\ Applied(p, s, x[1], x[2]) = None
  BY <1>4 DEF Playing
<1> QED BY <1>2, <1>3, <1>4

PlayOf(p, b, t, n, f) ==
  f = [k \in 0 .. n |-> IF k = 0 THEN b ELSE Playing(p, f[k - 1], t[k])]

LEMMA PlayExists ==
  ASSUME NEW p, NEW b \in DualChainState, NEW t \in Seq(Moment)
  PROVE  \E f : PlayOf(p, b, t, Len(t), f)
<1> DEFINE V == DualChainState \cup {None}
           n == Len(t)
           F == [x \in (1 .. n) \X V |-> Playing(p, x[2], t[x[1]])]
<1>1. n \in Nat /\ b \in V /\ \A k \in 1 .. n : t[k] \in Moment
  OBVIOUS
<1>2. \A k \in 1 .. n : \A s \in V : Playing(p, s, t[k]) \in V
  BY <1>1, PlayingTyped
<1> HIDE DEF V, n
<1>3. F \in [(1 .. n) \X V -> V]
  BY <1>2
<1>4. \A k \in 1 .. n : \A s \in V : F[<<k, s>>] = Playing(p, s, t[k])
  OBVIOUS
<1> HIDE DEF F
<1>5. Runs(V, b, n, F)
  BY <1>1, <1>3, Recursion
<1>6. PICK f \in [0 .. n -> V] : f[0] = b /\ \A j \in 1 .. n : f[j] = F[<<j, f[j - 1]>>]
  BY ONLY <1>5 DEF Runs
<1>7. \A j \in 1 .. n : j - 1 \in 0 .. n /\ f[j - 1] \in V
  BY <1>1, <1>6
<1>8. ASSUME NEW j \in 0 .. n
      PROVE  f[j] = IF j = 0 THEN b ELSE Playing(p, f[j - 1], t[j])
  <2>1. CASE j = 0
    BY <1>6, <2>1
  <2>2. CASE j \in 1 .. n
    <3>1. f[j] = F[<<j, f[j - 1]>>] /\ f[j - 1] \in V /\ j # 0
      BY <1>6, <1>7, <2>2
    <3> QED BY <1>4, <2>2, <3>1
  <2> QED BY <1>1, <2>1, <2>2
<1>9. f = [j \in 0 .. n |-> IF j = 0 THEN b ELSE Playing(p, f[j - 1], t[j])]
  BY <1>6, <1>8
<1> QED BY <1>9 DEF PlayOf, n

LEMMA ScheduledRuns ==
  ASSUME NEW p, NEW b \in DualChainState, NEW t \in Seq(Moment)
  PROVE  \E f : PlayOf(p, b, t, Len(t), f) /\ Scheduled(p, b, t) = f[Len(t)]
<1> DEFINE f == CHOOSE g : PlayOf(p, b, t, Len(t), g)
<1>1. PlayOf(p, b, t, Len(t), f)
  BY PlayExists
<1>2. Scheduled(p, b, t) = f[Len(t)]
  BY DEF Scheduled, PlayOf, Playing
<1> QED BY <1>1, <1>2

LEMMA ScheduledEmpty ==
  ASSUME NEW p, NEW b \in DualChainState
  PROVE  Scheduled(p, b, << >>) = b
<1>1. << >> \in Seq(Moment) /\ Len(<< >>) = 0 /\ 0 \in 0 .. 0
  OBVIOUS
<1>2. PICK f : PlayOf(p, b, << >>, 0, f) /\ Scheduled(p, b, << >>) = f[0]
  BY <1>1, ScheduledRuns
<1>3. f[0] = b
  BY ONLY <1>1, <1>2 DEF PlayOf
<1> QED BY <1>2, <1>3

LEMMA ScheduledAppend ==
  ASSUME NEW p, NEW b \in DualChainState, NEW t \in Seq(Moment), NEW x \in Moment
  PROVE  Scheduled(p, b, Append(t, x)) = Playing(p, Scheduled(p, b, t), x)
<1> DEFINE more == Append(t, x)
           n == Len(t)
<1>1. /\ n \in Nat /\ more \in Seq(Moment) /\ Len(more) = n + 1 /\ more[n + 1] = x
      /\ n + 1 # 0 /\ (n + 1) - 1 = n /\ n + 1 \in 0 .. n + 1
      /\ \A k \in 1 .. n : t[k] = more[k]
  OBVIOUS
<1> HIDE DEF more, n
<1>2. PICK f : PlayOf(p, b, t, n, f) /\ Scheduled(p, b, t) = f[n]
  BY ScheduledRuns DEF n
<1>3. PICK g : PlayOf(p, b, more, n + 1, g) /\ Scheduled(p, b, more) = g[n + 1]
  BY <1>1, ScheduledRuns
<1> DEFINE A == {k \in Nat : k <= n => f[k] = g[k]}
<1>4. 0 \in A
  <2>1. 0 \in 0 .. n /\ 0 \in 0 .. n + 1
    BY <1>1
  <2>2. f[0] = b /\ g[0] = b
    BY ONLY <1>2, <1>3, <2>1 DEF PlayOf
  <2> QED BY <2>2
<1>5. ASSUME NEW k \in Nat, k \in A PROVE k + 1 \in A
  <2> SUFFICES ASSUME k + 1 <= n PROVE f[k + 1] = g[k + 1]
    OBVIOUS
  <2>1. /\ k + 1 \in 0 .. n /\ k + 1 \in 0 .. n + 1 /\ k + 1 # 0 /\ (k + 1) - 1 = k
        /\ k <= n /\ k + 1 \in 1 .. n
    BY <1>1
  <2>2. f[k + 1] = Playing(p, f[k], t[k + 1]) /\ g[k + 1] = Playing(p, g[k], more[k + 1])
    BY ONLY <1>2, <1>3, <2>1 DEF PlayOf
  <2> QED BY <1>1, <1>5, <2>1, <2>2
<1>6. Nat \subseteq A
  <2> HIDE DEF A
  <2> QED BY <1>4, <1>5, AllNumbers
<1>7. f[n] = g[n]
  BY <1>1, <1>6
<1>8. g[n + 1] = Playing(p, g[n], more[n + 1])
  BY ONLY <1>1, <1>3 DEF PlayOf
<1> QED BY <1>1, <1>2, <1>3, <1>7, <1>8 DEF more

ByLength(p, b, f) ==
  f = [n \in 0 .. MaxTransactions |->
         IF n = 0 THEN {<< >>} ELSE Longer(p, b, f[n - 1])]

Named(s, m) == s # None /\ s.log[Len(s.log)].message = m

LastMove(p, b, S, t) ==
  \E x \in S, a \in Moves, m \in Candidate :
    /\ t = Append(x, <<a, m>>) /\ <<a, m>> \in Moment /\ t \in Seq(Moment)
    /\ Named(Scheduled(p, b, t), t[Len(t)][2])

LEMMA LongerSchedules ==
  ASSUME NEW p, NEW b, NEW S, S \subseteq Seq(Moment), NEW t
  PROVE  t \in Longer(p, b, S) <=> LastMove(p, b, S, t)
<1>1. \A x \in S, a \in Moves, m \in Candidate :
        <<a, m>> \in Moment /\ Append(x, <<a, m>>) \in Seq(Moment)
  BY DEF Moment
<1>2. t \in Longer(p, b, S) <=>
        \E x \in S, a \in Moves, m \in Candidate :
          t = Append(x, <<a, m>>) /\ Named(Scheduled(p, b, t), t[Len(t)][2])
  BY DEF Longer, Moves, Named
<1> QED BY ONLY <1>1, <1>2 DEF LastMove

LEMMA ByLengthExists ==
  ASSUME NEW p, NEW b
  PROVE  \E f : ByLength(p, b, f)
<1> DEFINE V == SUBSET Seq(Moment)
           N == MaxTransactions
           F == [x \in (1 .. N) \X V |-> Longer(p, b, x[2])]
<1>1. N \in Nat /\ {<< >>} \in V
  BY BoundsPositive
<1>2. \A n \in 1 .. N : \A S \in V : Longer(p, b, S) \in V
  BY LongerSchedules DEF LastMove
<1> HIDE DEF N, V
<1>3. F \in [(1 .. N) \X V -> V]
  BY <1>2
<1>4. \A j \in 1 .. N : \A S \in V : F[<<j, S>>] = Longer(p, b, S)
  OBVIOUS
<1> HIDE DEF F
<1>5. Runs(V, {<< >>}, N, F)
  BY <1>1, <1>3, Recursion
<1>6. PICK f \in [0 .. N -> V] : f[0] = {<< >>} /\ \A j \in 1 .. N : f[j] = F[<<j, f[j - 1]>>]
  BY ONLY <1>5 DEF Runs
<1>7. \A j \in 1 .. N : j - 1 \in 0 .. N /\ f[j - 1] \in V
  BY <1>1, <1>6
<1>8. ASSUME NEW j \in 0 .. N
      PROVE  f[j] = IF j = 0 THEN {<< >>} ELSE Longer(p, b, f[j - 1])
  <2>1. CASE j = 0
    BY <1>6, <2>1
  <2>2. CASE j \in 1 .. N
    <3>1. f[j] = F[<<j, f[j - 1]>>] /\ f[j - 1] \in V /\ j # 0
      BY <1>6, <1>7, <2>2
    <3> QED BY <1>4, <2>2, <3>1
  <2> QED BY <1>1, <2>1, <2>2
<1>9. f = [j \in 0 .. N |-> IF j = 0 THEN {<< >>} ELSE Longer(p, b, f[j - 1])]
  BY <1>6, <1>8
<1> QED BY <1>9 DEF ByLength, N

LEMMA SchedulesRun ==
  ASSUME NEW p \in Profiles, NEW b \in Starts[p]
  PROVE  \E f : /\ ByLength(p, b, f)
                /\ Schedules[p][b] = UNION {f[n] : n \in 0 .. MaxTransactions}
<1> DEFINE f == CHOOSE g : ByLength(p, b, g)
<1>1. ByLength(p, b, f)
  BY ByLengthExists
<1>2. Schedules[p][b] = UNION {f[n] : n \in 0 .. MaxTransactions}
  BY DEF Schedules, ByLength
<1> QED BY <1>1, <1>2

LEMMA ByLengthStep ==
  ASSUME NEW p, NEW b, NEW f, ByLength(p, b, f), NEW n \in Nat, n <= MaxTransactions
  PROVE  f[0] = {<< >>} /\ (n # 0 => f[n] = Longer(p, b, f[n - 1]))
<1>1. n \in 0 .. MaxTransactions /\ 0 \in 0 .. MaxTransactions
  BY BoundsPositive
<1> QED BY ONLY <1>1, ByLength(p, b, f) DEF ByLength

\* What a schedule leads to: a reachable state whose log, if it began empty,
\* is its evidence.
Evidence(p, b, t) ==
  LET s == Scheduled(p, b, t)
  IN  /\ s \in Reachable[p][b] /\ s \in DualChainState
      /\ Len(s.log) = Len(b.log) + Len(t)
      /\ b.log = << >> => Replayed(p, b, s.log) = s

LEMMA OneMoveLonger ==
  ASSUME NEW p \in Profiles, NEW b \in Starts[p],
         NEW x \in Seq(Moment), Evidence(p, b, x),
         NEW a \in Moves, NEW m \in Candidate, NEW t, t = Append(x, <<a, m>>),
         Named(Scheduled(p, b, t), m)
  PROVE  Evidence(p, b, t)
<1> DEFINE s == Scheduled(p, b, x)
           u == Scheduled(p, b, t)
<1>1. /\ s \in Reachable[p][b] /\ s \in DualChainState /\ s # None
      /\ Len(s.log) = Len(b.log) + Len(x) /\ s.log \in Seq(LogEntry)
      /\ b.log = << >> => Replayed(p, b, s.log) = s
      /\ b \in DualChainState /\ Len(b.log) \in Nat
  BY StateFields, StartTyped DEF Evidence, Started
<1>2. <<a, m>> \in Moment /\ Len(x) \in Nat /\ Len(t) = Len(x) + 1
  BY DEF Moment
<1>3. u = Applied(p, s, a, m)
  BY <1>1, <1>2, ScheduledAppend DEF Playing
<1> HIDE DEF s, u
<1>4. /\ u \in DualChainState /\ u \in Successors(p, s)
      /\ \E l \in Message : Recorded(s, a, l, u)
  <2>1. u # None
    BY DEF u, Named
  <2> QED BY <1>1, <1>3, <2>1, AppliedMove
<1>5. PICK e \in LogEntry : u.log = Append(s.log, e) /\ e.action = a
  BY <1>4 DEF Recorded
<1>6. Len(u.log) = Len(s.log) + 1 /\ u.log[Len(u.log)] = e
  <2>1. s.log \in Seq(LogEntry) /\ u.log = Append(s.log, e)
    BY <1>1, <1>5
  <2> QED BY ONLY <2>1
<1>7. e.message = m
  BY <1>6 DEF u, Named
<1>8. Replaying(p, s, e, Len(s.log) + 1) = u
  <2>1. u = Applied(p, s, e.action, e.message)
    BY ONLY <1>3, <1>5, <1>7
  <2>2. e \in LogEntry /\ u.log = Append(s.log, e)
    BY <1>5
  <2> QED BY ONLY <1>1, <1>4, <2>1, <2>2, ReplayOfMove, ZenonT(30)
<1>9. Replayed(p, b, u.log) = Replaying(p, Replayed(p, b, s.log), e, Len(s.log) + 1)
  BY <1>1, <1>5, ReplayedAppend
<1>10. u \in Reachable[p][b]
  BY <1>1, <1>4, ReachableClosed
<1>11. Len(u.log) = Len(b.log) + Len(t)
  <2>1. /\ Len(u.log) = Len(s.log) + 1 /\ Len(s.log) = Len(b.log) + Len(x)
        /\ Len(t) = Len(x) + 1 /\ Len(x) \in Nat /\ Len(b.log) \in Nat
    BY <1>1, <1>2, <1>6
  <2>2. \A k, l \in Nat : (k + l) + 1 = k + (l + 1)
    OBVIOUS
  <2> QED BY ONLY <2>1, <2>2
<1>12. b.log = << >> => Replayed(p, b, u.log) = u
  BY <1>1, <1>8, <1>9
<1> QED BY <1>4, <1>10, <1>11, <1>12 DEF Evidence, u

LEMMA EmptyEvidence ==
  ASSUME NEW p \in Profiles, NEW b \in Starts[p]
  PROVE  Evidence(p, b, << >>)
<1>0. b \in DualChainState /\ Len(b.log) \in Nat
  BY StartTyped DEF Started
<1>1. Scheduled(p, b, << >>) = b /\ Replayed(p, b, << >>) = b
  BY <1>0, ScheduledEmpty, ReplayedEmpty
<1>2. /\ b \in Reachable[p][b] /\ b \in DualChainState
      /\ Len(b.log) = Len(b.log) + Len(<< >>)
  BY <1>0, ReachableClosed
<1> QED BY <1>1, <1>2 DEF Evidence

\* Every schedule is evidence, and so is each of its prefixes.
LEMMA SchedulesAreEvidence ==
  ASSUME NEW p \in Profiles, NEW b \in Starts[p], NEW t \in Schedules[p][b]
  PROVE  /\ t \in Seq(Moment) /\ Len(t) \in Nat /\ SubSeq(t, 1, Len(t)) = t
         /\ Evidence(p, b, t)
         /\ \A k \in 0 .. Len(t) : Evidence(p, b, SubSeq(t, 1, k))
<1>1. PICK f : /\ ByLength(p, b, f)
               /\ Schedules[p][b] = UNION {f[n] : n \in 0 .. MaxTransactions}
  BY SchedulesRun
<1>2. MaxTransactions \in Nat
  BY BoundsPositive
<1> DEFINE Good(n, x) == /\ x \in Seq(Moment) /\ Len(x) = n
                         /\ Evidence(p, b, x)
                         /\ \A k \in 0 .. n : Evidence(p, b, SubSeq(x, 1, k))
           A == {n \in Nat : n <= MaxTransactions => \A x \in f[n] : Good(n, x)}
<1>3. 0 \in A
  <2>1. f[0] = {<< >>}
    BY <1>1, <1>2, ByLengthStep
  <2>2. \A k \in 0 .. 0 : SubSeq(<< >>, 1, k) = << >>
    OBVIOUS
  <2>3. << >> \in Seq(Moment) /\ Len(<< >>) = 0
    OBVIOUS
  <2>4. Good(0, << >>)
    BY <2>2, <2>3, EmptyEvidence
  <2> HIDE DEF Good
  <2> QED BY <2>1, <2>4
<1>4. ASSUME NEW n \in Nat, n \in A PROVE n + 1 \in A
  <2> SUFFICES ASSUME n + 1 <= MaxTransactions, NEW u \in f[n + 1]
               PROVE  Good(n + 1, u)
    OBVIOUS
  <2>1. n <= MaxTransactions /\ n + 1 \in Nat /\ n + 1 # 0 /\ (n + 1) - 1 = n
    BY <1>2
  <2>2. f[n + 1] = Longer(p, b, f[n])
    BY <1>1, <2>1, ByLengthStep
  <2>3. \A x \in f[n] : Good(n, x)
    BY <1>4, <2>1
  <2>4. f[n] \subseteq Seq(Moment)
    BY <2>3
  <2>5. PICK x \in f[n], a \in Moves, m \in Candidate :
          /\ u = Append(x, <<a, m>>) /\ <<a, m>> \in Moment /\ u \in Seq(Moment)
          /\ Named(Scheduled(p, b, u), u[Len(u)][2])
    <3>1. LastMove(p, b, f[n], u)
      BY <2>2, <2>4, LongerSchedules
    <3> QED BY ONLY <3>1 DEF LastMove
  <2>6. /\ x \in Seq(Moment) /\ Len(x) = n /\ Evidence(p, b, x)
        /\ \A k \in 0 .. n : Evidence(p, b, SubSeq(x, 1, k))
    BY <2>3
  <2>7. /\ Len(u) = n + 1 /\ u[n + 1] = <<a, m>> /\ SubSeq(u, 1, n + 1) = u
        /\ \A k \in 0 .. n : SubSeq(u, 1, k) = SubSeq(x, 1, k)
    BY ONLY <2>1, <2>5, <2>6
  <2>8. Evidence(p, b, u)
    <3>1. Named(Scheduled(p, b, u), m)
      BY <2>5, <2>7
    <3> QED BY <2>5, <2>6, <3>1, OneMoveLonger
  <2>9. ASSUME NEW k \in 0 .. n + 1 PROVE Evidence(p, b, SubSeq(u, 1, k))
    <3>1. CASE k = n + 1
      BY <2>7, <2>8, <3>1
    <3>2. CASE k \in 0 .. n
      BY <2>6, <2>7, <3>2
    <3> QED BY <3>1, <3>2
  <2> QED BY <2>5, <2>7, <2>8, <2>9
<1>5. Nat \subseteq A
  <2> HIDE DEF A
  <2> QED BY <1>3, <1>4, AllNumbers
<1>6. PICK n \in 0 .. MaxTransactions : t \in f[n]
  BY <1>1
<1>7. Good(n, t)
  BY <1>2, <1>5, <1>6
<1>8. t \in Seq(Moment) /\ Len(t) = n
  BY <1>7
<1>9. Len(t) \in Nat /\ SubSeq(t, 1, Len(t)) = t
  BY <1>8
<1> QED BY <1>7, <1>8, <1>9

LEMMA EmptySchedule ==
  ASSUME NEW p \in Profiles, NEW b \in Starts[p]
  PROVE  << >> \in Schedules[p][b]
<1>1. PICK f : /\ ByLength(p, b, f)
               /\ Schedules[p][b] = UNION {f[n] : n \in 0 .. MaxTransactions}
  BY SchedulesRun
<1>2. MaxTransactions \in Nat
  BY BoundsPositive
<1>3. f[0] = {<< >>} /\ 0 \in 0 .. MaxTransactions
  BY <1>1, <1>2, ByLengthStep
<1> QED BY <1>1, <1>3

(* Where the explorers can take the same deliveries, each move that the    *)
(* concrete one tries is a move some schedule makes.                       *)
MadeBy(p, s, u) ==
  \E a \in Moves, m \in Candidate : u = Applied(p, s, a, m) /\ Recorded(s, a, m, u)

LEMMA SuccessorIsMade ==
  ASSUME NEW p \in Profile, p.duplicates => ~p.reorder, NEW s, Started(p, s),
         NEW u \in Successors(p, s)
  PROVE  Started(p, u) /\ MadeBy(p, s, u)
<1>1. /\ s \in DualChainState /\ QueuedOnce(p, s)
      /\ s.pending \in Seq(Message) /\ DOMAIN s.pending = 1 .. Len(s.pending)
      /\ \A i \in DOMAIN s.pending : s.pending[i] \in Candidate
      /\ \A i \in DOMAIN s.committed : s.committed[i] \in Candidate
  BY StateFields DEF Started, OfCandidates
<1>2. Started(p, u)
  <2>1. u \in CallerMoves(p, s)
    <3>1. ReorgSuccessors(p, s) \subseteq
            {Reorged(s, i) : i \in {k \in DOMAIN s.committed : CanReorg(p, s, k)}}
      BY DEF ReorgSuccessors, CanReorg
    <3> QED BY <3>1 DEF Successors, CallerMoves
  <2> QED BY <2>1, CallerMoveKept
<1>3. ASSUME NEW m \in Candidate, CanEnqueue(p, s, m), u = Enqueued(s, m)
      PROVE  MadeBy(p, s, u)
  <2>1. Recorded(s, "enqueue", m, u)
    BY <1>1, <1>3, EnqueueMove
  <2>2. u = Applied(p, s, "enqueue", m)
    BY <1>3 DEF Applied
  <2> QED BY <2>1, <2>2 DEF MadeBy, Moves
<1>4. ASSUME NEW i \in DOMAIN s.pending, CanDeliver(p, s, i), u = Delivered(s, i)
      PROVE  MadeBy(p, s, u)
  <2> DEFINE m == s.pending[i]
  <2>1. Recorded(s, "deliver", m, u)
    BY <1>1, <1>4, DeliverMove
  <2>2. m \in Candidate
    BY <1>1
  <2>3. ASSUME NEW j \in DOMAIN s.pending, Identity(s.pending[j]) = Identity(m)
        PROVE  i <= j
    <3>1. s.pending[j] = m
      BY <1>1, <2>2, <2>3, SameCandidate
    <3>2. CASE p.duplicates
      <4>1. i = 1
        BY <1>4, <3>2 DEF CanDeliver
      <4> QED BY <1>1, <4>1
    <3>3. CASE ~p.duplicates
      <4>1. i = j
        BY <1>1, <3>1, <3>3 DEF QueuedOnce
      <4> QED BY <1>1, <4>1
    <3> QED BY <3>2, <3>3
  <2> HIDE DEF m
  <2>4. FirstPending(s, m) = i
    <3>1. Identity(s.pending[i]) = Identity(m)
      BY DEF m
    <3> QED BY <1>1, <2>3, <3>1, FirstPendingFound
  <2>5. u = Applied(p, s, "deliver", m)
    BY <1>4, <2>4 DEF Applied
  <2>6. "deliver" \in Moves
    BY DEF Moves
  <2> QED BY <2>1, <2>2, <2>5, <2>6 DEF MadeBy
<1>5. ASSUME CanReorg(p, s, Len(s.committed)), u = Reorged(s, Len(s.committed))
      PROVE  MadeBy(p, s, u)
  <2> DEFINE n == Len(s.committed)
             m == s.committed[n]
  <2>1. n \in DOMAIN s.committed
    BY <1>5 DEF CanReorg
  <2>2. Recorded(s, "reorg", m, u)
    BY <1>1, <1>5, <2>1, ReorgMove
  <2>3. m \in Candidate
    BY <1>1, <2>1
  <2>4. u = Applied(p, s, "reorg", m)
    BY <1>5 DEF Applied
  <2>5. "reorg" \in Moves
    BY DEF Moves
  <2> HIDE DEF m, n
  <2> QED BY <2>2, <2>3, <2>4, <2>5 DEF MadeBy
<1> QED BY <1>1, <1>2, <1>3, <1>4, <1>5, SuccessorIs

LEMMA EveryStateIsScheduled ==
  ASSUME NEW p \in Profiles, NEW b \in Starts[p], p.duplicates => ~p.reorder
  PROVE  \A s \in Reachable[p][b] : \E t \in Schedules[p][b] : Scheduled(p, b, t) = s
<1>1. PICK f : /\ ByLength(p, b, f)
               /\ Schedules[p][b] = UNION {f[n] : n \in 0 .. MaxTransactions}
  BY SchedulesRun
<1> DEFINE L == Len(b.log)
<1>2. /\ MaxTransactions \in Nat /\ p \in Profile /\ L \in Nat
      /\ Started(p, b) /\ b \in DualChainState
  BY BoundsPositive, StartTyped DEF Started
<1> DEFINE On(s, n) == /\ n \in 0 .. MaxTransactions
                       /\ \E t \in f[n] : Scheduled(p, b, t) = s
           D == {s \in DualChainState : Started(p, s) /\ On(s, Len(s.log) - L)}
<1>3. b \in D
  <2>1. << >> \in f[0] /\ 0 \in 0 .. MaxTransactions
    BY <1>1, <1>2, ByLengthStep
  <2>2. Scheduled(p, b, << >>) = b
    BY <1>2, ScheduledEmpty
  <2>3. On(b, 0) /\ Len(b.log) - L = 0
    BY <1>2, <2>1, <2>2
  <2> HIDE DEF L, On
  <2> QED BY <1>2, <2>3
<1>4. ASSUME NEW s \in D, NEW u \in Successors(p, s) PROVE u \in D
  <2> DEFINE n == Len(s.log) - L
  <2>1. s \in DualChainState /\ Started(p, s) /\ n \in 0 .. MaxTransactions
    OBVIOUS
  <2>2. PICK x \in f[n] : Scheduled(p, b, x) = s
    OBVIOUS
  <2>3. /\ u \in DualChainState /\ Len(u.log) - L = n + 1 /\ n \in Nat
        /\ n + 1 \in 0 .. MaxTransactions
    <3>1. /\ u \in DualChainState /\ Len(u.log) = Len(s.log) + 1
          /\ Len(s.log) \in Nat /\ Len(s.log) < MaxTransactions
      BY <2>1, SuccessorTyped
    <3> HIDE DEF L
    <3> QED BY <1>2, <2>1, <3>1
  <2>4. Started(p, u) /\ MadeBy(p, s, u)
    BY <1>2, <2>1, SuccessorIsMade
  <2>5. PICK a \in Moves, m \in Candidate : u = Applied(p, s, a, m) /\ Recorded(s, a, m, u)
    BY <2>4 DEF MadeBy
  <2> HIDE DEF n
  <2>6. PICK e \in LogEntry : u.log = Append(s.log, e) /\ e.message = m
    BY <2>5 DEF Recorded
  <2>7. s.log \in Seq(LogEntry) /\ s # None /\ u # None
    BY <2>1, <2>3, StateFields
  <2>8. Named(u, m)
    <3>1. Len(u.log) = Len(s.log) + 1 /\ u.log[Len(s.log) + 1] = e
      BY <2>6, <2>7
    <3> QED BY <2>6, <2>7, <3>1 DEF Named
  <2>9. /\ x \in Seq(Moment) /\ x \in Schedules[p][b] /\ Len(x) = n
        /\ f[n] \subseteq Seq(Moment)
    <3>2. f[n] \subseteq Schedules[p][b]
      BY <1>1, <2>1
    <3>3. \A t \in Schedules[p][b] : t \in Seq(Moment) /\ Evidence(p, b, t)
      BY SchedulesAreEvidence
    <3>4. Len(x) = n
      <4>1. Len(s.log) = L + Len(x) /\ Len(x) \in Nat
        BY <2>2, <3>2, <3>3 DEF Evidence
      <4> HIDE DEF L
      <4> QED BY <1>2, <4>1 DEF n
    <3> QED BY <2>2, <3>2, <3>3, <3>4
  <2> DEFINE t == Append(x, <<a, m>>)
  <2>10. <<a, m>> \in Moment /\ t \in Seq(Moment) /\ t[n + 1] = <<a, m>>
    <3>1. <<a, m>> \in Moment
      BY DEF Moment
    <3> QED BY <2>9, <3>1
  <2>11. Scheduled(p, b, t) = u
    BY <1>2, <2>2, <2>5, <2>7, <2>9, <2>10, ScheduledAppend DEF Playing
  <2> HIDE DEF t
  <2>12. t \in f[n + 1]
    <3>1. f[n + 1] = Longer(p, b, f[n])
      <4>1. n + 1 \in Nat /\ n + 1 # 0 /\ (n + 1) - 1 = n /\ n + 1 <= MaxTransactions
        BY <1>2, <2>3
      <4> QED BY <1>1, <4>1, ByLengthStep
    <3>2. t = Append(x, <<a, m>>)
      BY DEF t
    <3>3. t[Len(t)][2] = m
      BY <2>9, <2>10 DEF t
    <3>4. LastMove(p, b, f[n], t)
      BY <2>8, <2>10, <2>11, <3>2, <3>3 DEF LastMove
    <3> QED BY <2>9, <3>1, <3>4, LongerSchedules
  <2>13. On(u, n + 1)
    BY <2>3, <2>11, <2>12
  <2> HIDE DEF On
  <2> QED BY <2>3, <2>4, <2>13
<1>5. Reachable[p][b] \subseteq D
  <2> HIDE DEF D
  <2> QED BY <1>3, <1>4, ReachableLeast
<1>6. ASSUME NEW s \in Reachable[p][b] PROVE \E t \in Schedules[p][b] : Scheduled(p, b, t) = s
  <2>1. On(s, Len(s.log) - L)
    BY <1>5
  <2>2. f[Len(s.log) - L] \subseteq Schedules[p][b]
    BY <1>1, <2>1
  <2> QED BY <2>1, <2>2
<1> QED BY <1>6

----------------------------------------------------------------------------
(* The search: what it queues, and what it finds along a schedule          *)

LEMMA ImageFinite ==
  ASSUME NEW S, IsFiniteSet(S), NEW f, DOMAIN f = S
  PROVE  IsFiniteSet({f[x] : x \in S})
<1> DEFINE T == {f[x] : x \in S}
           g == [x \in S |-> f[x]]
<1>1. g \in Surjection(S, T)
  BY DEF Surjection
<1> HIDE DEF g, T
<1>2. IsFiniteSet(T)
  BY <1>1, FS_Surjection
<1> QED BY <1>2 DEF T

LEMMA SuccessorsFinite ==
  ASSUME NEW p, NEW s \in DualChainState
  PROVE  /\ IsFiniteSet(EnqueueSuccessors(p, s)) /\ IsFiniteSet(DeliverSuccessors(p, s))
         /\ IsFiniteSet(ReorgSuccessors(p, s))
<1>1. IsFiniteSet(EnqueueSuccessors(p, s))
  <2> DEFINE S == {c \in Candidate : CanEnqueue(p, s, c)}
             f == [m \in S |-> Enqueued(s, m)]
  <2>1. IsFiniteSet(S)
    BY CandidatesDiffer, FS_Subset
  <2>2. EnqueueSuccessors(p, s) = {f[m] : m \in S}
    BY DEF EnqueueSuccessors
  <2>3. DOMAIN f = S
    OBVIOUS
  <2> HIDE DEF S, f
  <2> QED BY <2>1, <2>2, <2>3, ImageFinite
<1>2. IsFiniteSet(DeliverSuccessors(p, s))
  <2> DEFINE S == {k \in DOMAIN s.pending : CanDeliver(p, s, k)}
             f == [i \in S |-> Delivered(s, i)]
  <2>1. IsFiniteSet(S)
    <3>1. DOMAIN s.pending = 1 .. Len(s.pending) /\ Len(s.pending) \in Nat
      BY StateFields
    <3>2. IsFiniteSet(DOMAIN s.pending)
      BY <3>1, FS_Interval
    <3> QED BY <3>2, FS_Subset
  <2>2. DeliverSuccessors(p, s) = {f[i] : i \in S}
    BY DEF DeliverSuccessors
  <2>3. DOMAIN f = S
    OBVIOUS
  <2> HIDE DEF S, f
  <2> QED BY <2>1, <2>2, <2>3, ImageFinite
<1>3. IsFiniteSet(ReorgSuccessors(p, s))
  <2> DEFINE S == {k \in {Len(s.committed)} : CanReorg(p, s, k)}
             f == [i \in S |-> Reorged(s, i)]
  <2>1. IsFiniteSet(S)
    <3>1. IsFiniteSet({Len(s.committed)})
      BY FS_Singleton
    <3> QED BY <3>1, FS_Subset
  <2>2. ReorgSuccessors(p, s) = {f[i] : i \in S}
    BY DEF ReorgSuccessors
  <2>3. DOMAIN f = S
    OBVIOUS
  <2> HIDE DEF S, f
  <2> QED BY <2>1, <2>2, <2>3, ImageFinite
<1> QED BY <1>1, <1>2, <1>3

LEMMA MembersEnumerated ==
  ASSUME NEW S, IsFiniteSet(S), NEW T, S \subseteq T
  PROVE  SetToSeq(S) \in Seq(T) /\ Members(SetToSeq(S)) = S
<1> DEFINE q == SetToSeq(S)
<1>1. q \in Seq(S) /\ \A x \in S : \E i \in DOMAIN q : q[i] = x
  BY Enumerated
<1> HIDE DEF q
<1>2. \A i \in DOMAIN q : q[i] \in S
  BY <1>1
<1>3. q \in Seq(T)
  BY <1>1
<1> QED BY <1>1, <1>2, <1>3 DEF Members, q

\* What is queued after a state are its successors, each of them.
LEMMA QueuedAreSuccessors ==
  ASSUME NEW p, NEW s \in DualChainState, NEW T, Successors(p, s) \subseteq T
  PROVE  /\ QueuedSuccessors(p, s) \in Seq(T)
         /\ Members(QueuedSuccessors(p, s)) = Successors(p, s)
<1> DEFINE E == EnqueueSuccessors(p, s)
           D == DeliverSuccessors(p, s)
           R == ReorgSuccessors(p, s)
<1>1. IsFiniteSet(E) /\ IsFiniteSet(D) /\ IsFiniteSet(R)
  BY SuccessorsFinite
<1>2. Successors(p, s) = (E \cup D) \cup R
  BY DEF Successors
<1>3. QueuedSuccessors(p, s) = (SetToSeq(E) \o SetToSeq(D)) \o SetToSeq(R)
  BY DEF QueuedSuccessors
<1> HIDE DEF E, D, R
<1>4. E \subseteq T /\ D \subseteq T /\ R \subseteq T
  BY <1>2
<1>5. /\ SetToSeq(E) \in Seq(T) /\ Members(SetToSeq(E)) = E
      /\ SetToSeq(D) \in Seq(T) /\ Members(SetToSeq(D)) = D
      /\ SetToSeq(R) \in Seq(T) /\ Members(SetToSeq(R)) = R
  BY <1>1, <1>4, MembersEnumerated
<1> DEFINE both == SetToSeq(E) \o SetToSeq(D)
<1>6. both \in Seq(T) /\ Members(both) = E \cup D
  BY <1>5, MembersOfParts
<1> HIDE DEF both
<1>7. both \o SetToSeq(R) \in Seq(T) /\ Members(both \o SetToSeq(R)) = (E \cup D) \cup R
  BY <1>5, <1>6, MembersOfParts
<1> QED BY <1>2, <1>3, <1>7 DEF both

Event(p, b, q, t, n) ==
  LET s == Scheduled(p, b, SubSeq(t, 1, n)) IN Raises(q, s) \/ Violates(q, s)

FirstIs(p, b, q, t, n) ==
  \/ n = Len(t) + 1 /\ \A k \in 0 .. Len(t) : ~Event(p, b, q, t, k)
  \/ n \in 0 .. Len(t) /\ Event(p, b, q, t, n)

\* The first event of a schedule is one, and without one there is none.
LEMMA FirstEventIs ==
  ASSUME NEW p \in Profiles, NEW b \in Starts[p], NEW q \in Predicate,
         NEW t \in Schedules[p][b]
  PROVE  FirstIs(p, b, q, t, FirstEvent[p][b][q][t])
<1> DEFINE events == {n \in 0 .. Len(t) : Event(p, b, q, t, n)}
<1>1. FirstEvent[p][b][q][t] = IF events = {} THEN Len(t) + 1 ELSE Min(events)
  BY DEF FirstEvent, Event
<1>2. CASE events = {}
  BY <1>1, <1>2 DEF FirstIs
<1>3. CASE events # {}
  <2>1. Len(t) \in Nat
    BY SchedulesAreEvidence
  <2>2. events \subseteq Nat
    BY <2>1
  <2>3. Min(events) \in events
    <3> HIDE DEF events
    <3>1. \E x \in events : \A y \in events : x <= y
      BY <1>3, <2>2, Least
    <3> QED BY <3>1 DEF Min
  <2>4. FirstEvent[p][b][q][t] \in events
    <3> HIDE DEF events
    <3> QED BY <1>1, <1>3, <2>3
  <2> QED BY <2>4 DEF FirstIs
<1> QED BY <1>2, <1>3


(* The truth of a result, and of the evidence it comes with.               *)
True(p, b, q, r) ==
  r # None /\ r.complete => (r.status = "sat" <=> \E s \in Reachable[p][b] : Violates(q, s))

\* A violation on the way: the search would not have gone on from a fixture
\* that has one as it is.
OnTheWay(p, b, q, s) ==
  /\ Len(b.log) <= Len(s.log)
  /\ b.log = << >> => Replayed(p, b, s.log) = s
  /\ Violates(q, s) /\ ~Raises(q, s) /\ ~Violates(q, b)

Found(p, b, q, r) ==
  /\ r.complete
  /\ \/ r.witness = << >> /\ Violates(q, b) /\ ~Raises(q, b)
     \/ \E s \in Reachable[p][b] : r.witness = s.log /\ OnTheWay(p, b, q, s)

\* What the concrete explorer has looked at: all of it quiet, and whatever
\* comes next seen as well or queued.
Explored(p, b, q, waiting, done) ==
  /\ waiting \in Seq(Reachable[p][b]) /\ done \subseteq Reachable[p][b]
  /\ b \in done \cup Members(waiting)
  /\ \A s \in done : /\ ~Violates(q, s)
                     /\ Successors(p, s) \subseteq done \cup Members(waiting)

Tested(p, b, q, tested) ==
  \A t \in tested : t \in Schedules[p][b] /\ FirstEvent[p][b][q][t] > Len(t)

SearchInv ==
  /\ profile \in Profiles /\ start \in Starts[profile] /\ predicate \in Predicate
  /\ explorer \in {"concrete", "symbolic", "witness", "done"}
  /\ explorer = "concrete" => Explored(profile, start, predicate, queue, seen)
  /\ Tested(profile, start, predicate, blocked)
  /\ True(profile, start, predicate, concrete)
  /\ (profile.duplicates => ~profile.reorder) => True(profile, start, predicate, symbolic)
  /\ explorer \in {"witness", "done"} /\ symbolic.status = "sat" =>
       Found(profile, start, predicate, symbolic)
  /\ explorer # "done" => stage = None
  /\ SatIsWitnessed

LEMMA StopsWith ==
  \A now, n, limit, cancel : Stops(now, n, limit, cancel) \in {"unknown", "timeout", None}
BY DEF Stops

LEMMA Incomplete ==
  ASSUME NEW p, NEW b, NEW q, NEW status, status \notin {"sat", "bounded_unsat"}, NEW witness,
         NEW r, r = Verdict(status, witness)
  PROVE  True(p, b, q, r) /\ r.status # "sat"
BY DEF True, Verdict

LEMMA OneMember ==
  ASSUME NEW S, NEW x \in S
  PROVE  <<x>> \in Seq(S) /\ x \in Members(<<x>>)
<1>1. <<x>> \in Seq(S)
  OBVIOUS
<1>2. 1 \in DOMAIN <<x>> /\ <<x>>[1] = x
  OBVIOUS
<1> QED BY <1>1, <1>2 DEF Members

LEMMA ExploredInitially ==
  ASSUME NEW p \in Profiles, NEW b \in Starts[p], NEW q
  PROVE  Explored(p, b, q, <<b>>, {})
<1>1. b \in Reachable[p][b]
  BY ReachableClosed
<1>2. <<b>> \in Seq(Reachable[p][b]) /\ b \in Members(<<b>>)
  BY <1>1, OneMember
<1> QED BY <1>2 DEF Explored

\* Nothing waits: all that is reachable was looked at.
LEMMA ExploredAll ==
  ASSUME NEW p \in Profiles, NEW b \in Starts[p], NEW q, NEW done,
         Explored(p, b, q, << >>, done)
  PROVE  \A s \in Reachable[p][b] : ~Violates(q, s)
<1>1. Members(<< >>) = {}
  BY DEF Members
<1>2. /\ b \in done
      /\ \A s \in done : ~Violates(q, s) /\ Successors(p, s) \subseteq done
  BY <1>1 DEF Explored
<1>3. Reachable[p][b] \subseteq done
  BY <1>2, ReachableLeast
<1> QED BY <1>2, <1>3

LEMMA ExploredNext ==
  ASSUME NEW p \in Profiles, NEW b \in Starts[p], NEW q,
         NEW waiting, waiting # << >>, NEW done,
         Explored(p, b, q, waiting, done), NEW s, s = Head(waiting)
  PROVE  /\ s \in Reachable[p][b]
         /\ s \in done => Explored(p, b, q, Tail(waiting), done \cup {s})
         /\ s \notin done /\ ~Violates(q, s) =>
              Explored(p, b, q, Tail(waiting) \o QueuedSuccessors(p, s), done \cup {s})
<1> DEFINE R == Reachable[p][b]
           rest == Tail(waiting)
           more == QueuedSuccessors(p, s)
           S == Successors(p, s)
<1>1. /\ waiting \in Seq(R) /\ done \subseteq R
      /\ b \in done \cup Members(waiting)
      /\ \A x \in done : /\ ~Violates(q, x)
                         /\ Successors(p, x) \subseteq done \cup Members(waiting)
  BY DEF Explored
<1>2. /\ s \in R /\ rest \in Seq(R) /\ Members(waiting) = {s} \cup Members(rest)
  BY <1>1, HeadAndTail
<1>3. s \in DualChainState /\ S \subseteq R
  BY <1>2, ReachableClosed
<1>4. more \in Seq(R) /\ Members(more) = S
  BY <1>3, QueuedAreSuccessors
<1> HIDE DEF more, rest, S, R
<1>5. rest \o more \in Seq(R) /\ Members(rest \o more) = Members(rest) \cup S
  BY <1>2, <1>4, MembersOfParts
<1>6. ASSUME s \in done PROVE Explored(p, b, q, rest, done \cup {s})
  <2>1. done \cup {s} = done /\ done \cup Members(waiting) = done \cup Members(rest)
    BY <1>2, <1>6
  <2> QED BY <1>1, <1>2, <2>1 DEF Explored, R
<1>7. ASSUME s \notin done, ~Violates(q, s)
      PROVE  Explored(p, b, q, rest \o more, done \cup {s})
  <2> DEFINE all == (done \cup {s}) \cup Members(rest \o more)
  <2>1. done \cup Members(waiting) \subseteq all /\ S \subseteq all
    BY <1>2, <1>5
  <2>2. \A x \in done \cup {s} : ~Violates(q, x) /\ Successors(p, x) \subseteq all
    <3> HIDE DEF all
    <3> QED BY <1>1, <1>7, <2>1 DEF S
  <2>3. done \cup {s} \subseteq R /\ b \in all
    <3> HIDE DEF all
    <3> QED BY <1>1, <1>2, <2>1
  <2> QED BY <1>5, <2>2, <2>3 DEF Explored, R
<1> QED BY <1>2, <1>6, <1>7 DEF rest, more, R

\* Every schedule was tested: no state of one violates.
LEMMA TestedAll ==
  ASSUME NEW p \in Profiles, NEW b \in Starts[p], p.duplicates => ~p.reorder,
         NEW q \in Predicate, NEW tested, Tested(p, b, q, tested), Schedules[p][b] \subseteq tested
  PROVE  \A s \in Reachable[p][b] : ~Violates(q, s)
<1> SUFFICES ASSUME NEW s \in Reachable[p][b] PROVE ~Violates(q, s)
  OBVIOUS
<1>1. PICK t \in Schedules[p][b] : Scheduled(p, b, t) = s
  BY EveryStateIsScheduled
<1> DEFINE n == FirstEvent[p][b][q][t]
<1>2. n > Len(t)
  BY DEF Tested
<1>3. FirstIs(p, b, q, t, n)
  BY FirstEventIs
<1> HIDE DEF n
<1>4. Len(t) \in Nat /\ SubSeq(t, 1, Len(t)) = t
  BY SchedulesAreEvidence
<1>5. \A k \in 0 .. Len(t) : ~Event(p, b, q, t, k)
  <2>1. n \notin 0 .. Len(t)
    BY <1>2, <1>4
  <2> QED BY <1>3, <2>1 DEF FirstIs
<1>6. ~Event(p, b, q, t, Len(t))
  BY <1>4, <1>5
<1> QED BY <1>1, <1>4, <1>6 DEF Event

\* Where the search starts: the first event of no move at all.
LEMMA AtTheStart ==
  ASSUME NEW p \in Profiles, NEW b \in Starts[p], NEW q \in Predicate
  PROVE  FirstEvent[p][b][q][<< >>] = 0 <=> Raises(q, b) \/ Violates(q, b)
<1> DEFINE n == FirstEvent[p][b][q][<< >>]
<1>1. FirstIs(p, b, q, << >>, n)
  BY EmptySchedule, FirstEventIs
<1>2. Len(<< >>) = 0 /\ SubSeq(<< >>, 1, 0) = << >> /\ 0 .. 0 = {0}
  OBVIOUS
<1>3. Event(p, b, q, << >>, 0) <=> Raises(q, b) \/ Violates(q, b)
  BY <1>2, StartTyped, ScheduledEmpty DEF Event
<1> HIDE DEF n
<1>4. \/ n = 1 /\ ~Event(p, b, q, << >>, 0)
      \/ n = 0 /\ Event(p, b, q, << >>, 0)
  BY <1>1, <1>2 DEF FirstIs
<1> QED BY <1>3, <1>4 DEF n

\* An event on the way: the state it is on, with its evidence.
LEMMA EventFound ==
  ASSUME NEW p \in Profiles, NEW b \in Starts[p], NEW q \in Predicate,
         NEW t \in Schedules[p][b], FirstEvent[p][b][q][<< >>] # 0,
         ~(FirstEvent[p][b][q][t] > Len(t)), NEW s,
         s = Scheduled(p, b, SubSeq(t, 1, FirstEvent[p][b][q][t])),
         ~Raises(q, s), NEW r, r = Verdict("sat", s.log)
  PROVE  Found(p, b, q, r) /\ True(p, b, q, r)
<1> DEFINE n == FirstEvent[p][b][q][t]
<1>0. ~Violates(q, b)
  BY AtTheStart
<1>1. FirstIs(p, b, q, t, n)
  BY FirstEventIs
<1>2. ~(n > Len(t)) /\ s = Scheduled(p, b, SubSeq(t, 1, n))
  OBVIOUS
<1> HIDE DEF n
<1>3. /\ Len(t) \in Nat /\ t \in Seq(Moment)
      /\ \A k \in 0 .. Len(t) : Evidence(p, b, SubSeq(t, 1, k))
  BY SchedulesAreEvidence
<1>4. n \in 0 .. Len(t) /\ Event(p, b, q, t, n)
  <2>1. n # Len(t) + 1
    BY <1>2, <1>3
  <2> QED BY <1>1, <2>1 DEF FirstIs
<1>5. /\ s \in Reachable[p][b]
      /\ b.log = << >> => Replayed(p, b, s.log) = s
      /\ Len(s.log) = Len(b.log) + Len(SubSeq(t, 1, n))
  BY <1>2, <1>3, <1>4 DEF Evidence
<1>6. Len(b.log) <= Len(s.log)
  <2>1. Len(b.log) \in Nat
    BY StartTyped DEF Started
  <2>2. Len(SubSeq(t, 1, n)) \in Nat
    BY <1>3, <1>4
  <2>3. \A k, l \in Nat : k <= k + l
    OBVIOUS
  <2> QED BY ONLY <1>5, <2>1, <2>2, <2>3
<1>7. Violates(q, s)
  BY <1>2, <1>4 DEF Event
<1>8. r.status = "sat" /\ r.complete /\ r.witness = s.log
  BY DEF Verdict
<1> QED BY <1>0, <1>5, <1>6, <1>7, <1>8 DEF Found, OnTheWay, True


(* The steps of the searches                                               *)

LEMMA SearchInitInv == SearchInit => SearchInv
<1> SUFFICES ASSUME SearchInit PROVE SearchInv
  OBVIOUS
<1>1. /\ profile \in Profiles /\ start \in Starts[profile]
      /\ predicate \in Predicate /\ explorer = "concrete"
      /\ queue = <<start>> /\ seen = {} /\ blocked = {}
      /\ concrete = None /\ symbolic = None /\ stage = None
  BY DEF SearchInit
<1>2. Explored(profile, start, predicate, queue, seen)
  BY <1>1, ExploredInitially
<1>3. Tested(profile, start, predicate, blocked)
  BY <1>1 DEF Tested
<1>4. True(profile, start, predicate, concrete) /\ True(profile, start, predicate, symbolic)
  BY <1>1 DEF True
<1> QED BY <1>1, <1>2, <1>3, <1>4 DEF SearchInv, SatIsWitnessed

LEMMA ConcreteEndsInv ==
  ASSUME SearchInv, explorer = "concrete", NEW r, ConcreteEnds(r),
         True(profile, start, predicate, r)
  PROVE  SearchInv'
<1>1. /\ profile' = profile /\ start' = start /\ predicate' = predicate /\ explorer' = "symbolic"
      /\ concrete' = r /\ blocked' = blocked /\ symbolic' = symbolic /\ stage' = stage
  BY DEF ConcreteEnds, query
<1>2. /\ profile \in Profiles /\ start \in Starts[profile] /\ predicate \in Predicate
      /\ Tested(profile, start, predicate, blocked) /\ stage = None
      /\ (profile.duplicates => ~profile.reorder) => True(profile, start, predicate, symbolic)
  BY DEF SearchInv
<1>3. /\ Tested(profile, start, predicate, blocked)'
      /\ True(profile, start, predicate, concrete)'
  BY <1>1, <1>2 DEF Tested, True
<1>4. ((profile.duplicates => ~profile.reorder) => True(profile, start, predicate, symbolic))'
  BY <1>1, <1>2 DEF True
<1> QED BY <1>1, <1>2, <1>3, <1>4 DEF SearchInv, SatIsWitnessed

LEMMA SymbolicEndsInv ==
  ASSUME SearchInv, explorer = "symbolic", NEW r, SymbolicEnds(r),
         (profile.duplicates => ~profile.reorder) => True(profile, start, predicate, r),
         r.status = "sat" => Found(profile, start, predicate, r)
  PROVE  SearchInv'
<1>1. /\ profile' = profile /\ start' = start /\ predicate' = predicate /\ explorer' = "witness"
      /\ concrete' = concrete /\ blocked' = {} /\ symbolic' = r /\ stage' = stage
  BY DEF SymbolicEnds, query
<1>2. /\ profile \in Profiles /\ start \in Starts[profile]
      /\ predicate \in Predicate /\ stage = None
      /\ True(profile, start, predicate, concrete)
  BY DEF SearchInv
<1>3. Tested(profile, start, predicate, blocked)'
  BY <1>1 DEF Tested
<1>4. True(profile, start, predicate, concrete)'
  BY <1>1, <1>2 DEF True
<1>5. ((profile.duplicates => ~profile.reorder) => True(profile, start, predicate, symbolic))'
  BY <1>1 DEF True
<1>6. (symbolic.status = "sat" => Found(profile, start, predicate, symbolic))'
  BY <1>1 DEF Found, OnTheWay
<1> QED BY <1>1, <1>2, <1>3, <1>4, <1>5, <1>6 DEF SearchInv, SatIsWitnessed

LEMMA ConcreteExhaustedInv == SearchInv /\ ConcreteExhausted => SearchInv'
<1> SUFFICES ASSUME SearchInv, ConcreteExhausted PROVE SearchInv'
  OBVIOUS
<1> DEFINE r == Verdict("bounded_unsat", << >>)
<1>1. explorer = "concrete" /\ queue = << >> /\ ConcreteEnds(r)
  BY DEF ConcreteExhausted
<1>2. /\ profile \in Profiles /\ start \in Starts[profile]
      /\ Explored(profile, start, predicate, << >>, seen)
  BY <1>1 DEF SearchInv
<1>3. \A s \in Reachable[profile][start] : ~Violates(predicate, s)
  BY <1>2, ExploredAll
<1>4. True(profile, start, predicate, r)
  BY <1>3 DEF True, Verdict
<1> HIDE DEF r
<1> QED BY <1>1, <1>4, ConcreteEndsInv

LEMMA ConcreteStopsInv ==
  ASSUME SearchInv, NEW now, NEW cancel, ConcreteStops(now, cancel)
  PROVE  SearchInv'
<1> DEFINE stop == Stops(now, Cardinality(seen), MaxStates, cancel)
           r == Verdict(stop, << >>)
<1>1. explorer = "concrete" /\ stop # None /\ ConcreteEnds(r)
  BY DEF ConcreteStops
<1>2. stop \in {"unknown", "timeout"}
  BY <1>1, StopsWith
<1> HIDE DEF stop
<1>3. True(profile, start, predicate, r)
  BY <1>2, Incomplete
<1> HIDE DEF r
<1> QED BY <1>1, <1>3, ConcreteEndsInv

LEMMA ConcreteStepInv ==
  ASSUME SearchInv, NEW now, ConcreteStep(now)
  PROVE  SearchInv'
<1> DEFINE s == Head(queue)
<1>1. /\ explorer = "concrete" /\ queue # << >> /\ profile \in Profiles /\ start \in Starts[profile]
      /\ predicate \in Predicate /\ Explored(profile, start, predicate, queue, seen)
  BY DEF ConcreteStep, SearchInv
<1>2. /\ s \in Reachable[profile][start]
      /\ s \in seen => Explored(profile, start, predicate, Tail(queue), seen \cup {s})
      /\ s \notin seen /\ ~Violates(predicate, s) =>
           Explored(profile, start, predicate,
                    Tail(queue) \o QueuedSuccessors(profile, s), seen \cup {s})
  BY <1>1, ExploredNext
<1>3. CASE s \notin seen /\ Raises(predicate, s)
  <2> DEFINE r == Verdict("crash", << >>)
  <2>1. ConcreteEnds(r)
    BY <1>3 DEF ConcreteStep, Fingerprint
  <2>2. True(profile, start, predicate, r)
    BY Incomplete
  <2> HIDE DEF r
  <2> QED BY <1>1, <2>1, <2>2, ConcreteEndsInv
<1>4. CASE s \notin seen /\ ~Raises(predicate, s) /\ Violates(predicate, s)
  <2> DEFINE r == Verdict("sat", s.log)
  <2>1. ConcreteEnds(r)
    BY <1>4 DEF ConcreteStep, Fingerprint
  <2>2. True(profile, start, predicate, r)
    BY <1>2, <1>4 DEF True, Verdict
  <2> HIDE DEF r
  <2> QED BY <1>1, <2>1, <2>2, ConcreteEndsInv
<1>5. CASE s \in seen \/ (~Raises(predicate, s) /\ ~Violates(predicate, s))
  <2>1. /\ queue' = IF s \in seen THEN Tail(queue)
                    ELSE Tail(queue) \o QueuedSuccessors(profile, s)
        /\ seen' = seen \cup {s}
        /\ UNCHANGED <<query, explorer, blocked, concrete, symbolic, stage>>
    BY <1>5 DEF ConcreteStep, Fingerprint
  <2> HIDE DEF s
  <2>2. profile' = profile /\ start' = start /\ predicate' = predicate
    BY <2>1 DEF query
  <2>3. Explored(profile, start, predicate, queue', seen')
    BY <1>2, <1>5, <2>1
  <2>4. Explored(profile, start, predicate, queue, seen)'
    BY <2>2, <2>3 DEF Explored
  <2> QED BY <1>1, <2>1, <2>2, <2>4 DEF SearchInv, SatIsWitnessed, Tested, True, Found, OnTheWay
<1> QED BY <1>3, <1>4, <1>5

LEMMA SymbolicAtInitialInv == SearchInv /\ SymbolicAtInitial => SearchInv'
<1> SUFFICES ASSUME SearchInv, SymbolicAtInitial PROVE SearchInv'
  OBVIOUS
<1> DEFINE r == Verdict(IF Raises(predicate, start) THEN "crash" ELSE "sat", << >>)
<1>1. /\ explorer = "symbolic" /\ FirstEvent[profile][start][predicate][<< >>] = 0
      /\ SymbolicEnds(r)
  BY DEF SymbolicAtInitial, FirstEventOf
<1>2. profile \in Profiles /\ start \in Starts[profile] /\ predicate \in Predicate
  BY DEF SearchInv
<1>3. CASE Raises(predicate, start)
  <2>1. r = Verdict("crash", << >>)
    BY <1>3
  <2>2. True(profile, start, predicate, r) /\ r.status # "sat"
    BY <2>1, Incomplete
  <2> HIDE DEF r
  <2> QED BY <1>1, <2>2, SymbolicEndsInv
<1>4. CASE ~Raises(predicate, start)
  <2>1. Violates(predicate, start) /\ start \in Reachable[profile][start]
    BY <1>1, <1>2, <1>4, AtTheStart, ReachableClosed
  <2>2. r.status = "sat" /\ r.complete /\ r.witness = << >>
    BY <1>4 DEF Verdict
  <2> HIDE DEF r
  <2>3. Found(profile, start, predicate, r) /\ True(profile, start, predicate, r)
    BY <1>4, <2>1, <2>2 DEF Found, True
  <2> QED BY <1>1, <2>3, SymbolicEndsInv
<1> QED BY <1>3, <1>4

LEMMA SymbolicStopsInv ==
  ASSUME SearchInv, NEW now, NEW cancel, SymbolicStops(now, cancel)
  PROVE  SearchInv'
<1> DEFINE stop == Stops(now, Cardinality(blocked), MaxModels, cancel)
           r == Verdict(stop, << >>)
<1>1. explorer = "symbolic" /\ stop # None /\ SymbolicEnds(r)
  BY DEF SymbolicStops, SymbolicGoesOn
<1>2. stop \in {"unknown", "timeout"}
  BY <1>1, StopsWith
<1> HIDE DEF stop
<1>3. True(profile, start, predicate, r) /\ r.status # "sat"
  BY <1>2, Incomplete
<1> HIDE DEF r
<1> QED BY <1>1, <1>3, SymbolicEndsInv

LEMMA SolverGivesUpInv ==
  ASSUME SearchInv, NEW now, NEW status, SolverGivesUp(now, status)
  PROVE  SearchInv'
<1> DEFINE r == Verdict(status, << >>)
<1>1. /\ explorer = "symbolic" /\ status \in {"unknown", "timeout", "crash"}
      /\ SymbolicEnds(r)
  BY DEF SolverGivesUp, SymbolicGoesOn
<1>2. True(profile, start, predicate, r) /\ r.status # "sat"
  BY <1>1, Incomplete
<1> HIDE DEF r
<1> QED BY <1>1, <1>2, SymbolicEndsInv

LEMMA SolverFindsNoneInv ==
  ASSUME SearchInv, NEW now, SolverFindsNone(now)
  PROVE  SearchInv'
<1> DEFINE r == Verdict("bounded_unsat", << >>)
<1>1. /\ explorer = "symbolic" /\ Schedules[profile][start] \subseteq blocked /\ SymbolicEnds(r)
  BY DEF SolverFindsNone, SymbolicGoesOn
<1>2. /\ profile \in Profiles /\ start \in Starts[profile] /\ predicate \in Predicate
      /\ Tested(profile, start, predicate, blocked)
  BY DEF SearchInv
<1>3. ASSUME profile.duplicates => ~profile.reorder
      PROVE  True(profile, start, predicate, r)
  <2>1. \A s \in Reachable[profile][start] : ~Violates(predicate, s)
    BY <1>1, <1>2, <1>3, TestedAll
  <2> QED BY <2>1 DEF True, Verdict
<1>4. r.status # "sat"
  BY DEF Verdict
<1> HIDE DEF r
<1> QED BY <1>1, <1>3, <1>4, SymbolicEndsInv

LEMMA SolverFindsModelInv ==
  ASSUME SearchInv, NEW now, NEW schedule \in Schedules[profile][start],
         SolverFindsModel(now, schedule)
  PROVE  SearchInv'
<1> DEFINE n == FirstEvent[profile][start][predicate][schedule]
           s == Scheduled(profile, start, SubSeq(schedule, 1, n))
<1>1. /\ explorer = "symbolic" /\ profile \in Profiles /\ start \in Starts[profile]
      /\ predicate \in Predicate /\ FirstEvent[profile][start][predicate][<< >>] # 0
  BY DEF SolverFindsModel, SymbolicGoesOn, FirstEventOf, SearchInv
<1>2. CASE ~(n > Len(schedule)) /\ Raises(predicate, s)
  <2> DEFINE r == Verdict("crash", << >>)
  <2>1. SymbolicEnds(r)
    BY <1>2 DEF SolverFindsModel, FirstEventOf
  <2>2. True(profile, start, predicate, r) /\ r.status # "sat"
    BY Incomplete
  <2> HIDE DEF r
  <2> QED BY <1>1, <2>1, <2>2, SymbolicEndsInv
<1>3. CASE ~(n > Len(schedule)) /\ ~Raises(predicate, s)
  <2> DEFINE r == Verdict("sat", s.log)
  <2>1. SymbolicEnds(r)
    BY <1>3 DEF SolverFindsModel, FirstEventOf, PrefixWitness
  <2>2. Found(profile, start, predicate, r) /\ True(profile, start, predicate, r)
    BY <1>1, <1>3, EventFound
  <2> HIDE DEF r
  <2> QED BY <1>1, <2>1, <2>2, SymbolicEndsInv
<1>4. CASE n > Len(schedule)
  <2>1. /\ blocked' = blocked \cup {schedule}
        /\ UNCHANGED <<query, explorer, queue, seen, concrete, symbolic, stage>>
    BY <1>4 DEF SolverFindsModel, FirstEventOf
  <2>2. profile' = profile /\ start' = start /\ predicate' = predicate
    BY <2>1 DEF query
  <2>3. Tested(profile, start, predicate, blocked)'
    BY <1>4, <2>1, <2>2 DEF SearchInv, Tested
  <2> HIDE DEF n, s
  <2> QED BY <1>1, <2>1, <2>2, <2>3 DEF SearchInv, SatIsWitnessed, True, Found, OnTheWay
<1> QED BY <1>2, <1>3, <1>4

LEMMA WitnessCheckInv == SearchInv /\ WitnessCheck => SearchInv'
<1> SUFFICES ASSUME SearchInv, WitnessCheck PROVE SearchInv'
  OBVIOUS
<1>1. /\ explorer = "witness" /\ explorer' = "done"
      /\ profile' = profile /\ start' = start /\ predicate' = predicate /\ blocked' = blocked
      /\ concrete' = concrete /\ symbolic' = symbolic
  BY DEF WitnessCheck, query
<1>2. ASSUME symbolic.status = "sat"
      PROVE  stage' = IF start.log = << >> \/ Violates(predicate, start)
                      THEN "passed" ELSE "crash"
  <2> DEFINE s == NativeReplay[profile][start][symbolic.witness]
  <2>1. /\ Found(profile, start, predicate, symbolic) /\ symbolic.complete
        /\ profile \in Profiles /\ start \in Starts[profile]
        /\ start \in DualChainState /\ Len(start.log) \in Nat
    BY <1>1, <1>2, StartTyped DEF SearchInv, Found, Started
  <2>2. stage' = IF s = None \/ Raises(predicate, s) THEN "crash"
                 ELSE IF Violates(predicate, s) THEN "passed" ELSE "failed"
    BY <1>2, <2>1 DEF WitnessCheck
  <2> HIDE DEF s
  <2>3. CASE /\ symbolic.witness = << >> /\ Violates(predicate, start)
             /\ ~Raises(predicate, start)
    <3>1. s = start
      BY <2>1, <2>3, ReplayedEmpty DEF s, NativeReplay
    <3>2. s # None
      BY <2>1, <3>1, StateFields
    <3> QED BY <2>2, <2>3, <3>1, <3>2
  <2>4. ASSUME NEW x \in Reachable[profile][start], symbolic.witness = x.log,
               OnTheWay(profile, start, predicate, x)
        PROVE  stage' = IF start.log = << >> \/ Violates(predicate, start)
                        THEN "passed" ELSE "crash"
    <3>1. s = Replayed(profile, start, x.log)
      BY <2>1, <2>4 DEF s, NativeReplay
    <3>2. x # None /\ x.log \in Seq(LogEntry)
      BY <2>1, ReachableClosed, StateFields
    <3>3. CASE start.log = << >>
      <4>1. s = x
        BY <2>4, <3>1, <3>3 DEF OnTheWay
      <4> QED BY <2>2, <2>4, <3>2, <3>3, <4>1 DEF OnTheWay
    <3>4. CASE start.log # << >>
      <4>1. x.log # << >>
        <5>1. Len(start.log) # 0 /\ Len(start.log) <= Len(x.log)
          BY <2>1, <2>4, <3>4, StateFields DEF OnTheWay
        <5> QED BY <2>1, <3>2, <5>1
      <4>2. s = None
        BY <2>1, <3>1, <3>2, <3>4, <4>1, InheritedRefused
      <4> QED BY <2>2, <2>4, <3>4, <4>2 DEF OnTheWay
    <3> QED BY <3>3, <3>4
  <2> QED BY <2>1, <2>3, <2>4 DEF Found
<1> QED BY <1>1, <1>2 DEF SearchInv, SatIsWitnessed, Tested, True, Found, OnTheWay

LEMMA SearchStepInv == SearchInv /\ [SearchNext]_searchVars => SearchInv'
<1> SUFFICES ASSUME SearchInv, [SearchNext]_searchVars PROVE SearchInv'
  OBVIOUS
<1>1. CASE ConcreteExhausted
  BY <1>1, ConcreteExhaustedInv
<1>2. ASSUME NEW now \in Clock, NEW cancel \in {FALSE, MayCancel}, ConcreteStops(now, cancel)
      PROVE  SearchInv'
  BY <1>2, ConcreteStopsInv
<1>3. ASSUME NEW now \in Clock, ConcreteStep(now) PROVE SearchInv'
  BY <1>3, ConcreteStepInv
<1>4. CASE SymbolicAtInitial
  BY <1>4, SymbolicAtInitialInv
<1>5. ASSUME NEW now \in Clock, NEW cancel \in {FALSE, MayCancel}, SymbolicStops(now, cancel)
      PROVE  SearchInv'
  BY <1>5, SymbolicStopsInv
<1>6. ASSUME NEW now \in Clock, NEW status \in {"unknown", "timeout", "crash"},
             SolverGivesUp(now, status)
      PROVE  SearchInv'
  BY <1>6, SolverGivesUpInv
<1>7. ASSUME NEW now \in Clock, SolverFindsNone(now) PROVE SearchInv'
  BY <1>7, SolverFindsNoneInv
<1>8. ASSUME NEW now \in Clock, NEW t \in Schedules[profile][start], SolverFindsModel(now, t)
      PROVE  SearchInv'
  BY <1>8, SolverFindsModelInv
<1>9. CASE WitnessCheck
  BY <1>9, WitnessCheckInv
<1>10. CASE UNCHANGED searchVars
  BY <1>10 DEF searchVars, query, SearchInv, SatIsWitnessed, Explored, Tested, True,
           Found, OnTheWay
<1> QED BY <1>1, <1>2, <1>3, <1>4, <1>5, <1>6, <1>7, <1>8, <1>9, <1>10 DEF SearchNext

LEMMA SearchInvariant == SearchSpec => []SearchInv
BY SearchInitInv, SearchStepInv, PTL DEF SearchSpec

(* A complete verdict of either explorer is the truth about every state    *)
(* the given fixture can reach within its bounds, for every history it     *)
(* has, every limit, timeout and cancellation: the concrete one because    *)
(* the seen states and the queue always hold the fixture's own state and   *)
(* every successor of a seen state, the symbolic one because each such     *)
(* state is the end of a schedule                                          *)
(* (paired_explorer.py:90-98, symbolic_paired.py:107-116).                 *)
THEOREM CompleteVerdicts == SearchSpec => []CompleteVerdictsHold
<1>1. SearchInv => CompleteVerdictsHold
  BY DEF SearchInv, CompleteVerdictsHold, True
<1> QED BY <1>1, SearchInvariant, PTL

(* The witness of a complete sat passes its check where the fixture had no *)
(* history, its log replaying to the state it was cut at, and where the    *)
(* fixture violates the predicate as it is; everywhere else the check      *)
(* crashes, the first entry of the log being refused on a fixture that has *)
(* some already (fixture.py:110-152, symbolic_paired.py:280-293, 682-700,  *)
(* witness.py:122-145).                                                    *)
THEOREM WitnessedSat == SearchSpec => []SatIsWitnessed
<1>1. SearchInv => SatIsWitnessed
  BY DEF SearchInv
<1> QED BY <1>1, SearchInvariant, PTL
============================================================================
