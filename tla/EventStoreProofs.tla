-------------------------- MODULE EventStoreProofs --------------------------
(***************************************************************************)
(* Theorems about EventStore, for every number of attempts, every resume   *)
(* policy and every length of the stream: an event is durable before it is *)
(* visible, the file is accepted by every later process, and a machine is  *)
(* the one the stream describes, through crashes and failed writes.        *)
(***************************************************************************)
EXTENDS EventStore, FiniteSetTheorems, WellFoundedInduction, TLAPS

----------------------------------------------------------------------------
(* The latest position of a set of positions                               *)

\* A non-empty set of positions has a greatest member: the one nearest to the
\* end, by the well-foundedness of < on the distances.
LEMMA Greatest ==
  ASSUME NEW n \in Nat, NEW S, S \subseteq 1 .. n, S # {}
  PROVE  \E x \in S : \A y \in S : y <= x
<1> DEFINE R == {p \in Nat \X Nat : p[1] < p[2]}
           T == {n - y : y \in S}
<1>1. IsWellFoundedOn(R, Nat)
  BY NatLessThanWellFounded DEF OpToRel
<1>2. T \subseteq Nat /\ T # {}
  <2>1. \A y \in S : y \in Int /\ n - y \in Nat
    OBVIOUS
  <2>2. QED
    BY <2>1
<1>3. PICK t \in T : \A u \in T : ~(<<u, t>> \in R)
  <2> HIDE DEF R, T
  <2>1. QED
    BY <1>1, <1>2, WFMin
<1>4. PICK x \in S : t = n - x
  OBVIOUS
<1>5. \A y \in S : n - y \in T
  OBVIOUS
<1>6. \A y \in S : ~(n - y < n - x)
  <2> HIDE DEF T
  <2>1. QED
    BY <1>2, <1>3, <1>4, <1>5
<1>7. QED
  BY <1>6

LEMMA LatestIsGreatest ==
  ASSUME NEW n \in Nat, NEW S, S \subseteq 1 .. n, S # {}
  PROVE  Latest(S) \in S /\ \A j \in S : j <= Latest(S)
<1>1. \E i \in S : \A j \in S : j <= i
  BY Greatest
<1>2. QED
  BY <1>1 DEF Latest

\* A position behind all others is the latest.
LEMMA LatestIsNew ==
  ASSUME NEW n \in Nat, NEW S, S \subseteq 1 .. n
  PROVE  Latest(S \cup {n + 1}) = n + 1
<1> DEFINE T == S \cup {n + 1}
<1>1. T \subseteq 1 .. n + 1 /\ T # {} /\ n + 1 \in Nat
  OBVIOUS
<1> HIDE DEF T
<1>2. Latest(T) \in T /\ \A j \in T : j <= Latest(T)
  BY <1>1, LatestIsGreatest
<1>3. n + 1 \in T
  BY DEF T
<1>4. Latest(T) \in 1 .. n + 1 /\ n + 1 <= Latest(T)
  BY <1>1, <1>2, <1>3
<1>5. Latest(T) = n + 1
  BY <1>4
<1>6. QED
  BY <1>5 DEF T

----------------------------------------------------------------------------
(* A stream with one more event                                            *)

LEMMA AppendedEvent ==
  ASSUME NEW q \in Seq(Event), NEW e \in Event
  PROVE  /\ Append(q, e) \in Seq(Event)
         /\ Len(q) \in Nat
         /\ DOMAIN q = 1 .. Len(q)
         /\ DOMAIN Append(q, e) = DOMAIN q \cup {Len(q) + 1}
         /\ Len(q) + 1 \notin DOMAIN q
         /\ Append(q, e)[Len(q) + 1] = e
         /\ \A i \in DOMAIN q : Append(q, e)[i] = q[i]
OBVIOUS

\* The events before a position are not changed by an append.
LEMMA PrefixOfAppended ==
  ASSUME NEW q \in Seq(Event), NEW e \in Event
  PROVE  /\ \A i \in DOMAIN q : SubSeq(Append(q, e), 1, i - 1) = SubSeq(q, 1, i - 1)
         /\ SubSeq(Append(q, e), 1, Len(q) + 1 - 1) = q
<1> DEFINE s == Append(q, e)
<1>1. /\ s \in Seq(Event) /\ Len(s) = Len(q) + 1 /\ Len(q) \in Nat
      /\ \A j \in 1 .. Len(q) : s[j] = q[j]
  OBVIOUS
<1> HIDE DEF s
<1>2. ASSUME NEW n \in 0 .. Len(q) PROVE SubSeq(s, 1, n) = SubSeq(q, 1, n)
  <2>1. /\ SubSeq(s, 1, n) \in Seq(Event) /\ Len(SubSeq(s, 1, n)) = n
        /\ \A j \in 1 .. n : SubSeq(s, 1, n)[j] = s[j]
    BY <1>1
  <2>2. /\ SubSeq(q, 1, n) \in Seq(Event) /\ Len(SubSeq(q, 1, n)) = n
        /\ \A j \in 1 .. n : SubSeq(q, 1, n)[j] = q[j]
    BY <1>1
  <2>3. \A j \in 1 .. n : s[j] = q[j]
    BY <1>1
  <2>4. QED
    BY <2>1, <2>2, <2>3
<1>3. \A i \in DOMAIN q : i - 1 \in 0 .. Len(q)
  BY <1>1
<1>4. SubSeq(q, 1, Len(q)) = q
  OBVIOUS
<1>5. Len(q) + 1 - 1 = Len(q) /\ Len(q) \in 0 .. Len(q)
  BY <1>1
<1>6. SubSeq(s, 1, Len(q) + 1 - 1) = q
  BY <1>2, <1>4, <1>5
<1>7. QED
  BY <1>2, <1>3, <1>6 DEF s

\* The validator reads one event after the other.
LEMMA ValidAppended ==
  ASSUME NEW q \in Seq(Event), NEW e \in Event, Valid(q), ValidNext(q, e)
  PROVE  Valid(Append(q, e))
<1> DEFINE s == Append(q, e)
<1>1. /\ DOMAIN s = DOMAIN q \cup {Len(q) + 1}
      /\ s[Len(q) + 1] = e
      /\ \A i \in DOMAIN q : s[i] = q[i]
  BY AppendedEvent
<1>2. /\ \A i \in DOMAIN q : SubSeq(s, 1, i - 1) = SubSeq(q, 1, i - 1)
      /\ SubSeq(s, 1, Len(q) + 1 - 1) = q
  BY PrefixOfAppended
<1> HIDE DEF s
<1>3. \A i \in DOMAIN q : ValidNext(SubSeq(s, 1, i - 1), s[i])
  BY <1>1, <1>2 DEF Valid
<1>4. ValidNext(SubSeq(s, 1, Len(q) + 1 - 1), s[Len(q) + 1])
  BY <1>1, <1>2
<1>5. \A i \in DOMAIN s : ValidNext(SubSeq(s, 1, i - 1), s[i])
  BY <1>1, <1>3, <1>4
<1>6. QED
  BY <1>5 DEF s, Valid

\* Whether an event is a lifecycle event of an attempt.
Concerns(e, a) == e.attempt = a /\ e.type \in Lifecycle

LEMMA PositionsAppended ==
  ASSUME NEW q \in Seq(Event), NEW e \in Event, NEW a
  PROVE  /\ Positions(q, a) \subseteq 1 .. Len(q)
         /\ Concerns(e, a) => Positions(Append(q, e), a) = Positions(q, a) \cup {Len(q) + 1}
         /\ ~Concerns(e, a) => Positions(Append(q, e), a) = Positions(q, a)
<1> DEFINE s == Append(q, e)
<1>1. /\ DOMAIN q = 1 .. Len(q)
      /\ DOMAIN s = DOMAIN q \cup {Len(q) + 1}
      /\ Len(q) + 1 \notin DOMAIN q
      /\ s[Len(q) + 1] = e
      /\ \A i \in DOMAIN q : s[i] = q[i]
  BY AppendedEvent
<1> HIDE DEF s
<1>2. Concerns(e, a) => Positions(s, a) = Positions(q, a) \cup {Len(q) + 1}
  BY <1>1, Zenon DEF Positions, Concerns
<1>3. ~Concerns(e, a) => Positions(s, a) = Positions(q, a)
  BY <1>1, Zenon DEF Positions, Concerns
<1>4. Positions(q, a) \subseteq 1 .. Len(q)
  BY <1>1 DEF Positions
<1>5. QED
  BY <1>2, <1>3, <1>4 DEF s

\* A position of the stream holds the same event after an append.
LEMMA LatestAppended ==
  ASSUME NEW q \in Seq(Event), NEW e \in Event, NEW P, P \subseteq 1 .. Len(q)
  PROVE  /\ P # {} => /\ Latest(P) \in P
                      /\ Append(q, e)[Latest(P)] = q[Latest(P)]
         /\ Latest(P \cup {Len(q) + 1}) = Len(q) + 1
         /\ Append(q, e)[Latest(P \cup {Len(q) + 1})] = e
<1>1. /\ Len(q) \in Nat /\ DOMAIN q = 1 .. Len(q)
      /\ Append(q, e)[Len(q) + 1] = e
      /\ \A i \in DOMAIN q : Append(q, e)[i] = q[i]
  BY AppendedEvent
<1>2. P # {} => Latest(P) \in P
  BY <1>1, LatestIsGreatest
<1>3. Latest(P \cup {Len(q) + 1}) = Len(q) + 1
  BY <1>1, LatestIsNew
<1>4. P # {} => Latest(P) \in DOMAIN q
  BY <1>1, <1>2
<1>5. QED
  BY <1>1, <1>2, <1>3, <1>4

\* The state of an attempt follows its lifecycle events only.
LEMMA StateAppended ==
  ASSUME NEW q \in Seq(Event), NEW e \in Event, NEW a
  PROVE  StateAfter(Append(q, e), a)
           = IF Concerns(e, a) THEN StateOf(e.type) ELSE StateAfter(q, a)
<1> DEFINE P == Positions(q, a)
           R == Positions(Append(q, e), a)
<1>1. P \subseteq 1 .. Len(q)
  BY PositionsAppended
<1>2. CASE Concerns(e, a)
  <2>1. R = P \cup {Len(q) + 1}
    BY <1>2, PositionsAppended
  <2> HIDE DEF P, R
  <2>2. R # {} /\ Append(q, e)[Latest(R)] = e
    BY <1>1, <2>1, LatestAppended, ZenonT(60)
  <2>3. QED
    BY <1>2, <2>2 DEF StateAfter, R
<1>3. CASE ~Concerns(e, a)
  <2>1. R = P
    BY <1>3, PositionsAppended
  <2> HIDE DEF P, R
  <2>2. P # {} => Append(q, e)[Latest(P)] = q[Latest(P)]
    BY <1>1, LatestAppended, ZenonT(60)
  <2>3. QED
    BY <1>3, <2>1, <2>2 DEF StateAfter, P, R
<1>4. QED
  BY <1>2, <1>3

\* The interruption of an attempt is that of its latest uncertain event.
LEMMA CauseAppended ==
  ASSUME NEW q \in Seq(Event), NEW e \in Event, NEW a
  PROVE  CauseAfter(Append(q, e), a)
           = IF Concerns(e, a) /\ e.type = "uncertain" THEN e.cause ELSE CauseAfter(q, a)
<1> DEFINE s == Append(q, e)
           P == {i \in Positions(q, a) : q[i].type = "uncertain"}
           R == {i \in Positions(s, a) : s[i].type = "uncertain"}
<1>1. /\ Positions(q, a) \subseteq 1 .. Len(q)
      /\ Concerns(e, a) => Positions(s, a) = Positions(q, a) \cup {Len(q) + 1}
      /\ ~Concerns(e, a) => Positions(s, a) = Positions(q, a)
  BY PositionsAppended
<1>2. /\ DOMAIN q = 1 .. Len(q)
      /\ s[Len(q) + 1] = e
      /\ \A i \in DOMAIN q : s[i] = q[i]
  BY AppendedEvent
<1>3. P \subseteq 1 .. Len(q)
  BY <1>1
<1> HIDE DEF s
<1>4. CASE Concerns(e, a) /\ e.type = "uncertain"
  <2>1. R = P \cup {Len(q) + 1}
    BY <1>1, <1>2, <1>4, Zenon
  <2> HIDE DEF P, R
  <2>2. R # {} /\ s[Latest(R)] = e
    <3>1. s[Latest(P \cup {Len(q) + 1})] = e
      BY <1>3, LatestAppended, ZenonT(60) DEF s
    <3>2. QED
      BY <2>1, <3>1
  <2>3. CauseAfter(s, a) = s[Latest(R)].cause
    BY <2>2 DEF CauseAfter, R
  <2>4. QED
    BY <1>4, <2>2, <2>3 DEF s
<1>5. CASE ~(Concerns(e, a) /\ e.type = "uncertain")
  <2>1. R = P
    BY <1>1, <1>2, <1>5, Zenon
  <2> HIDE DEF P, R
  <2>2. P # {} => s[Latest(P)] = q[Latest(P)]
    BY <1>3, LatestAppended, ZenonT(60) DEF s
  <2>3. /\ CauseAfter(s, a) = IF R = {} THEN None ELSE s[Latest(R)].cause
        /\ CauseAfter(q, a) = IF P = {} THEN None ELSE q[Latest(P)].cause
    BY DEF CauseAfter, P, R
  <2>4. CauseAfter(s, a) = CauseAfter(q, a)
    BY <2>1, <2>2, <2>3
  <2>5. QED
    BY <1>5, <2>4 DEF s
<1>6. QED
  BY <1>4, <1>5

\* The latest clock reading of an attempt.
LEMMA ClockAppended ==
  ASSUME NEW q \in Seq(Event), NEW e \in Event, NEW a
  PROVE  LastClock(Append(q, e), a)
           = IF e.attempt = a /\ e.mono # None THEN e.mono ELSE LastClock(q, a)
<1> DEFINE s == Append(q, e)
           P == {i \in DOMAIN q : q[i].attempt = a /\ q[i].mono # None}
           R == {i \in DOMAIN s : s[i].attempt = a /\ s[i].mono # None}
<1>1. /\ DOMAIN q = 1 .. Len(q)
      /\ DOMAIN s = DOMAIN q \cup {Len(q) + 1}
      /\ Len(q) + 1 \notin DOMAIN q
      /\ s[Len(q) + 1] = e
      /\ \A i \in DOMAIN q : s[i] = q[i]
  BY AppendedEvent
<1>2. P \subseteq 1 .. Len(q)
  BY <1>1
<1> HIDE DEF s
<1>3. CASE e.attempt = a /\ e.mono # None
  <2>1. R = P \cup {Len(q) + 1}
    BY <1>1, <1>3, Zenon
  <2> HIDE DEF P, R
  <2>2. R # {} /\ s[Latest(R)] = e
    <3>1. s[Latest(P \cup {Len(q) + 1})] = e
      BY <1>2, LatestAppended, ZenonT(60) DEF s
    <3>2. QED
      BY <2>1, <3>1
  <2>3. LastClock(s, a) = s[Latest(R)].mono
    BY <2>2 DEF LastClock, R
  <2>4. QED
    BY <1>3, <2>2, <2>3 DEF s
<1>4. CASE ~(e.attempt = a /\ e.mono # None)
  <2>1. R = P
    BY <1>1, <1>4, Zenon
  <2> HIDE DEF P, R
  <2>2. P # {} => s[Latest(P)] = q[Latest(P)]
    BY <1>2, LatestAppended, ZenonT(60) DEF s
  <2>3. /\ LastClock(s, a) = IF R = {} THEN -1 ELSE s[Latest(R)].mono
        /\ LastClock(q, a) = IF P = {} THEN -1 ELSE q[Latest(P)].mono
    BY DEF LastClock, P, R
  <2>4. LastClock(s, a) = LastClock(q, a)
    BY <2>1, <2>2, <2>3
  <2>5. QED
    BY <1>4, <2>4 DEF s
<1>5. QED
  BY <1>3, <1>4

----------------------------------------------------------------------------
(* What a valid stream says of its latest events                           *)

LEMMA ValidPair ==
  ASSUME NEW q \in Seq(Event), Valid(q), NEW j \in DOMAIN q, NEW i \in 1 .. j - 1,
         q[i].attempt = q[j].attempt
  PROVE  /\ q[i].type # "terminal"
         /\ (q[i].mono # None /\ q[j].mono # None) => q[i].mono <= q[j].mono
<1> DEFINE before == SubSeq(q, 1, j - 1)
<1>1. i \in DOMAIN before /\ before[i] = q[i]
  OBVIOUS
<1>2. ValidNext(before, q[j])
  BY DEF Valid
<1> HIDE DEF before
<1>3. QED
  BY <1>1, <1>2 DEF ValidNext

\* An attempt with a terminal event anywhere is in the terminal state.
LEMMA TerminalIsLatest ==
  ASSUME NEW q \in Seq(Event), Valid(q), NEW a, NEW i \in DOMAIN q,
         q[i].attempt = a, q[i].type = "terminal"
  PROVE  StateAfter(q, a) = "terminal"
<1> DEFINE P == Positions(q, a)
<1>1. Len(q) \in Nat /\ DOMAIN q = 1 .. Len(q)
  OBVIOUS
<1>2. i \in P /\ P \subseteq 1 .. Len(q) /\ \A j \in P : q[j].attempt = a
  BY <1>1 DEF Positions, Lifecycle
<1>3. StateAfter(q, a) = IF P = {} THEN "planned" ELSE StateOf(q[Latest(P)].type)
  BY DEF StateAfter
<1> HIDE DEF P
<1>4. Latest(P) \in P /\ i <= Latest(P)
  BY <1>1, <1>2, LatestIsGreatest
<1>5. Latest(P) \in DOMAIN q /\ q[Latest(P)].attempt = a
  BY <1>1, <1>2, <1>4
<1>6. ~(i < Latest(P))
  <2> SUFFICES ASSUME i < Latest(P) PROVE FALSE
    OBVIOUS
  <2>1. i \in 1 .. Latest(P) - 1
    BY <1>1, <1>5
  <2>2. QED
    BY <1>5, <2>1, ValidPair
<1>7. Latest(P) = i
  BY <1>1, <1>4, <1>5, <1>6
<1>8. QED
  BY <1>2, <1>3, <1>7 DEF StateOf

\* No reading of an attempt is later than its latest one.
LEMMA ReadingsRise ==
  ASSUME NEW q \in Seq(Event), Valid(q), NEW a, NEW i \in DOMAIN q,
         q[i].attempt = a, q[i].mono # None
  PROVE  q[i].mono \in Nat /\ q[i].mono <= LastClock(q, a)
<1> DEFINE P == {j \in DOMAIN q : q[j].attempt = a /\ q[j].mono # None}
<1>1. Len(q) \in Nat /\ DOMAIN q = 1 .. Len(q)
  OBVIOUS
<1>2. \A j \in DOMAIN q : q[j].mono \in Nat \cup {None}
  <2>1. \A j \in DOMAIN q : q[j] \in Event
    OBVIOUS
  <2>2. QED
    BY <2>1 DEF Event
<1>3. /\ i \in P /\ P \subseteq 1 .. Len(q)
      /\ \A j \in P : q[j].attempt = a /\ q[j].mono # None
  BY <1>1
<1>4. LastClock(q, a) = IF P = {} THEN -1 ELSE q[Latest(P)].mono
  BY DEF LastClock
<1> HIDE DEF P
<1>5. Latest(P) \in P /\ i <= Latest(P)
  BY <1>1, <1>3, LatestIsGreatest
<1>6. /\ Latest(P) \in DOMAIN q
      /\ q[Latest(P)].attempt = a /\ q[Latest(P)].mono # None
  BY <1>1, <1>3, <1>5
<1>7. q[i].mono \in Nat /\ q[Latest(P)].mono \in Nat
  BY <1>2, <1>6
<1>8. q[i].mono <= q[Latest(P)].mono
  <2>1. CASE i = Latest(P)
    BY <1>7, <2>1
  <2>2. CASE i < Latest(P)
    <3>1. i \in 1 .. Latest(P) - 1
      BY <1>1, <1>6, <2>2
    <3>2. QED
      BY <1>6, <3>1, ValidPair
  <2>3. QED
    BY <1>1, <1>5, <1>6, <2>1, <2>2
<1>9. QED
  BY <1>3, <1>4, <1>7, <1>8

----------------------------------------------------------------------------
(* The order of lifecycle events                                           *)

\* May an event of this type follow an attempt in this state?
Legal(state, type) ==
  CASE type = "started"   -> state \in {"planned", "uncertain"}
    [] type = "uncertain" -> state = "running"
    [] type = "terminal"  -> state \in {"running", "uncertain"}

\* What restore accepts stays acceptable when a legal event is appended.
LEMMA RestorableAppended ==
  ASSUME NEW q \in Seq(Event), NEW e \in Event, NEW a, Restorable(q, a),
         Concerns(e, a) => Legal(StateAfter(q, a), e.type),
         (e.attempt = a /\ ~Concerns(e, a)) => Positions(q, a) # {}
  PROVE  Restorable(Append(q, e), a)
<1> DEFINE s == Append(q, e)
<1>1. /\ DOMAIN q = 1 .. Len(q)
      /\ s[Len(q) + 1] = e
      /\ \A i \in DOMAIN q : s[i] = q[i]
  BY AppendedEvent
<1>2. /\ \A i \in DOMAIN q : SubSeq(s, 1, i - 1) = SubSeq(q, 1, i - 1)
      /\ SubSeq(s, 1, Len(q) + 1 - 1) = q
  BY PrefixOfAppended
<1>3. /\ Positions(q, a) \subseteq 1 .. Len(q)
      /\ Concerns(e, a) => Positions(s, a) = Positions(q, a) \cup {Len(q) + 1}
      /\ ~Concerns(e, a) => Positions(s, a) = Positions(q, a)
  BY PositionsAppended
<1> HIDE DEF s
<1>4. \A i \in Positions(q, a) :
        Legal(StateAfter(SubSeq(s, 1, i - 1), a), s[i].type)
  <2> TAKE i \in Positions(q, a)
  <2>1. Legal(StateAfter(SubSeq(q, 1, i - 1), a), q[i].type)
    BY DEF Restorable, Legal
  <2>2. i \in DOMAIN q
    BY <1>1, <1>3
  <2>3. SubSeq(s, 1, i - 1) = SubSeq(q, 1, i - 1) /\ s[i] = q[i]
    BY <1>1, <1>2, <2>2
  <2>4. QED
    BY <2>1, <2>3
<1>5. Concerns(e, a)
        => Legal(StateAfter(SubSeq(s, 1, Len(q) + 1 - 1), a), s[Len(q) + 1].type)
  BY <1>1, <1>2
<1>6. \A i \in Positions(s, a) :
        Legal(StateAfter(SubSeq(s, 1, i - 1), a), s[i].type)
  BY <1>3, <1>4, <1>5
<1>7. (\E i \in DOMAIN s : s[i].attempt = a) => Positions(s, a) # {}
  <2> SUFFICES ASSUME NEW i \in DOMAIN s, s[i].attempt = a, Positions(s, a) = {}
               PROVE  FALSE
    OBVIOUS
  <2>1. ~Concerns(e, a) /\ Positions(q, a) = {}
    BY <1>3
  <2>2. DOMAIN s = 1 .. Len(q) + 1
    BY DEF s
  <2>3. CASE i = Len(q) + 1
    BY <1>1, <2>1, <2>3
  <2>4. CASE i \in DOMAIN q
    BY <1>1, <2>1, <2>4 DEF Restorable
  <2>5. QED
    BY <1>1, <2>2, <2>3, <2>4
<1>8. QED
  BY <1>6, <1>7 DEF Restorable, Legal, s

\* The state and the interruption of an attempt are among those of its machine.
LEMMA StateTypes ==
  ASSUME NEW q \in Seq(Event), NEW a
  PROVE  /\ StateAfter(q, a) \in {"planned", "running", "uncertain", "terminal"}
         /\ CauseAfter(q, a) \in Interruption \cup {None}
         /\ LastClock(q, a) \in Nat \cup {-1}
<1>1. DOMAIN q = 1 .. Len(q) /\ Len(q) \in Nat
  OBVIOUS
<1>2. \A i \in DOMAIN q :
        /\ q[i].type \in Lifecycle \cup {"method"}
        /\ q[i].cause \in Interruption \cup {None}
        /\ q[i].mono \in Nat \cup {None}
  <2>1. \A i \in DOMAIN q : q[i] \in Event
    OBVIOUS
  <2>2. QED
    BY <2>1 DEF Event
<1>3. StateAfter(q, a) \in {"planned", "running", "uncertain", "terminal"}
  <2> DEFINE P == Positions(q, a)
  <2>1. P \subseteq 1 .. Len(q) /\ \A i \in P : q[i].type \in Lifecycle
    BY <1>1 DEF Positions
  <2> HIDE DEF P
  <2>2. P # {} => Latest(P) \in P
    BY <1>1, <2>1, LatestIsGreatest
  <2>3. P # {} => q[Latest(P)].type \in Lifecycle
    BY <2>1, <2>2
  <2>4. QED
    BY <2>3 DEF StateAfter, StateOf, Lifecycle, P
<1>4. CauseAfter(q, a) \in Interruption \cup {None}
  <2> DEFINE P == {i \in Positions(q, a) : q[i].type = "uncertain"}
  <2>1. P \subseteq 1 .. Len(q)
    BY <1>1 DEF Positions
  <2>2. CauseAfter(q, a) = IF P = {} THEN None ELSE q[Latest(P)].cause
    BY DEF CauseAfter
  <2> HIDE DEF P
  <2>3. P # {} => Latest(P) \in DOMAIN q
    BY <1>1, <2>1, LatestIsGreatest
  <2>4. QED
    BY <1>2, <2>2, <2>3
<1>5. LastClock(q, a) \in Nat \cup {-1}
  <2> DEFINE P == {i \in DOMAIN q : q[i].attempt = a /\ q[i].mono # None}
  <2>1. P \subseteq 1 .. Len(q) /\ \A i \in P : q[i].mono \in Nat
    BY <1>1, <1>2
  <2>2. LastClock(q, a) = IF P = {} THEN -1 ELSE q[Latest(P)].mono
    BY DEF LastClock
  <2> HIDE DEF P
  <2>3. P # {} => Latest(P) \in P
    BY <1>1, <2>1, LatestIsGreatest
  <2>4. QED
    BY <2>1, <2>2, <2>3
<1>6. QED
  BY <1>3, <1>4, <1>5

LEMMA EmptyStream ==
  /\ Valid(<< >>)
  /\ \A a : Restorable(<< >>, a) /\ StateAfter(<< >>, a) = "planned"
<1>1. \A a : Positions(<< >>, a) = {}
  BY DEF Positions
<1>2. Valid(<< >>)
  BY DEF Valid
<1>3. \A a : Restorable(<< >>, a)
  <2>1. \A i : i \notin DOMAIN << >>
    OBVIOUS
  <2>2. QED
    BY <1>1, <2>1, Zenon DEF Restorable
<1>4. \A a : StateAfter(<< >>, a) = "planned"
  BY <1>1, Zenon DEF StateAfter
<1>5. QED
  BY <1>2, <1>3, <1>4

----------------------------------------------------------------------------
(* The invariant                                                           *)

\* Without a process there is no append under way and no machine.
AtRest == ~up => writer = Idle /\ \A a \in Attempt : machine[a] = None

\* The temporary file holds the stream that is about to replace the file.
Prepared == writer.step = "replace" => tmp = Append(mem, writer.event)

\* What is on disk and what is in memory can be loaded and restored.
Accepted ==
  \A q \in {disk, mem} : Valid(q) /\ \A a \in Attempt : Restorable(q, a)

\* A machine is the one its events describe, also while an append is under way.
InStep ==
  \A a \in Attempt : machine[a] # None =>
    /\ machine[a].state = StateAfter(mem, a)
    /\ machine[a].cause = CauseAfter(mem, a)
    /\ machine[a].last >= LastClock(mem, a)

\* The event of an append under way may follow the stream and its machine.
Underway ==
  writer.step # "idle" =>
    LET e == writer.event
        m == machine[e.attempt]
    IN  /\ m # None
        /\ ValidNext(mem, e)
        /\ e.type \in Lifecycle => MachineAllows(m, e.type, given)
        /\ e.type \notin Lifecycle => m.state # "planned"
        /\ e.type = "uncertain" <=> e.cause # None
        /\ e.mono # None => m.last >= e.mono

StoreInv ==
  /\ StoreTypeOK
  /\ DurableBeforeVisible
  /\ AtRest
  /\ Prepared
  /\ Accepted
  /\ InStep
  /\ Underway

LEMMA WriterSteps ==
  ASSUME StoreTypeOK
  PROVE  /\ writer.step = "idle" <=> writer = Idle
         /\ writer.step \in {"idle", "write", "replace", "commit"}
         /\ writer.step # "idle" => /\ writer.event \in Event
                                    /\ writer.event.attempt \in Attempt
                                    /\ writer = [step |-> writer.step,
                                                 event |-> writer.event]
<1>1. CASE writer = Idle
  BY <1>1 DEF Idle
<1>2. CASE writer \in [step : {"write", "replace", "commit"}, event : Event]
  <2>1. writer.step \in {"write", "replace", "commit"} /\ writer.event \in Event
    BY <1>2
  <2>2. writer.step # "idle" /\ writer # Idle
    BY <2>1 DEF Idle
  <2>3. writer.event.attempt \in Attempt
    BY <2>1 DEF Event
  <2>4. QED
    BY <1>2, <2>1, <2>2, <2>3
<1>3. QED
  BY <1>1, <1>2 DEF StoreTypeOK

LEMMA StoreInitInv == StoreInit => StoreInv
<1> SUFFICES ASSUME StoreInit PROVE StoreInv
  OBVIOUS
<1>1. StoreTypeOK
  <2>1. << >> \in Seq(Event) /\ 0 \in Nat
    OBVIOUS
  <2>2. [a \in Attempt |-> None] \in [Attempt -> {None} \cup Machine]
    OBVIOUS
  <2>3. given \in SUBSET (Interruption \cup {None})
    BY StorePolicy DEF StoreInit
  <2>4. QED
    BY <2>1, <2>2, <2>3, Zenon DEF StoreInit, StoreTypeOK
<1>2. Accepted
  BY EmptyStream DEF StoreInit, Accepted
<1>3. QED
  BY <1>1, <1>2
     DEF StoreInit, StoreInv, DurableBeforeVisible, AtRest, Prepared, InStep,
         Underway, Idle

----------------------------------------------------------------------------
(* One step per action                                                     *)

\* Loading the file keeps the invariant.
LEMMA OpenInv == StoreInv /\ Open => StoreInv'
<1> SUFFICES ASSUME StoreInv, Open PROVE StoreInv'
  OBVIOUS
<1> USE DEF StoreInv
<1>1. /\ up' = TRUE /\ mem' = disk /\ disk' = disk /\ tmp' = tmp
      /\ writer' = writer /\ machine' = machine /\ clock' = clock /\ given' = given
      /\ ~up
  BY DEF Open
<1>2. writer = Idle /\ writer.step = "idle" /\ \A a \in Attempt : machine[a] = None
  BY <1>1 DEF AtRest, Idle
<1>3. StoreTypeOK'
  BY <1>1 DEF StoreTypeOK
<1>4. Accepted'
  BY <1>1 DEF Accepted
<1>5. QED
  BY <1>1, <1>2, <1>3, <1>4
     DEF DurableBeforeVisible, AtRest, Prepared, InStep, Underway

\* Creating or restoring a machine keeps the invariant.
LEMMA AttachInv ==
  ASSUME StoreInv, NEW a \in Attempt, Attach(a)
  PROVE  StoreInv'
<1> USE DEF StoreInv
<1>1. /\ up' = up /\ mem' = mem /\ disk' = disk /\ tmp' = tmp
      /\ writer' = writer /\ clock' = clock /\ given' = given
      /\ up /\ writer = Idle /\ writer.step = "idle"
      /\ machine' = [machine EXCEPT ![a] = Restored(a)]
  BY DEF Attach, Idle
<1>2. Restored(a) \in Machine
  BY StateTypes DEF Restored, Machine, StoreTypeOK
<1>3. StoreTypeOK'
  BY <1>1, <1>2 DEF StoreTypeOK
<1>4. InStep'
  <2> SUFFICES ASSUME NEW b \in Attempt, machine'[b] # None
               PROVE  /\ machine'[b].state = StateAfter(mem, b)
                      /\ machine'[b].cause = CauseAfter(mem, b)
                      /\ machine'[b].last >= LastClock(mem, b)
    BY <1>1 DEF InStep
  <2>1. CASE b = a
    <3>1. machine'[b] = Restored(a)
      BY <1>1, <2>1 DEF StoreTypeOK
    <3>2. LastClock(mem, a) \in Int
      BY StateTypes DEF StoreTypeOK
    <3>3. QED
      BY <2>1, <3>1, <3>2 DEF Restored
  <2>2. CASE b # a
    BY <1>1, <2>2 DEF InStep, StoreTypeOK
  <2>3. QED
    BY <2>1, <2>2
<1>5. Accepted'
  BY <1>1 DEF Accepted
<1>6. QED
  BY <1>1, <1>3, <1>4, <1>5 DEF DurableBeforeVisible, AtRest, Prepared, Underway

\* Dropping a machine keeps the invariant.
LEMMA DetachInv ==
  ASSUME StoreInv, NEW a \in Attempt, Detach(a)
  PROVE  StoreInv'
<1> USE DEF StoreInv
<1>1. /\ up' = up /\ mem' = mem /\ disk' = disk /\ tmp' = tmp
      /\ writer' = writer /\ clock' = clock /\ given' = given
      /\ up /\ writer = Idle /\ writer.step = "idle"
      /\ machine' = [machine EXCEPT ![a] = None]
  BY DEF Detach, Idle
<1>2. StoreTypeOK'
  BY <1>1 DEF StoreTypeOK
<1>3. InStep'
  BY <1>1 DEF InStep, StoreTypeOK
<1>4. Accepted'
  BY <1>1 DEF Accepted
<1>5. QED
  BY <1>1, <1>2, <1>3, <1>4 DEF DurableBeforeVisible, AtRest, Prepared, Underway

\* A machine that announces an event is otherwise unchanged.
LEMMA BeginLifecycleInv ==
  ASSUME StoreInv, NEW a \in Attempt, NEW type \in Lifecycle,
         NEW cause \in Interruption \cup {None}, BeginLifecycle(a, type, cause)
  PROVE  StoreInv'
<1> USE DEF StoreInv
<1> DEFINE e == [attempt |-> a, type |-> type, cause |-> cause, mono |-> clock]
<1>1. /\ up' = up /\ mem' = mem /\ disk' = disk /\ tmp' = tmp /\ clock' = clock
      /\ given' = given
      /\ up /\ writer = Idle /\ writer.step = "idle"
      /\ machine[a] # None
      /\ type = "uncertain" <=> cause # None
      /\ MachineAllows(machine[a], type, given)
      /\ clock >= machine[a].last
      /\ machine' = [machine EXCEPT ![a].last = clock]
      /\ writer' = IF ValidNext(mem, e) THEN [step |-> "write", event |-> e] ELSE Idle
  BY DEF BeginLifecycle, Idle
<1>2. clock \in Nat /\ e \in Event
  BY DEF StoreTypeOK, Event
<1>3. machine[a] \in Machine
  BY <1>1 DEF StoreTypeOK
<1> DEFINE m == machine[a]
           n == [m EXCEPT !.last = clock]
<1>4. /\ n \in Machine /\ n # None
      /\ n.state = m.state /\ n.cause = m.cause /\ n.last = clock
  <2> HIDE DEF m
  <2>1. m \in Machine
    BY <1>3 DEF m
  <2>2. n \in Machine /\ n.state = m.state /\ n.cause = m.cause /\ n.last = clock
    BY <1>2, <2>1 DEF Machine
  <2> HIDE DEF n
  <2>3. QED
    BY <2>2, StoreNone
<1>5. machine' = [machine EXCEPT ![a] = n]
  BY <1>1
<1> HIDE DEF n
<1>6. /\ machine'[a] = n
      /\ \A b \in Attempt : b # a => machine'[b] = machine[b]
      /\ machine' \in [Attempt -> {None} \cup Machine]
  BY <1>4, <1>5 DEF StoreTypeOK
<1>7. InStep'
  <2> SUFFICES ASSUME NEW b \in Attempt, machine'[b] # None
               PROVE  /\ machine'[b].state = StateAfter(mem, b)
                      /\ machine'[b].cause = CauseAfter(mem, b)
                      /\ machine'[b].last >= LastClock(mem, b)
    BY <1>1 DEF InStep
  <2>1. CASE b = a
    <3>1. /\ m.state = StateAfter(mem, a) /\ m.cause = CauseAfter(mem, a)
          /\ m.last >= LastClock(mem, a)
      BY <1>1 DEF InStep
    <3>2. LastClock(mem, a) \in Int /\ m.last \in Int /\ clock >= m.last
      BY <1>1, <1>3, StateTypes DEF StoreTypeOK, Machine
    <3>3. clock >= LastClock(mem, a)
      BY <1>2, <3>1, <3>2
    <3>4. QED
      BY <1>4, <1>6, <2>1, <3>1, <3>3
  <2>2. CASE b # a
    BY <1>6, <2>2 DEF InStep
  <2>3. QED
    BY <2>1, <2>2
<1>8. CASE ValidNext(mem, e)
  <2>1. writer' = [step |-> "write", event |-> e]
    BY <1>1, <1>8
  <2> HIDE DEF e
  <2>2. StoreTypeOK'
    BY <1>1, <1>2, <1>6, <2>1 DEF StoreTypeOK
  <2>3. Underway'
    <3>1. /\ writer'.event = e /\ e.attempt = a /\ e.type = type
          /\ e.cause = cause /\ e.mono = clock
      BY <2>1 DEF e
    <3>2. MachineAllows(n, type, given)
      BY <1>1, <1>4 DEF MachineAllows, Resumable, Asked
    <3>3. n.last >= clock
      BY <1>2, <1>4
    <3>4. QED
      BY <1>1, <1>4, <1>6, <1>8, <3>1, <3>2, <3>3 DEF Underway
  <2>4. QED
    BY <1>1, <1>7, <2>1, <2>2, <2>3
       DEF DurableBeforeVisible, AtRest, Prepared, Accepted
<1>9. CASE ~ValidNext(mem, e)
  <2>1. writer' = Idle /\ writer'.step = "idle"
    BY <1>1, <1>9 DEF Idle
  <2> HIDE DEF e
  <2>2. StoreTypeOK'
    BY <1>1, <1>2, <1>6, <2>1 DEF StoreTypeOK
  <2>3. QED
    BY <1>1, <1>7, <2>1, <2>2
       DEF DurableBeforeVisible, AtRest, Prepared, Accepted, Underway
<1>10. QED
  BY <1>8, <1>9

\* Announcing an event of a method run keeps the invariant.
LEMMA BeginMethodInv ==
  ASSUME StoreInv, NEW a \in Attempt, BeginMethod(a)
  PROVE  StoreInv'
<1> USE DEF StoreInv
<1> DEFINE e == [attempt |-> a, type |-> "method", cause |-> None, mono |-> None]
<1>1. /\ up' = up /\ mem' = mem /\ disk' = disk /\ tmp' = tmp /\ clock' = clock
      /\ given' = given
      /\ machine' = machine /\ machine[a] # None
      /\ up /\ ValidNext(mem, e)
      /\ writer' = [step |-> "write", event |-> e]
  BY DEF BeginMethod
<1>2. /\ e \in Event /\ e.attempt = a /\ e.type \notin Lifecycle /\ e.mono = None
      /\ e.type = "method" /\ e.cause = None
  BY DEF Event, Lifecycle
<1> HIDE DEF e
<1>3. writer'.step = "write" /\ writer'.event = e
  BY <1>1
<1>4. StoreTypeOK'
  BY <1>1, <1>2 DEF StoreTypeOK
<1>5. Underway'
  <2>1. machine[a].state # "planned"
    BY DEF BeginMethod
  <2>2. QED
    BY <1>1, <1>2, <1>3, <2>1 DEF Underway
<1>6. disk = mem
  BY <1>1 DEF DurableBeforeVisible, BeginMethod, Idle
<1>7. QED
  BY <1>1, <1>3, <1>4, <1>5, <1>6
     DEF DurableBeforeVisible, AtRest, Prepared, Accepted, InStep

\* Writing the temporary file keeps the invariant.
LEMMA WriteTemporaryInv ==
  ASSUME StoreInv, WriteTemporary
  PROVE  StoreInv'
<1> USE DEF StoreInv
<1>1. /\ up' = up /\ mem' = mem /\ disk' = disk /\ clock' = clock /\ given' = given
      /\ machine' = machine
      /\ up /\ writer.step = "write"
      /\ tmp' = Append(mem, writer.event)
      /\ writer' = [writer EXCEPT !.step = "replace"]
  BY DEF WriteTemporary
<1>2. /\ writer.event \in Event
      /\ writer' = [step |-> "replace", event |-> writer.event]
  <2>1. writer.event \in Event /\ writer = [step |-> "write", event |-> writer.event]
    BY <1>1, WriterSteps
  <2>2. QED
    BY <1>1, <2>1
<1>3. writer'.step = "replace" /\ writer'.event = writer.event
  BY <1>2
<1>4. StoreTypeOK'
  BY <1>1, <1>2, AppendedEvent DEF StoreTypeOK
<1>5. Prepared'
  BY <1>1, <1>3 DEF Prepared
<1>6. QED
  BY <1>1, <1>3, <1>4, <1>5
     DEF DurableBeforeVisible, AtRest, Accepted, InStep, Underway

\* Replacing the file keeps the invariant.
LEMMA ReplaceInv ==
  ASSUME StoreInv, Replace
  PROVE  StoreInv'
<1> USE DEF StoreInv
<1> DEFINE e == writer.event
<1>1. /\ up' = up /\ mem' = mem /\ clock' = clock /\ machine' = machine
      /\ given' = given
      /\ up /\ writer.step = "replace"
      /\ disk' = tmp /\ tmp' = None
      /\ writer' = [writer EXCEPT !.step = "commit"]
  BY DEF Replace
<1>2. /\ e \in Event /\ e.attempt \in Attempt
      /\ writer' = [step |-> "commit", event |-> e]
  <2>1. /\ writer.event \in Event /\ writer.event.attempt \in Attempt
        /\ writer = [step |-> "replace", event |-> writer.event]
    BY <1>1, WriterSteps
  <2>2. QED
    BY <1>1, <2>1
<1>3. writer'.step = "commit" /\ writer'.event = e
  BY <1>2
<1>4. disk' = Append(mem, e)
  BY <1>1 DEF Prepared
<1>5. /\ machine[e.attempt] # None
      /\ ValidNext(mem, e)
      /\ e.type \in Lifecycle => MachineAllows(machine[e.attempt], e.type, given)
      /\ e.type \notin Lifecycle => machine[e.attempt].state # "planned"
  BY <1>1 DEF Underway
<1> HIDE DEF e
<1>6. StoreTypeOK'
  <2>1. Append(mem, e) \in Seq(Event)
    BY <1>2, AppendedEvent DEF StoreTypeOK
  <2>2. writer' \in [step : {"write", "replace", "commit"}, event : Event]
    BY <1>2
  <2>3. QED
    BY <1>1, <1>4, <2>1, <2>2 DEF StoreTypeOK
<1>7. mem \in Seq(Event) /\ Valid(mem) /\ \A a \in Attempt : Restorable(mem, a)
  BY DEF Accepted, StoreTypeOK
<1>8. Valid(Append(mem, e))
  BY <1>2, <1>5, <1>7, ValidAppended
<1>9. ASSUME NEW a \in Attempt PROVE Restorable(Append(mem, e), a)
  <2>1. Concerns(e, a) => Legal(StateAfter(mem, a), e.type)
    <3>1. SUFFICES ASSUME Concerns(e, a) PROVE Legal(StateAfter(mem, a), e.type)
      OBVIOUS
    <3>2. e.attempt = a /\ e.type \in Lifecycle
      BY <3>1 DEF Concerns
    <3>3. machine[a].state = StateAfter(mem, a) /\ MachineAllows(machine[a], e.type, given)
      BY <1>5, <3>2 DEF InStep
    <3>4. QED
      BY <3>2, <3>3 DEF Legal, MachineAllows, Resumable, Lifecycle
  <2>2. (e.attempt = a /\ ~Concerns(e, a)) => Positions(mem, a) # {}
    <3>1. SUFFICES ASSUME e.attempt = a, e.type \notin Lifecycle
                   PROVE  Positions(mem, a) # {}
      BY DEF Concerns
    <3>2. StateAfter(mem, a) # "planned"
      BY <1>5, <3>1 DEF InStep
    <3>3. QED
      BY <3>2 DEF StateAfter
  <2>3. QED
    BY <1>2, <1>7, <2>1, <2>2, RestorableAppended
<1>10. Accepted'
  BY <1>1, <1>4, <1>7, <1>8, <1>9 DEF Accepted
<1>11. Underway'
  BY <1>1, <1>3 DEF Underway, e
<1>12. QED
  BY <1>1, <1>3, <1>4, <1>6, <1>10, <1>11
     DEF DurableBeforeVisible, AtRest, Prepared, InStep

\* Showing the event keeps the invariant: the machine it belongs to is again
\* the one its events describe.
LEMMA CommitInv ==
  ASSUME StoreInv, Commit
  PROVE  StoreInv'
<1> USE DEF StoreInv
<1> DEFINE e == writer.event
           c == e.attempt
           m == machine[c]
           n == [m EXCEPT !.state = StateOf(e.type),
                          !.cause = IF e.type = "uncertain" THEN e.cause ELSE @]
<1>1. /\ up' = up /\ disk' = disk /\ tmp' = tmp /\ clock' = clock /\ given' = given
      /\ up /\ writer.step = "commit"
      /\ mem' = Append(mem, e)
      /\ writer' = Idle
  BY DEF Commit
<1>2. e \in Event /\ c \in Attempt /\ mem \in Seq(Event)
  BY <1>1, WriterSteps DEF StoreTypeOK
<1>3. machine' = IF e.type = "method" THEN machine ELSE [machine EXCEPT ![c] = n]
  BY <1>2 DEF Commit, StoreTypeOK
<1>4. /\ m # None
      /\ e.type \in Lifecycle => MachineAllows(m, e.type, given)
      /\ e.mono # None => m.last >= e.mono
  BY <1>1 DEF Underway
<1>5. m \in Machine
  BY <1>2, <1>4 DEF StoreTypeOK
<1>6. /\ e.type \in Lifecycle \cup {"method"} /\ e.cause \in Interruption \cup {None}
      /\ e.mono \in Nat \cup {None}
  BY <1>2 DEF Event
<1>7. ASSUME e.type \in Lifecycle
      PROVE  /\ n \in Machine /\ n # None
             /\ n.state = StateOf(e.type)
             /\ n.cause = IF e.type = "uncertain" THEN e.cause ELSE m.cause
             /\ n.last = m.last
  <2> HIDE DEF m, e
  <2>1. StateOf(e.type) \in {"planned", "running", "uncertain", "terminal"}
    BY <1>7 DEF StateOf, Lifecycle
  <2>2. /\ n \in Machine
        /\ n.state = StateOf(e.type)
        /\ n.cause = IF e.type = "uncertain" THEN e.cause ELSE m.cause
        /\ n.last = m.last
    BY <1>5, <1>6, <2>1 DEF Machine
  <2> HIDE DEF n
  <2>3. QED
    BY <2>2, StoreNone
<1> HIDE DEF e, c, m, n
<1>8. "method" \notin Lifecycle
  BY DEF Lifecycle
<1>9. /\ \A b \in Attempt : b # c => machine'[b] = machine[b]
      /\ e.type = "method" => machine'[c] = m
      /\ e.type # "method" => machine'[c] = n
      /\ machine' \in [Attempt -> {None} \cup Machine]
  <2>1. CASE e.type = "method"
    BY <1>3, <2>1 DEF m, StoreTypeOK
  <2>2. CASE e.type # "method"
    BY <1>2, <1>3, <1>6, <1>7, <2>2 DEF StoreTypeOK
  <2>3. QED
    BY <2>1, <2>2
<1>10. mem' \in Seq(Event)
  BY <1>1, <1>2, AppendedEvent
<1>11. StoreTypeOK'
  BY <1>1, <1>9, <1>10 DEF StoreTypeOK
<1>12. disk = Append(mem, e)
  BY <1>1 DEF DurableBeforeVisible, e
<1>13. writer'.step = "idle"
  BY <1>1 DEF Idle
<1>14. InStep'
  <2> SUFFICES ASSUME NEW b \in Attempt, machine'[b] # None
               PROVE  /\ machine'[b].state = StateAfter(mem', b)
                      /\ machine'[b].cause = CauseAfter(mem', b)
                      /\ machine'[b].last >= LastClock(mem', b)
    BY DEF InStep
  <2>1. /\ StateAfter(mem', b)
             = IF Concerns(e, b) THEN StateOf(e.type) ELSE StateAfter(mem, b)
        /\ CauseAfter(mem', b)
             = IF Concerns(e, b) /\ e.type = "uncertain" THEN e.cause
                                                         ELSE CauseAfter(mem, b)
        /\ LastClock(mem', b)
             = IF e.attempt = b /\ e.mono # None THEN e.mono ELSE LastClock(mem, b)
    BY <1>1, <1>2, StateAppended, CauseAppended, ClockAppended
  <2>2. CASE b # c
    <3>1. ~Concerns(e, b) /\ e.attempt # b
      BY <2>2 DEF Concerns, c
    <3>2. machine'[b] = machine[b]
      BY <1>9, <2>2
    <3>3. /\ machine[b].state = StateAfter(mem, b)
          /\ machine[b].cause = CauseAfter(mem, b)
          /\ machine[b].last >= LastClock(mem, b)
      BY <3>2 DEF InStep
    <3>4. QED
      BY <2>1, <3>1, <3>2, <3>3
  <2>3. CASE b = c
    <3>1. /\ m.state = StateAfter(mem, b) /\ m.cause = CauseAfter(mem, b)
          /\ m.last >= LastClock(mem, b)
      BY <1>2, <1>4, <2>3 DEF InStep, m
    <3>2. m.last >= LastClock(mem', b)
      BY <1>4, <2>1, <3>1
    <3>3. CASE e.type = "method"
      <4>1. ~Concerns(e, b)
        BY <1>8, <3>3 DEF Concerns
      <4>2. QED
        BY <1>9, <2>1, <2>3, <3>1, <3>2, <3>3, <4>1
    <3>4. CASE e.type # "method"
      <4>1. Concerns(e, b) /\ e.type \in Lifecycle
        BY <1>6, <2>3, <3>4 DEF Concerns, c
      <4>2. machine'[b] = n
        BY <1>9, <2>3, <3>4
      <4>3. QED
        BY <1>7, <2>1, <3>1, <3>2, <4>1, <4>2
    <3>5. QED
      BY <3>3, <3>4
  <2>4. QED
    BY <2>2, <2>3
<1>15. Accepted'
  BY <1>1, <1>12 DEF Accepted
<1>16. QED
  BY <1>1, <1>11, <1>12, <1>13, <1>14, <1>15
     DEF DurableBeforeVisible, AtRest, Prepared, Underway

\* A failed write leaves file, memory and machines as they were.
LEMMA PersistFailsInv ==
  ASSUME StoreInv, PersistFails
  PROVE  StoreInv'
<1> USE DEF StoreInv
<1>1. /\ up' = up /\ mem' = mem /\ disk' = disk /\ clock' = clock /\ given' = given
      /\ machine' = machine /\ tmp' = None
      /\ up /\ writer.step # "commit"
      /\ writer' = Idle
  BY DEF PersistFails
<1>2. writer'.step = "idle"
  BY <1>1 DEF Idle
<1>3. StoreTypeOK'
  BY <1>1 DEF StoreTypeOK
<1>4. QED
  BY <1>1, <1>2, <1>3
     DEF DurableBeforeVisible, AtRest, Prepared, Accepted, InStep, Underway

\* The death of the process leaves a file the next one accepts.
LEMMA CrashInv ==
  ASSUME StoreInv, Crash
  PROVE  StoreInv'
<1> USE DEF StoreInv
<1>1. /\ up' = FALSE /\ mem' = << >> /\ disk' = disk /\ clock' = clock
      /\ given' = given
      /\ tmp' = tmp /\ writer' = Idle
      /\ machine' = [a \in Attempt |-> None]
  BY DEF Crash
<1>2. writer'.step = "idle"
  BY <1>1 DEF Idle
<1>3. StoreTypeOK'
  <2>1. << >> \in Seq(Event) /\ FALSE \in BOOLEAN
    OBVIOUS
  <2>2. [a \in Attempt |-> None] \in [Attempt -> {None} \cup Machine]
    OBVIOUS
  <2>3. QED
    BY <1>1, <2>1, <2>2 DEF StoreTypeOK
<1>4. Accepted'
  BY <1>1, EmptyStream DEF Accepted
<1>5. QED
  BY <1>1, <1>2, <1>3, <1>4
     DEF DurableBeforeVisible, AtRest, Prepared, InStep, Underway

\* The clock is read by announcements only.
LEMMA ClockInv ==
  ASSUME StoreInv, Tick \/ Reboot
  PROVE  StoreInv'
<1> USE DEF StoreInv
<1>1. /\ up' = up /\ mem' = mem /\ disk' = disk /\ tmp' = tmp
      /\ machine' = machine /\ writer' = writer /\ given' = given
      /\ clock' \in Nat
  BY DEF Tick, Reboot, StoreTypeOK
<1>2. StoreTypeOK'
  BY <1>1 DEF StoreTypeOK
<1>3. QED
  BY <1>1, <1>2
     DEF DurableBeforeVisible, AtRest, Prepared, Accepted, InStep, Underway

LEMMA StoreStep == StoreInv /\ [StoreNext]_storeVars => StoreInv'
<1> SUFFICES ASSUME StoreInv, [StoreNext]_storeVars PROVE StoreInv'
  OBVIOUS
<1>1. CASE UNCHANGED storeVars
  BY <1>1 DEF storeVars, StoreInv, StoreTypeOK, DurableBeforeVisible, AtRest,
              Prepared, Accepted, InStep, Underway
<1>2. CASE Open
  BY <1>2, OpenInv
<1>3. CASE \E a \in Attempt : Attach(a) \/ Detach(a)
  BY <1>3, AttachInv, DetachInv
<1>4. CASE \E a \in Attempt, type \in Lifecycle, cause \in Interruption \cup {None} :
             Room /\ BeginLifecycle(a, type, cause)
  BY <1>4, BeginLifecycleInv
<1>5. CASE \E a \in Attempt : Room /\ BeginMethod(a)
  BY <1>5, BeginMethodInv
<1>6. CASE WriteTemporary
  BY <1>6, WriteTemporaryInv
<1>7. CASE Replace
  BY <1>7, ReplaceInv
<1>8. CASE Commit
  BY <1>8, CommitInv
<1>9. CASE PersistFails
  BY <1>9, PersistFailsInv
<1>10. CASE Crash
  BY <1>10, CrashInv
<1>11. CASE Tick \/ Reboot
  BY <1>11, ClockInv
<1>12. QED
  BY <1>1, <1>2, <1>3, <1>4, <1>5, <1>6, <1>7, <1>8, <1>9, <1>10, <1>11
     DEF StoreNext

----------------------------------------------------------------------------
(* The positions of an attempt, counted                                    *)

\* How many of a set of positions are not behind a place.
UpTo(P, i) == {j \in P : j <= i}

LEMMA PositionsFinite ==
  ASSUME NEW n \in Nat, NEW P, P \subseteq 1 .. n
  PROVE  /\ IsFiniteSet(P) /\ Cardinality(P) \in Nat
         /\ \A i : /\ IsFiniteSet(UpTo(P, i)) /\ Cardinality(UpTo(P, i)) \in Nat
                   /\ Cardinality(UpTo(P, i)) <= Cardinality(P)
                   /\ Cardinality(UpTo(P, i)) = Cardinality(P) => UpTo(P, i) = P
<1>1. IsFiniteSet(1 .. n)
  BY FS_Interval
<1>2. IsFiniteSet(P) /\ Cardinality(P) \in Nat
  BY <1>1, FS_Subset, FS_CardinalityType
<1>3. ASSUME NEW i
      PROVE  /\ IsFiniteSet(UpTo(P, i)) /\ Cardinality(UpTo(P, i)) \in Nat
             /\ Cardinality(UpTo(P, i)) <= Cardinality(P)
             /\ Cardinality(UpTo(P, i)) = Cardinality(P) => UpTo(P, i) = P
  <2>1. UpTo(P, i) \in SUBSET P
    BY DEF UpTo
  <2> HIDE DEF UpTo
  <2>2. /\ IsFiniteSet(UpTo(P, i))
        /\ Cardinality(UpTo(P, i)) <= Cardinality(P)
        /\ Cardinality(P) = Cardinality(UpTo(P, i)) => P = UpTo(P, i)
    BY <1>2, <2>1, FS_Subset, Zenon
  <2>3. QED
    BY <2>2, FS_CardinalityType
<1>4. QED
  BY <1>2, <1>3

\* There is a k-th position for every k up to their number.
LEMMA NthExists ==
  ASSUME NEW n \in Nat, NEW P, P \subseteq 1 .. n, NEW k \in 1 .. Cardinality(P)
  PROVE  Nth(P, k) \in P /\ Cardinality(UpTo(P, Nth(P, k))) = k
<1> DEFINE B == {i \in 1 .. n + 1 : Cardinality(UpTo(P, i - 1)) < k}
<1>1. /\ IsFiniteSet(P) /\ Cardinality(P) \in Nat
      /\ \A i : IsFiniteSet(UpTo(P, i)) /\ Cardinality(UpTo(P, i)) \in Nat
  BY PositionsFinite
<1>0. \A j \in P : j \in Int /\ 1 <= j /\ j <= n
  OBVIOUS
<1>2. 1 \in B
  <2>1. UpTo(P, 1 - 1) = {}
    <3>1. \A j \in P : ~(j <= 1 - 1)
      BY <1>0
    <3>2. QED
      BY <3>1, Zenon DEF UpTo
  <2>2. Cardinality(UpTo(P, 1 - 1)) = 0
    BY <2>1, FS_EmptySet
  <2>3. QED
    BY <1>1, <2>2
<1>3. n + 1 \notin B
  <2>1. UpTo(P, (n + 1) - 1) = P
    <3>1. \A j \in P : j <= (n + 1) - 1
      BY <1>0
    <3>2. QED
      BY <3>1, Zenon DEF UpTo
  <2>2. QED
    BY <1>1, <2>1
<1>4. B \subseteq 1 .. n + 1 /\ n + 1 \in Nat
  OBVIOUS
<1>5. PICK x \in B : \A y \in B : y <= x
  <2> HIDE DEF B
  <2>1. QED
    BY <1>2, <1>4, Greatest
<1>6. x \in 1 .. n /\ x + 1 \in 1 .. n + 1 /\ x + 1 \notin B /\ (x + 1) - 1 = x
  <2> HIDE DEF B
  <2>1. x \in 1 .. n + 1 /\ x # n + 1
    BY <1>3, <1>4, <1>5
  <2>2. x + 1 \notin B
    <3>1. ~(x + 1 <= x)
      BY <2>1
    <3>2. QED
      BY <1>5, <3>1
  <2>3. QED
    BY <2>1, <2>2
<1>7. /\ Cardinality(UpTo(P, x)) \in Nat /\ Cardinality(UpTo(P, x - 1)) \in Nat
      /\ ~(Cardinality(UpTo(P, x)) < k) /\ Cardinality(UpTo(P, x - 1)) < k
  BY <1>1, <1>6
<1>8. UpTo(P, x) # UpTo(P, x - 1)
  BY <1>7
<1>9. x \in P /\ UpTo(P, x) = UpTo(P, x - 1) \cup {x}
  <2> HIDE DEF B
  <2>1. x \in Int
    BY <1>6
  <2>2. \A j \in P : j <= x <=> j <= x - 1 \/ j = x
    BY <1>0, <2>1
  <2>3. x \in P
    BY <1>8, <2>2 DEF UpTo
  <2>4. x <= x
    BY <2>1
  <2>5. QED
    BY <2>2, <2>3, <2>4 DEF UpTo
<1>10. Cardinality(UpTo(P, x)) = Cardinality(UpTo(P, x - 1)) + 1
  <2>1. x \notin UpTo(P, x - 1)
    BY <1>6 DEF UpTo
  <2> HIDE DEF UpTo
  <2>2. QED
    BY <1>1, <1>9, <2>1, FS_AddElement
<1>11. Cardinality(UpTo(P, x)) = k
  BY <1>7, <1>10
<1>12. \E i \in P : Cardinality({j \in P : j <= i}) = k
  BY <1>9, <1>11 DEF UpTo
<1>13. Nth(P, k) \in P /\ Cardinality({j \in P : j <= Nth(P, k)}) = k
  <2> DEFINE Q(i) == Cardinality({j \in P : j <= i}) = k
  <2>1. \E i \in P : Q(i)
    BY <1>12
  <2>2. Nth(P, k) = CHOOSE i \in P : Q(i)
    BY DEF Nth
  <2> HIDE DEF Q
  <2>3. Nth(P, k) \in P /\ Q(Nth(P, k))
    BY <2>1, <2>2, Zenon
  <2>4. QED
    BY <2>3 DEF Q
<1>14. QED
  BY <1>13 DEF UpTo

\* One more position behind the others counts one more; the k-th of the others
\* stays the k-th.
LEMMA NthExtended ==
  ASSUME NEW n \in Nat, NEW P, P \subseteq 1 .. n
  PROVE  /\ Cardinality(P \cup {n + 1}) = Cardinality(P) + 1
         /\ Nth(P \cup {n + 1}, Cardinality(P) + 1) = n + 1
         /\ \A k \in 1 .. Cardinality(P) : Nth(P \cup {n + 1}, k) = Nth(P, k)
<1> DEFINE R == P \cup {n + 1}
           c == Cardinality(P)
<1>1. /\ IsFiniteSet(P) /\ c \in Nat
      /\ \A i : /\ IsFiniteSet(UpTo(P, i)) /\ Cardinality(UpTo(P, i)) \in Nat
                /\ Cardinality(UpTo(P, i)) <= c
  BY PositionsFinite
<1>2. n + 1 \notin P
  OBVIOUS
<1>3. Cardinality(R) = c + 1
  BY <1>1, <1>2, FS_AddElement
<1>4. R \subseteq 1 .. n + 1 /\ n + 1 \in Nat
  OBVIOUS
<1>5. \A i \in P : UpTo(R, i) = UpTo(P, i) /\ i # n + 1
  BY DEF UpTo
<1>6. UpTo(R, n + 1) = R
  <2>1. \A j \in R : j <= n + 1
    OBVIOUS
  <2>2. QED
    BY <2>1 DEF UpTo
<1>7. \A i \in R : i \in P \/ i = n + 1
  OBVIOUS
<1> HIDE DEF R, c
<1>8. Nth(R, c + 1) = n + 1
  <2>1. c + 1 \in 1 .. Cardinality(R)
    BY <1>1, <1>3
  <2>2. Nth(R, c + 1) \in R /\ Cardinality(UpTo(R, Nth(R, c + 1))) = c + 1
    BY <1>4, <2>1, NthExists
  <2>3. ~(Nth(R, c + 1) \in P)
    <3>1. SUFFICES ASSUME Nth(R, c + 1) \in P PROVE FALSE
      OBVIOUS
    <3>2. Cardinality(UpTo(P, Nth(R, c + 1))) = c + 1
      BY <1>5, <2>2, <3>1
    <3>3. Cardinality(UpTo(P, Nth(R, c + 1))) <= c
      BY <1>1
    <3>4. QED
      BY <1>1, <3>2, <3>3
  <2>4. QED
    BY <1>7, <2>2, <2>3
<1>9. ASSUME NEW k \in 1 .. c PROVE Nth(R, k) = Nth(P, k)
  <2> DEFINE Q(S, i) == i \in S /\ Cardinality({j \in S : j <= i}) = k
  <2>1. \A i : Q(R, i) <=> Q(P, i)
    <3>1. ASSUME NEW i \in P PROVE Q(R, i) <=> Q(P, i)
      <4>1. {j \in R : j <= i} = {j \in P : j <= i} /\ i \in R
        BY <1>5 DEF UpTo, R
      <4>2. QED
        BY <4>1
    <3>2. ~Q(R, n + 1) /\ ~Q(P, n + 1)
      <4>1. Cardinality({j \in R : j <= n + 1}) = c + 1
        BY <1>3, <1>6 DEF UpTo
      <4>2. QED
        BY <1>1, <1>2, <4>1
    <3>3. \A i : i \notin R => ~Q(R, i) /\ ~Q(P, i)
      BY DEF R
    <3>4. QED
      BY <1>7, <3>1, <3>2, <3>3
  <2>2. Nth(R, k) = CHOOSE i : Q(R, i)
    BY DEF Nth
  <2>3. Nth(P, k) = CHOOSE i : Q(P, i)
    BY DEF Nth
  <2> HIDE DEF Q
  <2>4. (CHOOSE i : Q(R, i)) = (CHOOSE i : Q(P, i))
    BY <2>1
  <2>5. QED
    BY <2>2, <2>3, <2>4
<1>10. QED
  BY <1>3, <1>8, <1>9 DEF R, c

\* The last of the positions is the latest.
LEMMA NthIsLatest ==
  ASSUME NEW n \in Nat, NEW P, P \subseteq 1 .. n, P # {}
  PROVE  Cardinality(P) >= 1 /\ Nth(P, Cardinality(P)) = Latest(P)
<1> DEFINE c == Cardinality(P)
           l == Nth(P, c)
<1>1. /\ IsFiniteSet(P) /\ c \in Nat
      /\ \A i : Cardinality(UpTo(P, i)) = c => UpTo(P, i) = P
  BY PositionsFinite
<1>2. c >= 1
  <2>1. c # 0
    BY <1>1, FS_EmptySet
  <2>2. QED
    BY <1>1, <2>1
<1>3. c \in 1 .. c
  BY <1>1, <1>2
<1>4. l \in P /\ Cardinality(UpTo(P, l)) = c
  BY <1>3, NthExists
<1>5. UpTo(P, l) = P
  <2> HIDE DEF c, l
  <2>1. QED
    BY <1>1, <1>4
<1>6. \A i \in P : i <= l
  BY <1>5 DEF UpTo
<1>7. Latest(P) \in P /\ \A i \in P : i <= Latest(P)
  BY LatestIsGreatest
<1>8. l = Latest(P)
  <2>0. \A i \in P : i \in Int
    OBVIOUS
  <2> HIDE DEF l, c
  <2>1. l \in Int /\ Latest(P) \in Int /\ l <= Latest(P) /\ Latest(P) <= l
    BY <1>4, <1>6, <1>7, <2>0
  <2>2. QED
    BY <2>1
<1>9. QED
  BY <1>2, <1>8

----------------------------------------------------------------------------
(* The history of an attempt in the stream                                 *)

\* What the attempt log sees of an event.
AsEntry(e) == [type |-> e.type, cause |-> e.cause]

LEMMA HistoryShape ==
  ASSUME NEW q \in Seq(Event), NEW a
  PROVE  LET P == Positions(q, a)
         IN  /\ Cardinality(P) \in Nat /\ P \subseteq 1 .. Len(q)
             /\ History(q, a) \in Seq([type : Lifecycle, cause : Interruption \cup {None}])
             /\ Len(History(q, a)) = Cardinality(P)
             /\ \A k \in 1 .. Cardinality(P) :
                  /\ Nth(P, k) \in P
                  /\ History(q, a)[k] = AsEntry(q[Nth(P, k)])
<1> DEFINE P == Positions(q, a)
           S == [type : Lifecycle, cause : Interruption \cup {None}]
<1>1. Len(q) \in Nat /\ DOMAIN q = 1 .. Len(q)
  OBVIOUS
<1>2. P \subseteq 1 .. Len(q) /\ \A i \in P : q[i].type \in Lifecycle
  BY <1>1 DEF Positions
<1>3. \A i \in P : AsEntry(q[i]) \in S
  <2>1. \A i \in P : q[i] \in Event
    BY <1>1, <1>2
  <2>2. \A i \in P : q[i].cause \in Interruption \cup {None}
    BY <2>1 DEF Event
  <2>3. QED
    BY <1>2, <2>2 DEF AsEntry
<1>4. History(q, a) = [k \in 1 .. Cardinality(P) |-> AsEntry(q[Nth(P, k)])]
  BY DEF History, AsEntry
<1> HIDE DEF P, S
<1>5. Cardinality(P) \in Nat
  BY <1>1, <1>2, PositionsFinite
<1>6. \A k \in 1 .. Cardinality(P) : Nth(P, k) \in P
  BY <1>1, <1>2, NthExists
<1>7. \A k \in 1 .. Cardinality(P) : AsEntry(q[Nth(P, k)]) \in S
  BY <1>3, <1>6
<1>8. History(q, a) \in Seq(S) /\ Len(History(q, a)) = Cardinality(P)
  BY <1>4, <1>5, <1>7
<1>9. \A k \in 1 .. Cardinality(P) : History(q, a)[k] = AsEntry(q[Nth(P, k)])
  BY <1>4
<1>10. QED
  BY <1>2, <1>5, <1>6, <1>8, <1>9 DEF P, S

\* An event appended to the stream is appended to the history of its attempt,
\* and no other history changes.
LEMMA HistoryAppended ==
  ASSUME NEW q \in Seq(Event), NEW e \in Event, NEW a
  PROVE  History(Append(q, e), a)
           = IF Concerns(e, a) THEN Append(History(q, a), AsEntry(e)) ELSE History(q, a)
<1> DEFINE s == Append(q, e)
           P == Positions(q, a)
           R == Positions(s, a)
           g == History(q, a)
           h == History(s, a)
           c == Cardinality(P)
<1>1. /\ s \in Seq(Event) /\ Len(q) \in Nat /\ DOMAIN q = 1 .. Len(q)
      /\ s[Len(q) + 1] = e
      /\ \A i \in DOMAIN q : s[i] = q[i]
  BY AppendedEvent
<1>2. /\ Concerns(e, a) => R = P \cup {Len(q) + 1}
      /\ ~Concerns(e, a) => R = P
  BY PositionsAppended
<1>3. /\ c \in Nat /\ P \subseteq 1 .. Len(q)
      /\ g \in Seq([type : Lifecycle, cause : Interruption \cup {None}])
      /\ Len(g) = c
      /\ \A k \in 1 .. c : Nth(P, k) \in P /\ g[k] = AsEntry(q[Nth(P, k)])
  BY HistoryShape
<1>4. /\ h \in Seq([type : Lifecycle, cause : Interruption \cup {None}])
      /\ Len(h) = Cardinality(R)
      /\ \A k \in 1 .. Cardinality(R) : h[k] = AsEntry(s[Nth(R, k)])
  BY <1>1, HistoryShape
<1>5. \A k \in 1 .. c : s[Nth(P, k)] = q[Nth(P, k)]
  BY <1>1, <1>3
<1> HIDE DEF s, P, R, g, h
<1>6. CASE Concerns(e, a)
  <2>1. /\ Cardinality(R) = c + 1
        /\ Nth(R, c + 1) = Len(q) + 1
        /\ \A k \in 1 .. c : Nth(R, k) = Nth(P, k)
    <3>1. /\ Cardinality(P \cup {Len(q) + 1}) = Cardinality(P) + 1
          /\ Nth(P \cup {Len(q) + 1}, Cardinality(P) + 1) = Len(q) + 1
          /\ \A k \in 1 .. Cardinality(P) : Nth(P \cup {Len(q) + 1}, k) = Nth(P, k)
      BY <1>1, <1>3, NthExtended, Zenon
    <3>2. R = P \cup {Len(q) + 1}
      BY <1>2, <1>6
    <3>3. QED
      BY <3>1, <3>2
  <2>2. \A k \in 1 .. c : h[k] = g[k]
    BY <1>3, <1>4, <1>5, <2>1
  <2>3. h[c + 1] = AsEntry(e)
    BY <1>1, <1>3, <1>4, <2>1
  <2>4. AsEntry(e) \in [type : Lifecycle, cause : Interruption \cup {None}]
    BY <1>6 DEF AsEntry, Concerns, Event
  <2>5. h = Append(g, AsEntry(e))
    <3> HIDE DEF c
    <3>1. Len(h) = Len(g) + 1
      BY <1>3, <1>4, <2>1
    <3>2. \A k \in 1 .. Len(g) : h[k] = g[k]
      BY <1>3, <2>2
    <3>3. h[Len(g) + 1] = AsEntry(e)
      BY <1>3, <2>3
    <3>4. QED
      BY <1>3, <1>4, <2>4, <3>1, <3>2, <3>3
  <2>6. QED
    BY <1>6, <2>5 DEF g, h, s
<1>7. CASE ~Concerns(e, a)
  <2>1. R = P
    BY <1>2, <1>7
  <2>2. \A k \in 1 .. c : h[k] = g[k]
    BY <1>3, <1>4, <1>5, <2>1
  <2>3. h = g
    BY <1>3, <1>4, <2>1, <2>2
  <2>4. QED
    BY <1>7, <2>3 DEF g, h, s
<1>8. QED
  BY <1>6, <1>7

\* What the machine of an attempt lets through, its history lets follow.
LEMMA MachineFollows ==
  ASSUME NEW q \in Seq(Event), NEW a, NEW m, NEW e \in Event,
         m.state = StateAfter(q, a), m.cause = CauseAfter(q, a),
         e.type \in Lifecycle, MachineAllows(m, e.type, given)
  PROVE  /\ Promise!MayAppend(History(q, a), AsEntry(e))
         /\ PolicyIsLeftAlone => Policy!MayAppend(History(q, a), AsEntry(e))
<1> DEFINE P == Positions(q, a)
           c == Cardinality(P)
           h == History(q, a)
           l == Latest(P)
<1>1. Len(q) \in Nat
  OBVIOUS
<1>2. /\ c \in Nat /\ P \subseteq 1 .. Len(q)
      /\ h \in Seq([type : Lifecycle, cause : Interruption \cup {None}])
      /\ Len(h) = c
      /\ \A k \in 1 .. c : h[k] = AsEntry(q[Nth(P, k)])
  BY HistoryShape
<1>3. AsEntry(e).type = e.type
  BY DEF AsEntry
<1>4. CASE P = {}
  <2>1. c = 0
    BY <1>4, FS_EmptySet
  <2> HIDE DEF P, c, h
  <2>2. h = << >>
    BY <1>2, <2>1
  <2>3. m.state = "planned"
    BY <1>4 DEF StateAfter, P
  <2>4. e.type = "started"
    BY <2>3 DEF MachineAllows, Lifecycle
  <2>5. QED
    BY <1>3, <2>2, <2>4 DEF h, Promise!MayAppend, Policy!MayAppend
<1>5. CASE P # {}
  <2>1. c >= 1 /\ Nth(P, c) = l
    BY <1>1, <1>2, <1>5, NthIsLatest
  <2>2. l \in P /\ \A j \in P : j <= l
    BY <1>1, <1>2, <1>5, LatestIsGreatest
  <2>3. q[l].type \in Lifecycle
    BY <2>2 DEF Positions
  <2>4. h # << >> /\ h[Len(h)] = AsEntry(q[l])
    <3> HIDE DEF P, c, h, l
    <3>1. QED
      BY <1>2, <2>1
  <2>5. StateAfter(q, a) = StateOf(q[l].type)
    BY <1>5 DEF StateAfter
  <2>6. ASSUME q[l].type = "uncertain" PROVE CauseAfter(q, a) = q[l].cause
    <3> DEFINE U == {i \in Positions(q, a) : q[i].type = "uncertain"}
    <3>1. l \in U /\ U \subseteq P
      BY <2>2, <2>6
    <3>2. Latest(U) \in U /\ \A j \in U : j <= Latest(U)
      <4> HIDE DEF U, P, l
      <4>1. U # {} /\ U \subseteq 1 .. Len(q)
        BY <1>2, <3>1
      <4>2. QED
        BY <1>1, <4>1, LatestIsGreatest
    <3>3. Latest(U) = l
      <4> HIDE DEF U, P, l
      <4>1. l \in 1 .. Len(q) /\ Latest(U) \in 1 .. Len(q)
        BY <1>2, <3>1, <3>2
      <4>2. l <= Latest(U) /\ Latest(U) <= l
        BY <2>2, <3>1, <3>2
      <4>3. QED
        BY <4>1, <4>2
    <3>4. CauseAfter(q, a) = IF U = {} THEN None ELSE q[Latest(U)].cause
      BY DEF CauseAfter
    <3>5. QED
      BY <3>1, <3>3, <3>4
  <2> HIDE DEF P, c, h, l
  <2>7. /\ AsEntry(q[l]).type = q[l].type
        /\ AsEntry(q[l]).cause = q[l].cause
    BY DEF AsEntry
  <2>8. m.state = StateOf(q[l].type)
    BY <2>5
  <2>9. /\ Promise!Follows(AsEntry(q[l]), AsEntry(e))
        /\ PolicyIsLeftAlone => Policy!Follows(AsEntry(q[l]), AsEntry(e))
    <3>1. CASE e.type = "started"
      <4>1. m.state \in {"running", "uncertain", "terminal"}
        BY <2>3, <2>8 DEF StateOf, Lifecycle
      <4>2. m.state = "uncertain" /\ \E kind \in given : Asked(m, kind) \notin Blocked
        BY <3>1, <4>1 DEF MachineAllows, Resumable
      <4>3. q[l].type = "uncertain"
        BY <2>3, <2>8, <4>2 DEF StateOf, Lifecycle
      <4>4. PolicyIsLeftAlone => q[l].cause \notin Blocked
        BY <2>6, <4>2, <4>3 DEF PolicyIsLeftAlone, Asked
      <4>5. QED
        BY <1>3, <2>7, <3>1, <4>3, <4>4 DEF Promise!Follows, Policy!Follows
    <3>2. CASE e.type = "uncertain"
      <4>1. m.state = "running"
        BY <3>2 DEF MachineAllows
      <4>2. q[l].type = "started"
        BY <2>3, <2>8, <4>1 DEF StateOf, Lifecycle
      <4>3. QED
        BY <1>3, <2>7, <3>2, <4>2 DEF Promise!Follows, Policy!Follows
    <3>3. CASE e.type = "terminal"
      <4>1. m.state \in {"running", "uncertain"}
        BY <3>3 DEF MachineAllows
      <4>2. q[l].type \in {"started", "uncertain"}
        BY <2>3, <2>8, <4>1 DEF StateOf, Lifecycle
      <4>3. QED
        BY <1>3, <2>7, <3>3, <4>2 DEF Promise!Follows, Policy!Follows
    <3>4. QED
      BY <3>1, <3>2, <3>3 DEF Lifecycle
  <2>10. QED
    BY <2>4, <2>9 DEF h, Promise!MayAppend, Policy!MayAppend
<1>6. QED
  BY <1>4, <1>5

----------------------------------------------------------------------------
(* The theorems                                                            *)

\* The invariant holds throughout every behaviour of the store.
THEOREM StoreInvariant == StoreSpec => []StoreInv
<1>1. StoreInit => StoreInv
  BY StoreInitInv
<1>2. StoreInv /\ [StoreNext]_storeVars => StoreInv'
  BY StoreStep
<1>3. QED
  BY <1>1, <1>2, PTL DEF StoreSpec

\* The store and the machines keep their shape (events.py:62-66, 234-241).
THEOREM StoreTypeCorrect == StoreSpec => []StoreTypeOK
<1>1. StoreInv => StoreTypeOK
  BY DEF StoreInv
<1>2. QED
  BY <1>1, StoreInvariant, PTL

\* What a process shows is on disk (AppendOnlyEventStore._commit,
\* events.py:92-103).
THEOREM Durability == StoreSpec => []DurableBeforeVisible
<1>1. StoreInv => DurableBeforeVisible
  BY DEF StoreInv
<1>2. QED
  BY <1>1, StoreInvariant, PTL

\* The file a crash leaves behind is accepted, and every attempt in it is
\* restored (events.py:186-201, 300-346).
THEOREM ReloadAccepted == StoreSpec => []ReloadNeverRefused
<1>1. StoreInv => ReloadNeverRefused
  BY DEF StoreInv, Accepted, ReloadNeverRefused
<1>2. QED
  BY <1>1, StoreInvariant, PTL

\* A machine that lived through interruptions and failed writes is the one a
\* restart would rebuild (events.py:300-364).
THEOREM MachineAgreement == StoreSpec => []MachineMatchesStream
<1>1. StoreInv => MachineMatchesStream
  BY DEF StoreInv, InStep, MachineMatchesStream
<1>2. QED
  BY <1>1, StoreInvariant, PTL
\* What the machine's guards let through, the store's validator accepts: a
\* refused call leaves no reading behind that the stream does not have
\* (_append, events.py:348-364).
THEOREM ValidatorAgreement == StoreSpec => []ValidatorAgrees
<1>1. StoreInv => ValidatorAgrees
  <2> SUFFICES ASSUME StoreInv, NEW a \in Attempt, NEW type \in Lifecycle,
                      machine[a] # None, MachineAllows(machine[a], type, given),
                      clock >= machine[a].last,
                      NEW i \in DOMAIN mem, mem[i].attempt = a
               PROVE  /\ mem[i].type # "terminal"
                      /\ mem[i].mono # None => mem[i].mono <= clock
    BY DEF ValidatorAgrees, ValidNext
  <2>1. mem \in Seq(Event) /\ Valid(mem)
    BY DEF StoreInv, StoreTypeOK, Accepted
  <2>2. machine[a] \in Machine /\ clock \in Nat
    BY DEF StoreInv, StoreTypeOK
  <2>3. machine[a].last \in Int
    BY <2>2 DEF Machine
  <2>4. /\ machine[a].state = StateAfter(mem, a)
        /\ machine[a].last >= LastClock(mem, a)
    BY DEF StoreInv, InStep
  <2>5. machine[a].state # "terminal"
    BY DEF MachineAllows, Resumable, Lifecycle
  <2>6. mem[i].type # "terminal"
    BY <2>1, <2>4, <2>5, TerminalIsLatest
  <2>7. ASSUME mem[i].mono # None PROVE mem[i].mono <= clock
    <3>1. mem[i].mono \in Nat /\ mem[i].mono <= LastClock(mem, a)
      BY <2>1, <2>7, ReadingsRise
    <3>2. LastClock(mem, a) \in Int
      BY <2>1, StateTypes
    <3>3. QED
      BY <2>2, <2>3, <2>4, <3>1, <3>2
  <2>8. QED
    BY <2>6, <2>7
<1>2. QED
  BY <1>1, StoreInvariant, PTL
----------------------------------------------------------------------------
(* The store implements the attempt log                                    *)

LEMMA LogInitially == StoreInit => Promise!LogInit /\ Policy!LogInit
<1> SUFFICES ASSUME StoreInit, NEW a \in Attempt PROVE History(disk, a) = << >>
  BY DEF Promise!LogInit, Policy!LogInit, DurableHistory
<1>1. disk = << >> /\ disk \in Seq(Event)
  BY DEF StoreInit
<1>2. Positions(disk, a) = {}
  BY <1>1 DEF Positions
<1>3. Cardinality(Positions(disk, a)) = 0
  BY <1>2, FS_EmptySet
<1>4. /\ History(disk, a) \in Seq([type : Lifecycle, cause : Interruption \cup {None}])
      /\ Len(History(disk, a)) = 0
  BY <1>1, <1>3, HistoryShape, Zenon
<1>5. QED
  BY <1>4

\* Replacing the file records the event of the append under way, or nothing
\* when the event belongs to a method run.
LEMMA ReplaceRecords ==
  ASSUME StoreInv, Replace
  PROVE  /\ [Promise!LogNext]_DurableHistory
         /\ PolicyIsLeftAlone => [Policy!LogNext]_DurableHistory
<1> DEFINE e == writer.event
           b == e.attempt
<1>1. up /\ writer.step = "replace" /\ disk' = tmp
  BY DEF Replace
<1>2. /\ e \in Event /\ b \in Attempt
      /\ disk \in Seq(Event) /\ mem \in Seq(Event)
  BY <1>1, WriterSteps DEF StoreInv, StoreTypeOK
<1>3. disk = mem /\ disk' = Append(disk, e)
  BY <1>1 DEF StoreInv, DurableBeforeVisible, Prepared
<1>4. /\ machine[b] # None
      /\ e.type \in Lifecycle => MachineAllows(machine[b], e.type, given)
      /\ e.type = "uncertain" <=> e.cause # None
  BY <1>1 DEF StoreInv, Underway
<1>5. machine[b].state = StateAfter(disk, b) /\ machine[b].cause = CauseAfter(disk, b)
  BY <1>2, <1>3, <1>4 DEF StoreInv, InStep
<1> HIDE DEF e
<1>6. DurableHistory' = [a \in Attempt |->
         IF Concerns(e, a) THEN Append(DurableHistory[a], AsEntry(e))
         ELSE DurableHistory[a]]
  <2>1. \A a \in Attempt : History(disk', a)
           = IF Concerns(e, a) THEN Append(History(disk, a), AsEntry(e))
             ELSE History(disk, a)
    BY <1>2, <1>3, HistoryAppended
  <2>2. DurableHistory' = [a \in Attempt |-> History(disk', a)]
    BY DEF DurableHistory, History, Positions
  <2>3. QED
    BY <2>1, <2>2 DEF DurableHistory
<1>7. DurableHistory = [a \in Attempt |-> DurableHistory[a]]
  BY DEF DurableHistory
<1>8. CASE e.type \in Lifecycle
  <2>1. \A a \in Attempt : Concerns(e, a) <=> a = b
    BY <1>8 DEF Concerns
  <2>2. DurableHistory' = [DurableHistory EXCEPT ![b] = Append(@, AsEntry(e))]
    BY <1>2, <1>6, <1>7, <2>1
  <2>3. /\ Promise!MayAppend(History(disk, b), AsEntry(e))
        /\ PolicyIsLeftAlone => Policy!MayAppend(History(disk, b), AsEntry(e))
    BY <1>2, <1>4, <1>5, <1>8, MachineFollows
  <2>4. DurableHistory[b] = History(disk, b)
    BY <1>2 DEF DurableHistory
  <2>5. AsEntry(e) \in Promise!Entry /\ AsEntry(e) \in Policy!Entry
    <3>1. e.cause \in Interruption \cup {None}
      BY <1>2 DEF Event
    <3>2. QED
      BY <1>4, <1>8, <3>1 DEF AsEntry, Promise!Entry, Policy!Entry, Lifecycle
  <2>6. /\ Promise!Record(b, AsEntry(e))
        /\ PolicyIsLeftAlone => Policy!Record(b, AsEntry(e))
    BY <2>2, <2>3, <2>4 DEF Promise!Record, Policy!Record
  <2>7. QED
    BY <1>2, <2>5, <2>6 DEF Promise!LogNext, Policy!LogNext
<1>9. CASE e.type \notin Lifecycle
  <2>1. \A a \in Attempt : ~Concerns(e, a)
    BY <1>9 DEF Concerns
  <2>2. DurableHistory' = DurableHistory
    BY <1>6, <1>7, <2>1
  <2>3. QED
    BY <2>2
<1>10. QED
  BY <1>8, <1>9

\* No other step touches the file.
LEMMA LogStep ==
  StoreInv /\ [StoreNext]_storeVars =>
    /\ [Promise!LogNext]_DurableHistory
    /\ PolicyIsLeftAlone => [Policy!LogNext]_DurableHistory
<1> SUFFICES ASSUME StoreInv, [StoreNext]_storeVars
             PROVE  /\ [Promise!LogNext]_DurableHistory
                    /\ PolicyIsLeftAlone => [Policy!LogNext]_DurableHistory
  OBVIOUS
<1>1. CASE Replace
  BY <1>1, ReplaceRecords
<1>2. CASE disk' = disk
  <2>1. DurableHistory' = DurableHistory
    BY <1>2 DEF DurableHistory, History, Positions
  <2>2. QED
    BY <2>1
<1>3. Replace \/ disk' = disk
  BY DEF StoreNext, storeVars, Open, Attach, Detach, BeginLifecycle, BeginMethod,
         WriteTemporary, Commit, PersistFails, Crash, Tick, Reboot
<1>4. QED
  BY <1>1, <1>2, <1>3

(* The file is an attempt log, whatever crashes, failed writes and         *)
(* restarts happen: the history of an attempt on disk only ever gains one  *)
(* legal event (events.py:92-103, 186-231, 300-364).                       *)
THEOREM StoreRefinesLog == StoreSpec => ImplementsAttemptLog
<1>1. StoreInit => Promise!LogInit
  BY LogInitially
<1>2. StoreInv /\ [StoreNext]_storeVars => [Promise!LogNext]_DurableHistory
  BY LogStep
<1>3. QED
  BY <1>1, <1>2, StoreInvariant, PTL
     DEF StoreSpec, ImplementsAttemptLog, Promise!LogSpec

(* So what an attempt log has, the file has: nothing follows the terminal  *)
(* event of an attempt, in whichever process (events.py:266-298).          *)
LogFacts == INSTANCE AttemptLogProofs WITH history <- DurableHistory, Blocked <- {}

THEOREM DurableHistoryFinal == StoreSpec => []Promise!TerminalIsLast
<1>1. Promise!LogInit => LogFacts!LogInit
  BY DEF Promise!LogInit, LogFacts!LogInit
<1>2. [Promise!LogNext]_DurableHistory => [LogFacts!LogNext]_DurableHistory
  BY DEF Promise!LogNext, LogFacts!LogNext, Promise!Record, LogFacts!Record,
         Promise!MayAppend, LogFacts!MayAppend, Promise!Follows, LogFacts!Follows,
         Promise!Entry, LogFacts!Entry
<1>3. ImplementsAttemptLog => LogFacts!LogSpec
  BY <1>1, <1>2, PTL DEF ImplementsAttemptLog, Promise!LogSpec, LogFacts!LogSpec
<1>4. LogFacts!TerminalIsLast => Promise!TerminalIsLast
  BY DEF LogFacts!TerminalIsLast, Promise!TerminalIsLast
<1>5. QED
  BY <1>3, <1>4, StoreRefinesLog, LogFacts!TerminalFinality, PTL

\* What callers pass to resume is theirs to choose, once.
LEMMA CallersAreFixed == [StoreNext]_storeVars => (PolicyIsLeftAlone' <=> PolicyIsLeftAlone)
<1> SUFFICES ASSUME [StoreNext]_storeVars PROVE given' = given
  BY DEF PolicyIsLeftAlone
<1> QED
  BY DEF StoreNext, storeVars, Open, Attach, Detach, BeginLifecycle, BeginMethod,
         WriteTemporary, Replace, Commit, PersistFails, Crash, Tick, Reboot

(* Where the callers leave the policy alone the file is an attempt log of  *)
(* that policy: of two interruptions of different kinds the latest counts, *)
(* also for a machine that was restored (events.py:290-298, 327-334).      *)
THEOREM StoreRefinesPolicy == StoreSpec /\ PolicyIsLeftAlone => Policy!LogSpec
<1>1. StoreInit => Policy!LogInit
  BY LogInitially
<1>2. StoreInv /\ PolicyIsLeftAlone /\ [StoreNext]_storeVars
        => [Policy!LogNext]_DurableHistory /\ PolicyIsLeftAlone'
  BY LogStep, CallersAreFixed
<1>3. QED
  BY <1>1, <1>2, StoreInvariant, PTL DEF StoreSpec, Policy!LogSpec

(* The policy is kept where callers leave it alone: if they call resume()  *)
(* without a kind, or with one that is blocked itself, no blocked attempt  *)
(* is started again, for any number of attempts and restarts               *)
(* (events.py:290-298).                                                    *)
PolicyFacts == INSTANCE AttemptLogProofs WITH history <- DurableHistory

THEOREM PolicyKept == StoreSpec => []DriftStaysBlocked
<1>1. Policy!LogInit => PolicyFacts!LogInit
  BY DEF Policy!LogInit, PolicyFacts!LogInit
<1>2. [Policy!LogNext]_DurableHistory => [PolicyFacts!LogNext]_DurableHistory
  BY DEF Policy!LogNext, PolicyFacts!LogNext, Policy!Record, PolicyFacts!Record,
         Policy!MayAppend, PolicyFacts!MayAppend, Policy!Follows, PolicyFacts!Follows,
         Policy!Entry, PolicyFacts!Entry
<1>3. Policy!LogSpec => PolicyFacts!LogSpec
  BY <1>1, <1>2, PTL DEF Policy!LogSpec, PolicyFacts!LogSpec
<1>4. PolicyFacts!BlockedStaysBlocked => Policy!BlockedStaysBlocked
  BY DEF PolicyFacts!BlockedStaysBlocked, Policy!BlockedStaysBlocked
<1>5. StoreSpec /\ PolicyIsLeftAlone => []Policy!BlockedStaysBlocked
  BY <1>3, <1>4, StoreRefinesPolicy, PolicyFacts!BlockedNeverResumed, PTL
<1>6. StoreSpec /\ ~PolicyIsLeftAlone => []~PolicyIsLeftAlone
  BY CallersAreFixed, PTL DEF StoreSpec
<1>7. QED
  BY <1>5, <1>6, PTL DEF DriftStaysBlocked
============================================================================
