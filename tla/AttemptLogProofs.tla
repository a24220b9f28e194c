-------------------------- MODULE AttemptLogProofs --------------------------
(***************************************************************************)
(* Theorems about AttemptLog, for every set of attempts and every policy.  *)
(* That each event follows from the one before it is inductive, and it     *)
(* alone implies what matters about terminal and blocked attempts.         *)
(***************************************************************************)
EXTENDS AttemptLog, TLAPS

LogInv == LogTypeOK /\ HistoriesLegal

\* Recording one event keeps the histories legal.
LEMMA RecordLegal ==
  ASSUME LogInv, NEW a \in Attempt, NEW e \in Entry, Record(a, e)
  PROVE  LogInv'
<1> USE DEF LogInv
<1>1. /\ history[a] \in Seq(Entry)
      /\ history'[a] = Append(history[a], e)
      /\ \A b \in Attempt \ {a} : history'[b] = history[b]
  BY DEF Record, LogTypeOK
<1>2. LogTypeOK'
  BY <1>1 DEF Record, LogTypeOK
<1>3. ASSUME NEW b \in Attempt
      PROVE  LET h == history'[b]
             IN  /\ h # << >> => h[1].type = "started"
                 /\ \A i \in 1 .. Len(h) - 1 : Follows(h[i], h[i + 1])
  <2>1. CASE b # a
    BY <1>1, <2>1 DEF HistoriesLegal
  <2>2. CASE b = a
    <3> DEFINE g == history[a]
    <3>1. MayAppend(g, e)
      BY DEF Record
    <3>2. /\ g # << >> => g[1].type = "started"
          /\ \A i \in 1 .. Len(g) - 1 : Follows(g[i], g[i + 1])
      BY DEF HistoriesLegal
    <3>3. g \in Seq(Entry) /\ history'[b] = Append(g, e)
      BY <1>1, <2>2
    <3> HIDE DEF g
    <3>4. Append(g, e)[1].type = "started"
      BY <3>1, <3>2, <3>3 DEF MayAppend
    <3>5. ASSUME NEW i \in 1 .. Len(Append(g, e)) - 1
          PROVE  Follows(Append(g, e)[i], Append(g, e)[i + 1])
      <4>1. CASE i < Len(g)
        <5>1. Append(g, e)[i] = g[i] /\ Append(g, e)[i + 1] = g[i + 1]
          BY <3>3, <4>1
        <5>2. i \in 1 .. Len(g) - 1
          BY <3>3, <4>1
        <5>3. QED
          BY <3>2, <5>1, <5>2
      <4>2. CASE ~(i < Len(g))
        <5>1. i = Len(g) /\ g # << >>
          BY <3>3, <4>2
        <5>2. Append(g, e)[i] = g[Len(g)] /\ Append(g, e)[i + 1] = e
          BY <3>3, <5>1
        <5>3. QED
          BY <3>1, <5>1, <5>2 DEF MayAppend
      <4>3. QED
        BY <4>1, <4>2
    <3>6. QED
      BY <3>3, <3>4, <3>5
  <2>3. QED
    BY <2>1, <2>2
<1>4. HistoriesLegal'
  BY <1>3 DEF HistoriesLegal
<1>5. QED
  BY <1>2, <1>4

\* Every event of every history follows from the one before it.
THEOREM LogInvariant == LogSpec => []LogInv
<1>1. LogInit => LogInv
  BY DEF LogInit, LogInv, LogTypeOK, HistoriesLegal
<1>2. LogInv /\ [LogNext]_history => LogInv'
  <2> SUFFICES ASSUME LogInv, [LogNext]_history PROVE LogInv'
    OBVIOUS
  <2>1. CASE LogNext
    BY <2>1, RecordLegal DEF LogNext
  <2>2. CASE UNCHANGED history
    BY <2>2 DEF LogInv, LogTypeOK, HistoriesLegal
  <2>3. QED
    BY <2>1, <2>2
<1>3. QED
  BY <1>1, <1>2, PTL DEF LogSpec

\* Nothing follows a terminal event.
LEMMA LegalTerminal == LogInv => TerminalIsLast
<1> SUFFICES ASSUME LogInv, NEW a \in Attempt, NEW i \in 1 .. Len(history[a]),
                    history[a][i].type = "terminal", i # Len(history[a])
             PROVE  FALSE
  BY DEF TerminalIsLast
<1>1. history[a] \in Seq(Entry)
  BY DEF LogInv, LogTypeOK
<1>2. i \in 1 .. Len(history[a]) - 1 /\ i + 1 \in 1 .. Len(history[a])
  BY <1>1
<1>3. Follows(history[a][i], history[a][i + 1])
  BY <1>2 DEF LogInv, HistoriesLegal
<1>4. history[a][i + 1] \in Entry
  BY <1>1, <1>2
<1>5. QED
  BY <1>3, <1>4 DEF Follows, Entry

\* An attempt has at most one terminal event, and it is its last event
\* (events.py:84-85, records.py:112-121).
THEOREM TerminalFinality == LogSpec => []TerminalIsLast
BY LogInvariant, LegalTerminal, PTL

\* Only a terminal event can follow an interruption the policy blocks.
LEMMA LegalBlocked == LogInv => BlockedStaysBlocked
<1> SUFFICES ASSUME LogInv, NEW a \in Attempt, NEW i \in 1 .. Len(history[a]),
                    history[a][i].type = "uncertain",
                    history[a][i].cause \in Blocked,
                    NEW j \in i + 1 .. Len(history[a])
             PROVE  history[a][j].type = "terminal"
  BY DEF BlockedStaysBlocked
<1>1. history[a] \in Seq(Entry)
  BY DEF LogInv, LogTypeOK
<1>2. /\ i \in 1 .. Len(history[a]) - 1
      /\ i + 1 \in 1 .. Len(history[a])
  BY <1>1
<1>3. /\ history[a][i] \in Entry
      /\ history[a][i + 1] \in Entry
  BY <1>1, <1>2
<1>4. Follows(history[a][i], history[a][i + 1])
  BY <1>2 DEF LogInv, HistoriesLegal
<1>5. history[a][i + 1].type = "terminal"
  BY <1>3, <1>4 DEF Follows, Entry
<1>6. i + 1 = Len(history[a])
  BY <1>2, <1>5, LegalTerminal DEF TerminalIsLast
<1>7. QED
  BY <1>1, <1>5, <1>6

\* A version drift is never resumed, whatever happens to the attempt later
\* (ResumePolicy, events.py:34-56; resume, events.py:290-298).
THEOREM BlockedNeverResumed == LogSpec => []BlockedStaysBlocked
BY LogInvariant, LegalBlocked, PTL
============================================================================
