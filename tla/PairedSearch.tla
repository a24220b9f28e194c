---------------------------- MODULE PairedSearch ----------------------------
(* The two bounded searches over the paired fixture and what becomes of a  *)
(* violation they find (backends/paired_explorer.py, symbolic_paired.py,   *)
(* solver_control.py, verification/fixture.py, replay/witness.py and       *)
(* native.py).                                                             *)
(*                                                                         *)
(* The concrete explorer takes states from a queue, skips those it has     *)
(* seen and queues their successors.  The symbolic explorer asks the       *)
(* solver for a schedule not yet blocked, replays it and tests the state   *)
(* after each action.  Both look at cancellation, the clock and a limit    *)
(* before every step, and both call their verdict complete only when a     *)
(* violation is in hand or nothing is left.  The result of the symbolic    *)
(* search goes to the witness check of the fixture executors.              *)
(*                                                                         *)
(* Both take the fixture they are given as it is, with whatever history it *)
(* has, and search from there.                                             *)
EXTENDS PairedExplorer

CONSTANTS
  Predicate,     \* the violations that are searched for
  Violates(_, _), Raises(_, _),  \* what evaluating one on a state gives
  QueryTimeout, CampaignDeadline, \* SearchControl
  CampaignElapsed, \* what may already be used of the campaign
  MaxStates, MaxModels,           \* limits of the two explorers
  MayCancel,     \* the caller's cancellation may be called for
  MaxHistory     \* how long a history the fixture may have

ASSUME SearchConstants ==
  /\ {QueryTimeout, CampaignDeadline, MaxStates, MaxModels} \subseteq Nat \ {0}
  /\ QueryTimeout <= CampaignDeadline
  /\ CampaignElapsed \subseteq Nat
  /\ MaxHistory \in Nat

VARIABLES
  start,     \* the fixture the search is given
  predicate, used,  \* the query on the fixture, the campaign time used before it
  explorer,  \* "concrete", "symbolic", "witness" or "done"
  elapsed,   \* the search's own clock
  queue, seen,   \* the concrete explorer's queue and fingerprints
  blocked,       \* the schedules the symbolic explorer has tested
  concrete, symbolic,  \* the results; None before
  stage          \* the witness check of the symbolic result; None before

query == <<profile, start, predicate, used>>
searchVars == <<query, explorer, elapsed, queue, seen, blocked, concrete, symbolic, stage>>

----------------------------------------------------------------------------
\* The fixtures a caller can have made of the candidates before the search.
\* Unlike an explorer, a caller may roll back any message that is not final.
CallerMoves(p, s) ==
  EnqueueSuccessors(p, s) \cup DeliverSuccessors(p, s)
    \cup {Reorged(s, i) : i \in {k \in DOMAIN s.committed : CanReorg(p, s, k)}}

Starts ==
  [p \in Profiles |->
     LET upTo[n \in 0 .. MaxHistory] ==
           IF n = 0 THEN {Initial}
           ELSE upTo[n - 1] \cup UNION {CallerMoves(p, s) : s \in upTo[n - 1]}
     IN  upTo[MaxHistory]]

\* The successors of a state, in the order they are queued.
QueuedSuccessors(p, s) ==
  SetToSeq(EnqueueSuccessors(p, s)) \o SetToSeq(DeliverSuccessors(p, s))
    \o SetToSeq(ReorgSuccessors(p, s))

\* The state after the actions of a schedule on fixture b.
Scheduled(p, b, schedule) ==
  LET after[n \in 0 .. Len(schedule)] ==
        IF n = 0 THEN b
        ELSE LET s == after[n - 1]
             IN  IF s = None THEN None ELSE Applied(p, s, schedule[n][1], schedule[n][2])
  IN  after[Len(schedule)]

\* The schedules that are one move longer than those of S: each names the
\* message that is moved.
Longer(p, b, S) ==
  {t \in {Append(x, <<a, m>>) : x \in S,
             a \in {"enqueue", "deliver", "reorg"}, m \in Candidate} :
     LET s == Scheduled(p, b, t)
     IN  s # None /\ s.log[Len(s.log)].message = t[Len(t)][2]}

\* The schedules of the encoding, by length: the fixture's own, as the
\* symbolic moves are the native ones.  None is longer than the fixture has
\* transactions left.
Schedules ==
  [p \in Profiles |-> [b \in Starts[p] |->
     LET ofLength[n \in 0 .. MaxTransactions] ==
           IF n = 0 THEN {<< >>} ELSE Longer(p, b, ofLength[n - 1])
     IN  UNION {ofLength[n] : n \in 0 .. MaxTransactions}]]

\* The first prefix of a schedule after which the predicate is true or
\* raises; the schedule's length plus one when there is none.
FirstEvent ==
  [p \in Profiles |-> [b \in Starts[p] |-> [q \in Predicate |-> [t \in Schedules[p][b] |->
     LET event(n) == LET s == Scheduled(p, b, SubSeq(t, 1, n))
                     IN  Raises(q, s) \/ Violates(q, s)
         events == {n \in 0 .. Len(t) : event(n)}
     IN  IF events = {} THEN Len(t) + 1 ELSE Min(events)]]]]

FirstEventOf(schedule) == FirstEvent[profile][start][predicate][schedule]

\* Every state the fixture can reach under its bounds, whatever order the
\* explorers take: the closure of the moves.
Reachable ==
  [p \in Profiles |-> [b \in Starts[p] |->
     LET upTo[n \in 0 .. MaxTransactions] ==
           IF n = 0 THEN {b}
           ELSE upTo[n - 1] \cup UNION {Successors(p, s) : s \in upTo[n - 1]}
     IN  upTo[MaxTransactions]]]

\* The native replay, on the fixture, of every log it can write and of none.
NativeReplay ==
  [p \in Profiles |-> [b \in Starts[p] |->
     [l \in {<< >>} \cup {s.log : s \in Reachable[p][b]} |-> Replayed(p, b, l)]]]

----------------------------------------------------------------------------
\* remaining_seconds: the query's share of what the campaign has left.
Remaining ==
  LET left == IF CampaignDeadline > used THEN CampaignDeadline - used ELSE 0
  IN  IF QueryTimeout < left THEN QueryTimeout ELSE left

\* What the checks at the top of a step stop the search with, in their
\* order, at time now and with n steps done of a limit; None to go on.
\* Mutant: an exhausted limit is an exhausted search.
StopsComplete(now, n, limit, cancel) ==
  CASE cancel -> "unknown"
    [] Remaining = 0 \/ now >= Remaining -> "timeout"
    [] n >= limit -> "bounded_unsat"
    [] OTHER -> None

Stops(now, n, limit, cancel) ==
  CASE cancel -> "unknown"
    [] Remaining = 0 \/ now >= Remaining -> "timeout"
    [] n >= limit -> "unknown"
    [] OTHER -> None

\* A result: only sat and bounded_unsat are complete.
Verdict(status, witness) ==
  [status |-> status, complete |-> status \in {"sat", "bounded_unsat"},
   witness |-> witness]

Clock == {t \in {elapsed, elapsed + 1} : t <= QueryTimeout}

SearchInit ==
  /\ profile \in Profiles /\ start \in Starts[profile]
  /\ predicate \in Predicate /\ used \in CampaignElapsed
  /\ explorer = "concrete" /\ elapsed = 0
  /\ queue = <<start>> /\ seen = {} /\ blocked = {}
  /\ concrete = None /\ symbolic = None /\ stage = None

ConcreteEnds(result) ==
  /\ concrete' = result
  /\ explorer' = "symbolic" /\ elapsed' = 0 /\ queue' = << >> /\ seen' = {}
  /\ UNCHANGED <<query, blocked, symbolic, stage>>

\* Mutant: the fingerprint leaves out the action log.
FingerprintWithoutLog(s) == <<[s EXCEPT !.log = << >>], Len(s.log)>>

\* _fingerprint: the whole state; what remains of the bounds follows from it.
Fingerprint(s) == s

\* The queue ran empty.
ConcreteExhausted ==
  /\ explorer = "concrete" /\ queue = << >>
  /\ ConcreteEnds(Verdict("bounded_unsat", << >>))

ConcreteStops(now, cancel) ==
  /\ explorer = "concrete" /\ queue # << >>
  /\ LET stop == Stops(now, Cardinality(seen), MaxStates, cancel)
     IN  stop # None /\ ConcreteEnds(Verdict(stop, << >>))

\* The next state of the queue: seen before, a violation, a predicate that
\* raises, or one whose successors are queued.
ConcreteStep(now) ==
  LET s == Head(queue) IN
  /\ explorer = "concrete" /\ queue # << >>
  /\ Stops(now, Cardinality(seen), MaxStates, FALSE) = None
  /\ IF Fingerprint(s) \notin seen /\ Raises(predicate, s)
     THEN ConcreteEnds(Verdict("crash", << >>))
     ELSE IF Fingerprint(s) \notin seen /\ Violates(predicate, s)
     THEN ConcreteEnds(Verdict("sat", s.log))
     ELSE /\ queue' = IF Fingerprint(s) \in seen THEN Tail(queue)
                      ELSE Tail(queue) \o QueuedSuccessors(profile, s)
          /\ seen' = seen \cup {Fingerprint(s)}
          /\ elapsed' = now
          /\ UNCHANGED <<query, explorer, blocked, concrete, symbolic, stage>>

SymbolicEnds(result) ==
  /\ symbolic' = result
  /\ explorer' = "witness" /\ elapsed' = 0 /\ blocked' = {}
  /\ UNCHANGED <<query, queue, seen, concrete, stage>>

\* Before the first check the predicate is tested on the fixture itself.
SymbolicAtInitial ==
  /\ explorer = "symbolic" /\ blocked = {} /\ elapsed = 0
  /\ FirstEventOf(<< >>) = 0
  /\ SymbolicEnds(Verdict(IF Raises(predicate, start) THEN "crash" ELSE "sat", << >>))

SymbolicGoesOn ==
  explorer = "symbolic" /\ FirstEventOf(<< >>) # 0

SymbolicStops(now, cancel) ==
  /\ SymbolicGoesOn
  /\ LET stop == Stops(now, Cardinality(blocked), MaxModels, cancel)
     IN  stop # None /\ SymbolicEnds(Verdict(stop, << >>))

\* check_solver: without a model, and not because there is none: the solver
\* was interrupted by the cancellation, gave up, ran out of its time or
\* failed, or the cancellation callback raised.
SolverGivesUp(now, status) ==
  /\ SymbolicGoesOn
  /\ Stops(now, Cardinality(blocked), MaxModels, FALSE) = None
  /\ status \in {"unknown", "timeout", "crash"}
  /\ SymbolicEnds(Verdict(status, << >>))

SolverFindsNone(now) ==
  /\ SymbolicGoesOn
  /\ Stops(now, Cardinality(blocked), MaxModels, FALSE) = None
  /\ Schedules[profile][start] \ blocked = {}
  /\ SymbolicEnds(Verdict("bounded_unsat", << >>))

\* Mutant: the log of the whole schedule is the evidence.
WholeWitness(schedule) == Scheduled(profile, start, schedule).log

\* _prefix_witness: the fixture's action log up to the violation, with what
\* it had in it before.
PrefixWitness(schedule) ==
  Scheduled(profile, start, SubSeq(schedule, 1, FirstEventOf(schedule))).log

\* A model: its schedule is replayed, the predicate tested along it, and the
\* model blocked when there is nothing to report.  Schedules with nothing to
\* report may come in any order with the same effect: one order is taken.
SolverFindsModel(now, schedule) ==
  LET open == Schedules[profile][start] \ blocked
      quiet(t) == FirstEventOf(t) > Len(t)
      s == Scheduled(profile, start, SubSeq(schedule, 1, FirstEventOf(schedule)))
  IN /\ SymbolicGoesOn
     /\ Stops(now, Cardinality(blocked), MaxModels, FALSE) = None
     /\ schedule \in open
     /\ quiet(schedule) => schedule = CHOOSE t \in open : quiet(t)
     /\ IF ~quiet(schedule)
        THEN SymbolicEnds(IF Raises(predicate, s) THEN Verdict("crash", << >>)
                          ELSE Verdict("sat", PrefixWitness(schedule)))
        ELSE /\ blocked' = blocked \cup {schedule}
             /\ elapsed' = now
             /\ UNCHANGED <<query, explorer, queue, seen, concrete, symbolic, stage>>

\* witness_check: the projected witness is replayed from the same fixture
\* and the predicate is evaluated on the state it leads to.
WitnessCheck ==
  LET s == NativeReplay[profile][start][symbolic.witness] IN
  /\ explorer = "witness"
  /\ explorer' = "done"
  /\ stage' = IF symbolic.status # "sat" \/ ~symbolic.complete THEN "not_applicable"
              ELSE IF s = None \/ Raises(predicate, s) THEN "crash"
              ELSE IF Violates(predicate, s) THEN "passed" ELSE "failed"
  /\ UNCHANGED <<query, elapsed, queue, seen, blocked, concrete, symbolic>>

SearchNext ==
  \/ ConcreteExhausted
  \/ \E now \in Clock, cancel \in {FALSE, MayCancel} : ConcreteStops(now, cancel)
  \/ \E now \in Clock : ConcreteStep(now)
  \/ SymbolicAtInitial
  \/ \E now \in Clock, cancel \in {FALSE, MayCancel} : SymbolicStops(now, cancel)
  \/ \E now \in Clock, status \in {"unknown", "timeout", "crash"} : SolverGivesUp(now, status)
  \/ \E now \in Clock : SolverFindsNone(now)
  \/ \E now \in Clock : \E t \in Schedules[profile][start] : SolverFindsModel(now, t)
  \/ WitnessCheck

SearchSpec == SearchInit /\ [][SearchNext]_searchVars

----------------------------------------------------------------------------
(* A complete verdict is the truth about the whole bounded space, whatever *)
(* the clock, the limits and cancellation did in between: bounded_unsat    *)
(* when no reachable state violates the predicate, sat when one does; so   *)
(* the two explorers never contradict each other (paired_explorer.py:      *)
(* 90-98, symbolic_paired.py:107-116).  For the symbolic one with          *)
(* reordering, for candidates that are enqueued once.                      *)
CompleteVerdictsHold ==
  LET Holds(r) ==
        r # None /\ r.complete =>
          (r.status = "sat" <=> \E s \in Reachable[profile][start] : Violates(predicate, s))
  IN  Holds(concrete) /\ ((profile.duplicates => ~profile.reorder) => Holds(symbolic))

(* What becomes of a complete sat of the symbolic search at the witness    *)
(* check: it passes, its actions leading to a state that violates the      *)
(* predicate, for a fixture without history and for one that violates the  *)
(* predicate as it is; for any other fixture the evidence begins with the  *)
(* history, no replay accepts it, and the check crashes                    *)
(* (fixture.py:110-152, symbolic_paired.py:280-293, 682-700).              *)
SatIsWitnessed ==
  stage # None /\ symbolic.status = "sat" =>
    stage = IF start.log = << >> \/ Violates(predicate, start)
            THEN "passed" ELSE "crash"
============================================================================
