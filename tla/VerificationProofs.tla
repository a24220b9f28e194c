------------------------- MODULE VerificationProofs -------------------------
(***************************************************************************)
(* Theorems about Verification, for every archive, tool, configuration and *)
(* number of commands: the cache file loads, its entries stay, a reported  *)
(* finding was shown by the tools, and the rows tell the truth.            *)
(*                                                                         *)
(* Two arguments meet in the cache.  The files: while no two commands have *)
(* written at once, the one that writes has the temporary file to itself,  *)
(* and a copy that is not behind is the file.  The outcomes: what is said  *)
(* of a candidate (Told) holds when its stages have run, stays true as     *)
(* more is shown, and holds of every candidate with the same key because   *)
(* the hashes identify what they name.                                     *)
(***************************************************************************)
EXTENDS Verification, TLAPS

Active == {"verify", "write", "flush", "replace"}
Writing == {"write", "flush", "replace"}

EntryMaps == UNION {[K -> OutcomeType] : K \in SUBSET Keys}

TallyType == [statuses : SUBSET StageStatus, hits : SUBSET (Nat \ {0})]
RowType ==
  [availability : {"available", "unknown", "unsupported"}, hits : SUBSET (Nat \ {0})]

VerificationTypeOK ==
  /\ archives \in Datasets
  /\ pc \in [Process -> Active \cup {"down", "refused"}]
  /\ config \in [Process -> Config \cup {None}]
  /\ cached \in [Process -> BOOLEAN]
  /\ slot \in [Process -> Nat \ {0}]
  /\ tally \in [Process -> TallyType] /\ rows \in [Process -> Seq(RowType)]
  /\ entries \in [Process -> EntryMaps]
  /\ DOMAIN stored = Process /\ DOMAIN sats = Process
  /\ outcome \in [Process -> OutcomeType \cup {None}]
  /\ handle \in [Process -> {None, "tmp", "file"}]
  /\ file \in EntryMaps \cup {None, Torn} /\ tmp \in EntryMaps \cup {None, Torn}
  /\ overlap \in BOOLEAN

(* Where a command is in its archives, and the outcome it writes, for a    *)
(* key that its copy of the cache does not have.                           *)
Position(p) ==
  /\ pc[p] = "down" => rows[p] = << >> /\ slot[p] = 1 /\ tally[p] = NoTally
  /\ pc[p] # "down" => config[p] \in Config
  /\ Len(rows[p]) <= Len(archives)
  /\ Len(rows[p]) < Len(archives) => slot[p] <= Len(Campaign(p).slots)

HoldsOutcome(p) ==
  pc[p] \in Writing =>
    /\ outcome[p] \in OutcomeType /\ cached[p]
    /\ Len(rows[p]) < Len(archives) /\ Campaign(p).loads
    /\ KeyInHand(p) \in Keys \ DOMAIN entries[p]

InPlace == \A p \in Process : Position(p) /\ HoldsOutcome(p)

(* While no two commands have written at once: one writes at a time, to    *)
(* the temporary file, which then holds its copy and the new entry; and a  *)
(* copy that is not behind is the file.                                    *)
Protocol ==
  /\ file = Torn => overlap
  /\ \A p \in Process : handle[p] # None => pc[p] = "flush"
  /\ ~overlap =>
       /\ \A p, q \in Process :
            pc[p] \in {"flush", "replace"} /\ pc[q] \in {"flush", "replace"} => p = q
       /\ \A p \in Process : pc[p] = "flush" => handle[p] = "tmp"
       /\ \A p \in Process : pc[p] = "replace" => tmp = NewEntries(p)
       /\ \A p \in Process : pc[p] \in Active /\ cached[p] /\ p \notin behind =>
            entries[p] = IF file = None THEN NoEntries ELSE file

----------------------------------------------------------------------------
Undecided == {"crash", "timeout", "unknown", "unsupported"}

Violated(c, g) == Adapted(c, g) = "ready" /\ ~c.request.holds

\* What a hit claims of its candidate, and what a miss does, when the keys S
\* were shown and the keys D disturbed.
ForHit(c, g, S) == Key(c, g) \in S /\ (g.own => Violated(c, g))
ForMiss(c, g, D) ==
  g.own /\ Violated(c, g) /\ c.request.solc # "rejects_predicate" => Key(c, g) \in D

\* What an outcome says of a candidate.
AllPassed(o) == \A i \in 1 .. 4 : o.stages[i] = "passed"

Told(c, g, o, S, D) ==
  /\ o.verified = TRUE => ForHit(c, g, S) /\ AllPassed(o)
  /\ o.verified # TRUE => ForMiss(c, g, D) \/ \E i \in 1 .. 4 : o.stages[i] \in Undecided

Proposals == UNION {{archives[i].slots[j] : j \in DOMAIN archives[i].slots} :
                      i \in DOMAIN archives}

CacheTold(m, P, S, D) ==
  \A k \in DOMAIN m : \A c \in P, g \in Config : Key(c, g) = k => Told(c, g, m[k], S, D)

\* A witness that is kept was answered by a search for its key.
Witnessed ==
  \A p \in Process : \A k \in DOMAIN stored[p] : <<k, stored[p][k]>> \in sats[p]

OutcomeTold(p) ==
  pc[p] \in Writing => Told(InHand(p), config[p], outcome[p], shown, disturbed)

OutcomesTold ==
  /\ \A p \in Process :
       OutcomeTold(p) /\ CacheTold(entries[p], Proposals, shown, disturbed)
  /\ file \notin {None, Torn} => CacheTold(file, Proposals, shown, disturbed)
  /\ tmp \notin {None, Torn} => CacheTold(tmp, Proposals, shown, disturbed)

\* What the hits and the statuses of a tally say of the first n slots.
Tells(slots, n, g, hits, statuses, S, D) ==
  /\ hits \subseteq 1 .. n
  /\ \A j \in 1 .. n :
       /\ j \in hits => ForHit(slots[j], g, S)
       /\ j \notin hits => ForMiss(slots[j], g, D) \/ statuses \cap Undecided # {}

\* The tally of the campaign in hand, and the rows of those before it.
TallyTold(p) ==
  pc[p] # "down" /\ Len(rows[p]) < Len(archives) /\ Campaign(p).loads =>
    Tells(Campaign(p).slots, slot[p] - 1, config[p], tally[p].hits, tally[p].statuses,
          shown, disturbed)

RowsTold(p) ==
  pc[p] # "down" => \A i \in Known(rows[p]) :
    Tells(archives[i].slots, Len(archives[i].slots), config[p], rows[p][i].hits, {},
          shown, disturbed)

CampaignsTold == \A p \in Process : TallyTold(p) /\ RowsTold(p)

Files == VerificationTypeOK /\ InPlace /\ Protocol
Truth == Witnessed /\ OutcomesTold /\ CampaignsTold /\ FindingIsShown

----------------------------------------------------------------------------
(* The stages, one by one: what a stage result can be, and what the tool   *)
(* printed when the stage passed.                                          *)
StageResult ==
  [status : StageStatus, violation : Observation, holds : Observation,
   relevant : Observation]

LEMMA NoneDiffers == /\ None # TRUE /\ None # FALSE
                     /\ \A w \in Witness : w # None
                     /\ None \notin StageStatus /\ None \notin Keys
<1>1. None \notin BOOLEAN
  BY NoneIsApart
<1>2. TRUE \in BOOLEAN /\ FALSE \in BOOLEAN
  OBVIOUS
<1>3. None # TRUE /\ None # FALSE
  BY <1>1, <1>2, Zenon
<1> QED BY <1>3, NoneIsApart

LEMMA ResultMade ==
  ASSUME NEW x, NEW v, NEW h, NEW e
  PROVE  LET R == Result(x, v, h, e) IN
         /\ R.status = x /\ R.violation = v /\ R.holds = h /\ R.relevant = e
         /\ x \in StageStatus /\ v \in Observation /\ h \in Observation /\ e \in Observation
              => R \in StageResult
  BY DEF Result, StageResult

LEMMA PlainMade ==
  ASSUME NEW x
  PROVE  /\ Plain(x).status = x
         /\ Plain(x).violation = None /\ Plain(x).holds = None /\ Plain(x).relevant = None
         /\ x \in StageStatus => Plain(x) \in StageResult
  BY DEF Plain, Result, StageResult, Observation

LEMMA TransportAnswers ==
  ASSUME NEW ran \in Ran
  PROVE  /\ Transport(ran) \in {"unsupported", "timeout", "crash", "unknown", None}
         /\ Transport(ran) = None <=> ran = "answered"
  BY NoneDiffers DEF Transport, Ran, StageStatus

LEMMA SearchResult ==
  ASSUME NEW s \in SearchOutput
  PROVE  /\ Search(s) \in StageResult
         /\ Search(s).status \in {"passed"} \cup Undecided
         /\ Search(s).status = "passed" =>
              /\ s.ran = "answered" /\ s.complete
              /\ (s.status = "bounded_unsat" \/ (s.status = "sat" /\ s.witness # None))
<1>1. /\ s.ran \in Ran /\ s.complete \in BOOLEAN /\ s.violation \in BOOLEAN
      /\ s.status \in {"sat", "bounded_unsat", "unknown", "timeout", "unsupported", "crash"}
  BY DEF SearchOutput
<1>2. CASE s.ran # "answered"
  <2>1. Search(s) = Plain(Transport(s.ran))
    BY <1>1, <1>2, TransportAnswers DEF Search
  <2>2. Transport(s.ran) \in Undecided
    BY <1>1, <1>2, TransportAnswers DEF Undecided
  <2> QED BY <2>1, <2>2, PlainMade DEF StageStatus, Undecided
<1>3. CASE s.ran = "answered" /\ s.status \notin {"sat", "bounded_unsat"}
  BY <1>1, <1>3, TransportAnswers, PlainMade DEF Search, StageStatus, Undecided
<1>4. CASE s.ran = "answered" /\ s.status \in {"sat", "bounded_unsat"} /\ ~s.complete
  BY <1>1, <1>4, TransportAnswers, PlainMade DEF Search, StageStatus, Undecided
<1>5. CASE s.ran = "answered" /\ s.status = "bounded_unsat" /\ s.complete
  <2>1. Search(s) = Result("passed", FALSE, None, None)
    BY <1>1, <1>5, TransportAnswers DEF Search
  <2> QED BY <1>5, <2>1 DEF Result, StageResult, StageStatus, Observation
<1>6. CASE s.ran = "answered" /\ s.status = "sat" /\ s.complete
  <2>1. CASE s.witness # None /\ s.violation
    <3>1. Search(s) = Result("passed", TRUE, None, None)
      BY <1>1, <1>6, <2>1, TransportAnswers DEF Search
    <3> QED BY <1>6, <2>1, <3>1 DEF Result, StageResult, StageStatus, Observation
  <2>2. CASE ~(s.witness # None /\ s.violation)
    BY <1>1, <1>6, <2>2, TransportAnswers, PlainMade DEF Search, StageStatus, Undecided
  <2> QED BY <2>1, <2>2
<1> QED BY <1>1, <1>2, <1>3, <1>4, <1>5, <1>6

LEMMA CheckResult ==
  ASSUME NEW a \in CheckOutput, NEW w
  PROVE  /\ Check(a, w) \in StageResult
         /\ Check(a, w).status = "passed" =>
              /\ w # None /\ a.ran = "answered" /\ a.status = "pass" /\ a.trace = w
              /\ a.violation = TRUE /\ a.holds = FALSE
              /\ Check(a, w).violation = TRUE
<1>1. /\ a.ran \in Ran /\ a.status \in {"pass", "fail", "unknown", "unsupported"}
      /\ a.violation \in Observation /\ a.holds \in Observation
  BY DEF CheckOutput
<1>2. CASE w = None \/ a.ran # "answered"
  BY <1>1, <1>2, TransportAnswers, PlainMade, NoneDiffers DEF Check, StageStatus
<1>3. CASE w # None /\ a.ran = "answered" /\ a.status # "pass"
  BY <1>1, <1>3, TransportAnswers, PlainMade DEF Check, StageStatus
<1>4. CASE w # None /\ a.ran = "answered" /\ a.status = "pass" /\ a.trace # w
  BY <1>1, <1>4, TransportAnswers, PlainMade DEF Check, StageStatus
<1>5. CASE w # None /\ a.ran = "answered" /\ a.status = "pass" /\ a.trace = w
  <2>1. CASE a.violation = None \/ a.holds = None
    <3>1. Check(a, w) = Plain("unknown")
      BY <1>1, <1>5, <2>1, TransportAnswers DEF Check
    <3> QED BY <3>1, PlainMade DEF StageStatus
  <2>2. CASE /\ a.violation \in BOOLEAN /\ a.holds \in BOOLEAN
             /\ ~(a.violation = TRUE /\ a.holds = FALSE)
    <3>1. Check(a, w) = Result("failed", a.violation, a.holds, None)
      BY <1>1, <1>5, <2>2, TransportAnswers, NoneDiffers DEF Check
    <3> QED BY <1>1, <3>1, ResultMade DEF StageStatus, Observation
  <2>3. CASE a.violation = TRUE /\ a.holds = FALSE
    <3>1. Check(a, w) = Result("passed", TRUE, FALSE, None)
      BY <1>1, <1>5, <2>3, TransportAnswers, NoneDiffers DEF Check
    <3>2. /\ Result("passed", TRUE, FALSE, None) \in StageResult
          /\ Result("passed", TRUE, FALSE, None).violation = TRUE
      BY DEF Result, StageResult, StageStatus, Observation
    <3> QED BY <1>5, <2>3, <3>1, <3>2
  <2> QED BY <1>1, <2>1, <2>2, <2>3 DEF Observation
<1> QED BY <1>2, <1>3, <1>4, <1>5

LEMMA ReplayResult ==
  ASSUME NEW r \in ReplayOutput, NEW w
  PROVE  /\ Replay(r, w) \in StageResult
         /\ Replay(r, w).status = "passed" =>
              /\ r.ran = "answered" /\ r.status = "pass" /\ r.trace = w
              /\ r.holds = FALSE
              /\ Replay(r, w).violation = None /\ Replay(r, w).holds = FALSE
              /\ Replay(r, w).relevant = r.relevant /\ r.relevant # None
  BY NoneDiffers
     DEF ReplayOutput, StageResult, Replay, Ran, Plain, Result, StageStatus, Observation

LEMMA GroundingResult ==
  ASSUME NEW c \in Candidate, NEW g \in Config
  PROVE  /\ Grounding(c, g) \in StageResult
         /\ Adapted(c, g) = "ready" => Grounding(c, g).status = "passed"
  BY PlainMade DEF Grounding, StageStatus

----------------------------------------------------------------------------
(* The latest observation of a field is the last one that is made.         *)
LEMMA LatestObservation ==
  ASSUME NEW st \in [1 .. 4 -> StageResult],
         NEW field \in {"violation", "holds", "relevant"}, NEW n \in 1 .. 4,
         st[n][field] # None, \A m \in 1 .. 4 : m > n => st[m][field] = None
  PROVE  Observed(st, field) = st[n][field]
<1> DEFINE made == {i \in DOMAIN st : st[i][field] # None}
<1>1. n \in made /\ \A i \in made : i <= n /\ i \in 1 .. 4
  OBVIOUS
<1> DEFINE last == CHOOSE i \in made : \A j \in made : j <= i
<1>2. last \in made /\ \A j \in made : j <= last
  <2> HIDE DEF made
  <2> QED BY <1>1
<1>3. last = n
  <2> HIDE DEF made, last
  <2> QED BY <1>1, <1>2
<1> QED BY <1>1, <1>3 DEF Observed

LEMMA OutcomeTyped ==
  ASSUME NEW st \in [1 .. 4 -> StageResult]
  PROVE  /\ Outcome(st) \in OutcomeType
         /\ \A i \in 1 .. 4 : Outcome(st).stages[i] = st[i].status
<1> DEFINE failed == {i \in DOMAIN st : st[i].status \notin {"passed", "not_applicable"}}
<1>1. \A i \in 1 .. 4 : st[i] \in StageResult /\ st[i].status \in StageStatus
  BY DEF StageResult
<1>2. [i \in DOMAIN st |-> st[i].status] \in [1 .. 4 -> StageStatus]
  BY <1>1
<1>3. ASSUME failed # {}
      PROVE  (CHOOSE i \in failed : \A j \in failed : i <= j) \in 1 .. 4
  <2>1. failed \subseteq 1 .. 4
    OBVIOUS
  <2>2. \E i \in failed : \A j \in failed : i <= j
    <3> HIDE DEF failed
    <3>1. CASE 1 \in failed
      BY <3>1, <2>1
    <3>2. CASE 1 \notin failed /\ 2 \in failed
      BY <3>2, <2>1
    <3>3. CASE 1 \notin failed /\ 2 \notin failed /\ 3 \in failed
      BY <3>3, <2>1
    <3>4. CASE 1 \notin failed /\ 2 \notin failed /\ 3 \notin failed /\ 4 \in failed
      BY <3>4, <2>1
    <3>5. \A i \in 1 .. 4 : i = 1 \/ i = 2 \/ i = 3 \/ i = 4
      OBVIOUS
    <3> QED BY <3>1, <3>2, <3>3, <3>4, <3>5, <2>1, <1>3
  <2> HIDE DEF failed
  <2> QED BY <2>1, <2>2
<1>4. Outcome(st).failure \in {Stages[i] : i \in 1 .. 4} \cup {None}
  BY <1>3 DEF Outcome
<1>5. Outcome(st).verified \in Observation
  BY DEF Outcome, Observation
<1> QED BY <1>2, <1>4, <1>5 DEF Outcome, OutcomeType

LEMMA StagesTyped ==
  ASSUME NEW c \in Candidate, NEW g \in Config, NEW w, NEW s \in SearchOutput,
         NEW a \in CheckOutput, NEW r \in ReplayOutput
  PROVE  LET st == StagesOf(c, g, w, s, a, r) IN
         /\ st \in [1 .. 4 -> StageResult]
         /\ st[2].status = "passed" => Adapted(c, g) = "ready" /\ g.tools
         /\ Adapted(c, g) = "ready" /\ g.tools =>
              st[1].status = "passed" /\ st[2] = Search(s)
         /\ st[2].status = "passed" => st[3] = Check(a, w)
         /\ st[3].status = "passed" => st[2].status = "passed" /\ st[4] = Replay(r, w)
         /\ st[4].status = "passed" => st[3].status = "passed"
<1> DEFINE st == StagesOf(c, g, w, s, a, r)
<1>1. /\ Grounding(c, g) \in StageResult /\ Search(s) \in StageResult
      /\ Check(a, w) \in StageResult /\ Replay(r, w) \in StageResult
  BY GroundingResult, SearchResult, CheckResult, ReplayResult
<1>2. /\ Plain("not_applicable") \in StageResult /\ Plain("unsupported") \in StageResult
      /\ Plain("not_applicable").status # "passed" /\ Plain("unsupported").status # "passed"
  BY PlainMade DEF StageStatus
<1>3. /\ st[1] = Grounding(c, g)
      /\ st[2] = IF st[1].status # "passed" THEN Plain("not_applicable")
                 ELSE IF Adapted(c, g) # "ready" \/ ~g.tools THEN Plain("unsupported")
                 ELSE Search(s)
      /\ st[3] = IF st[2].status = "passed" THEN Check(a, w) ELSE Plain("not_applicable")
      /\ st[4] = IF st[3].status = "passed" THEN Replay(r, w) ELSE Plain("not_applicable")
  BY DEF StagesOf
<1>4. st = <<st[1], st[2], st[3], st[4]>>
  BY DEF StagesOf
<1> HIDE DEF st
<1>5. /\ st[1] \in StageResult /\ st[2] \in StageResult
      /\ st[3] \in StageResult /\ st[4] \in StageResult
  BY <1>1, <1>2, <1>3
<1>6. st \in [1 .. 4 -> StageResult]
  BY <1>4, <1>5
<1>7. /\ st[2].status = "passed" => Adapted(c, g) = "ready" /\ g.tools
      /\ Adapted(c, g) = "ready" /\ g.tools => st[1].status = "passed" /\ st[2] = Search(s)
  BY <1>2, <1>3, GroundingResult
<1>8. /\ st[2].status = "passed" => st[3] = Check(a, w)
      /\ st[3].status = "passed" => st[2].status = "passed" /\ st[4] = Replay(r, w)
      /\ st[4].status = "passed" => st[3].status = "passed"
  BY <1>2, <1>3
<1> QED BY <1>6, <1>7, <1>8 DEF st

(* An outcome is a finding exactly when all four stages passed and the     *)
(* replay found the violation relevant.                                    *)
LEMMA VerifiedOutcome ==
  ASSUME NEW c \in Candidate, NEW g \in Config, NEW w, NEW s \in SearchOutput,
         NEW a \in CheckOutput, NEW r \in ReplayOutput
  PROVE  LET st == StagesOf(c, g, w, s, a, r) IN
         Outcome(st).verified = TRUE <=> st[4].status = "passed" /\ r.relevant = TRUE
<1> DEFINE st == StagesOf(c, g, w, s, a, r)
<1>1. st \in [1 .. 4 -> StageResult]
  BY StagesTyped
<1>2. ASSUME st[4].status = "passed"
      PROVE  /\ \A i \in 1 .. 4 : st[i].status = "passed"
             /\ st[3] = Check(a, w) /\ st[4] = Replay(r, w)
  <2> HIDE DEF st
  <2>1. /\ st[3].status = "passed" /\ st[2].status = "passed"
        /\ st[3] = Check(a, w) /\ st[4] = Replay(r, w)
    BY <1>2, StagesTyped DEF st
  <2>2. st[1].status = "passed"
    BY <2>1, StagesTyped DEF st
  <2>3. \A i \in 1 .. 4 : i = 1 \/ i = 2 \/ i = 3 \/ i = 4
    OBVIOUS
  <2> QED BY <1>2, <2>1, <2>2, <2>3
<1>3. ASSUME st[4].status = "passed"
      PROVE  /\ Observed(st, "violation") = TRUE /\ Observed(st, "holds") = FALSE
             /\ Observed(st, "relevant") = r.relevant
  <2>1. /\ st[4]["violation"] = None /\ st[3]["violation"] = TRUE
        /\ st[4]["holds"] = FALSE
        /\ st[4]["relevant"] = r.relevant /\ r.relevant # None
    <3> HIDE DEF st
    <3>1. st[3] = Check(a, w) /\ st[4] = Replay(r, w)
      BY <1>2, <1>3
    <3>2. Check(a, w).status = "passed" /\ Replay(r, w).status = "passed"
      BY <1>2, <1>3, <3>1
    <3>3. Check(a, w).violation = TRUE
      BY <3>2, CheckResult
    <3>4. /\ Replay(r, w).violation = None /\ Replay(r, w).holds = FALSE
          /\ Replay(r, w).relevant = r.relevant /\ r.relevant # None
      BY <3>2, ReplayResult
    <3> QED BY <3>1, <3>3, <3>4
  <2> HIDE DEF st
  <2>2. /\ \A m \in 1 .. 4 : m > 3 => st[m]["violation"] = None
        /\ st[3]["violation"] # None /\ st[4]["holds"] # None
        /\ \A m \in 1 .. 4 : ~(m > 4)
    <3>1. \A m \in 1 .. 4 : (m > 3 => m = 4) /\ ~(m > 4)
      OBVIOUS
    <3> QED BY <3>1, <2>1, NoneDiffers
  <2>3. Observed(st, "violation") = st[3]["violation"]
    BY <1>1, <2>2, LatestObservation
  <2>4. Observed(st, "holds") = st[4]["holds"]
    BY <1>1, <2>2, LatestObservation
  <2>5. Observed(st, "relevant") = st[4]["relevant"]
    BY <1>1, <2>1, <2>2, NoneDiffers, LatestObservation
  <2> QED BY <2>1, <2>3, <2>4, <2>5
<1> HIDE DEF st
<1>4. CASE st[4].status # "passed"
  <2>1. 4 \in DOMAIN st
    BY <1>1
  <2> QED BY <1>4, <2>1, NoneDiffers DEF Outcome, st
<1>5. CASE st[4].status = "passed"
  <2>1. ~(\E i \in DOMAIN st : st[i].status # "passed")
    BY <1>1, <1>2, <1>5
  <2>2. Outcome(st).verified = (/\ Observed(st, "violation") = TRUE
                                /\ Observed(st, "holds") = FALSE
                                /\ Observed(st, "relevant") = TRUE)
    BY <2>1 DEF Outcome
  <2> QED BY <1>3, <1>5, <2>2 DEF st
<1> QED BY <1>4, <1>5 DEF st

(* What the tools showed of a candidate whose outcome is a finding.        *)
LEMMA FindingMade ==
  ASSUME NEW c \in Candidate, NEW g \in Config, NEW w, NEW s \in SearchOutput,
         NEW a \in CheckOutput, NEW r \in ReplayOutput,
         Outcome(StagesOf(c, g, w, s, a, r)).verified = TRUE
  PROVE  /\ Adapted(c, g) = "ready" /\ g.tools
         /\ Search(s).status = "passed" /\ w # None /\ Shows({w}, a, r)
         /\ AllPassed(Outcome(StagesOf(c, g, w, s, a, r)))
<1> DEFINE st == StagesOf(c, g, w, s, a, r)
<1>1. st[4].status = "passed" /\ r.relevant = TRUE
  BY VerifiedOutcome
<1>2. /\ st \in [1 .. 4 -> StageResult]
      /\ st[3].status = "passed" /\ st[4] = Replay(r, w)
      /\ st[2].status = "passed" /\ st[3] = Check(a, w)
      /\ Adapted(c, g) = "ready" /\ g.tools
      /\ st[1].status = "passed" /\ st[2] = Search(s)
  <2> HIDE DEF st
  <2>1. st[3].status = "passed" /\ st \in [1 .. 4 -> StageResult]
    BY <1>1, StagesTyped DEF st
  <2>2. st[2].status = "passed" /\ st[4] = Replay(r, w)
    BY <2>1, StagesTyped DEF st
  <2>3. st[3] = Check(a, w) /\ Adapted(c, g) = "ready" /\ g.tools
    BY <2>2, StagesTyped DEF st
  <2>4. st[1].status = "passed" /\ st[2] = Search(s)
    BY <2>3, StagesTyped DEF st
  <2> QED BY <2>1, <2>2, <2>3, <2>4
<1> HIDE DEF st
<1>3. Search(s).status = "passed" /\ Check(a, w).status = "passed" /\ Replay(r, w).status = "passed"
  BY <1>1, <1>2
<1>4. /\ w # None /\ a.ran = "answered" /\ a.status = "pass" /\ a.trace = w
      /\ a.violation = TRUE /\ a.holds = FALSE
  BY <1>3, CheckResult
<1>7. /\ r.ran = "answered" /\ r.status = "pass" /\ r.trace = w /\ r.holds = FALSE
  BY <1>3, ReplayResult
<1>8. Shows({w}, a, r)
  BY <1>1, <1>4, <1>7 DEF Shows
<1>5. \A i \in 1 .. 4 : i = 1 \/ i = 2 \/ i = 3 \/ i = 4
  OBVIOUS
<1>6. AllPassed(Outcome(st))
  BY <1>1, <1>2, <1>5, OutcomeTyped DEF AllPassed
<1> QED BY <1>2, <1>3, <1>4, <1>6, <1>8 DEF st

----------------------------------------------------------------------------
(* SourceExecutor: what it can answer about a candidate.                   *)
OwnSearch(c) ==
  {SearchCommand(c.request, e, Trace[c.form]) : e \in Execution}
    \cup {[SearchPrints("unknown", FALSE, FALSE, None) EXCEPT !.ran = "timeout"]}
OwnCheck(c) ==
  {CheckCommand(c.request, e, Trace[c.form], Trace[c.form]) : e \in Execution}
    \cup {[CheckPrints("unknown", None, None, None) EXCEPT !.ran = "timeout"]}
OwnReplay(c) ==
  {ReplayCommand(c.request, e, Trace[c.form], Trace[c.form]) : e \in Execution}
    \cup {[ReplayPrints("unknown", None, None, None) EXCEPT !.ran = "timeout"]}

LEMMA CandidateTyped ==
  ASSUME NEW c \in Candidate
  PROVE  c.request \in Request /\ c.form \in Form /\ Trace[c.form] \in Witness
  BY VerificationConstants

LEMMA HarnessVerdict ==
  ASSUME NEW q \in Request, NEW e \in Execution
  PROVE  LET h == Harness(q, e) IN
         /\ h.status \in {"pass", "fail", "timeout", "tool_error"} /\ h.marker \in BOOLEAN
         /\ h.status = "pass" => ~q.holds
         /\ h.marker => q.holds \/ q.solc = "rejects_predicate"
<1>1. q.holds \in BOOLEAN
  BY DEF Request
<1>2. \A x, m : Receipt(x, m).status = x /\ Receipt(x, m).marker = m
  BY DEF Receipt
<1>3. \/ Harness(q, e) = Receipt("timeout", FALSE)
      \/ Harness(q, e) = Receipt("tool_error", FALSE)
      \/ Harness(q, e) = Receipt("fail", FALSE)
      \/ Harness(q, e) = Receipt("fail", q.solc = "rejects_predicate")
      \/ Harness(q, e) = Receipt("fail", TRUE) /\ q.holds
      \/ Harness(q, e) = Receipt("pass", FALSE) /\ ~q.holds
  BY DEF Harness
<1> DEFINE h == Harness(q, e)
<1> HIDE DEF h
<1>4. CASE h = Receipt("fail", q.solc = "rejects_predicate")
  BY <1>1, <1>4 DEF Receipt, h
<1>5. CASE h = Receipt("fail", TRUE) /\ q.holds
  BY <1>1, <1>5 DEF Receipt, h
<1>6. CASE h = Receipt("pass", FALSE) /\ ~q.holds
  BY <1>1, <1>6 DEF Receipt, h
<1>7. CASE \E x \in {"timeout", "tool_error", "fail"} : h = Receipt(x, FALSE)
  BY <1>1, <1>7 DEF Receipt, h
<1> QED BY <1>3, <1>4, <1>5, <1>6, <1>7 DEF h

LEMMA RefusalTyped ==
  ASSUME NEW q PROVE Refusal(q) \in {"unsupported", "malformed", None}
  BY DEF Refusal

LEMMA SearchCommandAnswers ==
  ASSUME NEW q \in Request, NEW e \in Execution, NEW trace \in Witness
  PROVE  LET s == SearchCommand(q, e, trace) IN
         /\ s \in SearchOutput /\ s.ran = "answered"
         /\ \/ s.status \in Undecided
            \/ s = SearchPrints("sat", TRUE, TRUE, trace)
            \/ s.status = "bounded_unsat" /\ (q.holds \/ q.solc = "rejects_predicate")
<1> DEFINE h == Harness(q, e)
           s == SearchCommand(q, e, trace)
           Incomplete(status) == SearchPrints(status, FALSE, FALSE, None)
<1>1. /\ h.status \in {"pass", "fail", "timeout", "tool_error"} /\ h.marker \in BOOLEAN
      /\ h.marker => q.holds \/ q.solc = "rejects_predicate"
  BY HarnessVerdict
<1> HIDE DEF h
<1>2. \/ s = Incomplete("unsupported") \/ s = Incomplete("unknown")
      \/ s = Incomplete("timeout") \/ s = Incomplete("crash")
      \/ s = SearchPrints("sat", TRUE, TRUE, trace)
      \/ s = SearchPrints("bounded_unsat", TRUE, FALSE, None) /\ h.marker
  BY <1>1 DEF SearchCommand, h
<1> HIDE DEF s
<1>3. CASE \E x \in {"unsupported", "unknown", "timeout", "crash"} : s = Incomplete(x)
  BY <1>3 DEF SearchPrints, SearchOutput, Ran, Undecided, s
<1>4. CASE s = SearchPrints("sat", TRUE, TRUE, trace)
  BY <1>4 DEF SearchPrints, SearchOutput, Ran, s
<1>5. CASE s = SearchPrints("bounded_unsat", TRUE, FALSE, None) /\ h.marker
  BY <1>1, <1>5 DEF SearchPrints, SearchOutput, Ran, s
<1> QED BY <1>2, <1>3, <1>4, <1>5

LEMMA CheckCommandAnswers ==
  ASSUME NEW q \in Request, NEW e \in Execution, NEW trace \in Witness
  PROVE  LET a == CheckCommand(q, e, trace, trace) IN
         /\ a \in CheckOutput /\ a.ran = "answered"
         /\ \/ a.status \in {"unknown", "unsupported"}
            \/ a = CheckPrints("pass", trace, TRUE, FALSE) /\ ~q.holds
            \/ a.status = "fail"
<1> DEFINE h == Harness(q, e)
           a == CheckCommand(q, e, trace, trace)
<1>1. h.status = "pass" => ~q.holds
  BY HarnessVerdict
<1>2. \/ a = CheckPrints("unsupported", None, None, None)
      \/ a = CheckPrints("unknown", None, None, None)
      \/ a = CheckPrints("pass", trace, TRUE, FALSE) /\ h.status = "pass"
      \/ a = CheckPrints("unknown", trace, None, None)
      \/ a = CheckPrints("fail", trace, FALSE, TRUE)
  BY DEF CheckCommand
<1> HIDE DEF h, a
<1>3. CASE \E x \in {"unsupported", "unknown"}, t \in {trace, None} :
             a = CheckPrints(x, t, None, None)
  BY <1>3 DEF CheckPrints, CheckOutput, Ran, Observation, a
<1>4. CASE a = CheckPrints("pass", trace, TRUE, FALSE) /\ h.status = "pass"
  BY <1>1, <1>4 DEF CheckPrints, CheckOutput, Ran, Observation, a
<1>5. CASE a = CheckPrints("fail", trace, FALSE, TRUE)
  BY <1>5 DEF CheckPrints, CheckOutput, Ran, Observation, a
<1> QED BY <1>2, <1>3, <1>4, <1>5

LEMMA ReplayCommandAnswers ==
  ASSUME NEW q \in Request, NEW e \in Execution, NEW trace \in Witness
  PROVE  LET r == ReplayCommand(q, e, trace, trace) IN
         /\ r \in ReplayOutput /\ r.ran = "answered"
         /\ \/ r.status \in {"unknown", "unsupported"}
            \/ r = ReplayPrints("pass", trace, FALSE, TRUE)
            \/ r.status = "fail"
<1> DEFINE r == ReplayCommand(q, e, trace, trace)
<1>1. \/ r = ReplayPrints("unsupported", None, None, None)
      \/ r = ReplayPrints("unknown", None, None, None)
      \/ r = ReplayPrints("pass", trace, FALSE, TRUE)
      \/ r = ReplayPrints("unknown", trace, None, None)
      \/ r = ReplayPrints("fail", trace, TRUE, TRUE)
  BY DEF ReplayCommand
<1> HIDE DEF r
<1>2. CASE \E x \in {"unsupported", "unknown"}, t \in {trace, None} :
             r = ReplayPrints(x, t, None, None)
  BY <1>2 DEF ReplayPrints, ReplayOutput, Ran, Observation, r
<1>3. CASE r = ReplayPrints("pass", trace, FALSE, TRUE)
  BY <1>3 DEF ReplayPrints, ReplayOutput, Ran, Observation, r
<1>4. CASE r = ReplayPrints("fail", trace, TRUE, TRUE)
  BY <1>4 DEF ReplayPrints, ReplayOutput, Ran, Observation, r
<1> QED BY <1>1, <1>2, <1>3, <1>4

LEMMA OwnTyped ==
  ASSUME NEW c \in Candidate
  PROVE  /\ OwnSearch(c) \subseteq SearchOutput
         /\ OwnCheck(c) \subseteq CheckOutput
         /\ OwnReplay(c) \subseteq ReplayOutput
<1>1. c.request \in Request /\ Trace[c.form] \in Witness
  BY CandidateTyped
<1>2. [SearchPrints("unknown", FALSE, FALSE, None) EXCEPT !.ran = "timeout"] \in SearchOutput
  BY DEF SearchPrints, SearchOutput, Ran
<1>3. [CheckPrints("unknown", None, None, None) EXCEPT !.ran = "timeout"] \in CheckOutput
  BY DEF CheckPrints, CheckOutput, Ran, Observation
<1>4. [ReplayPrints("unknown", None, None, None) EXCEPT !.ran = "timeout"] \in ReplayOutput
  BY DEF ReplayPrints, ReplayOutput, Ran, Observation
<1>5. OwnSearch(c) \subseteq SearchOutput
  BY <1>1, <1>2, SearchCommandAnswers DEF OwnSearch
<1>6. OwnCheck(c) \subseteq CheckOutput
  BY <1>1, <1>3, CheckCommandAnswers DEF OwnCheck
<1>7. OwnReplay(c) \subseteq ReplayOutput
  BY <1>1, <1>4, ReplayCommandAnswers DEF OwnReplay
<1> QED BY <1>5, <1>6, <1>7

LEMMA OwnCheckShows ==
  ASSUME NEW c \in Candidate, NEW a \in OwnCheck(c),
         a.ran = "answered", a.status = "pass"
  PROVE  ~c.request.holds
<1>1. c.request \in Request /\ Trace[c.form] \in Witness
  BY CandidateTyped
<1>2. [CheckPrints("unknown", None, None, None) EXCEPT !.ran = "timeout"].ran = "timeout"
  BY DEF CheckPrints
<1>3. PICK e \in Execution : a = CheckCommand(c.request, e, Trace[c.form], Trace[c.form])
  BY <1>2 DEF OwnCheck
<1> QED BY <1>1, <1>3, CheckCommandAnswers

(* The search for a candidate whose predicate is false keeps the witness   *)
(* of the request, unless it decides nothing.                              *)
LEMMA OwnSearchKeeps ==
  ASSUME NEW c \in Candidate, NEW s \in OwnSearch(c),
         ~c.request.holds, c.request.solc # "rejects_predicate"
  PROVE  \/ Search(s).status \in Undecided
         \/ SearchKeeps(s) /\ s.witness = Trace[c.form]
<1>1. c.request \in Request /\ Trace[c.form] \in Witness /\ s \in SearchOutput
  BY CandidateTyped, OwnTyped
<1>2. CASE s = [SearchPrints("unknown", FALSE, FALSE, None) EXCEPT !.ran = "timeout"]
  <2>1. s.ran # "answered"
    BY <1>2 DEF SearchPrints
  <2> QED BY <1>1, <2>1, SearchResult
<1>3. CASE \E e \in Execution : s = SearchCommand(c.request, e, Trace[c.form])
  <2> PICK e \in Execution : s = SearchCommand(c.request, e, Trace[c.form])
    BY <1>3
  <2>1. s.ran = "answered"
    BY <1>1, SearchCommandAnswers
  <2>2. \/ s.status \in Undecided \/ s = SearchPrints("sat", TRUE, TRUE, Trace[c.form])
        \/ s.status = "bounded_unsat" /\ (c.request.holds \/ c.request.solc = "rejects_predicate")
    BY <1>1, SearchCommandAnswers
  <2>3. CASE s.status \in Undecided
    <3>1. s.status # "sat" /\ s.status # "bounded_unsat"
      BY <2>3 DEF Undecided
    <3> QED BY <1>1, <3>1, SearchResult
  <2>4. CASE s = SearchPrints("sat", TRUE, TRUE, Trace[c.form])
    <3>1. /\ s.status = "sat" /\ s.complete = TRUE /\ s.violation = TRUE
          /\ s.witness = Trace[c.form] /\ s.witness # None
      BY <1>1, <2>4, NoneDiffers DEF SearchPrints
    <3>2. Transport(s.ran) = None
      BY <2>1, TransportAnswers DEF Ran
    <3>3. Search(s) = Result("passed", TRUE, None, None)
      BY <3>1, <3>2 DEF Search
    <3> QED BY <3>1, <3>3 DEF SearchKeeps, Result
  <2> QED BY <2>2, <2>3, <2>4
<1> QED BY <1>2, <1>3 DEF OwnSearch

LEMMA OwnCheckAnswers ==
  ASSUME NEW c \in Candidate, NEW a \in OwnCheck(c)
  PROVE  Check(a, Trace[c.form]).status \in {"passed"} \cup Undecided \/ a.status = "fail"
<1> DEFINE w == Trace[c.form]
<1>1. c.request \in Request /\ w \in Witness /\ a \in CheckOutput /\ w # None
  BY CandidateTyped, OwnTyped, NoneDiffers
<1> HIDE DEF w
<1>2. CASE a = [CheckPrints("unknown", None, None, None) EXCEPT !.ran = "timeout"]
  <2>1. a.ran = "timeout"
    BY <1>2 DEF CheckPrints
  <2>2. Transport(a.ran) = "timeout" /\ "timeout" # None
    BY <2>1, NoneDiffers DEF Transport, StageStatus
  <2>3. Check(a, w) = Plain("timeout")
    BY <1>1, <2>2 DEF Check
  <2> QED BY <2>3, PlainMade DEF Undecided, w
<1>3. CASE \E e \in Execution : a = CheckCommand(c.request, e, w, w)
  <2> PICK e \in Execution : a = CheckCommand(c.request, e, w, w)
    BY <1>3
  <2>1. a.ran = "answered"
    BY <1>1, CheckCommandAnswers
  <2>2. \/ a.status \in {"unknown", "unsupported"} \/ a.status = "fail"
        \/ a = CheckPrints("pass", w, TRUE, FALSE)
    BY <1>1, CheckCommandAnswers
  <2>3. Transport(a.ran) = None
    BY <2>1, TransportAnswers DEF Ran
  <2>4. CASE a.status \in {"unknown", "unsupported"}
    <3>1. Check(a, w) = Plain(a.status)
      BY <1>1, <2>3, <2>4 DEF Check
    <3> QED BY <2>4, <3>1, PlainMade DEF Undecided, w
  <2>5. CASE a = CheckPrints("pass", w, TRUE, FALSE)
    <3>1. /\ a.status = "pass" /\ a.trace = w /\ a.violation = TRUE /\ a.holds = FALSE
      BY <2>5 DEF CheckPrints
    <3>2. Check(a, w) = Result("passed", TRUE, FALSE, None)
      BY <1>1, <2>3, <3>1, NoneDiffers DEF Check
    <3> QED BY <3>2 DEF Result, w
  <2> QED BY <2>2, <2>4, <2>5
<1> QED BY <1>2, <1>3 DEF OwnCheck, w

LEMMA OwnReplayAnswers ==
  ASSUME NEW c \in Candidate, NEW r \in OwnReplay(c)
  PROVE  \/ Replay(r, Trace[c.form]).status \in Undecided
         \/ Replay(r, Trace[c.form]).status = "passed" /\ r.relevant = TRUE
         \/ r.status = "fail"
<1> DEFINE w == Trace[c.form]
<1>1. c.request \in Request /\ w \in Witness /\ r \in ReplayOutput /\ w # None
  BY CandidateTyped, OwnTyped, NoneDiffers
<1> HIDE DEF w
<1>2. CASE r = [ReplayPrints("unknown", None, None, None) EXCEPT !.ran = "timeout"]
  <2>1. r.ran = "timeout"
    BY <1>2 DEF ReplayPrints
  <2>2. Replay(r, w) = Plain("unknown")
    BY <2>1 DEF Replay
  <2> QED BY <2>2, PlainMade DEF Undecided, w
<1>3. CASE \E e \in Execution : r = ReplayCommand(c.request, e, w, w)
  <2> PICK e \in Execution : r = ReplayCommand(c.request, e, w, w)
    BY <1>3
  <2>1. r.ran = "answered"
    BY <1>1, ReplayCommandAnswers
  <2>2. \/ r.status \in {"unknown", "unsupported"} \/ r.status = "fail"
        \/ r = ReplayPrints("pass", w, FALSE, TRUE)
    BY <1>1, ReplayCommandAnswers
  <2>4. CASE r.status \in {"unknown", "unsupported"}
    <3>1. Replay(r, w) = Plain(r.status)
      BY <2>1, <2>4 DEF Replay
    <3> QED BY <2>4, <3>1, PlainMade DEF Undecided, w
  <2>5. CASE r = ReplayPrints("pass", w, FALSE, TRUE)
    <3>1. /\ r.status = "pass" /\ r.trace = w /\ r.holds = FALSE /\ r.relevant = TRUE
      BY <2>5 DEF ReplayPrints
    <3>2. Replay(r, w) = Result("passed", None, FALSE, TRUE)
      BY <1>1, <2>1, <3>1, NoneDiffers DEF Replay
    <3> QED BY <3>1, <3>2 DEF Result, w
  <2> QED BY <2>2, <2>4, <2>5
<1> QED BY <1>2, <1>3 DEF OwnReplay, w

(* What SourceExecutor leaves of a false predicate that compiles: a        *)
(* finding, a stage that decided nothing, or a failed check or replay.     *)
LEMMA MissMade ==
  ASSUME NEW c \in Candidate, NEW g \in Config, NEW kept, NEW s \in OwnSearch(c),
         NEW a \in OwnCheck(c), NEW r \in OwnReplay(c), g.own,
         Violated(c, g), c.request.solc # "rejects_predicate"
  PROVE  LET w == IF SearchKeeps(s) THEN s.witness ELSE kept
             o == Outcome(StagesOf(c, g, w, s, a, r))
         IN  \/ o.verified = TRUE
             \/ \E i \in 1 .. 4 : o.stages[i] \in Undecided
             \/ a.status = "fail" \/ r.status = "fail"
<1> DEFINE w == IF SearchKeeps(s) THEN s.witness ELSE kept
           st == StagesOf(c, g, w, s, a, r)
<1> SUFFICES ASSUME \A i \in 1 .. 4 : Outcome(st).stages[i] \notin Undecided,
                    a.status # "fail", r.status # "fail"
             PROVE  Outcome(st).verified = TRUE
  OBVIOUS
<1>1. g.tools /\ Adapted(c, g) = "ready" /\ ~c.request.holds
  <2>1. g.tools
    BY VerificationConstants
  <2> QED BY <2>1 DEF Violated
<1>2. s \in SearchOutput /\ a \in CheckOutput /\ r \in ReplayOutput
  BY OwnTyped
<1>3. /\ st \in [1 .. 4 -> StageResult] /\ st[2] = Search(s)
      /\ st[2].status = "passed" => st[3] = Check(a, w)
      /\ st[3].status = "passed" => st[4] = Replay(r, w)
  <2> HIDE DEF w
  <2> QED BY <1>1, <1>2, StagesTyped
<1>4. \A i \in 1 .. 4 : st[i].status \notin Undecided
  <2> HIDE DEF st
  <2> QED BY <1>3, OutcomeTyped
<1>5. st[2].status \notin Undecided /\ st[3].status \notin Undecided /\ st[4].status \notin Undecided
  BY <1>4
<1>6. SearchKeeps(s) /\ s.witness = Trace[c.form]
  <2> HIDE DEF st
  <2> QED BY <1>1, <1>3, <1>5, OwnSearchKeeps
<1>7. w = Trace[c.form] /\ Search(s).status = "passed"
  BY <1>6 DEF SearchKeeps
<1> HIDE DEF w, st
<1>8. st[3] = Check(a, w)
  BY <1>3, <1>7
<1>9. Check(a, w).status = "passed"
  BY <1>5, <1>7, <1>8, OwnCheckAnswers
<1>10. st[4] = Replay(r, w)
  BY <1>3, <1>8, <1>9
<1>11. Replay(r, w).status = "passed" /\ r.relevant = TRUE
  BY <1>5, <1>7, <1>10, OwnReplayAnswers
<1> QED BY <1>2, <1>10, <1>11, VerifiedOutcome DEF st

----------------------------------------------------------------------------
(* Maps, keys and the candidate in hand.                                   *)
LEMMA WithFacts ==
  ASSUME NEW m, NEW k, NEW v
  PROVE  /\ DOMAIN With(m, k, v) = DOMAIN m \cup {k}
         /\ With(m, k, v)[k] = v
         /\ \A j \in DOMAIN m : j # k => With(m, k, v)[j] = m[j]
  BY DEF With

LEMMA NoEntriesFacts == NoEntries \in EntryMaps /\ DOMAIN NoEntries = {}
<1>1. NoEntries \in [{} -> OutcomeType]
  BY DEF NoEntries
<1> QED BY <1>1 DEF EntryMaps, NoEntries

LEMMA EntryMapFacts ==
  ASSUME NEW m \in EntryMaps
  PROVE  /\ m # None /\ m # Torn
         /\ DOMAIN m \subseteq Keys
         /\ \A k \in DOMAIN m : m[k] \in OutcomeType
         /\ \A k \in Keys, o \in OutcomeType : With(m, k, o) \in EntryMaps
<1>1. PICK K \in SUBSET Keys : m \in [K -> OutcomeType]
  BY DEF EntryMaps
<1>2. m # None /\ m # Torn
  BY <1>1, FilesDiffer
<1>3. ASSUME NEW k \in Keys, NEW o \in OutcomeType
      PROVE  With(m, k, o) \in EntryMaps
  <2>1. With(m, k, o) \in [K \cup {k} -> OutcomeType]
    BY <1>1 DEF With
  <2>2. K \cup {k} \in SUBSET Keys
    OBVIOUS
  <2> QED BY <2>1, <2>2 DEF EntryMaps
<1> QED BY <1>1, <1>2, <1>3

LEMMA KeyFacts ==
  ASSUME NEW c \in Candidate, NEW g \in Config
  PROVE  /\ Key(c, g) \in Keys \cup {None}
         /\ Key(c, g) # None =>
              Key(c, g) = <<c.form, g.spec>> /\ c.slot = "candidate" /\ c.compiled = "ok"
<1>1. c.form \in Form /\ c.compiled \in {"ok", "abstained", "invalid"}
  BY VerificationConstants
<1>2. <<c.form, g.spec>> \in Keys
  BY <1>1 DEF Keys
<1>3. CASE Adapted(c, g) \in {"abstained", "invalid"}
  BY <1>3 DEF Key
<1>4. CASE Adapted(c, g) \notin {"abstained", "invalid"}
  <2>1. c.slot = "candidate" /\ c.compiled = "ok"
    BY <1>1, <1>4 DEF Adapted
  <2> QED BY <1>2, <1>4, <2>1 DEF Key
<1> QED BY <1>3, <1>4

LEMMA ArchiveFacts ==
  ASSUME archives \in Datasets
  PROVE  /\ Len(archives) \in Nat /\ DOMAIN archives = 1 .. Len(archives)
         /\ \A i \in DOMAIN archives :
              /\ archives[i].slots \in Seq(Candidate)
              /\ archives[i].slots # << >>
              /\ Len(archives[i].slots) \in Nat \ {0}
              /\ DOMAIN archives[i].slots = 1 .. Len(archives[i].slots)
              /\ \A j \in 1 .. Len(archives[i].slots) :
                   archives[i].slots[j] \in Proposals
         /\ Proposals \subseteq Candidate
<1>1. archives \in Seq({archives[i] : i \in DOMAIN archives})
  BY VerificationConstants
<1>2. \A i \in DOMAIN archives : archives[i].slots \in Seq(Candidate) \ {<< >>}
  BY VerificationConstants
<1>3. Len(archives) \in Nat /\ DOMAIN archives = 1 .. Len(archives)
  BY <1>1
<1>4. ASSUME NEW i \in DOMAIN archives
      PROVE  /\ Len(archives[i].slots) \in Nat \ {0}
             /\ DOMAIN archives[i].slots = 1 .. Len(archives[i].slots)
             /\ \A j \in 1 .. Len(archives[i].slots) :
                  archives[i].slots[j] \in Proposals /\ archives[i].slots[j] \in Candidate
  BY <1>2 DEF Proposals
<1>5. Proposals \subseteq Candidate
  BY <1>4 DEF Proposals
<1> QED BY <1>2, <1>3, <1>4, <1>5

LEMMA InHandFacts ==
  ASSUME VerificationTypeOK, NEW p \in Process, Position(p), Len(rows[p]) < Len(archives)
  PROVE  /\ Len(rows[p]) \in Nat /\ Len(rows[p]) + 1 \in DOMAIN archives
         /\ Campaign(p) = archives[Len(rows[p]) + 1]
         /\ Len(Campaign(p).slots) \in Nat \ {0} /\ slot[p] \in 1 .. Len(Campaign(p).slots)
         /\ DOMAIN Campaign(p).slots = 1 .. Len(Campaign(p).slots)
         /\ InHand(p) = Campaign(p).slots[slot[p]]
         /\ InHand(p) \in Proposals /\ InHand(p) \in Candidate
<1>1. Len(rows[p]) \in Nat /\ slot[p] \in Nat \ {0} /\ archives \in Datasets
  BY DEF VerificationTypeOK
<1>2. Len(rows[p]) + 1 \in DOMAIN archives
  BY <1>1, ArchiveFacts
<1>3. slot[p] <= Len(Campaign(p).slots)
  BY DEF Position
<1>4. /\ Len(Campaign(p).slots) \in Nat \ {0}
      /\ DOMAIN Campaign(p).slots = 1 .. Len(Campaign(p).slots)
      /\ \A j \in 1 .. Len(Campaign(p).slots) : Campaign(p).slots[j] \in Proposals
      /\ Proposals \subseteq Candidate
  BY <1>1, <1>2, ArchiveFacts DEF Campaign
<1>5. slot[p] \in 1 .. Len(Campaign(p).slots)
  BY <1>1, <1>3, <1>4
<1> QED BY <1>1, <1>2, <1>4, <1>5 DEF InHand, Campaign

(* The hashes identify what they name: one key, one candidate and one      *)
(* configuration.                                                          *)
LEMMA SameKey ==
  ASSUME archives \in Datasets, NEW c \in Proposals, NEW e \in Proposals,
         NEW g \in Config, NEW h \in Config, Key(c, g) = Key(e, h), Key(c, g) # None
  PROVE  c = e /\ g = h
<1>1. c \in Candidate /\ e \in Candidate
  BY ArchiveFacts
<1>2. /\ c.form = e.form /\ g.spec = h.spec
      /\ c.slot = "candidate" /\ e.slot = "candidate"
      /\ c.compiled = "ok" /\ e.compiled = "ok"
  BY <1>1, KeyFacts
<1>3. PICK i \in DOMAIN archives : c \in {archives[i].slots[n] : n \in DOMAIN archives[i].slots}
  BY DEF Proposals
<1>4. PICK j \in DOMAIN archives : e \in {archives[j].slots[n] : n \in DOMAIN archives[j].slots}
  BY DEF Proposals
<1>5. {c.slot, e.slot} = {"candidate"} /\ {c.compiled, e.compiled} = {"ok"}
  BY <1>2
<1>6. c = e
  BY <1>2, <1>3, <1>4, <1>5, HashesIdentify
<1>7. g = h
  BY <1>2, HashesIdentify
<1> QED BY <1>6, <1>7

(* What is told stays true as more is shown.                               *)
LEMMA ToldGrows ==
  ASSUME NEW S, NEW T, S \subseteq T, NEW D, NEW E, D \subseteq E
  PROVE  /\ \A c, g : ForHit(c, g, S) => ForHit(c, g, T)
         /\ \A c, g : ForMiss(c, g, D) => ForMiss(c, g, E)
         /\ \A c, g, o : Told(c, g, o, S, D) => Told(c, g, o, T, E)
         /\ \A m, P : CacheTold(m, P, S, D) => CacheTold(m, P, T, E)
         /\ \A slots, n, g, hits, statuses :
              Tells(slots, n, g, hits, statuses, S, D) => Tells(slots, n, g, hits, statuses, T, E)
<1>1. \A c, g : ForHit(c, g, S) => ForHit(c, g, T)
  BY DEF ForHit
<1>2. \A c, g : ForMiss(c, g, D) => ForMiss(c, g, E)
  BY DEF ForMiss
<1>3. \A c, g, o : Told(c, g, o, S, D) => Told(c, g, o, T, E)
  BY <1>1, <1>2 DEF Told
<1>4. \A m, P : CacheTold(m, P, S, D) => CacheTold(m, P, T, E)
  BY <1>3 DEF CacheTold
<1>5. \A slots, n, g, hits, statuses :
        Tells(slots, n, g, hits, statuses, S, D) => Tells(slots, n, g, hits, statuses, T, E)
  BY <1>1, <1>2 DEF Tells
<1> QED BY <1>1, <1>2, <1>3, <1>4, <1>5

(* A copy with an outcome that is told of its candidate is told.           *)
LEMMA NewEntriesTold ==
  ASSUME VerificationTypeOK, NEW p \in Process, Position(p), pc[p] \in Writing,
         HoldsOutcome(p), OutcomeTold(p),
         CacheTold(entries[p], Proposals, shown, disturbed)
  PROVE  /\ NewEntries(p) \in EntryMaps
         /\ CacheTold(NewEntries(p), Proposals, shown, disturbed)
<1>1. /\ entries[p] \in EntryMaps /\ archives \in Datasets /\ config[p] \in Config
      /\ outcome[p] \in OutcomeType /\ KeyInHand(p) \in Keys
      /\ InHand(p) \in Proposals
  BY InHandFacts DEF VerificationTypeOK, HoldsOutcome, Position, Writing
<1>2. NewEntries(p) \in EntryMaps
  BY <1>1, EntryMapFacts DEF NewEntries
<1>3. ASSUME NEW k \in DOMAIN NewEntries(p), NEW c \in Proposals, NEW g \in Config,
             Key(c, g) = k
      PROVE  Told(c, g, NewEntries(p)[k], shown, disturbed)
  <2>1. CASE k = KeyInHand(p)
    <3>1. Key(c, g) # None
      BY <1>1, <1>3, <2>1, NoneDiffers
    <3>2. c = InHand(p) /\ g = config[p]
      BY <1>1, <1>3, <2>1, <3>1, SameKey DEF KeyInHand
    <3>3. NewEntries(p)[k] = outcome[p]
      BY <2>1 DEF NewEntries, With
    <3> QED BY <3>2, <3>3 DEF OutcomeTold
  <2>2. CASE k # KeyInHand(p)
    <3>1. k \in DOMAIN entries[p] /\ NewEntries(p)[k] = entries[p][k]
      BY <1>3, <2>2 DEF NewEntries, With
    <3> QED BY <1>3, <3>1 DEF CacheTold
  <2> QED BY <2>1, <2>2
<1> QED BY <1>2, <1>3 DEF CacheTold

----------------------------------------------------------------------------
(* Reporting an outcome: where the command is afterwards.                  *)
LEMMA ReportMoves ==
  ASSUME VerificationTypeOK, NEW p \in Process, Position(p), pc[p] # "down",
         Len(rows[p]) < Len(archives), NEW o \in OutcomeType, Report(p, o),
         archives' = archives, config' = config
  PROVE  /\ slot' \in [Process -> Nat \ {0}] /\ tally' \in [Process -> TallyType]
         /\ rows' \in [Process -> Seq(RowType)]
         /\ Len(rows'[p]) <= Len(archives)
         /\ Len(rows'[p]) < Len(archives) => slot'[p] <= Len(archives[Len(rows'[p]) + 1].slots)
         /\ \A q \in Process : q # p =>
              slot'[q] = slot[q] /\ tally'[q] = tally[q] /\ rows'[q] = rows[q]
<1> DEFINE t == Tallied(tally[p], slot[p], o)
           last == slot[p] = Len(Campaign(p).slots)
<1>1. /\ slot \in [Process -> Nat \ {0}] /\ tally \in [Process -> TallyType]
      /\ rows \in [Process -> Seq(RowType)] /\ archives \in Datasets
  BY DEF VerificationTypeOK
<1>2. /\ slot' = [slot EXCEPT ![p] = IF last THEN 1 ELSE slot[p] + 1]
      /\ tally' = [tally EXCEPT ![p] = IF last THEN NoTally ELSE t]
      /\ rows' = IF last THEN [rows EXCEPT ![p] = Append(rows[p], Row(Campaign(p), t))]
                 ELSE rows
  BY DEF Report
<1>3. t \in TallyType
  <2>1. \A i \in 1 .. 4 : o.stages[i] \in StageStatus
    BY DEF OutcomeType
  <2>2. DOMAIN o.stages = 1 .. 4
    BY DEF OutcomeType
  <2>3. /\ tally[p].statuses \in SUBSET StageStatus /\ tally[p].hits \in SUBSET (Nat \ {0})
        /\ slot[p] \in Nat \ {0}
    BY <1>1 DEF TallyType
  <2> QED BY <2>1, <2>2, <2>3 DEF Tallied, TallyType
<1>4. NoTally \in TallyType
  BY DEF NoTally, TallyType
<1>5. Row(Campaign(p), t) \in RowType
  BY <1>3 DEF Row, RowType, TallyType
<1> HIDE DEF t
<1>6. /\ slot' \in [Process -> Nat \ {0}] /\ tally' \in [Process -> TallyType]
      /\ rows' \in [Process -> Seq(RowType)]
  BY <1>1, <1>2, <1>3, <1>4, <1>5
<1>7. /\ Len(rows[p]) \in Nat /\ Len(archives) \in Nat
      /\ \A i \in DOMAIN archives : Len(archives[i].slots) \in Nat \ {0}
      /\ DOMAIN archives = 1 .. Len(archives)
      /\ Campaign(p) = archives[Len(rows[p]) + 1]
      /\ slot[p] \in 1 .. Len(Campaign(p).slots)
  BY <1>1, ArchiveFacts, InHandFacts
<1>8. CASE last
  <2>1. Len(rows'[p]) = Len(rows[p]) + 1 /\ slot'[p] = 1
    BY <1>1, <1>2, <1>5, <1>8
  <2>2. Len(rows'[p]) < Len(archives) => Len(rows'[p]) + 1 \in DOMAIN archives
    BY <1>7, <2>1
  <2> QED BY <1>2, <1>6, <1>7, <2>1, <2>2
<1>9. CASE ~last
  <2>1. rows' = rows /\ slot'[p] = slot[p] + 1
    BY <1>1, <1>2, <1>9
  <2> QED BY <1>2, <1>6, <1>7, <1>9, <2>1
<1> QED BY <1>8, <1>9

(* Reporting an outcome that is told: what is told of the tally and rows.  *)
LEMMA ReportTells ==
  ASSUME VerificationTypeOK, NEW p \in Process, Position(p), pc[p] # "down",
         Len(rows[p]) < Len(archives), NEW o \in OutcomeType, Report(p, o),
         archives' = archives, config' = config,
         shown \subseteq shown', disturbed \subseteq disturbed',
         TallyTold(p), RowsTold(p), FindingIsShown,
         Campaign(p).loads => Told(InHand(p), config[p], o, shown', disturbed'),
         ~Campaign(p).loads => o.verified # TRUE
  PROVE  TallyTold(p)' /\ RowsTold(p)' /\ FindingIsShown'
<1> DEFINE n == Len(rows[p]) + 1
           A == archives[n]
           g == config[p]
           t == Tallied(tally[p], slot[p], o)
           last == slot[p] = Len(A.slots)
<1>1. /\ slot \in [Process -> Nat \ {0}] /\ tally \in [Process -> TallyType]
      /\ rows \in [Process -> Seq(RowType)] /\ archives \in Datasets
  BY DEF VerificationTypeOK
<1>2. /\ slot' = [slot EXCEPT ![p] = IF last THEN 1 ELSE slot[p] + 1]
      /\ tally' = [tally EXCEPT ![p] = IF last THEN NoTally ELSE t]
      /\ rows' = IF last THEN [rows EXCEPT ![p] = Append(rows[p], Row(A, t))] ELSE rows
      /\ findings' = IF o.verified = TRUE
                     THEN findings \cup {<<KeyInHand(p), o.stages>>} ELSE findings
  BY DEF Report, Campaign
<1>3. /\ Len(rows[p]) \in Nat /\ n \in DOMAIN archives /\ Campaign(p) = A
      /\ slot[p] \in 1 .. Len(A.slots) /\ Len(A.slots) \in Nat
      /\ DOMAIN A.slots = 1 .. Len(A.slots) /\ InHand(p) = A.slots[slot[p]]
  BY InHandFacts
<1>4. DOMAIN o.stages = 1 .. 4
  BY DEF OutcomeType
<1>5. /\ t.statuses = tally[p].statuses \cup {o.stages[j] : j \in 1 .. 4}
      /\ t.hits = IF o.verified = TRUE THEN tally[p].hits \cup {slot[p]} ELSE tally[p].hits
  BY <1>4 DEF Tallied
<1> HIDE DEF t
<1>10. \A slots, m, h, hits, statuses : Tells(slots, m, h, hits, statuses, shown, disturbed)
         => Tells(slots, m, h, hits, statuses, shown', disturbed')
  BY ToldGrows
<1>6. FindingIsShown'
  <2>1. CASE o.verified = TRUE
    <3>1. Told(InHand(p), config[p], o, shown', disturbed')
      BY <2>1
    <3>2. KeyInHand(p) \in shown' /\ \A i \in 1 .. 4 : o.stages[i] = "passed"
      BY <2>1, <3>1 DEF Told, AllPassed, ForHit, KeyInHand
    <3>3. DOMAIN Stages = 1 .. 4
      BY DEF Stages
    <3> QED BY <1>2, <2>1, <3>2, <3>3 DEF FindingIsShown
  <2>2. CASE o.verified # TRUE
    BY <1>2, <2>2 DEF FindingIsShown
  <2> QED BY <2>1, <2>2
(* The tally with the outcome in it speaks of the candidates so far.       *)
<1>7. ASSUME A.loads
      PROVE  Tells(A.slots, slot[p], g, t.hits, t.statuses, shown', disturbed')
  <2>1. Tells(A.slots, slot[p] - 1, g, tally[p].hits, tally[p].statuses, shown', disturbed')
    BY <1>3, <1>7, <1>10 DEF TallyTold
  <2>2. Told(A.slots[slot[p]], g, o, shown', disturbed')
    BY <1>3, <1>7
  <2>3. t.hits \subseteq 1 .. slot[p]
    BY <1>3, <1>5, <2>1 DEF Tells
  <2>4. ASSUME NEW j \in 1 .. slot[p] - 1
        PROVE  /\ j \in t.hits => ForHit(A.slots[j], g, shown')
               /\ j \notin t.hits =>
                    ForMiss(A.slots[j], g, disturbed') \/ t.statuses \cap Undecided # {}
    <3>1. j \in t.hits <=> j \in tally[p].hits
      BY <1>3, <1>5
    <3> QED BY <1>5, <2>1, <3>1 DEF Tells
  <2>5. /\ slot[p] \in t.hits => ForHit(A.slots[slot[p]], g, shown')
        /\ slot[p] \notin t.hits =>
             ForMiss(A.slots[slot[p]], g, disturbed') \/ t.statuses \cap Undecided # {}
    <3>1. slot[p] \notin tally[p].hits
      BY <1>3, <2>1 DEF Tells
    <3>2. CASE o.verified = TRUE
      BY <1>5, <2>2, <3>2 DEF Told
    <3>3. CASE o.verified # TRUE
      BY <1>5, <2>2, <3>1, <3>3 DEF Told
    <3> QED BY <3>2, <3>3
  <2>6. \A j \in 1 .. slot[p] : j = slot[p] \/ j \in 1 .. slot[p] - 1
    BY <1>3
  <2> QED BY <2>3, <2>4, <2>5, <2>6 DEF Tells
<1>8. CASE last
  <2>1. /\ slot'[p] = 1 /\ tally'[p].hits = {}
        /\ rows'[p] = Append(rows[p], Row(A, t))
    BY <1>1, <1>2, <1>8 DEF NoTally
  <2>2. TallyTold(p)'
    BY <2>1 DEF TallyTold, Tells
  <2>3. ASSUME NEW i \in Known(rows'[p])
        PROVE  Tells(archives[i].slots, Len(archives[i].slots), g, rows'[p][i].hits, {},
                     shown', disturbed')
    <3>1. /\ i \in 1 .. n /\ rows'[p][i].availability = "available"
          /\ i < n => rows'[p][i] = rows[p][i] /\ i \in DOMAIN rows[p]
          /\ rows'[p][n] = Row(A, t)
      BY <1>1, <1>3, <2>1 DEF Known
    <3>2. CASE i = n
      <4>1. /\ A.loads /\ t.statuses \cap {"crash", "timeout", "unknown"} = {}
            /\ "unsupported" \notin t.statuses /\ rows'[p][n].hits = t.hits
        BY <3>1, <3>2 DEF Row
      <4>2. t.statuses \cap Undecided = {}
        BY <4>1 DEF Undecided
      <4>3. Tells(A.slots, Len(A.slots), g, t.hits, t.statuses, shown', disturbed')
        BY <1>7, <1>8, <4>1
      <4> QED BY <3>2, <4>1, <4>2, <4>3 DEF Tells
    <3>3. CASE i < n
      <4>1. i \in Known(rows[p]) /\ rows'[p][i] = rows[p][i]
        BY <3>1, <3>3 DEF Known
      <4>2. Tells(archives[i].slots, Len(archives[i].slots), g, rows[p][i].hits, {},
                  shown, disturbed)
        BY <4>1 DEF RowsTold
      <4> QED BY <1>10, <4>1, <4>2
    <3> QED BY <1>3, <3>1, <3>2, <3>3
  <2>4. RowsTold(p)'
    BY <2>3 DEF RowsTold
  <2> QED BY <1>6, <2>2, <2>4
<1>9. CASE ~last
  <2>1. slot'[p] = slot[p] + 1 /\ tally'[p] = t /\ rows' = rows
    BY <1>1, <1>2, <1>9
  <2>2. TallyTold(p)'
    <3>1. Campaign(p)' = A /\ slot'[p] - 1 = slot[p]
      BY <1>3, <2>1 DEF Campaign
    <3> QED BY <1>7, <2>1, <3>1 DEF TallyTold
  <2>3. RowsTold(p)'
    BY <1>10, <2>1 DEF RowsTold
  <2> QED BY <1>6, <2>2, <2>3
<1> QED BY <1>8, <1>9

----------------------------------------------------------------------------
(* Running the stages: the tools answer what tools can answer, and the     *)
(* outcome is told of the candidate in hand.                               *)
OwnAnswers(c, s, a, r) == s \in OwnSearch(c) /\ a \in OwnCheck(c) /\ r \in OwnReplay(c)

LEMMA RunAnswers ==
  ASSUME VerificationTypeOK, NEW p \in Process, Position(p), RunOther(p) \/ RunOwn(p)
  PROVE  /\ Deciding(p)
         /\ \E s \in SearchOutput, a \in CheckOutput, r \in ReplayOutput :
              Run(p, s, a, r) /\ (config[p].own => OwnAnswers(InHand(p), s, a, r))
<1>1. Deciding(p)
  BY DEF RunOther, RunOwn
<1>2. InHand(p) \in Candidate
  BY <1>1, InHandFacts DEF Deciding, Verifying
<1>3. CASE RunOther(p)
  <2>1. PICK s \in SearchAnswer, a \in CheckAnswer, r \in ReplayAnswer : Run(p, s, a, r)
    BY <1>3 DEF RunOther
  <2>2. s \in SearchOutput /\ a \in CheckOutput /\ r \in ReplayOutput
    BY ToolAnswers
  <2>3. ~config[p].own
    BY <1>3 DEF RunOther
  <2> QED BY <1>1, <2>1, <2>2, <2>3
<1>4. CASE RunOwn(p)
  <2>1. PICK s \in OwnSearch(InHand(p)), a \in OwnCheck(InHand(p)),
             r \in OwnReplay(InHand(p)) : Run(p, s, a, r)
    BY <1>4 DEF RunOwn, OwnSearch, OwnCheck, OwnReplay
  <2>2. s \in SearchOutput /\ a \in CheckOutput /\ r \in ReplayOutput
    BY <1>2, OwnTyped
  <2> QED BY <1>1, <2>1, <2>2 DEF OwnAnswers
<1> QED BY <1>3, <1>4

LEMMA RunTells ==
  ASSUME VerificationTypeOK, NEW p \in Process, Position(p), Deciding(p), Witnessed,
         NEW s \in SearchOutput, NEW a \in CheckOutput, NEW r \in ReplayOutput,
         Run(p, s, a, r), config[p].own => OwnAnswers(InHand(p), s, a, r)
  PROVE  /\ shown \subseteq shown' /\ disturbed \subseteq disturbed' /\ Witnessed'
         /\ \E o \in OutcomeType :
              /\ Told(InHand(p), config[p], o, shown', disturbed')
              /\ IF cached[p] /\ KeyInHand(p) # None
                 THEN /\ outcome' = [outcome EXCEPT ![p] = o]
                      /\ pc' = [pc EXCEPT ![p] = "write"]
                      /\ UNCHANGED report
                 ELSE Report(p, o) /\ UNCHANGED <<outcome, pc>>
<1> DEFINE c == InHand(p)
           g == config[p]
           k == KeyInHand(p)
           ran == Adapted(c, g) = "ready" /\ g.tools
           keeps == ran /\ SearchKeeps(s)
           w == IF keeps THEN s.witness ELSE Kept(p, k)
           found == {x[2] : x \in {y \in sats'[p] : y[1] = k}}
           o == Outcome(StagesOf(c, g, w, s, a, r))
<1>1. /\ stored' = IF keeps THEN [stored EXCEPT ![p] = With(stored[p], k, s.witness)] ELSE stored
      /\ sats' = IF ran /\ s.ran = "answered" /\ s.status = "sat" /\ s.complete
                 THEN [sats EXCEPT ![p] = sats[p] \cup {<<k, s.witness>>}] ELSE sats
      /\ shown' = IF ran /\ Shows(found, a, r) THEN shown \cup {k} ELSE shown
      /\ disturbed' = IF ran /\ (a.status = "fail" \/ r.status = "fail" \/ r.ran = "nonzero_exit")
                      THEN disturbed \cup {k} ELSE disturbed
      /\ IF cached[p] /\ k # None
         THEN /\ outcome' = [outcome EXCEPT ![p] = o]
              /\ pc' = [pc EXCEPT ![p] = "write"]
              /\ UNCHANGED report
         ELSE Report(p, o) /\ UNCHANGED <<outcome, pc>>
  BY DEF Run
<1>2. c \in Candidate /\ g \in Config
  BY InHandFacts DEF Deciding, Verifying, Position
<1>3. /\ DOMAIN stored = Process /\ DOMAIN sats = Process
  BY DEF VerificationTypeOK
<1>4. shown \subseteq shown' /\ disturbed \subseteq disturbed'
  BY <1>1
<1>5. \A q \in Process : sats[q] \subseteq sats'[q]
  BY <1>1, <1>3
<1>6. keeps => <<k, s.witness>> \in sats'[p]
  <2> SUFFICES ASSUME keeps PROVE <<k, s.witness>> \in sats'[p]
    OBVIOUS
  <2>1. ran /\ s.status = "sat" /\ s.ran = "answered" /\ s.complete
    BY SearchResult DEF SearchKeeps
  <2> QED BY <1>1, <1>3, <2>1
<1> HIDE DEF o, found, w, keeps, ran, c, g, k
<1>7. Witnessed'
  <2> SUFFICES ASSUME NEW q \in Process, NEW j \in DOMAIN stored'[q]
               PROVE  <<j, stored'[q][j]>> \in sats'[q]
    BY DEF Witnessed
  <2>1. CASE keeps /\ q = p /\ j = k
    <3>1. stored'[q][j] = s.witness
      BY <1>1, <1>3, <2>1 DEF With
    <3> QED BY <1>6, <2>1, <3>1
  <2>2. CASE ~(keeps /\ q = p /\ j = k)
    <3>1. j \in DOMAIN stored[q] /\ stored'[q][j] = stored[q][j]
      BY <1>1, <1>3, <2>2 DEF With
    <3> QED BY <1>5, <3>1 DEF Witnessed
  <2> QED BY <2>1, <2>2
<1>8. o \in OutcomeType
  BY <1>2, StagesTyped, OutcomeTyped DEF o
<1>9. ASSUME o.verified = TRUE
      PROVE  ForHit(c, g, shown') /\ AllPassed(o)
  <2>1. /\ Adapted(c, g) = "ready" /\ g.tools /\ Search(s).status = "passed"
        /\ w # None /\ Shows({w}, a, r) /\ AllPassed(o)
    <3>1. Outcome(StagesOf(c, g, w, s, a, r)).verified = TRUE
      BY <1>9 DEF o
    <3>2. /\ Adapted(c, g) = "ready" /\ g.tools
          /\ Search(s).status = "passed" /\ w # None /\ Shows({w}, a, r)
      BY <1>2, <3>1, FindingMade
    <3>3. AllPassed(o)
      BY <1>2, <3>1, FindingMade DEF o
    <3> QED BY <3>2, <3>3
  <2>2. <<k, w>> \in sats'[p]
    <3>1. CASE keeps
      BY <1>6, <3>1 DEF w
    <3>2. CASE ~keeps
      <4>1. k \in DOMAIN stored[p] /\ w = stored[p][k]
        BY <2>1, <3>2 DEF w, Kept
      <4> QED BY <1>5, <4>1 DEF Witnessed
    <3> QED BY <3>1, <3>2
  <2>3. w \in found
    <3>1. <<k, w>>[1] = k /\ <<k, w>>[2] = w
      OBVIOUS
    <3> QED BY <2>2, <3>1 DEF found
  <2>4. Shows(found, a, r)
    BY <2>1, <2>3 DEF Shows
  <2>5. k \in shown'
    BY <1>1, <2>1, <2>4 DEF ran
  <2>6. k = Key(c, g)
    BY DEF k, c, g, KeyInHand
  <2>7. ASSUME g.own PROVE Violated(c, g)
    <3>1. a \in OwnCheck(c)
      BY <2>7 DEF OwnAnswers, c, g
    <3>2. a.ran = "answered" /\ a.status = "pass"
      BY <2>1 DEF Shows
    <3> QED BY <1>2, <2>1, <3>1, <3>2, OwnCheckShows DEF Violated
  <2> QED BY <2>1, <2>5, <2>6, <2>7 DEF ForHit
<1>10. ASSUME o.verified # TRUE
       PROVE  ForMiss(c, g, disturbed') \/ \E i \in 1 .. 4 : o.stages[i] \in Undecided
  <2> SUFFICES ASSUME g.own, Violated(c, g), c.request.solc # "rejects_predicate",
                      \A i \in 1 .. 4 : o.stages[i] \notin Undecided
               PROVE  Key(c, g) \in disturbed'
    BY DEF ForMiss
  <2>1. OwnAnswers(c, s, a, r)
    BY DEF c, g
  <2>2. ran
    BY <1>2, VerificationConstants DEF ran, Violated
  <2>3. w = IF SearchKeeps(s) THEN s.witness ELSE Kept(p, k)
    BY <2>2 DEF w, keeps
  <2>4. a.status = "fail" \/ r.status = "fail"
    BY <1>2, <1>10, <2>1, <2>3, MissMade DEF o, OwnAnswers
  <2>5. k = Key(c, g)
    BY DEF k, c, g, KeyInHand
  <2> QED BY <1>1, <2>2, <2>4, <2>5
<1>11. Told(c, g, o, shown', disturbed')
  BY <1>9, <1>10 DEF Told
<1> QED BY <1>1, <1>4, <1>7, <1>8, <1>11 DEF c, g, k

----------------------------------------------------------------------------
(* A command that a step does not touch keeps its place and its outcome.   *)
Same(q) ==
  /\ pc'[q] = pc[q] /\ config'[q] = config[q] /\ cached'[q] = cached[q]
  /\ slot'[q] = slot[q] /\ tally'[q] = tally[q] /\ rows'[q] = rows[q]
  /\ entries'[q] = entries[q] /\ outcome'[q] = outcome[q]

LEMMA SameKeeps ==
  ASSUME archives' = archives, NEW q \in Process, Same(q)
  PROVE  /\ Position(q) => Position(q)'
         /\ HoldsOutcome(q) => HoldsOutcome(q)'
         /\ NewEntries(q)' = NewEntries(q)
         /\ InHand(q)' = InHand(q)
<1>1. Campaign(q)' = Campaign(q)
  BY DEF Campaign, Same
<1>2. InHand(q)' = InHand(q)
  BY <1>1 DEF InHand, Same
<1>3. KeyInHand(q)' = KeyInHand(q)
  BY <1>2 DEF KeyInHand, Same
<1>4. NewEntries(q)' = NewEntries(q)
  BY <1>3 DEF NewEntries, Same
<1>5. Position(q) => Position(q)'
  BY <1>1 DEF Position, Same
<1>6. HoldsOutcome(q) => HoldsOutcome(q)'
  BY <1>1, <1>3 DEF HoldsOutcome, Same
<1> QED BY <1>2, <1>4, <1>5, <1>6

LEMMA SameTells ==
  ASSUME archives' = archives, shown \subseteq shown', disturbed \subseteq disturbed',
         NEW q \in Process, Same(q)
  PROVE  /\ OutcomeTold(q) => OutcomeTold(q)'
         /\ TallyTold(q) => TallyTold(q)'
         /\ RowsTold(q) => RowsTold(q)'
         /\ CacheTold(entries[q], Proposals, shown, disturbed) =>
              CacheTold(entries'[q], Proposals, shown', disturbed')
<1>1. Campaign(q)' = Campaign(q) /\ InHand(q)' = InHand(q)
  BY SameKeeps DEF Campaign, Same
<1>2. \A c, g, o : Told(c, g, o, shown, disturbed) => Told(c, g, o, shown', disturbed')
  BY ToldGrows
<1>3. \A slots, m, g, hits, statuses : Tells(slots, m, g, hits, statuses, shown, disturbed)
        => Tells(slots, m, g, hits, statuses, shown', disturbed')
  BY ToldGrows
<1>4. \A m, P : CacheTold(m, P, shown, disturbed) => CacheTold(m, P, shown', disturbed')
  BY ToldGrows
<1>5. OutcomeTold(q) => OutcomeTold(q)'
  BY <1>1, <1>2 DEF OutcomeTold, Same
<1>6. TallyTold(q) => TallyTold(q)'
  BY <1>1, <1>3 DEF TallyTold, Same
<1>7. RowsTold(q) => RowsTold(q)'
  BY <1>3 DEF RowsTold, Same
<1> QED BY <1>4, <1>5, <1>6, <1>7 DEF Same

----------------------------------------------------------------------------
(* The invariant of the files, action by action.                           *)
LEMMA FilesInitially == VerificationInit => Files
<1> SUFFICES ASSUME VerificationInit PROVE Files
  OBVIOUS
<1> USE DEF VerificationInit
<1>1. Len(archives) \in Nat /\ \A i \in DOMAIN archives : Len(archives[i].slots) \in Nat \ {0}
  BY ArchiveFacts
<1>2. DOMAIN archives = 1 .. Len(archives)
  BY ArchiveFacts
<1>3. VerificationTypeOK
  <2>1. NoTally \in TallyType /\ << >> \in Seq(RowType)
    BY DEF NoTally, TallyType
  <2>2. cached \in [Process -> BOOLEAN] /\ overlap \in BOOLEAN
    OBVIOUS
  <2>3. /\ pc \in [Process -> Active \cup {"down", "refused"}]
        /\ config \in [Process -> Config \cup {None}] /\ slot \in [Process -> Nat \ {0}]
        /\ DOMAIN stored = Process /\ DOMAIN sats = Process
    OBVIOUS
  <2>4. /\ outcome \in [Process -> OutcomeType \cup {None}]
        /\ handle \in [Process -> {None, "tmp", "file"}]
    OBVIOUS
  <2>5. /\ tally \in [Process -> TallyType] /\ rows \in [Process -> Seq(RowType)]
        /\ entries \in [Process -> EntryMaps]
    BY <2>1, NoEntriesFacts
  <2> QED BY <2>2, <2>3, <2>4, <2>5 DEF VerificationTypeOK
<1>4. ASSUME NEW p \in Process PROVE Position(p) /\ HoldsOutcome(p)
  <2>1. rows[p] = << >> /\ slot[p] = 1 /\ tally[p] = NoTally /\ pc[p] = "down"
    OBVIOUS
  <2>2. Len(rows[p]) = 0
    BY <2>1
  <2>3. Len(rows[p]) < Len(archives) => Len(Campaign(p).slots) \in Nat \ {0}
    BY <1>1, <1>2, <2>2 DEF Campaign
  <2> QED BY <1>1, <2>1, <2>2, <2>3 DEF Position, HoldsOutcome, Writing
<1>5. Protocol
  BY FilesDiffer DEF Protocol, Active
<1> QED BY <1>3, <1>4, <1>5 DEF Files, InPlace

LEMMA StartFiles ==
  ASSUME Files, NEW p \in Process, NEW g \in Config, NEW c \in BOOLEAN, Start(p, g, c)
  PROVE  Files'
<1> USE DEF Files
<1>1. /\ pc[p] = "down" /\ archives' = archives
      /\ config' = [config EXCEPT ![p] = g] /\ cached' = [cached EXCEPT ![p] = c]
      /\ \/ pc' = [pc EXCEPT ![p] = "refused"] /\ entries' = entries
         \/ /\ pc' = [pc EXCEPT ![p] = "verify"] /\ ~(c /\ file = Torn)
            /\ entries' = [entries EXCEPT ![p] = IF c /\ file # None THEN file ELSE NoEntries]
      /\ behind' = behind \ {p} /\ UNCHANGED <<report, stored, outcome, handle, disk,
                                               sats, shown, overlap, disturbed>>
  BY DEF Start
<1>2. VerificationTypeOK'
  <2>1. (c /\ file # None /\ file # Torn) => file \in EntryMaps
    BY DEF VerificationTypeOK
  <2>2. cached' \in [Process -> BOOLEAN] /\ overlap' \in BOOLEAN
    BY <1>1 DEF VerificationTypeOK
  <2>3. pc' \in [Process -> Active \cup {"down", "refused"}]
    BY <1>1 DEF VerificationTypeOK, Active
  <2>4. entries' \in [Process -> EntryMaps]
    <3>1. ~(c /\ file = Torn) =>
            (IF c /\ file # None THEN file ELSE NoEntries) \in EntryMaps
      BY <2>1, NoEntriesFacts
    <3>2. entries \in [Process -> EntryMaps]
      BY DEF VerificationTypeOK
    <3> DEFINE e == IF c /\ file # None THEN file ELSE NoEntries
    <3> HIDE DEF e
    <3>3. \/ entries' = entries
          \/ entries' = [entries EXCEPT ![p] = e] /\ e \in EntryMaps
      BY <1>1, <3>1 DEF e
    <3> QED BY <3>2, <3>3
  <2> QED BY <1>1, <2>2, <2>3, <2>4 DEF VerificationTypeOK, report, disk
<1>3. \A q \in Process \ {p} : Same(q)
  BY <1>1 DEF VerificationTypeOK, Same, report
<1>4. InPlace'
  <2>1. Position(p)' /\ HoldsOutcome(p)'
    <3>1. /\ pc'[p] \in {"refused", "verify"} /\ config'[p] \in Config
          /\ rows'[p] = rows[p] /\ slot'[p] = slot[p]
      BY <1>1 DEF VerificationTypeOK, report
    <3> QED BY <1>1, <3>1 DEF InPlace, Position, HoldsOutcome, Writing, Campaign
  <2> QED BY <1>1, <1>3, <2>1, SameKeeps DEF InPlace
<1>5. Protocol'
  <2>1. /\ pc'[p] \in {"refused", "verify"} /\ cached'[p] = c /\ handle[p] = None
        /\ pc'[p] = "verify" => entries'[p] = IF c /\ file # None THEN file ELSE NoEntries
    BY <1>1 DEF VerificationTypeOK, Protocol
  <2>2. \A q \in Process \ {p} : NewEntries(q)' = NewEntries(q)
    BY <1>1, <1>3, SameKeeps
  <2>3. \A q \in Process \ {p} : /\ pc'[q] = pc[q] /\ entries'[q] = entries[q]
                                 /\ cached'[q] = cached[q] /\ (q \in behind' <=> q \in behind)
    BY <1>1, <1>3 DEF Same
  <2> QED BY <1>1, <2>1, <2>2, <2>3 DEF Protocol, Active, disk
<1> QED BY <1>2, <1>4, <1>5

(* The files stay as they are while a command only reports.                *)
LEMMA ReportFiles ==
  ASSUME Files, NEW p \in Process, Verifying(p), NEW o \in OutcomeType, Report(p, o),
         UNCHANGED <<archives, pc, config, cached, entries, outcome, handle, disk,
                     overlap, behind>>,
         DOMAIN stored' = Process, DOMAIN sats' = Process
  PROVE  Files'
<1> USE DEF Files
<1>1. pc[p] = "verify" /\ Len(rows[p]) < Len(archives) /\ Position(p)
  BY DEF Verifying, InPlace
<1>2. /\ slot' \in [Process -> Nat \ {0}] /\ tally' \in [Process -> TallyType]
      /\ rows' \in [Process -> Seq(RowType)]
      /\ Len(rows'[p]) <= Len(archives)
      /\ Len(rows'[p]) < Len(archives) => slot'[p] <= Len(archives[Len(rows'[p]) + 1].slots)
      /\ \A q \in Process : q # p =>
           slot'[q] = slot[q] /\ tally'[q] = tally[q] /\ rows'[q] = rows[q]
  BY <1>1, ReportMoves
<1>3. VerificationTypeOK'
  BY <1>2 DEF VerificationTypeOK, disk
<1>4. \A q \in Process \ {p} : Same(q)
  BY <1>2 DEF Same
<1>5. InPlace'
  <2>1. Position(p)' /\ HoldsOutcome(p)'
    BY <1>1, <1>2 DEF Position, HoldsOutcome, Writing, Campaign
  <2> QED BY <1>4, <2>1, SameKeeps DEF InPlace
<1>6. Protocol'
  <2>1. \A q \in Process \ {p} : NewEntries(q)' = NewEntries(q)
    BY <1>4, SameKeeps
  <2> QED BY <1>1, <2>1 DEF Protocol, disk
<1> QED BY <1>3, <1>5, <1>6

LEMMA UnavailableOutcome ==
  ASSUME NEW c
  PROVE  Unavailable(c) \in OutcomeType /\ Unavailable(c).verified # TRUE
<1> DEFINE first == IF c.slot = "candidate" THEN "unsupported" ELSE "not_applicable"
           st == <<first, "not_applicable", "not_applicable", "not_applicable">>
           failure == IF c.slot = "candidate" THEN "grounding" ELSE None
           failures == {Stages[i] : i \in 1 .. 4} \cup {None}
<1>1. st \in [1 .. 4 -> StageStatus]
  BY DEF StageStatus
<1>2. Stages[1] = "grounding"
  BY DEF Stages
<1>3. failure \in failures
  BY <1>2
<1>4. None \in Observation
  BY DEF Observation
<1>5. Unavailable(c) = [stages |-> st, verified |-> None, failure |-> failure]
  BY DEF Unavailable
<1>6. OutcomeType = [stages : [1 .. 4 -> StageStatus], verified : Observation, failure : failures]
  BY DEF OutcomeType
<1>7. Unavailable(c).verified = None
  BY DEF Unavailable
<1> HIDE DEF st, failure, failures
<1>8. Unavailable(c) \in OutcomeType
  BY <1>1, <1>3, <1>4, <1>5, <1>6
<1> QED BY <1>7, <1>8, NoneDiffers

LEMMA ReportUnavailableFiles ==
  ASSUME Files, NEW p \in Process, ReportUnavailable(p) PROVE Files'
<1>1. /\ Verifying(p) /\ Report(p, Unavailable(InHand(p)))
      /\ UNCHANGED <<archives, command, disk, starts, history>>
  BY DEF ReportUnavailable, Deciding
<1>2. Unavailable(InHand(p)) \in OutcomeType
  BY UnavailableOutcome
<1>3. DOMAIN stored' = Process /\ DOMAIN sats' = Process
  BY <1>1 DEF Files, VerificationTypeOK, command, history
<1> QED BY <1>1, <1>2, <1>3, ReportFiles DEF command, history

LEMMA HitFiles ==
  ASSUME Files, NEW p \in Process, Hit(p) PROVE Files'
<1>1. /\ Verifying(p) /\ Report(p, entries[p][KeyInHand(p)]) /\ Answered(p)
      /\ UNCHANGED <<archives, command, disk, starts, history>>
  BY DEF Hit, Deciding
<1>2. entries[p][KeyInHand(p)] \in OutcomeType
  BY <1>1, EntryMapFacts DEF Files, VerificationTypeOK, Answered
<1>3. DOMAIN stored' = Process /\ DOMAIN sats' = Process
  BY <1>1 DEF Files, VerificationTypeOK, command, history
<1> QED BY <1>1, <1>2, <1>3, ReportFiles DEF command, history

(* A command that the manifest or a lost temporary file makes stop.        *)
LEMMA RefusedFiles ==
  ASSUME Files, NEW p \in Process, pc[p] # "down", pc' = [pc EXCEPT ![p] = "refused"],
         outcome' = [outcome EXCEPT ![p] = outcome'[p]],
         outcome'[p] \in OutcomeType \cup {None},
         pc[p] = "flush" => handle[p] = None,
         UNCHANGED <<archives, report, config, cached, entries, stored, handle, disk,
                     starts, history>>
  PROVE  Files'
<1> USE DEF Files
<1>1. pc'[p] = "refused" /\ \A q \in Process \ {p} : pc'[q] = pc[q] /\ outcome'[q] = outcome[q]
  BY DEF VerificationTypeOK
<1>2. VerificationTypeOK'
  BY DEF VerificationTypeOK, report, disk, history
<1>3. \A q \in Process \ {p} : Same(q)
  BY <1>1 DEF Same, report
<1>4. InPlace'
  <2>1. Position(p)' /\ HoldsOutcome(p)'
    BY <1>1 DEF InPlace, Position, HoldsOutcome, Writing, Campaign, report
  <2> QED BY <1>3, <2>1, SameKeeps DEF InPlace
<1>5. Protocol'
  <2>1. \A q \in Process \ {p} : NewEntries(q)' = NewEntries(q)
    BY <1>3, SameKeeps
  <2> QED BY <1>1, <2>1 DEF Protocol, Active, disk, history
<1> QED BY <1>2, <1>4, <1>5

LEMMA UnlistedFiles ==
  ASSUME Files, NEW p \in Process, Unlisted(p) PROVE Files'
<1>1. outcome' = outcome /\ pc[p] = "verify"
  BY DEF Unlisted, Verifying
<1>2. outcome' = [outcome EXCEPT ![p] = outcome'[p]] /\ outcome'[p] \in OutcomeType \cup {None}
  BY <1>1 DEF Files, VerificationTypeOK
<1> QED BY <1>1, <1>2, RefusedFiles DEF Unlisted

LEMMA ReplaceFailsFiles ==
  ASSUME Files, NEW p \in Process, ReplaceFails(p) PROVE Files'
<1>1. outcome' = [outcome EXCEPT ![p] = None] /\ pc[p] = "replace"
  BY DEF ReplaceFails
<1>2. outcome' = [outcome EXCEPT ![p] = outcome'[p]] /\ outcome'[p] \in OutcomeType \cup {None}
  BY <1>1 DEF Files, VerificationTypeOK
<1> QED BY <1>1, <1>2, RefusedFiles DEF ReplaceFails

LEMMA RunFiles ==
  ASSUME Files, Witnessed, NEW p \in Process, RunOther(p) \/ RunOwn(p) PROVE Files'
<1> USE DEF Files
<1>1. Position(p)
  BY DEF InPlace
<1>2. PICK s \in SearchOutput, a \in CheckOutput, r \in ReplayOutput :
        Run(p, s, a, r) /\ (config[p].own => OwnAnswers(InHand(p), s, a, r))
  BY <1>1, RunAnswers
<1>3. Verifying(p) /\ Deciding(p)
  BY <1>1, RunAnswers DEF Deciding
<1>4. PICK o \in OutcomeType :
        IF cached[p] /\ KeyInHand(p) # None
        THEN /\ outcome' = [outcome EXCEPT ![p] = o]
             /\ pc' = [pc EXCEPT ![p] = "write"]
             /\ UNCHANGED report
        ELSE Report(p, o) /\ UNCHANGED <<outcome, pc>>
  BY <1>1, <1>2, <1>3, RunTells
<1>5. /\ UNCHANGED <<archives, config, cached, entries, handle, disk, overlap, behind>>
      /\ Campaign(p).loads /\ ~Answered(p)
      /\ DOMAIN stored' = Process /\ DOMAIN sats' = Process
  BY <1>2 DEF Run, VerificationTypeOK
<1>6. CASE ~(cached[p] /\ KeyInHand(p) # None)
  BY <1>3, <1>4, <1>5, <1>6, ReportFiles
<1>7. CASE cached[p] /\ KeyInHand(p) # None
  <2>1. /\ outcome' = [outcome EXCEPT ![p] = o]
        /\ pc' = [pc EXCEPT ![p] = "write"]
        /\ UNCHANGED report
    BY <1>4, <1>7
  <2>2. /\ pc[p] = "verify" /\ pc'[p] = "write" /\ outcome'[p] = o
        /\ \A q \in Process \ {p} : pc'[q] = pc[q] /\ outcome'[q] = outcome[q]
    BY <1>3, <2>1 DEF VerificationTypeOK, Verifying
  <2>3. VerificationTypeOK'
    BY <1>5, <2>1 DEF VerificationTypeOK, Active, report, disk
  <2>4. \A q \in Process \ {p} : Same(q)
    BY <1>5, <2>1, <2>2 DEF Same, report
  <2>5. KeyInHand(p) \in Keys \ DOMAIN entries[p]
    <3>1. InHand(p) \in Candidate /\ config[p] \in Config
      BY <1>1, <1>3, InHandFacts DEF Verifying, Position
    <3> QED BY <1>5, <1>7, <3>1, KeyFacts DEF KeyInHand, Answered
  <2>6. Position(p)' /\ HoldsOutcome(p)'
    <3>1. Campaign(p)' = Campaign(p) /\ KeyInHand(p)' = KeyInHand(p)
      BY <1>5, <2>1 DEF report, Campaign, KeyInHand, InHand
    <3>2. /\ rows' = rows /\ slot' = slot /\ tally' = tally /\ archives' = archives
          /\ config' = config /\ cached' = cached /\ entries' = entries
      BY <1>5, <2>1 DEF report
    <3>3. Len(rows[p]) < Len(archives)
      BY <1>3 DEF Verifying
    <3>4. Position(p)'
      BY <1>1, <2>2, <3>1, <3>2 DEF Position
    <3> QED BY <1>5, <1>7, <2>2, <2>5, <3>1, <3>2, <3>3, <3>4 DEF HoldsOutcome
  <2>7. InPlace'
    BY <1>5, <2>4, <2>6, SameKeeps DEF InPlace
  <2>8. Protocol'
    <3>1. \A q \in Process \ {p} : NewEntries(q)' = NewEntries(q)
      BY <1>5, <2>4, SameKeeps
    <3> QED BY <1>5, <2>2, <3>1 DEF Protocol, Active, disk
  <2> QED BY <2>3, <2>7, <2>8
<1> QED BY <1>6, <1>7

LEMMA OpenFiles ==
  ASSUME Files, NEW p \in Process, Open(p) PROVE Files'
<1> USE DEF Files
<1>1. /\ pc[p] = "write" /\ pc' = [pc EXCEPT ![p] = "flush"]
      /\ handle' = [handle EXCEPT ![p] = "tmp"] /\ tmp' = Torn
      /\ overlap' = (overlap \/ \E q \in Process : pc[q] \in {"flush", "replace"})
      /\ UNCHANGED <<archives, report, config, cached, entries, stored, outcome,
                     file, starts, sats, shown, behind, disturbed>>
  BY DEF Open
<1>2. /\ pc'[p] = "flush" /\ handle'[p] = "tmp"
      /\ \A q \in Process \ {p} : pc'[q] = pc[q] /\ handle'[q] = handle[q]
  BY <1>1 DEF VerificationTypeOK
<1>3. VerificationTypeOK'
  <2>1. overlap' \in BOOLEAN
    BY <1>1
  <2> QED BY <1>1, <2>1 DEF VerificationTypeOK, Active, report
<1>4. \A q \in Process \ {p} : Same(q)
  BY <1>1, <1>2 DEF Same, report
<1>5. InPlace'
  <2>1. Campaign(p)' = Campaign(p) /\ KeyInHand(p)' = KeyInHand(p)
    BY <1>1 DEF report, Campaign, KeyInHand, InHand
  <2>2. Position(p)' /\ HoldsOutcome(p)'
    BY <1>1, <1>2, <2>1 DEF InPlace, Position, HoldsOutcome, Writing, report
  <2> QED BY <1>1, <1>4, <2>2, SameKeeps DEF InPlace
<1>6. Protocol'
  <2>1. \A q \in Process \ {p} : NewEntries(q)' = NewEntries(q)
    BY <1>1, <1>4, SameKeeps
  <2>2. ~overlap' => ~overlap /\ \A q \in Process : pc[q] \notin {"flush", "replace"}
    BY <1>1
  <2> QED BY <1>1, <1>2, <2>1, <2>2 DEF Protocol, Active
<1> QED BY <1>3, <1>5, <1>6

LEMMA FlushFiles ==
  ASSUME Files, NEW p \in Process, Flush(p) PROVE Files'
<1> USE DEF Files
<1>1. /\ pc[p] = "flush" /\ pc' = [pc EXCEPT ![p] = "replace"]
      /\ handle' = [handle EXCEPT ![p] = None]
      /\ UNCHANGED <<archives, report, config, cached, entries, stored, outcome,
                     starts, history>>
  BY DEF Flush
<1>2. PICK text \in {NewEntries(p)} \cup (IF overlap THEN {Torn} ELSE {}) :
        IF handle[p] = "tmp" THEN tmp' = text /\ UNCHANGED file
        ELSE file' = text /\ UNCHANGED tmp
  BY DEF Flush
<1>3. /\ pc'[p] = "replace" /\ handle'[p] = None
      /\ \A q \in Process \ {p} : pc'[q] = pc[q] /\ handle'[q] = handle[q]
  BY <1>1 DEF VerificationTypeOK
<1>4. NewEntries(p) \in EntryMaps
  <2>1. KeyInHand(p) \in Keys /\ outcome[p] \in OutcomeType
    BY <1>1 DEF InPlace, HoldsOutcome, Writing
  <2> QED BY <2>1, EntryMapFacts DEF VerificationTypeOK, NewEntries
<1>5. VerificationTypeOK'
  BY <1>1, <1>2, <1>4 DEF VerificationTypeOK, Active, report, history
<1>6. \A q \in Process \ {p} : Same(q)
  BY <1>1, <1>3 DEF Same, report
<1>7. InPlace'
  <2>1. Campaign(p)' = Campaign(p) /\ KeyInHand(p)' = KeyInHand(p)
    BY <1>1 DEF report, Campaign, KeyInHand, InHand
  <2>2. Position(p)' /\ HoldsOutcome(p)'
    BY <1>1, <1>3, <2>1 DEF InPlace, Position, HoldsOutcome, Writing, report
  <2> QED BY <1>1, <1>6, <2>2, SameKeeps DEF InPlace
<1>8. Protocol'
  <2>1. \A q \in Process : NewEntries(q)' = NewEntries(q)
    BY <1>1 DEF NewEntries, KeyInHand, InHand, Campaign, report
  <2>2. overlap' = overlap /\ behind' = behind
    BY <1>1 DEF history
  <2>3. ~overlap => /\ handle[p] = "tmp" /\ tmp' = NewEntries(p) /\ file' = file
                    /\ \A q \in Process \ {p} : pc[q] \notin {"flush", "replace"}
    BY <1>1, <1>2 DEF Protocol
  <2>4. file' = Torn => overlap
    BY <1>2, <1>4, EntryMapFacts DEF Protocol
  <2> QED BY <1>1, <1>3, <2>1, <2>2, <2>3, <2>4 DEF Protocol, Active
<1> QED BY <1>5, <1>7, <1>8

LEMMA EndFiles ==
  ASSUME Files, NEW p \in Process, End(p) PROVE Files'
<1> USE DEF Files
<1>1. /\ pc' = [pc EXCEPT ![p] = "down"] /\ entries' = [entries EXCEPT ![p] = NoEntries]
      /\ stored' = [stored EXCEPT ![p] = NoEntries] /\ outcome' = [outcome EXCEPT ![p] = None]
      /\ handle' = [handle EXCEPT ![p] = None] /\ slot' = [slot EXCEPT ![p] = 1]
      /\ tally' = [tally EXCEPT ![p] = NoTally] /\ rows' = [rows EXCEPT ![p] = << >>]
      /\ sats' = [sats EXCEPT ![p] = {}] /\ config' = [config EXCEPT ![p] = None]
      /\ cached' = [cached EXCEPT ![p] = FALSE] /\ behind' = behind \ {p}
      /\ UNCHANGED <<archives, disk, starts, findings, shown, overlap, disturbed>>
  BY DEF End
<1>2. /\ pc'[p] = "down" /\ handle'[p] = None
      /\ rows'[p] = << >> /\ slot'[p] = 1 /\ tally'[p] = NoTally
      /\ \A q \in Process \ {p} : pc'[q] = pc[q] /\ handle'[q] = handle[q]
  BY <1>1 DEF VerificationTypeOK
<1>3. VerificationTypeOK'
  <2>1. NoTally \in TallyType /\ << >> \in Seq(RowType)
    BY DEF NoTally, TallyType
  <2>2. cached' \in [Process -> BOOLEAN]
    BY <1>1 DEF VerificationTypeOK
  <2>3. /\ slot' \in [Process -> Nat \ {0}] /\ tally' \in [Process -> TallyType]
        /\ rows' \in [Process -> Seq(RowType)] /\ entries' \in [Process -> EntryMaps]
    BY <1>1, <2>1, NoEntriesFacts DEF VerificationTypeOK
  <2>4. /\ pc' \in [Process -> Active \cup {"down", "refused"}]
        /\ config' \in [Process -> Config \cup {None}]
        /\ outcome' \in [Process -> OutcomeType \cup {None}]
        /\ handle' \in [Process -> {None, "tmp", "file"}]
        /\ DOMAIN stored' = Process /\ DOMAIN sats' = Process
    BY <1>1 DEF VerificationTypeOK
  <2> QED BY <1>1, <2>2, <2>3, <2>4 DEF VerificationTypeOK, disk
<1>4. \A q \in Process \ {p} : Same(q)
  BY <1>1 DEF VerificationTypeOK, Same
<1>5. InPlace'
  <2>1. Len(archives) \in Nat /\ DOMAIN archives = 1 .. Len(archives)
        /\ \A i \in DOMAIN archives : Len(archives[i].slots) \in Nat \ {0}
    BY ArchiveFacts DEF VerificationTypeOK
  <2>2. Len(rows'[p]) = 0
    BY <1>2
  <2>3. Position(p)' /\ HoldsOutcome(p)'
    <3>1. archives' = archives
      BY <1>1
    <3>2. Len(archives) > 0 => Len(archives[1].slots) \in Nat \ {0}
      BY <2>1
    <3>3. Len(rows'[p]) + 1 = 1
      BY <2>2
    <3> QED BY <1>2, <2>1, <2>2, <3>1, <3>2, <3>3 DEF Position, HoldsOutcome, Writing, Campaign
  <2> QED BY <1>1, <1>4, <2>3, SameKeeps DEF InPlace
<1>6. Protocol'
  <2>1. \A q \in Process \ {p} : NewEntries(q)' = NewEntries(q)
    BY <1>1, <1>4, SameKeeps
  <2>2. \A q \in Process \ {p} : /\ entries'[q] = entries[q] /\ cached'[q] = cached[q]
                                 /\ (q \in behind' <=> q \in behind)
    BY <1>1, <1>4 DEF Same
  <2> QED BY <1>1, <1>2, <2>1, <2>2 DEF Protocol, Active, disk
<1> QED BY <1>3, <1>5, <1>6

LEMMA ReplaceFiles ==
  ASSUME Files, NEW p \in Process, Replace(p) PROVE Files'
<1> USE DEF Files
<1>1. /\ pc[p] = "replace" /\ tmp # None /\ file' = tmp /\ tmp' = None
      /\ handle' = [q \in Process |-> IF handle[q] = "tmp" THEN "file" ELSE handle[q]]
      /\ entries' = [entries EXCEPT ![p] = NewEntries(p)]
      /\ Report(p, outcome[p])
      /\ pc' = [pc EXCEPT ![p] = "verify"]
      /\ outcome' = [outcome EXCEPT ![p] = None]
      /\ behind' = behind \cup {q \in Process \ {p} : pc[q] # "down"}
      /\ UNCHANGED <<archives, config, cached, stored, starts, sats, shown, overlap,
                     disturbed>>
  BY DEF Replace
<1>2. /\ outcome[p] \in OutcomeType /\ KeyInHand(p) \in Keys \ DOMAIN entries[p] /\ cached[p]
      /\ Len(rows[p]) < Len(archives) /\ Position(p)
  BY <1>1 DEF InPlace, HoldsOutcome, Writing
<1>3. NewEntries(p) \in EntryMaps
  BY <1>2, EntryMapFacts DEF VerificationTypeOK, NewEntries
<1>4. /\ slot' \in [Process -> Nat \ {0}] /\ tally' \in [Process -> TallyType]
      /\ rows' \in [Process -> Seq(RowType)]
      /\ Len(rows'[p]) <= Len(archives)
      /\ Len(rows'[p]) < Len(archives) => slot'[p] <= Len(archives[Len(rows'[p]) + 1].slots)
      /\ \A q \in Process : q # p =>
           slot'[q] = slot[q] /\ tally'[q] = tally[q] /\ rows'[q] = rows[q]
  BY <1>1, <1>2, ReportMoves
<1>5. /\ pc'[p] = "verify" /\ entries'[p] = NewEntries(p)
      /\ \A q \in Process \ {p} : /\ pc'[q] = pc[q] /\ entries'[q] = entries[q]
                                  /\ outcome'[q] = outcome[q]
  BY <1>1 DEF VerificationTypeOK
<1>6. VerificationTypeOK'
  <2>1. handle' \in [Process -> {None, "tmp", "file"}]
    BY <1>1 DEF VerificationTypeOK
  <2> QED BY <1>1, <1>3, <1>4, <2>1 DEF VerificationTypeOK, Active
<1>7. \A q \in Process \ {p} : Same(q)
  BY <1>1, <1>4, <1>5 DEF Same
<1>8. InPlace'
  <2>1. Position(p)' /\ HoldsOutcome(p)'
    BY <1>1, <1>2, <1>4, <1>5 DEF Position, HoldsOutcome, Writing, Campaign
  <2> QED BY <1>1, <1>7, <2>1, SameKeeps DEF InPlace
<1>9. Protocol'
  <2>1. \A q \in Process \ {p} : NewEntries(q)' = NewEntries(q)
    BY <1>1, <1>7, SameKeeps
  <2>2. \A q \in Process : handle'[q] # None => handle[q] # None
    BY <1>1, NoneIsApart
  <2>3. ~overlap => /\ \A q \in Process \ {p} : pc[q] \notin {"flush", "replace"}
                    /\ tmp = NewEntries(p)
    BY <1>1 DEF Protocol
  <2>4. /\ file' = Torn => overlap
        /\ ~overlap => file' # None /\ entries'[p] = file'
    BY <1>1, <1>3, <1>5, <2>3, EntryMapFacts
  <2>5. \A q \in Process \ {p} : pc'[q] \in Active => q \in behind'
    BY <1>1, <1>5 DEF Active
  <2>6. \A q \in Process : handle'[q] # None => pc'[q] = "flush"
    <3>1. handle[p] = None
      BY <1>1 DEF Protocol
    <3> QED BY <1>5, <2>2, <3>1 DEF Protocol
  <2>7. ~overlap => \A q \in Process : pc'[q] \notin {"flush", "replace"}
    BY <1>5, <2>3
  <2> QED BY <1>1, <2>4, <2>5, <2>6, <2>7 DEF Protocol
<1> QED BY <1>6, <1>8, <1>9

LEMMA FilesKept ==
  ASSUME Files, Witnessed, [VerificationNext]_verificationVars PROVE Files'
<1>1. CASE UNCHANGED verificationVars
  <2>1. UNCHANGED <<archives, slot, tally, rows, pc, config, cached, entries, stored, outcome,
                    handle, file, tmp, sats, overlap, behind>>
    BY <1>1 DEF verificationVars, report, command, disk, history
  <2>2. \A q \in Process : Same(q)
    BY <2>1 DEF Same
  <2>3. InPlace'
    BY <2>1, <2>2, SameKeeps DEF Files, InPlace
  <2>4. \A q \in Process : NewEntries(q)' = NewEntries(q)
    BY <2>1, <2>2, SameKeeps
  <2>5. Protocol'
    BY <2>1, <2>4 DEF Files, Protocol
  <2> QED BY <2>1, <2>3, <2>5 DEF Files, VerificationTypeOK
<1>2. CASE VerificationNext
  <2>1. PICK p \in Process :
          \/ \E g \in Config, c \in BOOLEAN : Start(p, g, c)
          \/ Unlisted(p) \/ ReportUnavailable(p) \/ Hit(p) \/ RunOther(p) \/ RunOwn(p)
          \/ Open(p) \/ Flush(p) \/ Replace(p) \/ ReplaceFails(p) \/ End(p)
    BY <1>2 DEF VerificationNext
  <2>2. CASE \E g \in Config, c \in BOOLEAN : Start(p, g, c)
    BY <2>2, StartFiles
  <2>3. CASE Unlisted(p) \/ ReportUnavailable(p) \/ Hit(p)
    BY <2>3, UnlistedFiles, ReportUnavailableFiles, HitFiles
  <2>4. CASE RunOther(p) \/ RunOwn(p)
    BY <2>4, RunFiles
  <2>5. CASE Open(p) \/ Flush(p) \/ Replace(p)
    BY <2>5, OpenFiles, FlushFiles, ReplaceFiles
  <2>6. CASE ReplaceFails(p) \/ End(p)
    BY <2>6, ReplaceFailsFiles, EndFiles
  <2> QED BY <2>1, <2>2, <2>3, <2>4, <2>5, <2>6
<1> QED BY <1>1, <1>2

(* A step that changes the file is one of the two that EntriesStay is      *)
(* about, or keeps its entries.                                            *)
LEMMA EntriesKept ==
  ASSUME Files, [VerificationNext]_verificationVars
  PROVE  \/ file' = file \/ overlap \/ file = None
         \/ \E p \in behind : pc[p] = "replace"
         \/ \A k \in DOMAIN file : k \in DOMAIN file' /\ file'[k] = file[k]
<1> SUFFICES ASSUME file' # file, ~overlap, file # None,
                    \A p \in behind : pc[p] # "replace"
             PROVE  \A k \in DOMAIN file : k \in DOMAIN file' /\ file'[k] = file[k]
  OBVIOUS
<1>1. VerificationNext
  BY DEF verificationVars, disk
<1>2. PICK p \in Process :
        \/ \E g \in Config, c \in BOOLEAN : Start(p, g, c)
        \/ Unlisted(p) \/ ReportUnavailable(p) \/ Hit(p) \/ RunOther(p) \/ RunOwn(p)
        \/ Open(p) \/ Flush(p) \/ Replace(p) \/ ReplaceFails(p) \/ End(p)
  BY <1>1 DEF VerificationNext
<1>3. ~Flush(p)
  BY DEF Flush, Files, Protocol
<1>4. ~RunOther(p) /\ ~RunOwn(p)
  BY DEF RunOther, RunOwn, Run, disk
<1>5. Replace(p)
  BY <1>2, <1>3, <1>4
     DEF Start, Unlisted, ReportUnavailable, Hit, Open, ReplaceFails, End, disk
<1>6. /\ pc[p] = "replace" /\ p \notin behind /\ file' = tmp
  BY <1>5 DEF Replace
<1>7. /\ cached[p] /\ KeyInHand(p) \notin DOMAIN entries[p]
      /\ tmp = NewEntries(p) /\ entries[p] = file
  BY <1>6 DEF Files, InPlace, HoldsOutcome, Writing, Protocol, Active
<1> QED BY <1>6, <1>7 DEF NewEntries, With

----------------------------------------------------------------------------
(* What is told, action by action.                                         *)
LEMMA TruthInitially == VerificationInit => Truth
<1> SUFFICES ASSUME VerificationInit PROVE Truth
  OBVIOUS
<1> USE DEF VerificationInit
<1>1. Witnessed
  BY NoEntriesFacts DEF Witnessed
<1>2. OutcomesTold
  BY NoEntriesFacts DEF OutcomesTold, OutcomeTold, CacheTold, Writing
<1>3. CampaignsTold
  BY DEF CampaignsTold, TallyTold, RowsTold
<1>4. FindingIsShown
  BY DEF FindingIsShown
<1> QED BY <1>1, <1>2, <1>3, <1>4 DEF Truth

(* The commands that a step does not touch, and the files it leaves.       *)
LEMMA OthersTold ==
  ASSUME Truth, archives' = archives, shown \subseteq shown', disturbed \subseteq disturbed'
  PROVE  /\ \A q \in Process : Same(q) =>
              /\ OutcomeTold(q)' /\ TallyTold(q)' /\ RowsTold(q)'
              /\ CacheTold(entries'[q], Proposals, shown', disturbed')
         /\ file \notin {None, Torn} => CacheTold(file, Proposals, shown', disturbed')
         /\ tmp \notin {None, Torn} => CacheTold(tmp, Proposals, shown', disturbed')
         /\ Proposals' = Proposals
<1>1. \A m, P : CacheTold(m, P, shown, disturbed) => CacheTold(m, P, shown', disturbed')
  BY ToldGrows
<1>2. Proposals' = Proposals
  BY DEF Proposals
<1>3. \A q \in Process : Same(q) =>
        /\ OutcomeTold(q)' /\ TallyTold(q)' /\ RowsTold(q)'
        /\ CacheTold(entries'[q], Proposals, shown', disturbed')
  BY SameTells DEF Truth, OutcomesTold, CampaignsTold
<1> QED BY <1>1, <1>2, <1>3 DEF Truth, OutcomesTold

LEMMA NothingTold ==
  ASSUME NEW P, NEW S, NEW D PROVE CacheTold(NoEntries, P, S, D)
  BY NoEntriesFacts DEF CacheTold

LEMMA StartTruth ==
  ASSUME Files, Truth, NEW p \in Process, NEW g \in Config, NEW c \in BOOLEAN, Start(p, g, c)
  PROVE  Truth'
<1> USE DEF Truth
<1>1. /\ pc[p] = "down" /\ archives' = archives
      /\ config' = [config EXCEPT ![p] = g] /\ cached' = [cached EXCEPT ![p] = c]
      /\ \/ pc' = [pc EXCEPT ![p] = "refused"] /\ entries' = entries
         \/ /\ pc' = [pc EXCEPT ![p] = "verify"] /\ ~(c /\ file = Torn)
            /\ entries' = [entries EXCEPT ![p] = IF c /\ file # None THEN file ELSE NoEntries]
      /\ UNCHANGED <<report, stored, outcome, disk, sats, shown, disturbed>>
  BY DEF Start
<1>2. \A q \in Process \ {p} : Same(q)
  BY <1>1 DEF Files, VerificationTypeOK, Same, report
<1>3. /\ pc'[p] \in {"refused", "verify"}
      /\ rows'[p] = << >> /\ slot'[p] = 1 /\ tally'[p] = NoTally
      /\ \/ entries'[p] = entries[p] \/ entries'[p] = NoEntries
         \/ entries'[p] = file /\ file \notin {None, Torn}
  BY <1>1 DEF Files, VerificationTypeOK, InPlace, Position, report
<1>4. Witnessed' /\ FindingIsShown'
  BY <1>1 DEF Witnessed, FindingIsShown, report
<1>5. /\ \A q \in Process \ {p} : OutcomeTold(q)' /\ TallyTold(q)' /\ RowsTold(q)'
      /\ \A q \in Process \ {p} : CacheTold(entries'[q], Proposals, shown', disturbed')
      /\ file \notin {None, Torn} => CacheTold(file, Proposals, shown', disturbed')
      /\ tmp \notin {None, Torn} => CacheTold(tmp, Proposals, shown', disturbed')
      /\ Proposals' = Proposals
  BY <1>1, <1>2, OthersTold
<1>6. CacheTold(entries'[p], Proposals, shown', disturbed')
  <2>1. CacheTold(entries[p], Proposals, shown', disturbed')
    BY <1>1 DEF OutcomesTold
  <2> QED BY <1>3, <1>5, <2>1, NothingTold
<1>7. OutcomeTold(p)' /\ TallyTold(p)' /\ RowsTold(p)'
  BY <1>3 DEF OutcomeTold, TallyTold, RowsTold, Tells, Writing, NoTally, Known
<1> QED BY <1>1, <1>4, <1>5, <1>6, <1>7 DEF OutcomesTold, CampaignsTold, disk

(* A step that reports an outcome that is told, and leaves the files.      *)
LEMMA ReportTruth ==
  ASSUME Files, Truth, NEW p \in Process, Verifying(p), NEW o \in OutcomeType,
         Report(p, o),
         Campaign(p).loads => Told(InHand(p), config[p], o, shown', disturbed'),
         ~Campaign(p).loads => o.verified # TRUE,
         UNCHANGED <<archives, pc, config, cached, entries, outcome, disk>>,
         shown \subseteq shown', disturbed \subseteq disturbed', Witnessed'
  PROVE  Truth'
<1> USE DEF Truth, Files
<1>1. pc[p] = "verify" /\ Len(rows[p]) < Len(archives) /\ Position(p)
  BY DEF Verifying, InPlace
<1>2. TallyTold(p)' /\ RowsTold(p)' /\ FindingIsShown'
  BY <1>1, ReportTells DEF CampaignsTold
<1>3. \A q \in Process \ {p} : Same(q)
  BY <1>1, ReportMoves DEF Same
<1>4. /\ \A q \in Process \ {p} : OutcomeTold(q)' /\ TallyTold(q)' /\ RowsTold(q)'
      /\ \A q \in Process \ {p} : CacheTold(entries'[q], Proposals, shown', disturbed')
      /\ file \notin {None, Torn} => CacheTold(file, Proposals, shown', disturbed')
      /\ tmp \notin {None, Torn} => CacheTold(tmp, Proposals, shown', disturbed')
      /\ Proposals' = Proposals
  BY <1>3, OthersTold
<1>5. OutcomeTold(p)'
  BY <1>1 DEF OutcomeTold, Writing
<1>6. CacheTold(entries'[p], Proposals, shown', disturbed')
  <2>1. \A m, P : CacheTold(m, P, shown, disturbed) => CacheTold(m, P, shown', disturbed')
    BY ToldGrows
  <2> QED BY <2>1 DEF OutcomesTold
<1> QED BY <1>2, <1>4, <1>5, <1>6 DEF OutcomesTold, CampaignsTold, disk

LEMMA ReportUnavailableTruth ==
  ASSUME Files, Truth, NEW p \in Process, ReportUnavailable(p) PROVE Truth'
<1>1. /\ Verifying(p) /\ ~Campaign(p).loads /\ Report(p, Unavailable(InHand(p)))
      /\ UNCHANGED <<archives, command, disk, starts, history>>
  BY DEF ReportUnavailable, Deciding
<1>2. Unavailable(InHand(p)) \in OutcomeType /\ Unavailable(InHand(p)).verified # TRUE
  BY UnavailableOutcome
<1>3. Witnessed'
  BY <1>1 DEF Truth, Witnessed, command, history
<1> QED BY <1>1, <1>2, <1>3, ReportTruth DEF command, history

LEMMA HitTruth ==
  ASSUME Files, Truth, NEW p \in Process, Hit(p) PROVE Truth'
<1> DEFINE k == KeyInHand(p)
           o == entries[p][k]
<1>1. /\ Verifying(p) /\ Campaign(p).loads /\ k \in DOMAIN entries[p] /\ Report(p, o)
      /\ UNCHANGED <<archives, command, disk, starts, history>>
  BY DEF Hit, Deciding, Answered
<1>2. o \in OutcomeType
  BY <1>1, EntryMapFacts DEF Files, VerificationTypeOK
<1>3. InHand(p) \in Proposals /\ config[p] \in Config
  BY <1>1, InHandFacts DEF Files, InPlace, Verifying, Position
<1>4. CacheTold(entries[p], Proposals, shown, disturbed)
  BY DEF Truth, OutcomesTold
<1>5. Told(InHand(p), config[p], o, shown, disturbed)
  BY <1>1, <1>3, <1>4 DEF CacheTold, KeyInHand
<1>6. Witnessed' /\ shown' = shown /\ disturbed' = disturbed
  BY <1>1 DEF Truth, Witnessed, command, history
<1> QED BY <1>1, <1>2, <1>5, <1>6, ReportTruth DEF command, history

LEMMA RunTruth ==
  ASSUME Files, Truth, NEW p \in Process, RunOther(p) \/ RunOwn(p) PROVE Truth'
<1> USE DEF Files, Truth
<1>1. Position(p)
  BY DEF InPlace
<1>2. PICK s \in SearchOutput, a \in CheckOutput, r \in ReplayOutput :
        Run(p, s, a, r) /\ (config[p].own => OwnAnswers(InHand(p), s, a, r))
  BY <1>1, RunAnswers
<1>3. Verifying(p) /\ Deciding(p)
  BY <1>1, RunAnswers DEF Deciding
<1>4. shown \subseteq shown' /\ disturbed \subseteq disturbed' /\ Witnessed'
  BY <1>1, <1>2, <1>3, RunTells
<1>5. PICK o \in OutcomeType :
        /\ Told(InHand(p), config[p], o, shown', disturbed')
        /\ IF cached[p] /\ KeyInHand(p) # None
           THEN /\ outcome' = [outcome EXCEPT ![p] = o]
                /\ pc' = [pc EXCEPT ![p] = "write"]
                /\ UNCHANGED report
           ELSE Report(p, o) /\ UNCHANGED <<outcome, pc>>
  BY <1>1, <1>2, <1>3, RunTells
<1>6. UNCHANGED <<archives, config, cached, entries, disk>> /\ Campaign(p).loads
  BY <1>2 DEF Run
<1>7. CASE ~(cached[p] /\ KeyInHand(p) # None)
  BY <1>3, <1>4, <1>5, <1>6, <1>7, ReportTruth
<1>8. CASE cached[p] /\ KeyInHand(p) # None
  <2>1. /\ outcome' = [outcome EXCEPT ![p] = o]
        /\ pc' = [pc EXCEPT ![p] = "write"]
        /\ UNCHANGED report
    BY <1>5, <1>8
  <2>2. /\ pc[p] = "verify" /\ pc'[p] = "write" /\ outcome'[p] = o
        /\ \A q \in Process \ {p} : pc'[q] = pc[q] /\ outcome'[q] = outcome[q]
    BY <1>3, <2>1 DEF VerificationTypeOK, Verifying
  <2>3. \A q \in Process \ {p} : Same(q)
    BY <1>6, <2>1, <2>2 DEF Same, report
  <2>4. /\ \A q \in Process \ {p} : OutcomeTold(q)' /\ TallyTold(q)' /\ RowsTold(q)'
        /\ \A q \in Process \ {p} : CacheTold(entries'[q], Proposals, shown', disturbed')
        /\ file \notin {None, Torn} => CacheTold(file, Proposals, shown', disturbed')
        /\ tmp \notin {None, Torn} => CacheTold(tmp, Proposals, shown', disturbed')
        /\ Proposals' = Proposals
    BY <1>4, <1>6, <2>3, OthersTold
  <2>5. Campaign(p)' = Campaign(p) /\ InHand(p)' = InHand(p)
    BY <1>6, <2>1 DEF report, Campaign, InHand
  <2>6. OutcomeTold(p)'
    BY <1>5, <1>6, <2>2, <2>5 DEF OutcomeTold
  <2>7. TallyTold(p)' /\ RowsTold(p)'
    <3>1. \A slots, m, h, hits, statuses : Tells(slots, m, h, hits, statuses, shown, disturbed)
            => Tells(slots, m, h, hits, statuses, shown', disturbed')
      BY <1>4, ToldGrows
    <3>2. TallyTold(p) /\ RowsTold(p)
      BY DEF CampaignsTold
    <3>3. rows' = rows /\ slot' = slot /\ tally' = tally
      BY <2>1 DEF report
    <3>4. pc[p] # "down"
      BY <2>2
    <3>5. TallyTold(p)'
      BY <1>6, <2>5, <3>1, <3>2, <3>3, <3>4 DEF TallyTold
    <3>6. RowsTold(p)'
      BY <1>6, <3>1, <3>2, <3>3, <3>4 DEF RowsTold
    <3> QED BY <3>5, <3>6
  <2>8. CacheTold(entries'[p], Proposals, shown', disturbed')
    <3>1. \A m, P : CacheTold(m, P, shown, disturbed) => CacheTold(m, P, shown', disturbed')
      BY <1>4, ToldGrows
    <3> QED BY <1>6, <3>1 DEF OutcomesTold
  <2>9. FindingIsShown'
    BY <1>4, <2>1 DEF FindingIsShown, report
  <2> QED BY <1>4, <1>6, <2>4, <2>6, <2>7, <2>8, <2>9 DEF OutcomesTold, CampaignsTold, disk
<1> QED BY <1>7, <1>8

(* A step that only moves the command, with the copy, the outcome and the  *)
(* reports where they were.                                                *)
LEMMA MoveTruth ==
  ASSUME Files, Truth, NEW p \in Process, pc[p] # "down",
         \A q \in Process \ {p} : pc'[q] = pc[q] /\ outcome'[q] = outcome[q],
         pc'[p] \in Writing => pc[p] \in Writing /\ outcome'[p] = outcome[p],
         UNCHANGED <<archives, report, config, cached, entries, stored, sats, shown, disturbed>>,
         file' \notin {None, Torn} => CacheTold(file', Proposals, shown, disturbed),
         tmp' \notin {None, Torn} => CacheTold(tmp', Proposals, shown, disturbed)
  PROVE  Truth'
<1> USE DEF Files, Truth
<1>1. \A q \in Process \ {p} : Same(q)
  BY DEF Same, report
<1>2. /\ \A q \in Process \ {p} : OutcomeTold(q)' /\ TallyTold(q)' /\ RowsTold(q)'
      /\ Proposals' = Proposals
  BY <1>1, OthersTold
<1>3. Campaign(p)' = Campaign(p) /\ InHand(p)' = InHand(p)
  BY DEF report, Campaign, InHand
<1>4. OutcomeTold(p)'
  BY <1>3 DEF OutcomesTold, OutcomeTold
<1>5. TallyTold(p)' /\ RowsTold(p)'
  <2>1. TallyTold(p) /\ RowsTold(p)
    BY DEF CampaignsTold
  <2> QED BY <1>3, <2>1 DEF TallyTold, RowsTold, report
<1>6. \A q \in Process : CacheTold(entries'[q], Proposals', shown', disturbed')
  BY <1>2 DEF OutcomesTold
<1>7. Witnessed' /\ FindingIsShown'
  BY DEF Witnessed, FindingIsShown, report
<1> QED BY <1>2, <1>4, <1>5, <1>6, <1>7 DEF OutcomesTold, CampaignsTold

LEMMA UnlistedTruth ==
  ASSUME Files, Truth, NEW p \in Process, Unlisted(p) PROVE Truth'
<1>1. /\ pc[p] = "verify" /\ pc'[p] = "refused"
      /\ \A q \in Process \ {p} : pc'[q] = pc[q] /\ outcome'[q] = outcome[q]
      /\ UNCHANGED <<archives, report, config, cached, entries, stored, disk, sats, shown, disturbed>>
  BY DEF Unlisted, Verifying, Files, VerificationTypeOK, history
<1>2. /\ file' \notin {None, Torn} => CacheTold(file', Proposals, shown, disturbed)
      /\ tmp' \notin {None, Torn} => CacheTold(tmp', Proposals, shown, disturbed)
  BY <1>1 DEF Truth, OutcomesTold, disk
<1>3. pc[p] # "down" /\ pc'[p] \notin Writing
  BY <1>1 DEF Writing
<1> QED BY <1>1, <1>2, <1>3, MoveTruth

LEMMA OpenTruth ==
  ASSUME Files, Truth, NEW p \in Process, Open(p) PROVE Truth'
<1>1. /\ pc[p] = "write" /\ pc'[p] = "flush" /\ tmp' = Torn /\ file' = file
      /\ outcome' = outcome
      /\ \A q \in Process \ {p} : pc'[q] = pc[q] /\ outcome'[q] = outcome[q]
      /\ UNCHANGED <<archives, report, config, cached, entries, stored, sats, shown, disturbed>>
  BY DEF Open, Files, VerificationTypeOK
<1>2. /\ file' \notin {None, Torn} => CacheTold(file', Proposals, shown, disturbed)
      /\ tmp' \notin {None, Torn} => CacheTold(tmp', Proposals, shown, disturbed)
  BY <1>1 DEF Truth, OutcomesTold
<1>3. pc[p] # "down" /\ pc[p] \in Writing
  BY <1>1 DEF Writing
<1> QED BY <1>1, <1>2, <1>3, MoveTruth

LEMMA FlushTruth ==
  ASSUME Files, Truth, NEW p \in Process, Flush(p) PROVE Truth'
<1>1. /\ pc[p] = "flush" /\ pc'[p] = "replace" /\ outcome' = outcome
      /\ \A q \in Process \ {p} : pc'[q] = pc[q] /\ outcome'[q] = outcome[q]
      /\ UNCHANGED <<archives, report, config, cached, entries, stored, sats, shown, disturbed>>
  BY DEF Flush, Files, VerificationTypeOK, history
<1>2. PICK text \in {NewEntries(p)} \cup (IF overlap THEN {Torn} ELSE {}) :
        IF handle[p] = "tmp" THEN tmp' = text /\ UNCHANGED file
        ELSE file' = text /\ UNCHANGED tmp
  BY DEF Flush
<1>3. pc[p] # "down" /\ pc[p] \in Writing
  BY <1>1 DEF Writing
<1>4. CacheTold(NewEntries(p), Proposals, shown, disturbed)
  BY <1>3, NewEntriesTold DEF Files, Truth, InPlace, OutcomesTold
<1>5. /\ file' \notin {None, Torn} => CacheTold(file', Proposals, shown, disturbed)
      /\ tmp' \notin {None, Torn} => CacheTold(tmp', Proposals, shown, disturbed)
  BY <1>2, <1>4 DEF Truth, OutcomesTold
<1> QED BY <1>1, <1>3, <1>5, MoveTruth

LEMMA ReplaceFailsTruth ==
  ASSUME Files, Truth, NEW p \in Process, ReplaceFails(p) PROVE Truth'
<1>1. /\ pc[p] = "replace" /\ pc'[p] = "refused"
      /\ \A q \in Process \ {p} : pc'[q] = pc[q] /\ outcome'[q] = outcome[q]
      /\ UNCHANGED <<archives, report, config, cached, entries, stored, disk, sats, shown, disturbed>>
  BY DEF ReplaceFails, Files, VerificationTypeOK, history
<1>2. /\ file' \notin {None, Torn} => CacheTold(file', Proposals, shown, disturbed)
      /\ tmp' \notin {None, Torn} => CacheTold(tmp', Proposals, shown, disturbed)
  BY <1>1 DEF Truth, OutcomesTold, disk
<1>3. pc[p] # "down" /\ pc'[p] \notin Writing
  BY <1>1 DEF Writing
<1> QED BY <1>1, <1>2, <1>3, MoveTruth

LEMMA ReplaceTruth ==
  ASSUME Files, Truth, NEW p \in Process, Replace(p) PROVE Truth'
<1> USE DEF Files, Truth
<1>1. /\ pc[p] = "replace" /\ tmp # None /\ file' = tmp /\ tmp' = None
      /\ entries' = [entries EXCEPT ![p] = NewEntries(p)]
      /\ Report(p, outcome[p])
      /\ pc' = [pc EXCEPT ![p] = "verify"]
      /\ outcome' = [outcome EXCEPT ![p] = None]
      /\ UNCHANGED <<archives, config, cached, stored, sats, shown, disturbed>>
  BY DEF Replace
<1>2. /\ outcome[p] \in OutcomeType /\ Campaign(p).loads
      /\ Len(rows[p]) < Len(archives) /\ Position(p) /\ HoldsOutcome(p)
      /\ pc[p] \in Writing /\ pc[p] # "down"
  BY <1>1 DEF InPlace, HoldsOutcome, Writing
<1>3. CacheTold(NewEntries(p), Proposals, shown, disturbed)
  BY <1>2, NewEntriesTold DEF OutcomesTold
<1>4. Told(InHand(p), config[p], outcome[p], shown', disturbed')
  BY <1>1, <1>2 DEF OutcomesTold, OutcomeTold
<1>5. TallyTold(p)' /\ RowsTold(p)' /\ FindingIsShown'
  BY <1>1, <1>2, <1>4, ReportTells DEF CampaignsTold
<1>6. /\ pc'[p] = "verify" /\ entries'[p] = NewEntries(p)
      /\ \A q \in Process \ {p} : /\ pc'[q] = pc[q] /\ entries'[q] = entries[q]
                                  /\ outcome'[q] = outcome[q]
  BY <1>1 DEF VerificationTypeOK
<1>7. \A q \in Process \ {p} : Same(q)
  BY <1>1, <1>2, <1>6, ReportMoves DEF Same
<1>8. /\ \A q \in Process \ {p} : OutcomeTold(q)' /\ TallyTold(q)' /\ RowsTold(q)'
      /\ \A q \in Process \ {p} : CacheTold(entries'[q], Proposals, shown', disturbed')
      /\ Proposals' = Proposals
  BY <1>1, <1>7, OthersTold
<1>9. OutcomeTold(p)'
  BY <1>6 DEF OutcomeTold, Writing
<1>10. /\ file' \notin {None, Torn} => CacheTold(file', Proposals, shown', disturbed')
       /\ CacheTold(entries'[p], Proposals, shown', disturbed')
  BY <1>1, <1>3, <1>6 DEF OutcomesTold
<1>11. Witnessed'
  BY <1>1 DEF Witnessed
<1> QED BY <1>1, <1>5, <1>8, <1>9, <1>10, <1>11 DEF OutcomesTold, CampaignsTold

LEMMA EndTruth ==
  ASSUME Files, Truth, NEW p \in Process, End(p) PROVE Truth'
<1> USE DEF Files, Truth
<1>1. /\ pc' = [pc EXCEPT ![p] = "down"] /\ entries' = [entries EXCEPT ![p] = NoEntries]
      /\ stored' = [stored EXCEPT ![p] = NoEntries]
      /\ sats' = [sats EXCEPT ![p] = {}]
      /\ UNCHANGED <<archives, disk, findings, shown, disturbed>>
  BY DEF End
<1>2. \A q \in Process \ {p} : Same(q)
  BY DEF End, VerificationTypeOK, Same
<1>3. /\ \A q \in Process \ {p} : OutcomeTold(q)' /\ TallyTold(q)' /\ RowsTold(q)'
      /\ \A q \in Process \ {p} : CacheTold(entries'[q], Proposals, shown', disturbed')
      /\ file \notin {None, Torn} => CacheTold(file, Proposals, shown', disturbed')
      /\ tmp \notin {None, Torn} => CacheTold(tmp, Proposals, shown', disturbed')
      /\ Proposals' = Proposals
  BY <1>1, <1>2, OthersTold
<1>4. pc'[p] = "down" /\ entries'[p] = NoEntries /\ stored'[p] = NoEntries
  BY <1>1 DEF VerificationTypeOK
<1>5. OutcomeTold(p)' /\ TallyTold(p)' /\ RowsTold(p)'
  BY <1>4 DEF OutcomeTold, TallyTold, RowsTold, Writing
<1>6. CacheTold(entries'[p], Proposals, shown', disturbed')
  BY <1>4, NothingTold
<1>7. Witnessed'
  <2> SUFFICES ASSUME NEW q \in Process, NEW k \in DOMAIN stored'[q]
               PROVE  <<k, stored'[q][k]>> \in sats'[q]
    BY DEF Witnessed
  <2>1. q # p
    BY <1>4, NoEntriesFacts
  <2>2. stored'[q] = stored[q] /\ sats'[q] = sats[q]
    BY <1>1, <2>1 DEF VerificationTypeOK
  <2> QED BY <2>2 DEF Witnessed
<1>8. FindingIsShown'
  BY <1>1 DEF FindingIsShown
<1> QED BY <1>1, <1>3, <1>5, <1>6, <1>7, <1>8 DEF OutcomesTold, CampaignsTold, disk

LEMMA TruthKept ==
  ASSUME Files, Truth, [VerificationNext]_verificationVars PROVE Truth'
<1>1. CASE UNCHANGED verificationVars
  <2>1. UNCHANGED <<archives, slot, tally, rows, pc, config, cached, entries, stored, outcome,
                    file, tmp, sats, shown, disturbed, findings>>
    BY <1>1 DEF verificationVars, report, command, disk, history
  <2>2. \A q \in Process : Same(q)
    BY <2>1 DEF Same
  <2>3. /\ \A q \in Process : OutcomeTold(q)' /\ TallyTold(q)' /\ RowsTold(q)'
        /\ \A q \in Process : CacheTold(entries'[q], Proposals, shown', disturbed')
        /\ file \notin {None, Torn} => CacheTold(file, Proposals, shown', disturbed')
        /\ tmp \notin {None, Torn} => CacheTold(tmp, Proposals, shown', disturbed')
        /\ Proposals' = Proposals
    BY <2>1, <2>2, OthersTold
  <2>4. Witnessed' /\ FindingIsShown'
    BY <2>1 DEF Truth, Witnessed, FindingIsShown
  <2> QED BY <2>1, <2>3, <2>4 DEF Truth, OutcomesTold, CampaignsTold
<1>2. CASE VerificationNext
  <2>1. PICK p \in Process :
          \/ \E g \in Config, c \in BOOLEAN : Start(p, g, c)
          \/ Unlisted(p) \/ ReportUnavailable(p) \/ Hit(p) \/ RunOther(p) \/ RunOwn(p)
          \/ Open(p) \/ Flush(p) \/ Replace(p) \/ ReplaceFails(p) \/ End(p)
    BY <1>2 DEF VerificationNext
  <2>2. CASE \E g \in Config, c \in BOOLEAN : Start(p, g, c)
    BY <2>2, StartTruth
  <2>3. CASE Unlisted(p) \/ ReportUnavailable(p) \/ Hit(p)
    BY <2>3, UnlistedTruth, ReportUnavailableTruth, HitTruth
  <2>4. CASE RunOther(p) \/ RunOwn(p)
    BY <2>4, RunTruth
  <2>5. CASE Open(p) \/ Flush(p) \/ Replace(p)
    BY <2>5, OpenTruth, FlushTruth, ReplaceTruth
  <2>6. CASE ReplaceFails(p) \/ End(p)
    BY <2>6, ReplaceFailsTruth, EndTruth
  <2> QED BY <2>1, <2>2, <2>3, <2>4, <2>5, <2>6
<1> QED BY <1>1, <1>2

\* The rows of an active command, and what is told of them, make the report
\* true.
LEMMA ToldIsTrue == ASSUME Files, Truth PROVE ReportIsTrue
<1> DEFINE HasShown(p, i, prefix) ==
             \E j \in 1 .. prefix :
               /\ Key(archives[i].slots[j], config[p]) \in shown
               /\ config[p].own =>
                    /\ Adapted(archives[i].slots[j], config[p]) = "ready"
                    /\ ~archives[i].slots[j].request.holds
           HasNone(p, i, prefix) ==
             config[p].own => \A j \in 1 .. prefix :
               /\ Adapted(archives[i].slots[j], config[p]) = "ready"
               /\ ~archives[i].slots[j].request.holds
               /\ archives[i].slots[j].request.solc # "rejects_predicate"
               => Key(archives[i].slots[j], config[p]) \in disturbed
<1>1. ASSUME NEW p \in Process, NEW i \in Known(rows[p]),
             NEW prefix \in DOMAIN archives[i].slots
      PROVE  IF VerifiedHit(rows[p][i], prefix) THEN HasShown(p, i, prefix)
             ELSE HasNone(p, i, prefix)
  <2>1. /\ rows[p] \in Seq(RowType) /\ archives \in Datasets
        /\ Position(p) /\ RowsTold(p)
    BY DEF Files, VerificationTypeOK, InPlace, Truth, CampaignsTold
  <2>2. pc[p] # "down"
    <3>1. Known(<< >>) = {}
      BY DEF Known
    <3> QED BY <2>1, <3>1 DEF Position
  <2>3. i \in 1 .. Len(rows[p])
    BY <2>1 DEF Known
  <2>4. i \in DOMAIN archives
    BY <2>1, <2>3, ArchiveFacts DEF Position
  <2> DEFINE slots == archives[i].slots
             hits == rows[p][i].hits
  <2>5. Tells(slots, Len(slots), config[p], hits, {}, shown, disturbed)
    BY <2>1, <2>2 DEF RowsTold
  <2>6. Len(slots) \in Nat /\ prefix \in 1 .. Len(slots)
    BY <2>1, <2>4, ArchiveFacts
  <2>7. /\ hits \subseteq 1 .. Len(slots)
        /\ \A j \in 1 .. Len(slots) :
             /\ j \in hits => ForHit(slots[j], config[p], shown)
             /\ j \notin hits => ForMiss(slots[j], config[p], disturbed)
    BY <2>5 DEF Tells
  <2>8. CASE VerifiedHit(rows[p][i], prefix)
    <3>1. PICK j \in hits : j <= prefix
      BY <2>8 DEF VerifiedHit
    <3>2. j \in 1 .. prefix /\ j \in 1 .. Len(slots)
      BY <2>6, <2>7, <3>1
    <3>3. ForHit(slots[j], config[p], shown)
      BY <2>7, <3>1, <3>2
    <3>4. HasShown(p, i, prefix)
      BY <3>2, <3>3 DEF ForHit, Violated
    <3> QED BY <2>8, <3>4
  <2>9. CASE ~VerifiedHit(rows[p][i], prefix)
    <3>1. ASSUME NEW j \in 1 .. prefix PROVE ForMiss(slots[j], config[p], disturbed)
      <4>1. j \in 1 .. Len(slots) /\ j <= prefix
        BY <2>6
      <4>2. j \notin hits
        BY <2>9, <4>1 DEF VerifiedHit
      <4> QED BY <2>7, <4>1, <4>2
    <3>2. HasNone(p, i, prefix)
      BY <3>1 DEF ForMiss, Violated
    <3> QED BY <2>9, <3>2
  <2> QED BY <2>8, <2>9
<1> QED BY <1>1 DEF ReportIsTrue

----------------------------------------------------------------------------
(* What holds between any two steps of any commands: the files are in      *)
(* order, and every outcome, entry, row and finding is told.               *)
THEOREM VerificationInvariant == VerificationSpec => [](Files /\ Truth)
<1>1. VerificationInit => Files /\ Truth
  BY FilesInitially, TruthInitially
<1>2. Files /\ Truth /\ [VerificationNext]_verificationVars => Files' /\ Truth'
  <2>1. Truth => Witnessed
    BY DEF Truth
  <2> QED BY <2>1, FilesKept, TruthKept
<1> QED BY <1>1, <1>2, PTL DEF VerificationSpec

(* The cache file is JSON at every moment, whichever command is killed     *)
(* where, unless two commands wrote it at once (cache.py:63, 119-128).     *)
THEOREM CacheLoads == VerificationSpec => []FileLoads
<1>1. Files => FileLoads
  BY DEF Files, Protocol, FileLoads
<1> QED BY <1>1, VerificationInvariant, PTL

(* No entry of the cache is lost or changed by a command whose copy is the *)
(* file's, alone at writing it (cache.py:63, 80-94).                       *)
THEOREM CacheEntriesStay == VerificationSpec => EntriesStay
<1>1. Files /\ [VerificationNext]_verificationVars =>
        [\/ file' = file \/ overlap \/ file = None
         \/ \E p \in behind : pc[p] = "replace"
         \/ \A k \in DOMAIN file : k \in DOMAIN file' /\ file'[k] = file[k]]_verificationVars
  BY EntriesKept
<1> QED BY <1>1, VerificationInvariant, PTL DEF VerificationSpec, EntriesStay

(* A finding is only reported when the search, the checker and the replay  *)
(* showed its violation on one witness, with whatever tools, and also when *)
(* it comes from the cache (pipeline.py:100-113, records.py:231-246).      *)
THEOREM FindingsShown == VerificationSpec => []FindingIsShown
<1>1. Truth => FindingIsShown
  BY DEF Truth
<1> QED BY <1>1, VerificationInvariant, PTL

(* The rows the metrics count tell the truth: a hit was shown, and is a    *)
(* violation when SourceExecutor is the tool; a miss it decided has none,  *)
(* but for the two exceptions ReportIsTrue names (metrics.py:130-142).     *)
THEOREM RowsTrue == VerificationSpec => []ReportIsTrue
<1>1. Files /\ Truth => ReportIsTrue
  BY ToldIsTrue
<1> QED BY <1>1, VerificationInvariant, PTL
=============================================================================
