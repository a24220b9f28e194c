---------------------------- MODULE Verification ----------------------------
(* The verification stage: commands that send every proposed candidate of  *)
(* their archives through one pipeline, the rows they report for the       *)
(* metrics, and the result cache they may share (verification/pipeline.py, *)
(* cache.py, adapter.py, source.py, loader.py, metrics.py and              *)
(* scripts/run_verification_stage.py).                                     *)
(*                                                                         *)
(* A command takes the candidates in order.  A candidate is adapted to its *)
(* runtime; a plan with a canonical form has a cache key, and a key that   *)
(* the command's copy of the cache holds is answered from it.  Otherwise   *)
(* grounding, symbolic search, witness check and independent replay run,   *)
(* each only after the one before passed, and the outcome is written: the  *)
(* whole copy goes to one temporary file, which then replaces the cache.   *)
(* Two commands may run at once over the same cache file, and a command    *)
(* may be killed at any step and started again.  The tools are those of    *)
(* SourceExecutor, or others that may answer anything.                     *)
EXTENDS SourceExecutor, FiniteSets

CONSTANTS
  Process,      \* places where a command can run
  Candidate,    \* proposal slots
  Datasets,     \* what the archive directories can hold: archives, in order
  Form,         \* hashes of a case runtime and an invariant of it
  Witness,      \* witnesses, named by their trace hash
  Config,       \* the executor configurations a command can be given
  SearchAnswer, CheckAnswer, ReplayAnswer,  \* what other tools can print
  Trace,        \* [Form -> the witness SourceExecutor makes for it]
  MaxStarts,    \* bound: commands started over a data set
  Torn          \* a file that is not JSON

\* A candidate is what adapt and the tool can tell apart; an archive what
\* the loader, the manifest and the metrics can; a configuration says whether
\* tools are configured, whether they are SourceExecutor, which hash names
\* them and which fields they supply.
ASSUME VerificationConstants ==
  /\ Candidate \subseteq
       [slot : {"candidate", "other"},
        compiled : {"ok", "abstained", "invalid"}, bound : BOOLEAN,
        lowers : BOOLEAN, actions : {"none", "bound", "executable"},
        form : Form, missing : SUBSET {"actor_addresses", "contract_addresses"},
        request : Request]
  /\ \A d \in Datasets :
       /\ d \in Seq({d[i] : i \in DOMAIN d})
       /\ \A i \in DOMAIN d :
            /\ {d[i].whole, d[i].listed, d[i].loads, d[i].failures} \subseteq BOOLEAN
            /\ d[i].slots \in Seq(Candidate) \ {<< >>}
  /\ MaxStarts \in [Datasets -> Nat] /\ Trace \in [Form -> Witness]
  /\ \A g \in Config : /\ g.tools \in BOOLEAN /\ g.own \in BOOLEAN
                       /\ g.tools <=> g.spec # None
                       /\ g.own => g.tools

\* What becomes of a subprocess, and what a tool that ended well prints.
Ran == {"no_workspace", "no_executable", "timeout", "nonzero_exit", "bad_workspace",
        "no_start", "cancelled", "garbled", "answered"}
Observation == BOOLEAN \cup {None}

SearchOutput ==
  [ran : Ran, complete : BOOLEAN, violation : BOOLEAN, witness : Witness \cup {None},
   status : {"sat", "bounded_unsat", "unknown", "timeout", "unsupported", "crash"}]
CheckOutput ==
  [ran : Ran, status : {"pass", "fail", "unknown", "unsupported"},
   trace : Witness \cup {None}, violation : Observation, holds : Observation]
ReplayOutput ==
  [ran : Ran, status : {"pass", "fail", "unknown", "unsupported"},
   trace : Witness \cup {None}, holds : Observation, relevant : Observation]

ASSUME ToolAnswers ==
  /\ SearchAnswer \subseteq SearchOutput
  /\ CheckAnswer \subseteq CheckOutput /\ ReplayAnswer \subseteq ReplayOutput

\* The hashes name what they are taken of: a form the candidate of a case, and
\* the hash of the executors all that the command is configured with.
ASSUME HashesIdentify ==
  /\ \A d \in Datasets : \A i, j \in DOMAIN d :
       \A c \in {d[i].slots[n] : n \in DOMAIN d[i].slots},
          e \in {d[j].slots[n] : n \in DOMAIN d[j].slots} :
            (/\ c.form = e.form /\ {c.slot, e.slot} = {"candidate"}
             /\ {c.compiled, e.compiled} = {"ok"}) => c = e
  /\ \A g, h \in Config : g.spec = h.spec => g = h

\* What the cache holds: the outcome of each of its keys.
StageStatus == {"passed", "failed", "unknown", "unsupported", "timeout", "crash",
                "not_applicable"}
Stages == <<"grounding", "symbolic_search", "witness_check", "independent_replay">>

OutcomeType ==
  [stages : [1 .. 4 -> StageStatus], verified : Observation,
   failure : {Stages[i] : i \in 1 .. 4} \cup {None}]

Keys == Form \X {g.spec : g \in Config}

\* No result, witness, key, refusal, handle or content of a file is taken for none.
ASSUME NoneIsApart ==
  /\ None \notin BOOLEAN /\ None \notin Witness /\ None \notin Keys
  /\ None \notin StageStatus \cup {"malformed", "tmp", "file"}

ASSUME FilesDiffer ==
  /\ Torn # None
  /\ \A K \in SUBSET Keys : {None, Torn} \cap [K -> OutcomeType] = {}

VARIABLES
  archives,  \* what the archive directories hold
  pc,        \* [Process -> where the command is]
  config,    \* [Process -> its configuration, None when it is down]
  cached,    \* [Process -> it was given a cache]
  slot,      \* [Process -> index of the candidate in hand]
  tally,     \* [Process -> statuses and findings of the campaign in hand]
  rows,      \* [Process -> the rows of the campaigns it is through with]
  entries,   \* [Process -> the cache object's copy of the entries]
  stored,    \* [Process -> the witnesses its executors keep, by key]
  outcome,   \* [Process -> the computed outcome that is being written]
  handle,    \* [Process -> the file its open write goes to]
  file, tmp, \* the cache and its temporary file
  starts,    \* commands started so far
  findings,  \* the key and stages of every verified finding reported
  \* History, read by no action:
  sats,      \* [Process -> the witnesses its search answered, by key]
  shown,     \* keys whose violation the tools showed, on one witness
  overlap,   \* two commands were writing at once
  behind,    \* commands whose copy is older than the file
  disturbed  \* keys for which a check or replay reported a failure

report == <<slot, tally, rows, findings>>
command == <<pc, config, cached, entries, stored, outcome, handle>>
disk == <<file, tmp>>
history == <<sats, shown, overlap, behind, disturbed>>
verificationVars == <<archives, report, command, disk, starts, history>>

NoEntries == [k \in {} |-> None]

With(m, k, v) == [j \in DOMAIN m \cup {k} |-> IF j = k THEN v ELSE m[j]]

(***************************************************************************)
(* Adapting a candidate: its status, and its form when it has one.         *)
(***************************************************************************)
Adapted(c, g) ==
  LET unsupported == ~c.bound \/ ~c.lowers \/ c.actions = "none" IN
  IF c.slot # "candidate" \/ c.compiled = "abstained" THEN "abstained"
  ELSE IF c.compiled = "invalid" THEN "invalid"
  ELSE IF unsupported THEN "unsupported"
  ELSE IF c.actions = "bound" \/ ~(c.missing \subseteq g.deferred) THEN "grounded"
  ELSE "ready"

Key(c, g) ==
  IF Adapted(c, g) \in {"abstained", "invalid"} THEN None ELSE <<c.form, g.spec>>

(***************************************************************************)
(* The stages.  A stage result is a status and the observations it makes,  *)
(* None where it makes none.                                               *)
(***************************************************************************)
Result(status, violation, holds, relevant) ==
  [status |-> status, violation |-> violation, holds |-> holds, relevant |-> relevant]

Plain(status) == Result(status, None, None, None)

Grounding(c, g) ==
  Plain(IF Adapted(c, g) \in {"grounded", "ready"} THEN "passed"
        ELSE IF Adapted(c, g) = "abstained" THEN "not_applicable"
        ELSE IF Adapted(c, g) = "invalid" THEN "failed"
        ELSE "unsupported")

\* What became of the subprocess of a search or witness check; "answered"
\* when it exited with 0 and printed a JSON object.
Transport(ran) ==
  IF ran \in {"no_workspace", "no_executable"} THEN "unsupported"
  ELSE IF ran = "timeout" THEN "timeout"
  ELSE IF ran = "nonzero_exit" THEN "crash"
  ELSE IF ran # "answered" THEN "unknown"
  ELSE None

Search(a) ==
  IF Transport(a.ran) # None THEN Plain(Transport(a.ran))
  ELSE IF a.status \in {"sat", "bounded_unsat"} /\ ~a.complete THEN Plain("unknown")
  ELSE IF a.status = "sat" THEN
         IF a.witness # None /\ a.violation
         THEN Result("passed", TRUE, None, None) ELSE Plain("unknown")
  ELSE IF a.status = "bounded_unsat" THEN Result("passed", FALSE, None, None)
  ELSE Plain(a.status)

SearchKeeps(a) == Search(a).status = "passed" /\ a.status = "sat"

\* w is the witness kept for the key, None when there is none.
\* Mutant: the trace the checker ran is not compared with the witness.
CheckAnyTrace(a, w) ==
  IF w = None THEN Plain("not_applicable")
  ELSE IF Transport(a.ran) # None THEN Plain(Transport(a.ran))
  ELSE IF a.status = "fail" THEN Plain("failed")
  ELSE IF a.status # "pass" THEN Plain(a.status)
  ELSE IF a.violation = None \/ a.holds = None THEN Plain("unknown")
  ELSE IF ~a.violation \/ a.holds THEN Result("failed", a.violation, a.holds, None)
  ELSE Result("passed", TRUE, FALSE, None)

Check(a, w) ==
  IF w = None THEN Plain("not_applicable")
  ELSE IF Transport(a.ran) # None THEN Plain(Transport(a.ran))
  ELSE IF a.status = "fail" THEN Plain("failed")
  ELSE IF a.status # "pass" THEN Plain(a.status)
  ELSE IF a.trace = None THEN Plain("unknown")
  ELSE IF a.trace # w THEN Plain("failed")
  ELSE IF a.violation = None \/ a.holds = None THEN Plain("unknown")
  ELSE IF ~a.violation \/ a.holds THEN Result("failed", a.violation, a.holds, None)
  ELSE Result("passed", TRUE, FALSE, None)

\* The replay of a witness whose check passed, so holds was FALSE there.
Replay(a, w) ==
  IF a.ran \in {"no_workspace", "no_executable"} THEN Plain("unsupported")
  ELSE IF a.ran = "nonzero_exit" THEN Plain("failed")
  ELSE IF a.ran # "answered" THEN Plain("unknown")
  ELSE IF a.status = "fail" THEN Plain("failed")
  ELSE IF a.status # "pass" THEN Plain(a.status)
  ELSE IF a.trace = None THEN Plain("unknown")
  ELSE IF a.trace # w THEN Plain("failed")
  ELSE IF a.holds = None THEN Plain("unknown")
  ELSE IF a.holds THEN Plain("failed")
  ELSE IF a.relevant = None THEN Plain("unknown")
  ELSE Result("passed", None, FALSE, a.relevant)

Kept(p, k) == IF k \in DOMAIN stored[p] THEN stored[p][k] ELSE None

\* The four stages of a ready plan whose search, check and replay answer s,
\* a and r: each runs if the one before passed.
StagesOf(c, g, w, s, a, r) ==
  LET grounding == Grounding(c, g)
      search == IF grounding.status # "passed" THEN Plain("not_applicable")
                ELSE IF Adapted(c, g) # "ready" \/ ~g.tools THEN Plain("unsupported")
                ELSE Search(s)
      check == IF search.status = "passed" THEN Check(a, w) ELSE Plain("not_applicable")
      replay == IF check.status = "passed" THEN Replay(r, w) ELSE Plain("not_applicable")
  IN <<grounding, search, check, replay>>

\* Later observations replace earlier ones.
Observed(stages, field) ==
  LET made == {i \in DOMAIN stages : stages[i][field] # None} IN
  IF made = {} THEN None
  ELSE stages[CHOOSE i \in made : \A j \in made : j <= i][field]

Outcome(stages) ==
  LET failed == {i \in DOMAIN stages : stages[i].status \notin {"passed", "not_applicable"}} IN
  [stages   |-> [i \in DOMAIN stages |-> stages[i].status],
   verified |-> IF \E i \in DOMAIN stages : stages[i].status # "passed" THEN None
                ELSE /\ Observed(stages, "violation") = TRUE
                     /\ Observed(stages, "holds") = FALSE
                     /\ Observed(stages, "relevant") = TRUE,
   failure  |-> IF failed = {} THEN None
                ELSE Stages[CHOOSE i \in failed : \A j \in failed : i <= j]]

\* A candidate whose case does not load gets its outcome without the pipeline.
Unavailable(c) ==
  [stages   |-> <<IF c.slot = "candidate" THEN "unsupported" ELSE "not_applicable",
                  "not_applicable", "not_applicable", "not_applicable">>,
   verified |-> None,
   failure  |-> IF c.slot = "candidate" THEN "grounding" ELSE None]

(***************************************************************************)
(* The row of a campaign: a campaign some of whose candidates could not be *)
(* decided is no denominator of the metrics.                               *)
(***************************************************************************)
NoTally == [statuses |-> {}, hits |-> {}]

Tallied(t, i, o) ==
  [statuses |-> t.statuses \cup {o.stages[j] : j \in DOMAIN o.stages},
   hits |-> IF o.verified = TRUE THEN t.hits \cup {i} ELSE t.hits]

\* Mutant: a tool that crashed leaves the campaign available.
RowOfCrashed(a, t) ==
  [availability |->
     IF ~a.loads THEN "unsupported"
     ELSE IF a.failures \/ t.statuses \cap {"timeout", "unknown"} # {} THEN "unknown"
     ELSE IF "unsupported" \in t.statuses THEN "unsupported"
     ELSE "available",
   hits |-> t.hits]

Row(a, t) ==
  [availability |->
     IF ~a.loads THEN "unsupported"
     ELSE IF a.failures \/ t.statuses \cap {"crash", "timeout", "unknown"} # {} THEN "unknown"
     ELSE IF "unsupported" \in t.statuses THEN "unsupported"
     ELSE "available",
   hits |-> t.hits]

\* The metrics: the campaigns they count, and whether one counts as a hit
\* among its first slots.
Known(rs) == {i \in DOMAIN rs : rs[i].availability = "available"}

VerifiedHit(row, prefix) == \E i \in row.hits : i <= prefix

\* load_archives: every archive is one whole row, and no campaign and no arm
\* of a pair occurs twice.
Loadable(as) ==
  /\ \A i \in DOMAIN as : as[i].whole
  /\ \A i, j \in DOMAIN as : i # j =>
       as[i].id # as[j].id /\ <<as[i].pair, as[i].arm>> # <<as[j].pair, as[j].arm>>

----------------------------------------------------------------------------
VerificationInit ==
  /\ archives \in Datasets
  /\ pc = [p \in Process |-> "down"]
  /\ config = [p \in Process |-> None] /\ cached = [p \in Process |-> FALSE]
  /\ slot = [p \in Process |-> 1]
  /\ tally = [p \in Process |-> NoTally] /\ rows = [p \in Process |-> << >>]
  /\ entries = [p \in Process |-> NoEntries]
  /\ stored = [p \in Process |-> NoEntries]
  /\ outcome = [p \in Process |-> None]
  /\ handle = [p \in Process |-> None]
  /\ file = None /\ tmp = None /\ starts = 0 /\ findings = {}
  /\ sats = [p \in Process |-> {}] /\ shown = {} /\ overlap = FALSE
  /\ behind = {} /\ disturbed = {}

\* The command is given a configuration and, or not, the cache, whose
\* entries it reads once.  A file that is no JSON, or archives that do not
\* load, make it stop at once.
Start(p, g, c) ==
  /\ pc[p] = "down" /\ starts < MaxStarts[archives]
  /\ starts' = starts + 1
  /\ config' = [config EXCEPT ![p] = g]
  /\ cached' = [cached EXCEPT ![p] = c]
  /\ IF (c /\ file = Torn) \/ ~Loadable(archives)
     THEN pc' = [pc EXCEPT ![p] = "refused"] /\ UNCHANGED entries
     ELSE /\ pc' = [pc EXCEPT ![p] = "verify"]
          /\ entries' = [entries EXCEPT ![p] =
                           IF c /\ file # None THEN file ELSE NoEntries]
  /\ behind' = behind \ {p}
  /\ UNCHANGED <<archives, report, stored, outcome, handle, disk, sats, shown,
                 overlap, disturbed>>

Verifying(p) == pc[p] = "verify" /\ Len(rows[p]) < Len(archives)

Campaign(p) == archives[Len(rows[p]) + 1]

InHand(p) == Campaign(p).slots[slot[p]]

\* The manifest has no row for the campaign, or none with a known truth.
Unlisted(p) ==
  /\ Verifying(p) /\ ~Campaign(p).listed
  /\ pc' = [pc EXCEPT ![p] = "refused"]
  /\ UNCHANGED <<archives, report, config, cached, entries, stored, outcome,
                 handle, disk, starts, history>>

Deciding(p) == Verifying(p) /\ Campaign(p).listed

KeyInHand(p) == Key(InHand(p), config[p])

Answered(p) == cached[p] /\ KeyInHand(p) \in DOMAIN entries[p]

\* The outcome of the candidate in hand is noted; with the last one of a
\* campaign its row is complete.
Report(p, o) ==
  /\ LET t == Tallied(tally[p], slot[p], o)
         last == slot[p] = Len(Campaign(p).slots)
     IN /\ slot' = [slot EXCEPT ![p] = IF last THEN 1 ELSE @ + 1]
        /\ tally' = [tally EXCEPT ![p] = IF last THEN NoTally ELSE t]
        /\ rows' = IF last THEN [rows EXCEPT ![p] = Append(@, Row(Campaign(p), t))]
                   ELSE rows
  /\ findings' = IF o.verified = TRUE
                 THEN findings \cup {<<KeyInHand(p), o.stages>>} ELSE findings

\* The case of the candidate does not load: no pipeline, no cache.
ReportUnavailable(p) ==
  /\ Deciding(p) /\ ~Campaign(p).loads
  /\ Report(p, Unavailable(InHand(p)))
  /\ UNCHANGED <<archives, command, disk, starts, history>>

\* The candidate's key is in the command's copy of the cache.
Hit(p) ==
  /\ Deciding(p) /\ Campaign(p).loads /\ Answered(p)
  /\ Report(p, entries[p][KeyInHand(p)])
  /\ UNCHANGED <<archives, command, disk, starts, history>>

\* The tools showed the violation: the search answered this witness, the
\* checker ran that trace and saw the property fail, and so did the replay,
\* which also found it relevant.
Shows(found, a, r) ==
  \E w \in found :
    /\ a.ran = "answered" /\ a.status = "pass" /\ a.trace = w
    /\ a.violation = TRUE /\ a.holds = FALSE
    /\ r.ran = "answered" /\ r.status = "pass" /\ r.trace = w
    /\ r.holds = FALSE /\ r.relevant = TRUE

\* The stages run.  Without a key or a cache the outcome is only reported;
\* otherwise its entry has to be written first.
Run(p, s, a, r) ==
  LET c == InHand(p)
      k == KeyInHand(p)
      ran == Adapted(c, config[p]) = "ready" /\ config[p].tools
      keeps == ran /\ SearchKeeps(s)
      w == IF keeps THEN s.witness ELSE Kept(p, k)
      found == {x[2] : x \in {y \in sats'[p] : y[1] = k}}
      o == Outcome(StagesOf(c, config[p], w, s, a, r))
  IN /\ Deciding(p) /\ Campaign(p).loads /\ ~Answered(p)
     /\ stored' = IF keeps THEN [stored EXCEPT ![p] = With(@, k, s.witness)] ELSE stored
     /\ sats' = IF ran /\ s.ran = "answered" /\ s.status = "sat" /\ s.complete
                THEN [sats EXCEPT ![p] = @ \cup {<<k, s.witness>>}] ELSE sats
     /\ shown' = IF ran /\ Shows(found, a, r) THEN shown \cup {k} ELSE shown
     /\ disturbed' = IF ran /\ (a.status = "fail" \/ r.status = "fail" \/ r.ran = "nonzero_exit")
                     THEN disturbed \cup {k} ELSE disturbed
     /\ IF cached[p] /\ k # None
        THEN /\ outcome' = [outcome EXCEPT ![p] = o]
             /\ pc' = [pc EXCEPT ![p] = "write"]
             /\ UNCHANGED report
        ELSE Report(p, o) /\ UNCHANGED <<outcome, pc>>
     /\ UNCHANGED <<archives, config, cached, entries, handle, disk, starts,
                    overlap, behind>>

(***************************************************************************)
(* put: the copy with the new entry is written to the temporary file,      *)
(* which is opened (and emptied) first and then replaces the cache.  Two   *)
(* commands use the same temporary name: the second to open it empties     *)
(* what the first writes, and what the first still has open when the       *)
(* second replaces the cache is the cache file itself.                     *)
(***************************************************************************)
\* Mutant: only the new entry is written.
NewEntriesAlone(p) == With(NoEntries, KeyInHand(p), outcome[p])

NewEntries(p) == With(entries[p], KeyInHand(p), outcome[p])

\* Mutant: the entry is written over the cache in place.
OpenInPlace(p) ==
  /\ pc[p] = "write"
  /\ pc' = [pc EXCEPT ![p] = "flush"]
  /\ handle' = [handle EXCEPT ![p] = "file"]
  /\ file' = Torn
  /\ overlap' = (overlap \/ \E q \in Process : pc[q] \in {"flush", "replace"})
  /\ UNCHANGED <<archives, report, config, cached, entries, stored, outcome,
                 tmp, starts, sats, shown, behind, disturbed>>

Open(p) ==
  /\ pc[p] = "write"
  /\ pc' = [pc EXCEPT ![p] = "flush"]
  /\ handle' = [handle EXCEPT ![p] = "tmp"]
  /\ tmp' = Torn
  /\ overlap' = (overlap \/ \E q \in Process : pc[q] \in {"flush", "replace"})
  /\ UNCHANGED <<archives, report, config, cached, entries, stored, outcome,
                 file, starts, sats, shown, behind, disturbed>>

\* The bytes reach the file the handle names; where two commands wrote at
\* once the longer text may keep its tail.
Flush(p) ==
  /\ pc[p] = "flush"
  /\ pc' = [pc EXCEPT ![p] = "replace"]
  /\ handle' = [handle EXCEPT ![p] = None]
  /\ \E text \in {NewEntries(p)} \cup (IF overlap THEN {Torn} ELSE {}) :
       IF handle[p] = "tmp" THEN tmp' = text /\ UNCHANGED file
       ELSE file' = text /\ UNCHANGED tmp
  /\ UNCHANGED <<archives, report, config, cached, entries, stored, outcome,
                 starts, history>>

Replace(p) ==
  /\ pc[p] = "replace" /\ tmp # None
  /\ file' = tmp /\ tmp' = None
  /\ handle' = [q \in Process |-> IF handle[q] = "tmp" THEN "file" ELSE handle[q]]
  /\ entries' = [entries EXCEPT ![p] = NewEntries(p)]
  /\ Report(p, outcome[p])
  /\ pc' = [pc EXCEPT ![p] = "verify"]
  /\ outcome' = [outcome EXCEPT ![p] = None]
  /\ behind' = behind \cup {q \in Process \ {p} : pc[q] # "down"}
  /\ UNCHANGED <<archives, config, cached, stored, starts, sats, shown, overlap,
                 disturbed>>

\* Another command moved the temporary file away: the command fails.
ReplaceFails(p) ==
  /\ pc[p] = "replace" /\ tmp = None
  /\ pc' = [pc EXCEPT ![p] = "refused"]
  /\ outcome' = [outcome EXCEPT ![p] = None]
  /\ UNCHANGED <<archives, report, config, cached, entries, stored, handle, disk,
                 starts, history>>

\* Every row is complete and written out, or the command is killed or has
\* failed: its place is free for the next command.
End(p) ==
  /\ pc[p] # "down"
  /\ pc' = [pc EXCEPT ![p] = "down"]
  /\ entries' = [entries EXCEPT ![p] = NoEntries]
  /\ stored' = [stored EXCEPT ![p] = NoEntries]
  /\ outcome' = [outcome EXCEPT ![p] = None]
  /\ handle' = [handle EXCEPT ![p] = None]
  /\ slot' = [slot EXCEPT ![p] = 1]
  /\ tally' = [tally EXCEPT ![p] = NoTally]
  /\ rows' = [rows EXCEPT ![p] = << >>]
  /\ sats' = [sats EXCEPT ![p] = {}]
  /\ config' = [config EXCEPT ![p] = None]
  /\ cached' = [cached EXCEPT ![p] = FALSE]
  /\ behind' = behind \ {p}
  /\ UNCHANGED <<archives, disk, starts, findings, shown, overlap, disturbed>>

\* The tools of the configuration answer; SourceExecutor prints what the
\* candidate and its containers make it print, or is stopped at its timeout.
RunOther(p) ==
  /\ Deciding(p) /\ ~config[p].own
  /\ \E s \in SearchAnswer, a \in CheckAnswer, r \in ReplayAnswer : Run(p, s, a, r)

RunOwn(p) ==
  /\ Deciding(p) /\ config[p].own
  /\ LET c == InHand(p)
         trace == Trace[c.form]
         OrStopped(answers, none) == answers \cup {[none EXCEPT !.ran = "timeout"]}
     IN \E s \in OrStopped({SearchCommand(c.request, e, trace) : e \in Execution},
                           SearchPrints("unknown", FALSE, FALSE, None)),
           a \in OrStopped({CheckCommand(c.request, e, trace, trace) : e \in Execution},
                           CheckPrints("unknown", None, None, None)),
           r \in OrStopped({ReplayCommand(c.request, e, trace, trace) : e \in Execution},
                           ReplayPrints("unknown", None, None, None)) :
           Run(p, s, a, r)

VerificationNext ==
  \E p \in Process :
    \/ \E g \in Config, c \in BOOLEAN : Start(p, g, c)
    \/ Unlisted(p) \/ ReportUnavailable(p) \/ Hit(p) \/ RunOther(p) \/ RunOwn(p)
    \/ Open(p) \/ Flush(p) \/ Replace(p) \/ ReplaceFails(p) \/ End(p)

VerificationSpec == VerificationInit /\ [][VerificationNext]_verificationVars

----------------------------------------------------------------------------
(* A reported finding, fresh or from the cache, is one whose stages all    *)
(* passed and whose violation the tools showed on one witness: the search  *)
(* answered it, the checker ran its trace and saw the property fail, and   *)
(* the independent replay ran the same trace, saw it fail too and found    *)
(* it relevant, for the executors the command is configured with           *)
(* (pipeline.py:100-113, source.py:190-300, records.py:231-246).           *)
FindingIsShown ==
  \A x \in findings :
    x[1] \in shown /\ \A i \in DOMAIN Stages : x[2][i] = "passed"

(* The rows tell the truth about what was found.  A hit was shown by the   *)
(* tools, and with SourceExecutor its predicate is false.  A campaign that *)
(* counts, and at some prefix counts as a miss, has no candidate there     *)
(* whose predicate is false: a timeout, a crash or a missing tool is never *)
(* taken for one, neither now nor through the cache.  There are two        *)
(* exceptions: the containers of a check or replay failed, which the tool  *)
(* cannot tell from a property that holds, and a predicate that does not   *)
(* compile, which no execution decides (metrics.py:130-142;                *)
(* docs/shared_verification_pipeline.md:67).                               *)
ReportIsTrue ==
  \A p \in Process : config[p] # None => \A i \in Known(rows[p]) :
    LET slots == archives[i].slots
        KeyOf(j) == Key(slots[j], config[p])
        Violated(j) == Adapted(slots[j], config[p]) = "ready" /\ ~slots[j].request.holds
    IN \A prefix \in DOMAIN slots :
         IF VerifiedHit(rows[p][i], prefix)
         THEN \E j \in 1 .. prefix : KeyOf(j) \in shown /\ (config[p].own => Violated(j))
         ELSE config[p].own =>
                \A j \in 1 .. prefix :
                  Violated(j) /\ slots[j].request.solc # "rejects_predicate"
                  => KeyOf(j) \in disturbed

\* The cache file loads at every moment, killed commands included, unless
\* two commands were once writing it at the same time (cache.py:63, 119-128).
FileLoads == file = Torn => overlap

(* An entry on disk stays as it is: a command that replaces the file keeps *)
(* every entry in it, unless the file changed after the command read it or *)
(* two commands wrote at once (cache.py:63, "a key can never be            *)
(* overwritten with another result").                                      *)
EntriesStay ==
  [][\/ file' = file \/ overlap \/ file = None
     \/ \E p \in behind : pc[p] = "replace"
     \/ \A k \in DOMAIN file : k \in DOMAIN file' /\ file'[k] = file[k]]_verificationVars
============================================================================
