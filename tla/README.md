# CrossLLM: TLA+ specifications

CrossLLM is a research runtime. Large language models propose invariants of
cross-chain bridges, a verification pipeline and bounded explorers try to refute
them, people adjudicate the findings, and a campaign runtime executes all of it
as many attempts under resource limits, timeouts, crashes and restarts. This
directory models the parts of the Python code in which an order of events, a
crash, a bound or a long sequence of legal calls can go wrong. TLC checks the
models on small instances, and TLAPS proves the central theorems for every
instance.

Paths are relative to the root of the repository; the package is
`src/crossllm`. A file name with a line (`runner.py:418`) is a place in it.

## 1. Inventory

| Component | State it keeps | Operations | Talks to |
|---|---|---|---|
| Resource scheduler, `runtime/resources.py` | lease table, queue, measured use, reservations, next lease number | `submit`, `release` (drains the queue), `cancel_queued`, `observe`, `snapshot` | called by the runner, one lock around each method |
| Event store, `runtime/events.py`, `contracts/records.py` | the JSONL file, its temporary file, the events in memory | `append`, `_commit`, `_write_jsonl_atomic`, load, `validate_event_log` | written by attempt machines, method events and the driver |
| Attempt machine `CampaignStateMachine`, `runtime/events.py` | state, remembered interruption, last clock reading | `start`, `mark_uncertain`, `resume`, `finish`, `restore` | one per attempt, appends to the store |
| Worker runner, `runtime/runner.py` | pending table, machines, futures with their leases, resume counts, outcomes | `run`: offer, launch, collect, resume, reject, sweep | scheduler (calls), store (through machines), callbacks on worker threads |
| Campaign driver, `scripts/run_development_campaign.py`, `runtime/method_events.py` | `events.jsonl`, `runs.jsonl`, `report.json` | recover in-flight attempts, run the plan in order, append method events, write both files, validate them | runner, store, method runner; it is run again after a crash |
| Provider client and method runner, `providers/ollama.py`, `budget.py`, `methods/runner.py`, `proposal.py` | slots, candidate hashes, the call under way | `propose` with retries, back-off, deadline and cancellation; `run` over the slots | model server, callback of the driver |
| Verification pipeline and cache, `verification/pipeline.py`, `cache.py`, `adapter.py`, `source.py`, `loader.py`, `metrics.py`, `scripts/run_verification_stage.py` | cache file and its copy in memory, kept witnesses, rows of the campaigns | load archives, adapt, ground, search, check, replay, cache, classify and count campaigns | archives of method runs, external tools |
| Source-backed executor, `scripts/source_executor.py`, `run_source_case_harness.py` | none | `search`, `witness`, `replay`, each a build and a test in containers | started by the verification command |
| XLIR language, `xlir/compiler.py`, `evaluator.py`, `lowering.py`, `vacuity.py` | none | compile, evaluate, lower, check an antecedent | adapter, solver backend |
| Solver backend, `backends/smt.py`, `solver_control.py` | constraints of a query | `check_violation`, `check_antecedent` | z3 |
| Adjudication ledger, `adjudication/ledger.py` | labels, reconciliations, effective statuses, relabel events, mappings | `add_label`, `import_labels`, `reconcile`, `relabel`, `map_requirement`, save, load by replay | raters and an adjudicator |
| Paired bridge semantics, `semantics/paired.py` | two histories, the queue between them, clocks, bounds, action log | `enqueue`, `deliver`, `reorg`, `snapshot`, `restore`, `reset`, `observe` | explorers and replays |
| Witness replay, `replay/witness.py` | none | `replay_action_records` | paired semantics |
| Concrete and symbolic explorer, `backends/paired_explorer.py`, `symbolic_paired.py` | frontier and visited set; solver constraints | search under limits, timeouts and cancellation | paired semantics, z3 |
| Planner, readiness, locks, `runtime/`, with `providers/preflight.py`, `model_lock.py` and their commands in `cli.py` | model lock, protocol lock, plan and report, as files | `preflight-live`, `protocol-lock`, `plan`, `readiness`, `evaluation-launch-check`, `EvaluationRunner.run` | operator, model server, runner |
| Canary, isolation, telemetry, `runtime/` | version block of a campaign | compare two records, report | driver |
| EVM and Foundry replay, harness generators, dataset extractors | records of external tools | one pass from input to output | verification |
| Analysis, calibration, artifacts, command line | mostly none | pure functions and formatting | all of the above |

What is hard in these parts, and what makes each of them correct:

* **Scheduler.** A submission that fits is admitted at once, also past a queue,
  and one release can admit several queued campaigns in a row. Correct means:
  the worker is never overcommitted, a solver profile has one user, the
  incremental counters never drift, no wake-up is lost, a lease number never
  names two leases.
* **Event store and machines.** A process can die, and a write can fail, at each
  step of an append; the next process rebuilds everything from the file. Correct
  means: nothing is visible before it is durable, whatever is on disk is
  accepted again, and the machines that are rebuilt are those that died.
* **Runner.** One thread collects callbacks that end in any order, gives leases
  back, launches what that admits, and offers interrupted tasks again in
  between. A raised exception leaves `run` in the middle. Correct means: pending
  table, scheduler queue, leases, machines, report and durable log agree, every
  batch ends, a finished campaign is never observed a second time, an attempt in
  flight is settled by the next process.
* **Driver.** Three files are written by a process that can die between any two
  of its steps and is repeated, over the same directory, for another part of the
  plan. Correct means: what is left validates, a row never claims more than the
  event stream holds, the events of a method run are never mixed with those of
  another.
* **Provider and method run.** A request can be answered late, be retried, or be
  under way when the campaign is cancelled. Correct means: every slot gets one
  record, a proposal counts once, no call outlives its deadline by more than the
  last request's overrun, nothing is sent after a cancellation.
* **Verification and cache.** Four stages depend on each other and on witnesses
  kept from the search; outcomes are kept in a file that two commands may write
  and that a kill may interrupt. Correct means: a finding is a violation that all
  tools showed on one witness, also when it comes from the cache; a campaign that
  counts as a miss was searched, and no failure of a tool passes for one; the
  file stays readable; an entry never changes.
* **Ledger.** People act in any order and the ledger is reloaded by replaying its
  records through the operations that wrote them. Correct means: a
  reconciliation keeps saying what its two raters said, and a saved ledger comes
  back as it was.
* **Paired semantics and explorers.** Rollbacks cross with deliveries,
  duplicates and reordering; the transition system is written twice, once as
  Python and once as constraints; the searches stop at limits, clocks and
  cancellations. Correct means: no message is lost, forged or doubled; a log
  replays to its state; both encodings allow the same steps; a verdict that
  calls itself complete is the truth about the whole bounded space.
* **Launch of an evaluation.** Locks and plan are files that commands write in
  place on different days, from inputs that change, and that anybody can edit.
  Correct means: what is launched is a plan that a command made for exactly the
  locks at hand, and those come from probes and protocols that passed.
* **XLIR.** A formula has a meaning in the evaluator, which skips operands and
  checks for overflow as it goes, and another in the solver, which translates
  every part and collects side constraints. Correct means: both give the same
  value wherever the evaluator gives one.

The hazards, each at its line and with the properties that cover it, are in
`PROJECT.json`.

## 2. Modules

| Module | Models | Role |
|---|---|---|
| `Scheduler` | `WorkerResourceScheduler` | component |
| `AttemptLog` | what the runtime promises about one attempt | abstract specification |
| `AttemptLogProofs` | | theorems about `AttemptLog` |
| `EventStore` | `PersistentEventStore`, `validate_event_log`, `CampaignStateMachine`, method events | component; implements `AttemptLog` |
| `EventStoreProofs` | | theorems about `EventStore` |
| `WorkerRunner` | `WorkerRunner.run` with its scheduler, log, callbacks and driver | composition: EXTENDS `Scheduler`, implements `AttemptLog` |
| `WorkerRunnerProofs` | | theorems about `Scheduler` and `WorkerRunner` |
| `CampaignDriver` | the driver script with its three files | component |
| `MethodRunner` | `MethodRunner.run` and `OllamaClient.propose` | component |
| `CampaignProofs` | | theorems about `MethodRunner` and `CampaignDriver` |
| `EvaluationLaunch` | the commands that lock models, protocol and plan, the readiness check, the launch guard, `EvaluationRunner` | component |
| `SourceExecutor` | the repository's own tool for search, witness check and replay | operators, no state |
| `Verification` | the verification command, its archives, pipeline, cache and rows | component; EXTENDS `SourceExecutor` |
| `VerificationProofs` | | theorems about `Verification` and `SourceExecutor` |
| `AdjudicationLedger` | `AdjudicationLedger` | component |
| `DocumentProofs` | | theorems about `EvaluationLaunch` and `AdjudicationLedger` |
| `PairedState` | `DualChainState`, the guards and effects of the fixture's moves, `replay_action_records` | operators and the fixed profile |
| `PairedFixture` | `PairedFixture` | component; abstract specification for the symbolic explorer |
| `PairedExplorer` | the candidates, and `BoundedPairedExplorer._successors` | operators, for both explorers |
| `SymbolicPaired` | the constraints of `SymbolicPairedExplorer` | component; EXTENDS `PairedExplorer`, implements `PairedFixture` |
| `PairedSearch` | both search loops and the witness check of their result | component; EXTENDS `PairedExplorer` |
| `PairedProofs` | | theorems about `PairedFixture`, `SymbolicPaired` and `PairedSearch` |
| `XlirTerms` | terms, types, compiler, evaluator, lowering and solver translation | operators, no state |
| `Xlir` | the queries about one proposed invariant | component; EXTENDS `XlirTerms` |
| `XlirProofs` | | theorems about `XlirTerms` and `Xlir` |
| `MC*` | | constants of the runs |

The definitions whose comment begins with "Mutant:" are not part of the models.
Each is what a plausible mistake in the code would turn the definition of the
same name, without the suffix, into. `PROJECT.json` names, for every property of
every passing run, a mistake under which it fails.

### How state and actions correspond to the code

**Scheduler.** `active`, `queue`, `used`, `reserved`, `nextLease` are the private
fields of the same names. Every public method holds one lock, so each is one
atomic action: `SubmitRejected`, `SubmitAdmitted` and `SubmitQueued` are the
three ways through `submit`, `Release(l, u, n)` is `release` with its drain loop
(`n` is how many queued campaigns the loop admits, determined by its guards),
`CancelQueued` is `cancel_queued`. A campaign always asks for the same
resources, as the runner passes `task.request` each time, so requests are
functions of the campaign. Sums over the lease table are the cardinality of a
set of units (`Units`), which keeps recursion out of the module. Quantities are
integers: the code's core-seconds are floats, and rounding is not modelled.
Left out: the throttle counter, which is only reported; `observe` and
`snapshot`, which change nothing else.

**AttemptLog.** One variable: the lifecycle events of every attempt. `Follows`
is the legality of a next event that `restore` checks.

**EventStore.** `disk`, `tmp` and `mem` are the file, the temporary file and the
list in memory; `writer` is where the append in progress stands. An append is
four actions (`BeginLifecycle` or `BeginMethod`, `WriteTemporary`, `Replace`,
`Commit`), with a failure (`PersistFails`) and process death (`Crash`) possible
before each. `Open` loads and validates the file. `machine` is the process's
`CampaignStateMachine` of each attempt, `Attach` restores it and `Detach` drops
it. `clock` is `time.monotonic()`, which `Reboot` sets back. `resume` asks the
policy about the kind its caller passes, and about the remembered interruption
only without one (`Asked`); `given` is what the callers of this program pass,
one of the constant `Callers`. The store implements an `AttemptLog` whose policy
blocks nothing (`Promise`); what the store's own policy blocks (`Policy`) stays
blocked where no caller passes a kind that the policy resumes
(`PolicyIsLeftAlone`, `DriftStaysBlocked`). A method-run event is one append; the
order of those events is in `CampaignDriver`. Event identifiers and payloads are
left out.

**WorkerRunner.** `todo` is the call stack of `run`: its head is the call to make
next, and a call that makes others puts them in front. A step makes at most one
append, so that a crash between two steps is a crash between two durable
events; the append itself is atomic here, since `EventStore` is about its steps.
`log` holds the durable events per attempt, `pending`, `machine`, `future`,
`resumes`, `cause` and `outcome` are the local tables of `run`. The actions are
the parts of `run` named in `PROJECT.json`'s map; `CallbackEnds` runs on other
threads, `LaunchRaises`, `RefuseTask` and `AppendRaises` are the exceptions that
leave `run`, `Recover`, `BeginBatch` and `Exit` are the driver, `Crash` is
process death. A campaign may be offered under different attempt numbers in
different batches (`try`). `recovers` says whether the driver settles
attempts in flight before it starts again, and is chosen once: a caller of
`WorkerRunner` need not. `TablesAgree` is the conjunction of `RunnerTypeOK`,
`LeasesAccounted`, `QueueIsPending` and `WorkConserving`; `LogIsTold` of
`MachineMatchesLog` and `ReportMatchesLog`.

**CampaignDriver.** `log`, `runsFile` and `report` are the three files, `driver`
the process with its phase, the rest of its plan and its rows. The scheduler
runs one campaign at a time here, so the runner is the sequence `Launch`,
`Execute`, `AppendMethodEvent`, `Finish`. A method run is summed up by its
status; a hash in the report is as good as what it is taken of. `Begin` names any
prefix of the plan, which is what `--max-campaigns` does. An append is one step
here, but for the very first: a crash in it may leave the temporary event file
alone in the directory (`leftover`), and from then on the command is refused
(`BeginRefused`).

**MethodRunner.** `call` is the `propose` under way: about to look at its control
(`check`), waiting for an answer (`sent`), or in its back-off (`sleep`). `slots`
are the recorded slots. A reply is what the runner looks at: the client's
error, the served model, whether the text was cut off, its content after
parsing, and the verdicts of both token checks. Time is counted in slices of the
back-off. `late` is history: the requests that were out, or went out, after the
cancellation.

**EvaluationLaunch.** `lock` holds the three documents that commands write:
absent, torn, or a body that may be sealed, that is, its hash field is the hash
of the rest. The hash of a document is the number of the command that wrote it,
which is as good as a hash as long as nothing is edited; an edit by hand leaves
the hash and breaks the seal. `Write`, `Finish` and `Crash` are `_write_json`,
which truncates the file before it fills it. `Gates` are the fifteen gates of
`ReadinessChecker`, with the evidence files reduced to what each gate asks of
them. `LaunchCheck` checks and guards in one command; `EvaluationRun` gets a
report and a plan that were made at different times. A gate that is PENDING has
the same consequences as one that FAILs. `issued` and `checked` are history.

**Verification.** `pc`, `slot`, `entries`, `stored` and `outcome` are a command:
where it stands, its copy of the cache, the witnesses its executors keep, the
outcome it is about to write. `file` and `tmp` are the cache file and the
temporary file, `handle` says which of them an open write goes to: after another
command has renamed the temporary file the write goes to the cache itself.
`archives` is what the loader, the manifest and the metrics can tell apart of the
archives; `tally` collects the campaign under way, and `rows` are the rows for
the metrics. `RunOther` runs tools that may print any answer of a given set;
`RunOwn` runs the commands of `SourceExecutor`, whose answers follow from the
candidate's request and from what befalls the containers. A predicate is what
solc and the test say of it (`solc`, `holds`), which the tool does not know; that
lets `ReportIsTrue` compare the rows with the truth. `sats`, `shown`, `overlap`,
`behind` and `disturbed` are history, read by no action.

**PairedSearch.** `queue` and `seen` are the concrete explorer, `blocked` the
models the symbolic explorer has excluded. `Reachable` is the reference
definition, the states the fixture reaches under its bounds by any route. Models
of the solver that lead to no report may come in any order with the same effect,
so one order is taken. `start` is the fixture the search is given: empty, or with
a history its caller made of up to `MaxHistory` moves of the candidates
(`Starts`; a caller may also roll back another message than the latest). The
state of `start` is what the explorers go on from, so a schedule, a reachable
state and a replay are all relative to it.

**XlirTerms, Xlir.** `W` bits stand for the 256 of the code: every rule (wrap,
signs, shifts by the width or more, division towards zero) is written with `W`.
An address is twice its number plus one if it is spelled in upper case, and
`bytes32` is like an address. `Compile`, `Evaluated`, `Lowers` and `Translated`
are the compiler, the evaluator, the adapter's lowering and the solver's
translation; a translation carries `sound`, the conjunction of its side
constraints. What descends into an expression is an operator that is given the
values of the parts (`TypeBy`, `EvaluatedBy`, `TranslatedBy`, ...) and the
recursive function over the proposals that satisfies it. `Parts` are the parts
that are lowered and translated: a quantifier over an empty domain hides its
body. The solver decides by enumeration (`Traces`).

**AdjudicationLedger.** The five variables are the five containers of the class.
A label carries its verdict (status and first failure); roles, times, hashes and
texts are left out. `Reload` is a save followed by the load: since a save
changes nothing in memory and what was not saved is lost, the two are one
action. `Loadable` and `Replayed` are `from_dict`'s replay through the
operations.

**PairedState, PairedFixture.** `state` is `DualChainState`. `CanX` is the guard
and `Xed` the effect of the method; `transaction_count` is the length of the
action log, as `_record_action` changes both. A message is nonce, payload and
attestor; the attestor is not part of its identity. The canonical histories,
ghost data and their hashes are functions of the modelled fields and left out.
`snapshot`, `restore` and `reset` copy whole states. `profile` is chosen once,
from the set `Profiles`.

**SymbolicPaired.** `sym` holds the solver's arrays and counts of the current
step and the picks so far. `MayPickX` is the guard that the constraints put on a
pick, `PickX` the arrays after it. `Decoded` and `Values` are the decoding of a
model, `Successors` (in `PairedExplorer`) are the moves of the concrete explorer. The
constraints of a rollback do not name the count of the deliveries, so `PickReorg`
takes any; what the code reads from a model are the kinds and selections, and
`Decoded` is the fixture they lead to, with the deliveries of the picks
(`Deliveries`). `Counted` says that the count is the right one. The arrays start
empty: a fixture with a history pins them to values that picks with the right
counts lead to as well, each rolled back message being rolled back at once. The
search loops are in `PairedSearch`.

## 3. Runs

Times are for two TLC workers. All bounds are constants of the configuration.

| Run | Specification and instance | States | Shows |
|---|---|---|---|
| `scheduler` | `SchedSpec`; 4 campaigns (two share a solver profile, one wide, one impossible), 3 cores, 4 memory units, 2 at a time, quotas 6 and 3, usage zero or above every estimate, 7 submissions | 14,115 | `LeasesFit`, `ReservedExact`, `AdmissionWithinQuota` |
| `event_store` | `StoreSpec`; 2 attempts, one resumable and one blocking interruption, callers that pass `resume` nothing or the blocked kind, or either kind, 5 events, clock 0 to 1, symmetric in attempts | 428,638 | `DurableBeforeVisible`, `ReloadNeverRefused`, `MachineMatchesStream`, `ValidatorAgrees`, `DriftStaysBlocked`, and the refinement `ImplementsAttemptLog` |
| `runner` | `FairSpec`; plan of 4 (impossible, big, two small), two at a time, quota of 6 core-seconds that can run out, 1 resume, 2 attempt numbers, 2 batches, with and without recovery, 1 mishap | 337,136 | `TablesAgree`, `LogIsTold`, `TerminalNeverRerun`, the refinement `RunnerImplementsLog`, and the liveness of `BatchEnds` and `InFlightIsSettled` |
| `launch` | `LaunchSpec`; 2 families of which one may lack settings, a protocol that may lack fields, 2 benchmarks, 2 configurations of one cell, 4 commands, 1 edit or change of inputs | 3,781,908 | `LaunchIsBacked`, `RunIsReported` |
| `driver` | `FairDriverSpec`; plan of 2, 2 slots, 3 starts, 2 crashes, 1 failure in a callback | 1,586,666 | `ExitValidates`, `SegmentsAreMethodRuns`, `RowsBackedByLog`, and the liveness of `ReportEventually` |
| `method_run` | `FairRunSpec`; 3 slots, 2 retries with back-off 1 and 2, request timeout 2, deadline 4, overrun 1, cancellation, 12 replies | 265,727 | `ProposalsOnce`, `CallInDeadline`, `OneRequestAfterCancel`, and the liveness of `RunEnds` |
| `verification` | `VerificationSpec`; 2 commands at a time, up to 3 in all, 6 sets of archives with up to 2 candidates, the executor of the repository with every failure of its containers, or other tools, with and without cache, 2 witnesses | 1,660,522 | `FindingIsShown`, `ReportIsTrue`, `FileLoads`, `EntriesStay` |
| `ledger` | `LedgerSpec`; 2 findings, 3 people, 3 verdicts, 4 labels, 2 relabels, 1 mapping, symmetric in people and findings | 1,138,155 | `ConsensusStands`, `RoundTrip` |
| `paired` | `PairedSpec`; 3 messages with 2 identities, all 12 profiles with depth up to 2, 7 transactions, 6 channel transitions, 3 queued | 136,664 | `ChannelKeepsMessages`, `InOrderChannel`, `ReplayReproduces` |
| `symbolic` | `SymbolicSpec`; 2 candidates with one nonce, same profiles and bounds | 174,892 | `EveryMoveIsEncoded` and the refinement `SymbolicImplementsFixture` |
| `search` | `SearchSpec`; 2 candidates, fixtures with histories of up to 2 moves, 4 profiles, 7 predicates, 4 transactions, limits of 60 states and 60 models, timeouts of 2 and 3, cancellation | 49,497 | `CompleteVerdictsHold`, `SatIsWitnessed` |
| `xlir` | `XlirSpec`; words of 3 bits, 7 symbols of every type, 10 nodes, 1,714 questions | 13,531 | `LoweredAgrees`, `SolverShows` |

Why these bounds are enough:

* `scheduler`: 7 submissions allow a full worker, three campaigns queued behind
  it, and a release that admits two of them, after which the quota is gone
  because usage was above the estimate. Wider instances add no new relation
  between two leases, and the theorems of section 5 hold for all of them.
* `event_store`: five events are a start, two interruptions with a resume
  between them, an end, and an event of the other attempt. A crash and a failed
  write are possible at every step, any number of times. In some behaviours
  callers leave the policy alone, which is what `DriftStaysBlocked` is about; in
  the others they also pass the kind that is resumed, and the other properties
  hold in both.
* `runner`: two small campaigns, one that blocks them and one that never fits
  give every outcome of `submit` and `release`; with one resume every task can
  be offered again while others are launched. The mishap can fall anywhere, and
  the second batch runs over what it left, after a recovery or without one, and
  may name a new attempt number for a campaign that has one already.
* `launch`: three commands make the documents and the fourth makes one of them
  again, tears it, or belongs to another benchmark or configuration. One edit
  forges one document or one report, and what it can reach is bounded by what
  the other documents still say; section 5 proves both properties for any
  number of commands and edits.
* `driver`: three starts are a crash, another crash and a run that ends, or a run
  over half of the plan, one over all of it and one over a finished directory, or
  a crash in the first append and two commands that are refused;
  with two slots a method run has six events, so that a crash can fall between a
  response and its slot.
* `method_run`: two retries with a request each fill a deadline of four, so that
  the deadline falls into a request, a back-off or the check after it; three
  slots hold a candidate, a rejected copy and a duplicate in every order.
* `verification`: three commands are two that overlap and one that starts on
  what they left, over one candidate; over two candidates of different forms
  there are two commands, which overlap or follow each other, so that a row mixes
  outcomes of both. One command over two candidates of one form is enough for a
  hit on its own entry, and, without a cache, for a witness kept from the first.
  The other archives hold a campaign whose case does not load, one with a
  provider failure, one that is not in the manifest, a predicate that does not
  compile, a literal, and two rows for one arm of a pair.
* `search`: both limits lie below the size of the largest space (73 states, 71
  schedules) and above those of the others, so that a limit is met and is not
  met. With duplicates and reordering two states are reached by the delivery of
  a later copy, which no schedule makes; one predicate is true in one of them. Two
  moves of history are an enqueue with its delivery or its rollback, two queued
  messages, or two copies of one, and leave the search two transactions.
* `xlir`: three bits have every case of sign, overflow and shifting by the width
  or more. The proposals put every operator under every connective, quantifier
  and temporal operator that can skip it.
* `ledger`: four labels are two reconciled findings, or one with late labels;
  two relabels have an order. With two relabel events one can reverse the other.
* `paired` and `symbolic`: seven transactions with at most six channel
  transitions allow enqueue, deliver and rollback to be interleaved twice, and
  leave one transaction that only a rollback can use. Three queued messages fill
  the queue with two copies around a third message, the smallest case in which
  the search from the front and the search from the end disagree.

Deadlock is checked in `event_store`. Elsewhere the systems are finite by their
own bounds (a batch ends, a fixture exhausts its transactions, the environment
stops submitting or labelling), and the configurations say so with
`CHECK_DEADLOCK FALSE`.

### Fairness

Three runs assume fairness. `runner` (`FairSpec`):

* weak fairness of `Main`: `run` is a sequential loop that keeps executing while
  its process lives; a crash disables it;
* weak fairness of each callback's end: `run` waits for its callbacks without a
  limit of its own (`runner.py:328`), so this is a demand on them. The driver's
  callback calls a model with a timeout for each request and a deadline for the
  campaign (`run_development_campaign.py:498, 585`), and works through a bounded
  number of slots, so it ends, with a result or with a failure;
* weak fairness of the driver: the command is run again, which is how an
  operator continues an interrupted campaign, and is what `BatchEnds` and
  `InFlightIsSettled` presuppose. The latter speaks of the driver, which
  recovers first, and not of a caller that does not.

`method_run` (`FairRunSpec`): weak fairness of the run's own steps, as it is a
sequential program whose requests have a timeout (`ollama.py:349-356`).

`driver` (`FairDriverSpec`): weak fairness of the process's steps while it lives,
and of repeating the command, refused or not, until one run of it exits;
`ReportEventually` names the only other ends, a crash of the last start the bound
allows, and a first append that was cut off, after which no command is accepted.

No fairness is assumed for crashes, failures, cancellations or a particular
result. Symmetry is used in `event_store` (attempts), `ledger` (people and
findings) and `verification` (commands), whose properties are invariants, action
properties and a refinement without fairness that name no particular element.

## 4. Where the code and its documentation disagree

These were met while modelling; no run demonstrates them. Where one touches a
property, the property is stated so that it holds with it, and the comment above
it says so.

Runtime:

* **A resume with a kind** (`events.py:295`). `resume(interruption)` asks the policy about the kind it is given before the one
  the machine remembers, so that an attempt interrupted by version drift is
  started again by `resume(WORKER_RESTART)`; `docs/runtime_events.md:8-9` says
  that version drift is blocked by policy. The callers in the repository do not do
  this: the runner and the dry run pass the kind they have just marked
  (`runner.py:263`, `runtime/dry_run.py:196-197`). `DriftStaysBlocked` is stated for
  callers that pass nothing or a blocked kind.
* **A kill in the first append** (`run_development_campaign.py:492`). It leaves
  `events.jsonl.tmp` and no `events.jsonl`; every later command takes the
  directory for somebody else's and refuses it until it is cleared by hand,
  although nothing was recorded. `ReportEventually` names this end.
* **A reboot of the host** (`events.py:350`). The store keeps readings of
  `time.monotonic()`. After a reboot that clock starts again, and a restored
  attempt cannot be resumed, marked or finished before it has caught up.
  `docs/runtime_events.md:8-9` promises that a worker restart is recorded and
  resumed.
* **A launch that raises** (`runner.py:270`). Its own lease is given back, as the
  comment there demands, but the exception leaves `run` with the leases of the
  other campaigns held.
* **The final sweep** (`runner.py:421`). A campaign queued behind one that can no
  longer be admitted is recorded `UNSUPPORTED` although it fits;
  `docs/runtime_events.md:43-44` says such records are for work that cannot be
  admitted.
* `submit` lets a campaign that fits overtake the queue of a scheduler that calls
  itself FIFO (`resources.py:205`).
* **The deadline of a campaign** is handed unchanged to every slot
  (`methods/runner.py:115`), so a campaign of N slots may take N times the 3600
  seconds of `docs/implementation_plan.md:175, 214`. `CallInDeadline` states both
  bounds.
* `docs/runtime_events.md:45-48` describes one sequence from `method_started` to
  `completed`; a resumed attempt may hold several, the earlier ones cut off.
  `SegmentsAreMethodRuns` is stated per segment.
* Running the command over a finished directory replaces the results in
  `runs.jsonl` by rows without a result. `RowsBackedByLog` says that they still
  claim nothing false.
* A served model other than the expected one makes the slot a
  `provider_failure`, but the driver, which derives the status of the run, looks
  at `response.error` only (`run_development_campaign.py:594-601`).

Launch of an evaluation:

* No gate compares the model lock that the protocol lock names with the model
  lock at hand; the plan names both, so `LaunchIsBacked` ties each of them to
  the plan and not to each other.
* `docs/readiness.md:62-63` says that every submitted campaign must exist "in the
  locked campaign plan". The guard looks for the identifiers in the plan it is
  given, but does not check the hash of that plan, nor that the report was made
  for it (`readiness.py:135-150`). `RunIsReported` says what is left: a plan in
  evaluation mode, and a check that has found some evaluation ready.
* The docstring of `ReadinessChecker` (`readiness.py:177-179`) does not require
  digests of served weights; the gate passes a family only if its probe passed,
  and a probe passes only with a digest (`preflight.py:119-131`).
* Identifiers of campaigns do not contain the hashes of the locks, so plans made
  for different locks have the same ones.

Verification:

* The docstrings of the cache (`cache.py:20, 63`) say that a key is never given
  another result. Two commands on one file lose or replace each other's entries,
  and as they use one temporary name they can tear the file. `FileLoads` and
  `EntriesStay` hold as long as no two commands write at once.
* Without a tool configuration the fields a configuration supplies are not part
  of the key. Outcomes of crashed and timed-out tools are cached for good.
* The executors keep a witness across candidates of one key (`source.py`), so a
  search that found nothing may be followed by a check of an older witness. It
  cannot yield a finding that was not shown (`FindingIsShown`).
* **The marker of a holding predicate** (`source_executor.py:580`). The search
  takes `CANDIDATE_HOLDS` anywhere in the output as "the predicate holds". When
  the build fails because solc rejects the predicate, its message quotes the line
  with the marker, and the search reports `bounded_unsat`, complete. The module's
  docstring says that unsupported predicates fail closed, and
  `docs/source_executor_across.md:58` that toolchain failures are no negative
  results.
* **A failed container in a check or replay** (`source_executor.py:626, 673`) is
  reported as `fail` with a property that holds. The stage is then FAILED, the
  campaign stays available and counts as a miss, against `metrics.py:139-140` and
  `docs/shared_verification_pipeline.md:67-68` (a crash is no zero).
  `ReportIsTrue` excludes exactly this case and the one before.
* A literal predicate can be searched and checked but never replayed: the replay
  refuses a witness without bindings (`source_executor.py:658`).

Adjudication:

* **A late label** (`ledger.py:384`). A label added after the reconciliation is
  accepted and saved, and the saved ledger is refused by every later load.
  `docs/adjudication.md:20-22` promises the round trip. `RoundTrip` excludes
  exactly this case.

Paired bridge and explorers:

* **Later copies of a message** (`symbolic_paired.py:550`). With duplicates and
  reordering the encoding delivers the first queued copy only, so that states the
  concrete explorer reaches are never enumerated; the comment at 548-549 says
  that duplicate queues remain exact. For all other profiles
  `EveryMoveIsEncoded` holds. A symbolic search that calls itself complete can
  therefore miss a violation there, and `CompleteVerdictsHold` speaks of the
  symbolic verdict for the other profiles only; of the concrete one for all.
* Finality is recomputed from the present history, so a message that was final
  becomes removable after the later ones were rolled back (`paired.py:241`,
  against the docstring at 229-231).
* A recorded rollback of a message other than the latest is not replayable
  (`witness.py:135`); with duplicates and reordering a replay may deliver another
  copy than the recorded one.
* **The witness of a fixture with history** (`symbolic_paired.py:700`, and
  `paired_explorer.py` alike). Both explorers take a fixture
  that has a history, and the evidence they return is the whole log of the
  violating state, the inherited records included. Replayed from that fixture the
  first record is refused, so the witness check of a complete sat ends in CRASH;
  `docs/witness_replay.md:4-5` has the evidence replayed from the initial fixture.
  `SatIsWitnessed` says exactly when the check passes: without a history, and for
  a violation in the fixture as it is, whose evidence is empty.
* **The count of the deliveries** (`symbolic_paired.py:491-498`). A NOOP and an enqueue frame `delivered_count`, a rollback
  does not, so the solver may choose it there. The array with its count is then
  not the "destination delivery history" of 109-110; a count that is too small has
  later deliveries overwrite the array, one that is too large can forbid them. No
  schedule is added or lost by it, since the deliveries have no other guard and
  the right count is always among the choices (`EveryMoveIsEncoded`,
  `SymbolicImplementsFixture`).

XLIR and solver:

* `lowering.py` raises for division and remainder (211-213) before the branch
  that would lower them, so that the adapter calls every invariant with one
  UNSUPPORTED; `docs/xlir_v1.md` lists both as supported.
* The evaluator leaves the result of `shr` on a negative `int256` unsigned
  (`evaluator.py:197-198`) and compares addresses by their spelling, also those
  of a quantifier's domain. `LoweredAgrees` and `SolverShows` exclude both
  (`Ordinary`, `LowerCase`).
* Side constraints are global: they are not guarded by the connective that skips
  an operand. `BOUNDED_UNSAT` can therefore miss a violation at bindings where a
  skipped part is undefined, and `SolverShows` says that it misses no other.
* The model values of `uint256` symbols are rendered as hexadecimal strings,
  which the evaluator does not accept.
* `check_antecedent` answers `BOUNDED_UNSAT` for an empty list of bindings that is
  said to be exhaustive.

## 5. Proofs

All theorems hold for every value of the constants that satisfies the named
assumptions of the modules: `NoneIsNotANumber`, `EnvelopePositive`, `QuotaType`,
`RequestType`, `UsageType` and `BoundType` for the scheduler (the checks of
`__post_init__`), `StorePolicy`, `StoreBounds` and `StoreNone` for the event
store (`None` is neither a reading nor a machine), `PlanType` (the tasks of a
batch are distinct campaigns, `_validate_tasks`), `RunnerPolicy` and `RunnerNone`
for the worker runner, `BoundsPositive`, `AuthorizedType` and `ProfilesType` for the
fixture (`TransitionBounds` and `TransitionProfile` check themselves),
`CandidatesDiffer` for the explorers (a finite set of messages with different
identities, which both constructors check) and `SearchConstants` for their
limits; `LaunchAssumption` for the launch; `VerdictType` (which failures a
confirmed label may have) and `LedgerBounds` for the ledger; another `PlanType`
for the driver (campaigns of a plan differ); `SlotBounds`, `TimeBounds` and
`ReplyType` for the method run (a retry policy has one back-off for each retry);
`VerificationConstants` and `ToolAnswers` for the shapes of archives,
configurations and answers; `WidthPositive` for XLIR, `ProposalsAreTrees` (a JSON
object is a finite tree: its parts are proposals and nest less deep) and
`QuestionsAreAsked` (a trace has an observation, `lowering.py:128` and
`evaluator.py:44`). `HashesIdentify` says that the hashes in a cache key
name what they are taken of. The rest (`NoneIsApart`, `NoneIsNoLowering`, `NoRecordIsApart`,
`AbsentIsApart`, `FilesDiffer`, `NoneIsNoContent`, `NoneIsNoReason`,
`CandidatesAreNoWords`, `NoneIsNoCall`) say that the values that stand for
nothing, or for a torn file, differ from everything else. TLC evaluates each of
them in the runs.

* **`WorkerRunnerProofs`**, the scheduler. The invariant is `SchedInv`: types, envelope, exclusive
  solver, exact reservations and a servable queue (`QueueServable`). It is inductive as a whole.
  The central fact is that the table of leases after `k` admissions of a drain
  extends the table after `k - 1` by one fresh lease (`TableGrows`), so that the
  guard of the last admission bounds the final table (`ReleaseInv`); sums over
  tables are cardinalities of disjoint unions (`InUseUnion`). From it follow
  `SchedTypeCorrect`, `EnvelopeSafety`, `SolverSafety`, `ReservationExactness`
  and `QueueNeverRejects` (the rejecting branch of `release` is dead code).
  `LeaseNumbersAreFresh` and `GrantsKeepQuota` are the two action properties. `GrantsKeepQuota` needs `ReservedExact`, which is why
  the counters are in the invariant, and takes the last of the granted leases
  that declares an estimate (`Greatest`).
* **`AttemptLogProofs`.** `LogInv` says that histories are typed and legal at
  every position; a legal history has its terminal event last
  (`TerminalFinality`) and never continues after a blocked interruption
  (`BlockedNeverResumed`). `WorkerRunner` and `EventStore` implement
  `AttemptLog`, so their durable logs inherit both, the second for the store only
  if no caller of `resume` lifts a block.
* **`EventStoreProofs`.** The invariant is `StoreInv`. `DurableBeforeVisible` is
  not inductive alone: `Replace` puts on disk whatever the temporary file holds,
  so `Prepared` says that this is the stream with the event under way, and
  `AtRest` that no append survives its process. `Accepted` says of the stream on
  disk and of the one in memory that they load and restore; the step that makes
  it hard is `Replace`, where the event reaches the disk before the machine has
  moved, so `Underway` carries the guards that `BeginLifecycle` checked up to
  that point: the event may follow the stream and its machine (an event of a
  method run follows a machine that was started), and its reading is remembered. `InStep` is `MachineMatchesStream` without its condition that
  no append is under way, and turns "the machine allows it" into "restore
  accepts it". The lemmas say what one more event does to each operator on
  streams (`ValidAppended`, `StateAppended`, `CauseAppended`, `ClockAppended`,
  `RestorableAppended`), all by the position of the latest relevant event
  (`LatestAppended`). The theorems are `StoreTypeCorrect`, `Durability`,
  `ReloadAccepted`, `MachineAgreement` and `ValidatorAgreement`; the last one
  needs that in a valid stream a terminal event is the latest of its attempt
  (`TerminalIsLatest`) and that readings rise (`ReadingsRise`). For the
  refinement (`StoreRefinesLog`) the history of an attempt is its events in the
  stream, counted by position (`HistoryShape`): only `Replace` changes a stream
  on disk, by one event, whose attempt's history grows by its entry
  (`HistoryAppended`) while the others stay, and `Underway` says that the entry
  may follow (`ReplaceRecords`). `DurableHistoryFinal` carries the theorems of
  `AttemptLogProofs` on terminal events over to the file. Which kinds callers pass
  never changes (`CallersAreFixed`); if they leave the policy alone, the same
  argument gives the refinement of the log with the store's own policy
  (`StoreRefinesPolicy`), and with it that blocked stays blocked (`PolicyKept`).
* **`WorkerRunnerProofs`**, the runner. A campaign of a batch is in one place at a time: in
  one call on the stack (`OneCall`), once in the queue (`OneWait`), or in a
  future. `Places` says what is known of it there (`CallKnown`, `WaitKnown`,
  `FlightKnown`): that it has no future while it waits, that no attempt of it is
  terminal once it was offered, that its machine runs while its callback does,
  and that a resume asks the policy about the interruption its machine
  remembers. Most steps are about one campaign (`About`), and `PlacesStep` says
  that the others stay where they are; only collecting moves several, from the
  queue to launch calls (`CollectPlaces`). From `Places` follow `NeverRerun` and
  `RunnerRefinesLog`, since at every append the machine is in the state the log
  describes (`LegalRecords`); `RunnerLogFinal` carries the theorems of
  `AttemptLogProofs` over to the runner's log. `RunnerInv` adds the books:
  `Leased` (each lease has a future or a launch call), `Held` (the pending table
  is the queue and the calls about to decide), `Idle` (the head of the queue does
  not fit, unless the last sweep is under way, which does not drain) and `Told`
  (a task in no place has an outcome that the log confirms). `Idle` needs that a
  lease granted past the queue makes no waiting campaign fit (`GrantBlocks`).
  `TablesStayInStep` and `ReportIsLog` read the run's invariants off it.
* **`CampaignProofs`**, the method run. `CallInDeadline` is not inductive alone:
  its second part bounds the clock by the recorded slots and the one under way,
  and a call begins at whatever the clock says then. `InTime` therefore bounds
  the start of the call by the shares of the recorded slots, its age by one
  share, and says that a request is only out before the deadline, so that the cut
  timeout and the overrun stay within the share (`WaitInTime`). `Counted` says
  that a request which is out has not been counted as late. For `ProposalsOnce`
  the invariant ties `hashes` to the slots: it holds the identities of the slots
  with status `candidate` and no others, which is what makes the test against
  `hashes` one against the earlier slots.
* **`CampaignProofs`**, the driver. `DriverInv` says what a process that may die
  now leaves behind: `EndIsLast` (nothing follows the end of an attempt),
  `MethodRuns` (every method event continues the one before it or begins a run,
  and an end that is no tool failure follows a complete run), and of a driver at
  work (`AtWork`) that its rows and its rest are the plan in order (`InOrder`),
  that its rows are backed by the log, and how far the campaign in hand has come
  (`InCampaign`). A row stays backed since an ended attempt gets no event
  (`RowsStay`); this is also what keeps the old `runs.jsonl` true while a new
  driver works (`FilesTold`). `ExitValidates` compares a report with files, which
  need not agree before the exit, so it is carried as a fact about the last exit.
* **`DocumentProofs`**, the launch. `LaunchInv` says what the seals protect: a
  sealed document was issued, and under its own name; every protocol lock that
  was issued is complete; a sealed report that calls an evaluation ready was made
  by a check. Whether the documents fit each other is not invariant, since any
  command can replace one of them; it is read off the gates in the step that
  launches (`LaunchBacking`), which is why `boundary` is cleared by every other
  step.
* **`DocumentProofs`**, the ledger. `LabelledOnce` (a rater labels a finding
  once), `Standing` (a reconciliation stands on the first two labels of its
  finding, at known positions, and none came before the second: `StandsOn`) and
  `Chained` (each relabel event starts from the status that the events before it
  left, and all of them together give the effective statuses). Positions, and not
  the set of labels, are what survives a late label. `RoundTrip` needs `Chained`
  for the replay of the events, and that a finding with a reconciliation has two
  labels before any late one (`OnlyLateLabels`).
* **`VerificationProofs`.** Two invariants. `Files` is about who writes:
  `Protocol` says that while no two commands have written at once, the writer has
  the temporary file to itself, what it renames is its copy with one new entry,
  and a copy that is not behind is the file; `CacheLoads` and `CacheEntriesStay`
  follow. `Truth` is about what is said of a candidate: `Told` ties an outcome to
  a key that was shown (a hit), to a key that a failed container has disturbed, or
  to a stage that names its failure (a miss). It holds when the stages have run
  (`HarnessVerdict`, from one lemma per stage and per command of the executor),
  stays as more is shown (`ToldGrows`), and holds for whoever finds the outcome
  under the same key, because the hashes identify what they name (`SameKey`).
  `CacheTold` carries it through files and copies, `Witnessed` through kept
  witnesses, `Tells` through the tally of a campaign to its row. `FindingsShown`
  and `RowsTrue` read the runs' properties off it.
* **`PairedProofs`**, the fixture. `PairedInv` is the shape of the state, its
  bounds, `CountersAgree`, `ChannelConserves`, `CommittedOnce` and
  `InOrderChannel`. `CommittedOnce` (without duplicates no identity is committed
  twice) is the strengthening: it identifies the message a rollback removes from
  the history with the one it removes from the queue, which `InOrderChannel`
  needs, and together with `ChannelConserves` it gives `DeliveredOnce`.
  `CountersAgree` keeps the source clock from going below zero. Copies of an
  identity are cardinalities, with one lemma for appending and one for removing
  an element (`CopiesAppend`, `CopiesRemove`, by a bijection). The theorems are
  `PairedTypeCorrect`, `ChannelConservation`, `OrderedDelivery`,
  `CounterAgreement`, `SingleDelivery` and `ChannelKeeping`. `ReplayIsEvidence`
  needs that the replay of a longer log is one more step of the replay
  (`ReplayedAppend`, from any initial fixture), and then that the state and its log are one: an entry of
  the log names the move again, as under these profiles the first queued message
  of an identity is the one delivered (`ReplayOfMove`).
* **`PairedProofs`**, the symbolic encoding. `SymbolicInv` says that the arrays
  of the queue and of the source are filled up to their counts and empty behind
  (`Tables`), that the counts agree with each other and with the picks, but for
  the count of the deliveries, which is only in its range (`Counts`), and that
  without duplicates no message is queued or committed twice (`QueuedOnce`). One lemma
  per pick computes the decoded arrays after it (`PickedEnqueue`,
  `PickedDeliver`, `PickedReorg`), by what appending to and removing from a table
  does to the sequence it stands for (`AppendTable`, `RemoveTable`). That the
  picks are native moves gives the refinement (`SymbolicRefines`); that the
  native moves are picks, and can be picked with the right count (`Counted`), gives
  `EncodingIsExact`, where `QueuedOnce` makes the first match of the encoding the
  message that the concrete explorer delivers.
* **`PairedProofs`**, the searches. A fixture that a caller can have made is a
  state of the bridge with candidates only (`StartTyped`, by induction over the
  moves of its history with `CallerMoveKept`). The reachable states are the least
  set that has the given fixture's state and is closed under the moves
  (`ReachableLeast`, `ReachableClosed`): least by induction over the levels,
  closed because a move takes a transaction, so that a state is in the level of
  the length of its log. `SearchInv` says of the concrete explorer that the
  fixture's state and all successors of a seen state are seen or queued, and that no seen state violates
  (`Explored`); when the queue is empty the seen states are a closed set, and
  hold all reachable ones (`ExploredAll`). Of the symbolic one it says that the
  blocked schedules were quiet to their ends (`Tested`). Every prefix of a
  schedule ends in a reachable state, whose log replays to it if the fixture had
  no history (`SchedulesAreEvidence`), which makes a sat true and its witness
  pass; a log that begins with a history is refused at its first entry
  (`InheritedRefused`), which makes the check crash. Every
  reachable state is the end of a schedule (`EveryStateIsScheduled`, for
  candidates that are enqueued once or a channel in order), which makes a
  `bounded_unsat` true. No clock, limit or cancellation occurs in the argument,
  as whatever ends a search early leaves an incomplete verdict (`StopsWith`,
  `Incomplete`).
* **`XlirProofs`**, the words. `OperationAgrees` says of every operator that
  evaluates both operands, for words of any width, that its value is of its type,
  that the term computes the bits of that value from the bits of the operands,
  and that there is a value where the side constraints hold. It rests on
  congruence modulo the word (`RemainderShift`, `Congruent`), on the one number of
  a type with given bits (`NumberBits`, `WordReads`), on division towards zero
  (`NumberQuotient`), on shifts as products and floors (`FactorFacts`,
  `FloorQuotient`), and on a combination of two words bit by bit staying a word
  (`BitwiseWord`). The type rules of the compiler are what excludes `sar` of an
  unsigned word, where the two would differ.
* **`XlirProofs`**, the formulas. `Agree` relates the result of the evaluator to
  that of the translation: the term is one of the type; where there is a value,
  the term is its bits; where the constraints hold, there is a value. The second
  says that what an evaluation skips cannot disturb the term, the third that the
  constraints of the whole formula cover every error of any part of it. Each kind
  of expression keeps `Agree` (`LeafAgrees`, `UnaryAgrees`, `BinaryAgrees`, and
  `ListAgrees` for quantifiers and temporal operators, where `JoinedAgrees` sets
  the shortcut of Python's `all` and `any` against a conjunction over all
  elements). `Correspondence` is the induction over the depth of the expression,
  under a binding of the variables in scope by values of their types
  (`ScopedBy` supplies it) and at a position of the trace; `RootAgrees` is its
  case for the closed formula that the compiler returns.
* **`XlirProofs`**, the queries. `XlirInv` says that what is lowered or asked about
  is a closed formula of type bool, that the status of a complete answer is
  whether there is a model, and that a finite check that found the antecedent
  unreachable has seen it false in every trace. `LoweringAgrees` and
  `AnswersShow` read the run's properties off it and `RootAgrees`. A model may
  spell an address in upper case; the solver cannot tell it from the trace with
  the same bits in lower case (`LoweredTrace`), for which a finite check has a
  value, so that the two do not contradict each other.

The recursion in the models proved about is by recursive functions, over an
interval, the natural numbers or the proposals. The provers cannot instantiate
the library's induction theorems, which take an operator; induction over numbers
is had from the well-foundedness of `<` as a statement about sets (`AllNumbers`),
and that a function with the recursive equations exists from it: `Recursion` for
the intervals, and in `XlirProofs` `SolutionExists`, once for the eight functions
of `XlirTerms` (`Body` dispatches on their names), from the fact that each
equation asks only for values at parts of lower rank (`Locality`). What these
functions return for every input is then proved by `AllProposals`, induction over
the depth of a proposal.

Some proved invariants (`TypeOK`, `StoreTypeOK`, `PairedTypeOK`, `QueueServable`,
`LeasesAreFresh`, `CountersAgree`) are in no configuration: they are parts of the
inductive invariants above, and the theorems say more than a run would.

Only model-checked: the liveness properties `BatchEnds`, `InFlightIsSettled`,
`ReportEventually` and `RunEnds`, as the prover has neither fairness nor ENABLED.
Every other property that a run checks is a theorem.

## 6. Plan

Order of work, most important behaviour first; 1 to 14 are done.

1. `Scheduler`, its run and its proofs.
2. `AttemptLog` and its proofs; `EventStore` implementing it, and its proofs.
3. `WorkerRunner`, composing scheduler, log and driver; safety, then liveness.
4. `AdjudicationLedger`.
5. `PairedState`, `PairedFixture` and its proofs.
6. `SymbolicPaired` implementing the fixture.
7. `MethodRunner`: a late answer against the deadline, retries, cancellation, the
   slots.
8. `Verification`: stage order, cached outcomes, two commands on one file, kills;
   then `SourceExecutor`, and the rows for the metrics.
9. `PairedSearch`: limits, timeout and cancellation against the claim that a space
   is exhausted.
10. `CampaignDriver`: the three files across restarts, the order of method events.
11. `XlirTerms` and `Xlir`: evaluator against lowering and solver.
12. `EvaluationLaunch` and its proofs; the proofs about `MethodRunner` and
    `WorkerRunner`.
13. The proofs about `EventStore` implementing `AttemptLog`, `Verification`,
    `AdjudicationLedger`, `CampaignDriver`, `SymbolicPaired` and `PairedSearch`.
14. The proofs about `XlirTerms` and `Xlir`.
15. Left: the replay of a provider archive, and `VersionBlock` in `canary.py`.

## 7. Not modelled

* Canary, isolation, telemetry: functions of their inputs, without interaction.
  Of the planner only that a plan names every cell once, and its configuration.
* EVM and Foundry replay, differential evidence, harness generators, dataset
  extractors: one pass from input to output around external processes. What tools
  other than the repository's own may answer is an input of `Verification`.
* The Solidity text that the executor writes, and the workspaces it runs in.
* Analysis, calibration, baselines, artifacts, command line: statistics, tables
  and formatting.
* The loading of provider archives by the method runner and of cases, prompt
  rendering, hashes and event identifiers.
* Power failure of the host during a rename, two processes writing one event
  file, and a ledger file torn by a crash: the code does nothing about them, so
  a model would only restate that.
