-------------------------- MODULE EvaluationLaunch --------------------------
(* The documents an evaluation depends on, the commands that write them,   *)
(* and the two boundaries that read them: the readiness check and the      *)
(* launch guard.  Somebody runs the commands in any order, gives them any  *)
(* hash a command printed earlier, and changes the inputs, or a finished   *)
(* document, by hand.                                                      *)
(*                                                                         *)
(* A command writes its document in place (cli.py:64), so a process that   *)
(* dies in between leaves a torn file.  The hash of a document is the      *)
(* number of the command that wrote it; a document that was edited by hand *)
(* keeps the hash it had and is no longer sealed.  A gate passes or does   *)
(* not: FAIL and PENDING have the same consequences.                       *)
EXTENDS Integers, FiniteSets

CONSTANTS
  None, Torn,
  Family,        \* the model families a panel expects
  Catalogue,     \* model documents: families -> what a row declares
  Answer,        \* what the probe of a family brings back
  Planning,      \* prospective protocols
  Evidence,      \* evidence indexes
  Toolchain,     \* toolchain locks
  Benchmark,     \* hashes of benchmark manifests
  Config, Cell,  \* configurations; instance x method x model x replicate
  MaxCommands,   \* bound on the commands that write a document
  MaxEdits       \* bound on the edits by hand

ASSUME LaunchAssumption == MaxCommands \in Nat /\ MaxEdits \in Nat

Lock == {"models", "protocol", "plan"}

EvidenceGate ==
  {"G3.02", "G3.03", "G3.05", "G3.06", "G3.07", "G3.08", "G3.09", "G3.10"}

RequiredGates ==
  EvidenceGate \union {"protocol", "G3.01", "G3.04", "toolchain", "campaign_plan"}

VARIABLES
  catalogue, planning, evidence, toolchain,  \* the inputs
  lock,        \* the documents that commands write
  command,     \* the write under way, or None
  report,      \* the last readiness report, or None
  boundary,    \* what has just been let through: None, a launch, or a run
  commands, edits,
  issued,      \* history: every document a command has written
  checked      \* history: a check has found an evaluation ready

inputs == <<catalogue, planning, evidence, toolchain>>
launchVars ==
  <<catalogue, planning, evidence, toolchain, lock, command, report, boundary,
    commands, edits, issued, checked>>

Readable(d) == d \notin {None, Torn}

IssuedAs(f) == {d \in issued : d.kind = f}

----------------------------------------------------------------------------
(* The commands that write a document.                                     *)

Write(body) ==
  /\ command = None
  /\ commands < MaxCommands
  /\ commands' = commands + 1
  /\ lock' = [lock EXCEPT ![body.kind] = Torn]
  /\ command' = body
  /\ boundary' = None
  /\ UNCHANGED <<inputs, report, edits, issued, checked>>

(* The check of one family: its tag, the transport, the served model, the  *)
(* digest and the effective settings.                                      *)
ProbePasses(row, answer) ==
  /\ row.tag
  /\ answer = "served"
  /\ row.digest
  /\ row.settings # "none"

LockRow(row, answer) ==
  [passed |-> ProbePasses(row, answer), public |-> row.public,
   settings |-> row.settings]

(* preflight-live.  A missing tag ends the command before the first probe; *)
(* a missing family ends it before the lock is written.                    *)
Preflight(answer) ==
  /\ DOMAIN catalogue = Family
  /\ \A f \in Family : catalogue[f].tag
  /\ Write([kind |-> "models", id |-> commands + 1,
            rows |-> [f \in Family |-> LockRow(catalogue[f], answer[f])]])

(* protocol-lock, with the hashes of any model lock and benchmark.         *)
LockProtocol(m, b) ==
  /\ planning.missing = FALSE
  /\ planning.replicates > 0
  /\ Write([kind |-> "protocol", id |-> commands + 1, locked |-> TRUE,
            missing |-> FALSE, replicates |-> planning.replicates,
            model |-> m, benchmark |-> b])

Campaigns(plan) == Cell \X {plan.config}

(* plan: every cell once, under a configuration that its identifiers name. *)
Plan(mode, p, m, b, config) ==
  Write([kind |-> "plan", id |-> commands + 1, mode |-> mode, protocol |-> p,
         model |-> m, benchmark |-> b, config |-> config])

WritePlan ==
  \E config \in Config :
    \/ Plan("development", None, None, None, config)
    \/ \E p \in IssuedAs("protocol"), m \in IssuedAs("models"), b \in Benchmark :
         Plan("evaluation", p.id, m.id, b, config)

Finish ==
  /\ command # None
  /\ lock' = [lock EXCEPT ![command.kind] = [body |-> command, sealed |-> TRUE]]
  /\ issued' = issued \union {command}
  /\ command' = None
  /\ boundary' = None
  /\ UNCHANGED <<inputs, report, commands, edits, checked>>

Crash ==
  /\ command # None
  /\ command' = None
  /\ boundary' = None
  /\ UNCHANGED <<inputs, lock, report, commands, edits, issued, checked>>

----------------------------------------------------------------------------
(* The readiness check.                                                    *)

Sealed(d) == d.sealed

ProtocolGate(mode, d) ==
  /\ Readable(d)
  /\ mode = "evaluation" =>
       /\ d.body.locked
       /\ d.body.replicates > 0
       /\ ~ d.body.missing
       /\ Sealed(d)

ModelGate(mode, d) ==
  /\ Readable(d)
  /\ DOMAIN d.body.rows = Family
  /\ mode = "evaluation" =>
       /\ \A f \in Family :
            /\ d.body.rows[f].public
            /\ d.body.rows[f].settings = "given"
            /\ d.body.rows[f].passed
       /\ Sealed(d)

ToolchainGate(mode) ==
  /\ toolchain.pinned
  /\ mode = "evaluation" =>
       toolchain.locked /\ toolchain.packages /\ toolchain.sealed

\* Mutant: the model lock at hand is not compared with the one of the plan.
PlanGateAnyModels(mode, d, protocol, models) ==
  /\ Readable(d)
  /\ mode = "evaluation" =>
       /\ None \notin {d.body.protocol, d.body.model, d.body.benchmark}
       /\ d.body.mode = "evaluation"
       /\ Sealed(d)
       /\ Readable(protocol) /\ d.body.protocol = protocol.body.id
       /\ d.body.benchmark = evidence.benchmark

PlanGate(mode, d, protocol, models) ==
  /\ Readable(d)
  /\ mode = "evaluation" =>
       /\ None \notin {d.body.protocol, d.body.model, d.body.benchmark}
       /\ d.body.mode = "evaluation"
       /\ Sealed(d)
       /\ Readable(protocol) /\ d.body.protocol = protocol.body.id
       /\ Readable(models) /\ d.body.model = models.body.id
       /\ d.body.benchmark = evidence.benchmark

(* G3.01 wants a support matrix that decodes, whose owner has accepted it, *)
(* and the two replay checks; G3.03 also wants 120 cases of each kind.     *)
BackendGate == evidence.matrix = "owner_accepted" /\ evidence.replays

EvidenceGatePasses(g) ==
  /\ g \in evidence.shown
  /\ g = "G3.03" => evidence.corpus

Gates(mode) ==
  {g \in RequiredGates :
     CASE g = "protocol" -> ProtocolGate(mode, lock.protocol)
       [] g = "G3.04" -> ModelGate(mode, lock.models)
       [] g = "toolchain" -> ToolchainGate(mode)
       [] g = "campaign_plan" ->
            PlanGate(mode, lock.plan, lock.protocol, lock.models)
       [] g = "G3.01" -> BackendGate
       [] OTHER -> EvidenceGatePasses(g)}

ReportFor(mode) ==
  [mode |-> mode, gates |-> Gates(mode), ready |-> Gates(mode) = RequiredGates,
   sealed |-> TRUE]

(* readiness.  A torn document ends the command before it reports.         *)
Readiness(mode) ==
  /\ \A f \in Lock : lock[f] # Torn
  /\ report' = ReportFor(mode)
  /\ checked' = (checked \/ (mode = "evaluation" /\ report'.ready))
  /\ boundary' = None
  /\ UNCHANGED <<inputs, lock, command, commands, edits, issued>>

----------------------------------------------------------------------------
(* The launch guard.                                                       *)

\* Mutant: the hash of the report is not recomputed.
GuardTrusting(r, plan, tasks) ==
  /\ r.mode = "evaluation"
  /\ r.gates = RequiredGates
  /\ r.ready
  /\ Readable(plan)
  /\ plan.body.mode = "evaluation"
  /\ tasks \subseteq Campaigns(plan.body)

Guard(r, plan, tasks) ==
  /\ r.mode = "evaluation"
  /\ r.sealed
  /\ r.gates = RequiredGates
  /\ r.ready
  /\ Readable(plan)
  /\ plan.body.mode = "evaluation"
  /\ tasks \subseteq Campaigns(plan.body)

(* evaluation-launch-check.                                                *)
LaunchCheck ==
  /\ \A f \in Lock : Readable(lock[f])
  /\ report' = ReportFor("evaluation")
  /\ checked' = (checked \/ report'.ready)
  /\ boundary' = IF Guard(report', lock.plan, {}) THEN [at |-> "launch"] ELSE None
  /\ UNCHANGED <<inputs, lock, command, commands, edits, issued>>

(* EvaluationRunner.run: a report made earlier and the plan at hand.       *)
EvaluationRun(tasks) ==
  /\ report # None
  /\ Guard(report, lock.plan, tasks)
  /\ boundary' = [at |-> "run", tasks |-> tasks]
  /\ UNCHANGED <<inputs, lock, command, report, commands, edits, issued, checked>>

----------------------------------------------------------------------------
(* What people do: new inputs, and edits of finished documents.            *)

NewInputs ==
  /\ edits < MaxEdits
  /\ edits' = edits + 1
  /\ catalogue' \in Catalogue
  /\ planning' \in Planning
  /\ evidence' \in Evidence
  /\ toolchain' \in Toolchain
  /\ inputs' # inputs
  /\ boundary' = None
  /\ UNCHANGED <<lock, command, report, commands, issued, checked>>

Edited(f) ==
  CASE f = "models" ->
         [lock.models.body EXCEPT
            !.rows = [g \in Family |->
                        [passed |-> TRUE, public |-> TRUE, settings |-> "given"]]]
    [] f = "protocol" ->
         [lock.protocol.body EXCEPT !.replicates = @ + 1]
    [] f = "plan" ->
         [lock.plan.body EXCEPT !.mode = "evaluation",
            !.protocol = lock.protocol.body.id, !.model = lock.models.body.id,
            !.benchmark = evidence.benchmark]

EditDocument(f) ==
  /\ edits < MaxEdits
  /\ edits' = edits + 1
  /\ command = None
  /\ Readable(lock[f])
  /\ f = "plan" => Readable(lock.protocol) /\ Readable(lock.models)
  /\ Edited(f) # lock[f].body
  /\ lock' = [lock EXCEPT ![f] = [body |-> Edited(f), sealed |-> FALSE]]
  /\ boundary' = None
  /\ UNCHANGED <<inputs, command, report, commands, issued, checked>>

EditReport ==
  /\ edits < MaxEdits
  /\ edits' = edits + 1
  /\ report # None
  /\ ~ report.ready
  /\ report' = [mode |-> "evaluation", gates |-> RequiredGates, ready |-> TRUE,
                sealed |-> FALSE]
  /\ boundary' = None
  /\ UNCHANGED <<inputs, lock, command, commands, issued, checked>>

----------------------------------------------------------------------------
LaunchInit ==
  /\ catalogue \in Catalogue
  /\ planning \in Planning
  /\ evidence \in Evidence
  /\ toolchain \in Toolchain
  /\ lock = [f \in Lock |-> None]
  /\ command = None
  /\ report = None
  /\ boundary = None
  /\ commands = 0
  /\ edits = 0
  /\ issued = {}
  /\ checked = FALSE

LaunchNext ==
  \/ \E answer \in [Family -> Answer] : Preflight(answer)
  \/ \E m \in IssuedAs("models"), b \in Benchmark : LockProtocol(m.id, b)
  \/ WritePlan
  \/ Finish
  \/ Crash
  \/ \E mode \in {"development", "evaluation"} : Readiness(mode)
  \/ LaunchCheck
  \/ \E tasks \in SUBSET (Cell \X Config) : EvaluationRun(tasks)
  \/ NewInputs
  \/ \E f \in Lock : EditDocument(f)
  \/ EditReport

LaunchSpec == LaunchInit /\ [][LaunchNext]_launchVars

----------------------------------------------------------------------------
(* When a launch is allowed, what the guard saw goes back to what the      *)
(* commands wrote: the plan was issued for exactly the protocol lock, the  *)
(* model lock and the benchmark at hand, the protocol lock was made from a *)
(* complete protocol, and the model lock from a probe that every family    *)
(* passed, whatever was rerun, torn or edited in between                   *)
(* (readiness.py:277-427, locks.py:45-58, model_lock.py:88-102).  It does  *)
(* not say that the protocol lock names this model lock: no gate compares  *)
(* the two.                                                                *)
LaunchIsBacked ==
  boundary # None /\ boundary.at = "launch" =>
    LET plan == lock.plan.body
        models == lock.models.body
        protocol == lock.protocol.body
    IN /\ {plan, models, protocol} \subseteq issued
       /\ plan.protocol = protocol.id
       /\ plan.model = models.id
       /\ plan.benchmark = evidence.benchmark
       /\ ~ protocol.missing /\ protocol.replicates > 0
       /\ \A f \in Family : models.rows[f].passed

(* An evaluation run starts only with a report that a check has really     *)
(* made, in evaluation mode and with every gate passed, and only with      *)
(* campaigns of an evaluation plan, although the report and the plan reach *)
(* the runner separately (runner.py:531-544, readiness.py:109-150).        *)
RunIsReported ==
  boundary # None /\ boundary.at = "run" =>
    /\ checked
    /\ lock.plan.body.mode = "evaluation"
    /\ boundary.tasks \subseteq Campaigns(lock.plan.body)
============================================================================
