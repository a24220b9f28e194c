---------------------------- MODULE WorkerRunner ----------------------------
(***************************************************************************)
(* WorkerRunner.run (src/crossllm/runtime/runner.py), the scheduler it     *)
(* owns, the event log it writes, the callbacks it runs on worker threads, *)
(* and the driver that restarts it (scripts/run_development_campaign.py).  *)
(*                                                                         *)
(* run() is one thread.  Its call stack is the sequence `todo`: the head   *)
(* is the call to make next, and a call that makes others puts them in     *)
(* front.  A step makes at most one append to the event log, so a crash    *)
(* between two steps is a crash between two durable events.  Appending is  *)
(* atomic here; EventStore has its steps.  The runner only ever reads the  *)
(* events of one attempt or one campaign, so the log is kept per attempt.  *)
(***************************************************************************)
EXTENDS Scheduler

CONSTANTS
  Plan,             \* the tasks of a batch, in order: distinct campaigns
  Tries,            \* numbers of the attempts a caller may name
  Interruption,     \* InterruptionKind
  Blocked,          \* the kinds ResumePolicy answers with BLOCK
  WorkerRestart,    \* the kind recorded for an attempt found in flight
  MaxResumes,       \* WorkerTask.max_resumes
  ResumeUncertain,  \* run(resume_uncertain=...)
  RecoverFirst,     \* whether a caller marks in-flight attempts before a batch
  MaxBatches,       \* bound on the batches run over one log
  MaxMishaps        \* bound on crashes and failed appends

ASSUME PlanType ==
  /\ Plan \in Seq(Campaign)
  /\ \A i, j \in DOMAIN Plan : i # j => Plan[i] # Plan[j]

ASSUME RunnerPolicy ==
  /\ Blocked \subseteq Interruption
  /\ WorkerRestart \in Interruption \ Blocked
  /\ None \notin Interruption
  /\ ResumeUncertain \in BOOLEAN /\ RecoverFirst \subseteq BOOLEAN
  /\ MaxResumes \in Nat /\ MaxBatches \in Nat /\ MaxMishaps \in Nat

\* A CampaignStateMachine; a future of run() with its lease and its result.
MachineState == [state : {"planned", "running", "uncertain", "terminal"},
                 cause : Interruption \cup {None}]

Flight == [lease : Nat, done : BOOLEAN, result : Interruption \cup {None}]

ASSUME RunnerNone ==
  /\ None \notin {"existing", "terminal", "uncertain", "unsupported"}
  /\ None \notin MachineState /\ None \notin Flight

VARIABLES
  phase,     \* "down": no batch; "batch": in run(); "returned", "aborted"
  log,       \* attempt -> its durable lifecycle events
  try,       \* campaign -> the attempt number its task names
  todo,      \* the calls run() has still to make
  pending,   \* pending: campaigns without an admission decision
  machine,   \* machines: campaign -> its CampaignStateMachine, or None
  future,    \* active: campaign -> its future and lease, or None
  resumes,   \* resume_counts
  cause,     \* resume_interruptions: campaign -> kind or None
  outcome,   \* outcomes: campaign -> what its WorkerRun says, or None
  recovers,  \* the caller marks in-flight attempts before it runs a batch
  batches,   \* batches begun so far
  mishaps    \* crashes and failed appends so far

runVars == <<phase, try, todo, pending, machine, future, resumes, cause, outcome>>
vars == <<schedVars, runVars, log, recovers, batches, mishaps>>

Attempt == Campaign \X Tries

Entry ==
  [type : {"started", "terminal"}, cause : {None}]
    \cup [type : {"uncertain"}, cause : Interruption]

Started == [type |-> "started", cause |-> None]
Terminal == [type |-> "terminal", cause |-> None]
Uncertain(k) == [type |-> "uncertain", cause |-> k]

TaskOf(c) == <<c, try[c]>>

----------------------------------------------------------------------------
(* The event log and the machines                                          *)

StateIn(a) ==
  IF log[a] = << >> THEN "planned"
  ELSE LET type == log[a][Len(log[a])].type
       IN  IF type = "started" THEN "running" ELSE type

\* The interruption a restored machine remembers.
CauseIn(a) ==
  LET S == {i \in DOMAIN log[a] : log[a][i].type = "uncertain"}
  IN  IF S = {} THEN None
      ELSE log[a][CHOOSE i \in S : \A j \in S : j <= i].cause

(* Mutant: only attempts with a later number count.                        *)
RefusedByLater(c) == \E t \in Tries : t > try[c] /\ StateIn(<<c, t>>) = "terminal"

\* _machine raises when another attempt of the campaign is terminal.
Refused(c) ==
  /\ \E t \in Tries : StateIn(<<c, t>>) = "terminal"
  /\ StateIn(TaskOf(c)) # "terminal"

\* A machine's append, durable before the machine moves on.
Write(c, e, state) ==
  /\ log' = [log EXCEPT ![TaskOf(c)] = Append(@, e)]
  /\ machine' = [machine EXCEPT ![c] =
       [state |-> state, cause |-> IF e.cause = None THEN @.cause ELSE e.cause]]

Machine(c) ==
  IF machine[c] = None
  THEN [state |-> StateIn(TaskOf(c)), cause |-> CauseIn(TaskOf(c))]
  ELSE machine[c]

----------------------------------------------------------------------------
(* Calls on the stack                                                      *)

Call(op, c, l) == [op |-> op, task |-> c, lease |-> l]

Running(c) == future[c] # None /\ ~future[c].done

InBatch == phase = "batch"

NextCall(op) == InBatch /\ todo # << >> /\ Head(todo).op = op

Fresh(x) == [c \in Campaign |-> x]

ZeroUsage == [d \in Dim |-> 0]

\* The launches of the campaigns that a release with n admissions admitted.
Launches(n) ==
  [i \in 1 .. n |-> Call("launch", queue[i], nextLease + i - 1)]

Init ==
  /\ SchedInit
  /\ phase = "down"
  /\ log = [a \in Attempt |-> << >>]
  /\ try \in [Campaign -> Tries]
  /\ todo = << >> /\ pending = {}
  /\ machine = Fresh(None) /\ future = Fresh(None)
  /\ resumes = Fresh(0) /\ cause = Fresh(None) /\ outcome = Fresh(None)
  /\ recovers \in RecoverFirst
  /\ batches = 0 /\ mishaps = 0

----------------------------------------------------------------------------
(* The driver: recover, then run the plan with a new scheduler             *)

(* Mutant: only first attempts are recovered.                              *)
RecoverFirstTry(a) ==
  /\ phase = "down" /\ recovers /\ batches < MaxBatches
  /\ StateIn(a) = "running" /\ a[2] = 1
  /\ log' = [log EXCEPT ![a] = Append(@, Uncertain(WorkerRestart))]
  /\ UNCHANGED <<schedVars, runVars, recovers, batches, mishaps>>

(* _recover_inflight_attempts: an attempt whose events end in a start was  *)
(* cut off by a crash; mark it uncertain.                                  *)
Recover(a) ==
  /\ phase = "down" /\ recovers /\ batches < MaxBatches
  /\ StateIn(a) = "running"
  /\ log' = [log EXCEPT ![a] = Append(@, Uncertain(WorkerRestart))]
  /\ UNCHANGED <<schedVars, runVars, recovers, batches, mishaps>>

\* Enter run(): every task is pending and will be offered in plan order.
BeginBatch ==
  /\ phase = "down" /\ batches < MaxBatches
  /\ recovers => \A a \in Attempt : StateIn(a) # "running"
  /\ phase' = "batch"
  /\ try' \in [Campaign -> Tries]
  /\ todo' = [i \in DOMAIN Plan |-> Call("offer", Plan[i], 0)]
  /\ pending' = {Plan[i] : i \in DOMAIN Plan}
  /\ machine' = Fresh(None) /\ future' = Fresh(None)
  /\ resumes' = Fresh(0) /\ cause' = Fresh(None) /\ outcome' = Fresh(None)
  /\ active' = << >> /\ queue' = << >> /\ nextLease' = 1
  /\ used' = ZeroUsage /\ reserved' = ZeroUsage
  /\ batches' = batches + 1
  /\ UNCHANGED <<log, recovers, mishaps>>

----------------------------------------------------------------------------
(* run(): offering tasks                                                   *)

(* scheduler.submit, and what follows the decision: an admitted task is    *)
(* launched, a rejected one is rejected, a queued one stays pending.       *)
Offer(c, rest) ==
  \/ /\ SubmitAdmitted(c)
     /\ todo' = <<Call("launch", c, nextLease)>> \o rest
  \/ /\ SubmitRejected(c)
     /\ todo' = <<Call("reject", c, 0)>> \o rest
  \/ /\ SubmitQueued(c)
     /\ todo' = rest

\* The first loop of run(): one task of the plan.
OfferTask ==
  /\ NextCall("offer")
  /\ LET c == Head(todo).task
     IN /\ ~Refused(c)
        /\ StateIn(TaskOf(c)) # "terminal"
        /\ machine' = [machine EXCEPT ![c] = Machine(c)]
        /\ Offer(c, Tail(todo))
  /\ UNCHANGED <<phase, log, try, pending, future, resumes, cause, outcome,
                 recovers, batches, mishaps>>

\* A task whose attempt is already terminal is reported, not run again.
SkipTask ==
  /\ NextCall("offer")
  /\ LET c == Head(todo).task
     IN /\ ~Refused(c)
        /\ StateIn(TaskOf(c)) = "terminal"
        /\ machine' = [machine EXCEPT ![c] = Machine(c)]
        /\ outcome' = [outcome EXCEPT ![c] = "existing"]
        /\ pending' = pending \ {c}
  /\ todo' = Tail(todo)
  /\ UNCHANGED <<schedVars, phase, log, try, future, resumes, cause, recovers,
                 batches, mishaps>>

\* The exception leaves run(); leases, queue and results stay as they are.
Abort ==
  /\ phase' = "aborted"
  /\ todo' = << >>

RefuseTask ==
  /\ NextCall("offer")
  /\ Refused(Head(todo).task)
  /\ Abort
  /\ UNCHANGED <<schedVars, log, try, pending, machine, future, resumes, cause,
                 outcome, recovers, batches, mishaps>>

----------------------------------------------------------------------------
(* run(): launching and rejecting                                          *)

\* resume uses the interruption of this batch, else the restored one.
ResumeCause(c) == IF cause[c] # None THEN cause[c] ELSE machine[c].cause

(* Mutant: resume does not ask the policy.                                 *)
LaunchableAny(c) == machine[c].state \in {"planned", "uncertain"}

Launchable(c) ==
  \/ machine[c].state = "planned"
  \/ machine[c].state = "uncertain" /\ ResumeCause(c) \notin Blocked

\* start or resume the attempt, then hand the callback to a worker thread.
Launch ==
  /\ NextCall("launch")
  /\ LET c == Head(todo).task
     IN /\ Launchable(c)
        /\ Write(c, Started, "running")
        /\ future' = [future EXCEPT ![c] =
             [lease |-> Head(todo).lease, done |-> FALSE, result |-> None]]
        /\ pending' = pending \ {c}
  /\ todo' = Tail(todo)
  /\ UNCHANGED <<schedVars, phase, try, resumes, cause, outcome, recovers,
                 batches, mishaps>>

(* start or resume raises, because the machine or the policy forbids it or *)
(* because the append fails.  The task's own lease is released; what that  *)
(* release admits is dropped, and the exception leaves run().              *)
LaunchRaises ==
  /\ NextCall("launch")
  /\ IF Launchable(Head(todo).task)
     THEN mishaps < MaxMishaps /\ mishaps' = mishaps + 1
     ELSE UNCHANGED mishaps
  /\ \E n \in 0 .. Len(queue) : Release(Head(todo).lease, ZeroUsage, n)
  /\ pending' = pending \ {Head(todo).task}
  /\ Abort
  /\ UNCHANGED <<log, try, machine, future, resumes, cause, outcome, recovers,
                 batches>>

(* reject: an attempt must be started before it can be finished, and one   *)
(* restored as running is first marked uncertain.                          *)
Reject ==
  /\ NextCall("reject")
  /\ LET c == Head(todo).task
         finish == <<Call("finish", c, 0)>> \o Tail(todo)
     IN \/ /\ machine[c].state = "planned"
           /\ Write(c, Started, "running")
           /\ todo' = finish
        \/ /\ machine[c].state = "running"
           /\ Write(c, Uncertain(WorkerRestart), "uncertain")
           /\ todo' = finish
        \/ /\ machine[c].state = "uncertain"
           /\ todo' = finish
           /\ UNCHANGED <<log, machine>>
  /\ pending' = pending \ {Head(todo).task}
  /\ UNCHANGED <<schedVars, phase, try, future, resumes, cause, outcome,
                 recovers, batches, mishaps>>

FinishRejected ==
  /\ NextCall("finish")
  /\ LET c == Head(todo).task
     IN /\ Write(c, Terminal, "terminal")
        /\ outcome' = [outcome EXCEPT ![c] = "unsupported"]
  /\ todo' = Tail(todo)
  /\ UNCHANGED <<schedVars, phase, try, pending, future, resumes, cause,
                 recovers, batches, mishaps>>

----------------------------------------------------------------------------
(* run(): collecting callbacks                                             *)

(* A callback ends on its thread, also after run() was left: with a        *)
(* terminal execution or failure (None), or with an uncertain failure.     *)
CallbackEnds(c, k) ==
  /\ phase \in {"batch", "aborted"}
  /\ Running(c)
  /\ future' = [future EXCEPT ![c].done = TRUE, ![c].result = k]
  /\ UNCHANGED <<schedVars, phase, log, try, todo, pending, machine, resumes,
                 cause, outcome, recovers, batches, mishaps>>

Collectable(c) == InBatch /\ todo = << >> /\ future[c] # None /\ future[c].done

(* Mutant: the lease is not given back.                                    *)
CollectTerminalKeepsLease(c, u, n) ==
  /\ Collectable(c) /\ future[c].result = None
  /\ Write(c, Terminal, "terminal")
  /\ outcome' = [outcome EXCEPT ![c] = "terminal"]
  /\ future' = [future EXCEPT ![c] = None]
  /\ UNCHANGED <<schedVars, phase, try, todo, pending, resumes, cause,
                 recovers, batches, mishaps>>

(* A finished future is taken, its attempt is finished, and its lease goes *)
(* back; the campaigns this admits are launched next.                      *)
CollectTerminal(c, u, n) ==
  /\ Collectable(c) /\ future[c].result = None
  /\ Write(c, Terminal, "terminal")
  /\ outcome' = [outcome EXCEPT ![c] = "terminal"]
  /\ future' = [future EXCEPT ![c] = None]
  /\ Release(future[c].lease, u, n)
  /\ todo' = Launches(n)
  /\ UNCHANGED <<phase, try, pending, resumes, cause, recovers, batches,
                 mishaps>>

(* An uncertain failure: the attempt is marked, the lease goes back, and   *)
(* when policy and count allow it the task is offered again.               *)
CollectUncertain(c, u, n) ==
  LET k == future[c].result
      again == ResumeUncertain /\ resumes[c] < MaxResumes /\ k \notin Blocked
  IN /\ Collectable(c) /\ k # None
     /\ Write(c, Uncertain(k), "uncertain")
     /\ future' = [future EXCEPT ![c] = None]
     /\ Release(future[c].lease, u, n)
     /\ IF again
        THEN /\ todo' = Launches(n) \o <<Call("again", c, 0)>>
             /\ UNCHANGED outcome
        ELSE /\ todo' = Launches(n)
             /\ outcome' = [outcome EXCEPT ![c] = "uncertain"]
     /\ UNCHANGED <<phase, try, pending, resumes, cause, recovers, batches,
                    mishaps>>

OfferAgain ==
  /\ NextCall("again")
  /\ LET c == Head(todo).task
     IN /\ resumes' = [resumes EXCEPT ![c] = @ + 1]
        /\ cause' = [cause EXCEPT ![c] = machine[c].cause]
        /\ pending' = pending \cup {c}
        /\ Offer(c, Tail(todo))
  /\ UNCHANGED <<phase, log, try, machine, future, outcome, recovers, batches,
                 mishaps>>

AllCollected == InBatch /\ todo = << >> /\ \A c \in Campaign : future[c] = None

(* Mutant: what is left in the queue is dropped without a record.          *)
SweepSilently ==
  /\ AllCollected
  /\ pending # {}
  /\ pending' = {} /\ queue' = << >>
  /\ UNCHANGED <<active, used, reserved, nextLease, phase, log, try, todo,
                 machine, future, resumes, cause, outcome, recovers, batches,
                 mishaps>>

(* Mutant: the last campaign in the queue is not swept.                    *)
SweepAllButLast ==
  /\ AllCollected
  /\ pending # {} /\ Len(queue) > 1
  /\ CancelQueued(Head(queue))
  /\ pending' = pending \ {Head(queue)}
  /\ todo' = <<Call("reject", Head(queue), 0)>>
  /\ UNCHANGED <<phase, log, try, machine, future, resumes, cause, outcome,
                 recovers, batches, mishaps>>

(* Nothing runs any more: a task still pending is taken out of the queue   *)
(* and rejected.  The pending table is in queue order, so the sweep takes  *)
(* the head each time; a pending task is always queued (QueueIsPending).   *)
Sweep ==
  /\ AllCollected
  /\ pending # {} /\ queue # << >>
  /\ LET c == Head(queue)
     IN /\ CancelQueued(c)
        /\ pending' = pending \ {c}
        /\ todo' = <<Call("reject", c, 0)>>
  /\ UNCHANGED <<phase, log, try, machine, future, resumes, cause, outcome,
                 recovers, batches, mishaps>>

Return ==
  /\ AllCollected
  /\ pending = {}
  /\ phase' = "returned"
  /\ UNCHANGED <<schedVars, log, try, todo, pending, machine, future, resumes,
                 cause, outcome, recovers, batches, mishaps>>

----------------------------------------------------------------------------
(* Failures around run()                                                   *)

\* The append of a rejection or of a collected result fails.
AppendRaises ==
  /\ mishaps < MaxMishaps
  /\ \/ NextCall("reject") \/ NextCall("finish")
     \/ \E c \in Campaign : Collectable(c)
  /\ mishaps' = mishaps + 1
  /\ Abort
  /\ UNCHANGED <<schedVars, log, try, pending, machine, future, resumes, cause,
                 outcome, recovers, batches>>

\* The process ends: leaving run() waits for the worker threads.
Exit ==
  /\ phase \in {"returned", "aborted"}
  /\ \A c \in Campaign : ~Running(c)
  /\ phase' = "down"
  /\ UNCHANGED <<schedVars, log, try, todo, pending, machine, future, resumes,
                 cause, outcome, recovers, batches, mishaps>>

\* The process dies in the middle of anything; the log survives.
Crash ==
  /\ phase \in {"batch", "aborted"}
  /\ mishaps < MaxMishaps
  /\ mishaps' = mishaps + 1
  /\ phase' = "down"
  /\ todo' = << >>
  /\ UNCHANGED <<schedVars, log, try, pending, machine, future, resumes, cause,
                 outcome, recovers, batches>>

----------------------------------------------------------------------------
Main ==
  \/ OfferTask \/ SkipTask \/ RefuseTask
  \/ Launch \/ LaunchRaises
  \/ Reject \/ FinishRejected
  \/ \E c \in Campaign, u \in Usage, n \in 0 .. Len(queue) :
       CollectTerminal(c, u, n) \/ CollectUncertain(c, u, n)
  \/ OfferAgain \/ Sweep \/ Return

Driver == BeginBatch \/ Exit \/ \E a \in Attempt : Recover(a)

Callback(c) == \E k \in Interruption \cup {None} : CallbackEnds(c, k)

Next ==
  \/ Main
  \/ Driver
  \/ \E c \in Campaign : Callback(c)
  \/ AppendRaises
  \/ Crash

Spec == Init /\ [][Next]_vars

(* run() keeps executing, callbacks end (the driver's have a deadline of   *)
(* their own), and the driver is restarted.                                *)
FairSpec ==
  /\ Spec
  /\ WF_vars(Main)
  /\ WF_vars(Driver)
  /\ \A c \in Campaign : WF_vars(Callback(c))
----------------------------------------------------------------------------

\* The shape of run()'s local state (runner.py:206-218) and of the log.
RunnerTypeOK ==
  /\ TypeOK
  /\ phase \in {"down", "batch", "returned", "aborted"}
  /\ log \in [Attempt -> Seq(Entry)]
  /\ try \in [Campaign -> Tries]
  /\ todo \in Seq([op : {"offer", "launch", "reject", "finish", "again"},
                   task : Campaign, lease : Nat])
  /\ pending \subseteq Campaign
  /\ machine \in [Campaign -> {None} \cup MachineState]
  /\ future \in [Campaign -> {None} \cup Flight]
  /\ resumes \in [Campaign -> 0 .. MaxResumes]
  /\ cause \in [Campaign -> Interruption \cup {None}]
  /\ outcome \in [Campaign ->
       {None, "existing", "terminal", "uncertain", "unsupported"}]
  /\ recovers \in RecoverFirst
  /\ batches \in 0 .. MaxBatches /\ mishaps \in 0 .. MaxMishaps

LaunchCalls == {i \in DOMAIN todo : todo[i].op = "launch"}

Futures == {c \in Campaign : future[c] # None}

(* While run() is running, every lease of the scheduler has exactly one    *)
(* owner: a future that has not been collected, or a launch that has not   *)
(* been made (runner.py:248-294, 328-416).                                 *)
LeasesAccounted ==
  InBatch =>
    /\ DOMAIN active = {future[c].lease : c \in Futures}
                         \cup {todo[i].lease : i \in LaunchCalls}
    /\ \A c \in Futures : active[future[c].lease] = c
    /\ \A i \in LaunchCalls :
         active[todo[i].lease] = todo[i].task /\ todo[i].task \notin Futures
    /\ \A i, j \in LaunchCalls : i # j => todo[i].lease # todo[j].lease

(* The runner's pending table and the scheduler's queue never disagree:    *)
(* between two calls the campaigns without a decision are the queued ones, *)
(* each queued once, so release never admits "an unknown campaign" and the *)
(* sweep never finds a campaign that is not queued (runner.py:289-294,     *)
(* 421-427).                                                               *)
QueueIsPending ==
  /\ InBatch => \A i \in LaunchCalls : todo[i].task \in pending
  /\ (InBatch /\ todo = << >>) =>
       /\ {queue[i] : i \in DOMAIN queue} = pending
       /\ Len(queue) = Cardinality(pending)

\* The final sweep has rejected a campaign that could have run.
Swept ==
  \E c \in Campaign : outcome[c] = "unsupported" /\ ~PermanentlyRejected(c)

(* Until the final sweep has begun, the head of the queue waits only       *)
(* because it does not fit: no path through collecting, resuming and       *)
(* offering again leaves capacity idle that the head could use, nor leaves *)
(* to the sweep a head that could still be run (runner.py:352-362,         *)
(* 416-429).                                                               *)
WorkConserving ==
  (InBatch /\ todo = << >> /\ queue # << >> /\ ~Swept)
    => ~Admissible(Head(queue))

(* A machine that went through resumes and failed appends in one run() is  *)
(* in the state its durable events describe (events.py:300-364).           *)
MachineMatchesLog ==
  InBatch =>
    \A c \in Campaign : machine[c] # None =>
      /\ machine[c].state = StateIn(TaskOf(c))
      /\ machine[c].cause = CauseIn(TaskOf(c))

(* A callback never starts for a campaign that already has a terminal      *)
(* observation, under any attempt number (runner.py:298-320, 449-452).     *)
TerminalNeverRerun ==
  [][\A c \in Campaign : (future[c] = None /\ future'[c] # None) =>
       \A t \in Tries : StateIn(<<c, t>>) # "terminal"]_vars

(* run()'s own tables have their shape, and together with the scheduler's  *)
(* they account for every lease and every waiting campaign, through any    *)
(* order of collecting, resuming, launching and rejecting.                 *)
TablesAgree == RunnerTypeOK /\ LeasesAccounted /\ QueueIsPending /\ WorkConserving

(* A report that run() returns tells what the log holds: every task has an *)
(* outcome, reported terminal exactly when its attempt is terminal in the  *)
(* log and uncertain exactly when it is uncertain there; no campaign is    *)
(* left with a lease or in the queue (runner.py:431-436).                  *)
ReportMatchesLog ==
  phase = "returned" =>
    /\ active = << >> /\ queue = << >>
    /\ \A i \in DOMAIN Plan :
         LET c == Plan[i]
         IN  /\ outcome[c] \in {"existing", "terminal", "unsupported"}
                  <=> StateIn(TaskOf(c)) = "terminal"
             /\ outcome[c] = "uncertain" <=> StateIn(TaskOf(c)) = "uncertain"
             /\ outcome[c] # None

(* What run() believes and what it reports is what the log holds.          *)
LogIsTold == MachineMatchesLog /\ ReportMatchesLog

(* run() comes to an end: no interleaving of queueing, collecting and      *)
(* resuming keeps it going, and no campaign waits for ever for a lease.    *)
BatchEnds == InBatch ~> ~InBatch

(* An attempt in flight does not stay "running" in the log when the driver *)
(* is run again: it ends, or is marked uncertain by run() or by the next   *)
(* process (run_development_campaign.py:116-137).                          *)
InFlightIsSettled ==
  \A a \in Attempt :
    (recovers /\ StateIn(a) = "running" /\ batches < MaxBatches)
      ~> StateIn(a) # "running"

(* The durable log is an attempt log: one legal lifecycle event at a time. *)
Promise == INSTANCE AttemptLog WITH history <- log

RunnerImplementsLog == Promise!LogSpec
============================================================================
