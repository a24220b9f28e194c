----------------------------- MODULE EventStore -----------------------------
(***************************************************************************)
(* PersistentEventStore and CampaignStateMachine                           *)
(* (src/crossllm/runtime/events.py): one process at a time appends events  *)
(* to a JSONL file it rewrites completely on every append, and drives one  *)
(* state machine per attempt.  The process can die between any two steps   *)
(* of an append; the next process reloads the file and rebuilds a machine  *)
(* from the events of its attempt.                                         *)
(*                                                                         *)
(* An append runs under the store's lock, so at most one is under way:     *)
(* `writer` is that append and how far it got.  Event identifiers are      *)
(* fresh UUIDs and are left out, with the check for duplicates.            *)
(***************************************************************************)
EXTENDS Integers, Sequences, FiniteSets

CONSTANTS
  Attempt,       \* attempt identifiers
  Interruption,  \* InterruptionKind
  Blocked,       \* the kinds ResumePolicy answers with BLOCK
  None,          \* an absent value
  Callers,       \* the kinds that callers may pass to resume, None for no argument
  MaxEvents,     \* bound on the length of the stream
  MaxClock       \* bound on the monotonic clock

ASSUME StorePolicy ==
  /\ Blocked \subseteq Interruption /\ None \notin Interruption
  /\ Callers \subseteq SUBSET (Interruption \cup {None})
ASSUME StoreBounds == MaxEvents \in Nat /\ MaxClock \in Nat

\* The fields of a CampaignStateMachine that outlive a call.
Machine ==
  [state : {"planned", "running", "uncertain", "terminal"},
   cause : Interruption \cup {None}, last : Nat \cup {-1}]

ASSUME StoreNone == None \notin Int /\ None \notin Machine

VARIABLES
  given,    \* what the callers in this program pass to resume
  up,       \* a process owns the store
  disk,     \* the events in the JSONL file
  tmp,      \* the events in the temporary file, None when there is no file
  mem,      \* _events of the running process
  writer,   \* the append under way: its event and the step it reached
  machine,  \* attempt -> the process's CampaignStateMachine, or None
  clock     \* time.monotonic() of the host

storeVars == <<given, up, disk, tmp, mem, writer, machine, clock>>

Lifecycle == {"started", "uncertain", "terminal"}

\* Events of the state machine carry the clock; events a callback reports
\* about its method run ("method") do not.
Event ==
  [attempt : Attempt, type : Lifecycle \cup {"method"},
   cause : Interruption \cup {None}, mono : Nat \cup {None}]

StateOf(type) ==
  CASE type = "started"   -> "running"
    [] type = "uncertain" -> "uncertain"
    [] type = "terminal"  -> "terminal"

Idle == [step |-> "idle", event |-> None]

----------------------------------------------------------------------------
(* validate_event_log: no event of an attempt after its terminal event,    *)
(* and the clock readings of an attempt never decrease.                    *)
ValidNext(events, e) ==
  \A i \in DOMAIN events :
    events[i].attempt = e.attempt =>
      /\ events[i].type # "terminal"
      /\ (e.mono # None /\ events[i].mono # None) => events[i].mono <= e.mono

Valid(events) ==
  \A i \in DOMAIN events : ValidNext(SubSeq(events, 1, i - 1), events[i])

\* The positions of the attempt's lifecycle events in a stream.
Positions(events, a) ==
  {i \in DOMAIN events : events[i].attempt = a /\ events[i].type \in Lifecycle}

Latest(S) == CHOOSE i \in S : \A j \in S : j <= i

StateAfter(events, a) ==
  LET P == Positions(events, a)
  IN  IF P = {} THEN "planned" ELSE StateOf(events[Latest(P)].type)

\* The interruption restore remembers: that of the latest uncertain event.
CauseAfter(events, a) ==
  LET P == {i \in Positions(events, a) : events[i].type = "uncertain"}
  IN  IF P = {} THEN None ELSE events[Latest(P)].cause

LastClock(events, a) ==
  LET P == {i \in DOMAIN events : events[i].attempt = a /\ events[i].mono # None}
  IN  IF P = {} THEN -1 ELSE events[Latest(P)].mono

(* Mutant: the interruption is forgotten.                                  *)
RestoredWithoutCause(a) ==
  [state |-> StateAfter(mem, a), cause |-> None, last |-> LastClock(mem, a)]

(* restore: replay the attempt's events; the clock readings of a valid     *)
(* stream do not decrease, so the maximum is the latest.  An attempt       *)
(* without events gets a new machine.                                      *)
Restored(a) ==
  [state |-> StateAfter(mem, a), cause |-> CauseAfter(mem, a),
   last |-> LastClock(mem, a)]

(* restore accepts the order of the attempt's lifecycle events, and that   *)
(* there is one if there is any event of the attempt.                      *)
Restorable(events, a) ==
  /\ (\E i \in DOMAIN events : events[i].attempt = a) => Positions(events, a) # {}
  /\ \A i \in Positions(events, a) :
       LET s == StateAfter(SubSeq(events, 1, i - 1), a)
       IN  CASE events[i].type = "started"   -> s \in {"planned", "uncertain"}
             [] events[i].type = "uncertain" -> s = "running"
             [] events[i].type = "terminal"  -> s \in {"running", "uncertain"}

----------------------------------------------------------------------------
StoreInit ==
  /\ given \in Callers
  /\ up = FALSE
  /\ disk = << >>
  /\ tmp = None
  /\ mem = << >>
  /\ writer = Idle
  /\ machine = [a \in Attempt |-> None]
  /\ clock = 0

(* PersistentEventStore(path): load the file; a stale temporary file is    *)
(* not looked at.  An invalid stream refuses the store.                    *)
Open ==
  /\ ~up
  /\ Valid(disk)
  /\ up' = TRUE
  /\ mem' = disk
  /\ UNCHANGED <<given, disk, tmp, writer, machine, clock>>

(* Create a machine for an attempt, restoring it when it has events.       *)
Attach(a) ==
  /\ up /\ writer = Idle
  /\ machine[a] = None
  /\ Restorable(mem, a)
  /\ machine' = [machine EXCEPT ![a] = Restored(a)]
  /\ UNCHANGED <<given, up, disk, tmp, mem, writer, clock>>

\* The machine object is dropped; its events stay.
Detach(a) ==
  /\ up /\ writer = Idle
  /\ machine[a] # None
  /\ machine' = [machine EXCEPT ![a] = None]
  /\ UNCHANGED <<given, up, disk, tmp, mem, writer, clock>>

(* The interruption resume asks the policy about: the kind its caller      *)
(* passes, and only without one the kind the machine remembers.            *)
Asked(m, kind) == IF kind # None THEN kind ELSE m.cause

Resumable(m, kinds) ==
  m.state = "uncertain" /\ \E kind \in kinds : Asked(m, kind) \notin Blocked

(* Mutant: finish is accepted in the terminal state as well.               *)
MachineAllowsRefinish(m, type, kinds) ==
  CASE type = "started"   -> m.state = "planned" \/ Resumable(m, kinds)
    [] type = "uncertain" -> m.state = "running"
    [] type = "terminal"  -> m.state # "planned"

(* Mutant: resume does not ask the policy.                                 *)
MachineAllowsAnyResume(m, type, kinds) ==
  CASE type = "started"   -> m.state \in {"planned", "uncertain"}
    [] type = "uncertain" -> m.state = "running"
    [] type = "terminal"  -> m.state \in {"running", "uncertain"}

(* Mutant: a running attempt can be marked, and marked again.              *)
MachineAllowsRemark(m, type, kinds) ==
  CASE type = "started"   -> m.state = "planned" \/ Resumable(m, kinds)
    [] type = "uncertain" -> m.state \in {"running", "uncertain"}
    [] type = "terminal"  -> m.state \in {"running", "uncertain"}

\* The guards of start, resume, mark_uncertain and finish.
MachineAllows(m, type, kinds) ==
  CASE type = "started"   -> m.state = "planned" \/ Resumable(m, kinds)
    [] type = "uncertain" -> m.state = "running"
    [] type = "terminal"  -> m.state \in {"running", "uncertain"}

(* Mutant: neither the machine nor the store looks at the clock.           *)
BeginLifecycleUnchecked(a, type, cause) ==
  /\ up /\ writer = Idle
  /\ machine[a] # None
  /\ (type = "uncertain") <=> (cause # None)
  /\ MachineAllows(machine[a], type, given)
  /\ machine' = [machine EXCEPT ![a].last = clock]
  /\ writer' = [step |-> "write", event |->
       [attempt |-> a, type |-> type, cause |-> cause, mono |-> clock]]
  /\ UNCHANGED <<given, up, disk, tmp, mem, clock>>

(* _append: read the clock, refuse when it went backwards, remember the    *)
(* reading, and hand the event to the store, which validates the candidate *)
(* stream before anything is written.                                      *)
BeginLifecycle(a, type, cause) ==
  LET e == [attempt |-> a, type |-> type, cause |-> cause, mono |-> clock]
  IN /\ up /\ writer = Idle
     /\ machine[a] # None
     /\ (type = "uncertain") <=> (cause # None)
     /\ MachineAllows(machine[a], type, given)
     /\ clock >= machine[a].last
     /\ machine' = [machine EXCEPT ![a].last = clock]
     /\ writer' = IF ValidNext(mem, e) THEN [step |-> "write", event |-> e] ELSE Idle
     /\ UNCHANGED <<given, up, disk, tmp, mem, clock>>

(* append_method_run_events: the callback of a running attempt reports one *)
(* event of its method run.                                                *)
BeginMethod(a) ==
  LET e == [attempt |-> a, type |-> "method", cause |-> None, mono |-> None]
  IN /\ up /\ writer = Idle
     /\ machine[a] # None /\ machine[a].state = "running"
     /\ ValidNext(mem, e)
     /\ writer' = [step |-> "write", event |-> e]
     /\ UNCHANGED <<given, up, disk, tmp, mem, machine, clock>>

(* Mutant: the event is visible before the file is replaced.               *)
WriteTemporaryVisible ==
  /\ up /\ writer.step = "write"
  /\ tmp' = Append(mem, writer.event)
  /\ mem' = Append(mem, writer.event)
  /\ writer' = [writer EXCEPT !.step = "replace"]
  /\ UNCHANGED <<given, up, disk, machine, clock>>

\* The complete candidate stream goes to the temporary file and is synced.
WriteTemporary ==
  /\ up /\ writer.step = "write"
  /\ tmp' = Append(mem, writer.event)
  /\ writer' = [writer EXCEPT !.step = "replace"]
  /\ UNCHANGED <<given, up, disk, mem, machine, clock>>

\* The temporary file atomically becomes the stream.
Replace ==
  /\ up /\ writer.step = "replace"
  /\ disk' = tmp
  /\ tmp' = None
  /\ writer' = [writer EXCEPT !.step = "commit"]
  /\ UNCHANGED <<given, up, mem, machine, clock>>

\* Only now is the event visible in memory, and the machine moves on.
Commit ==
  LET e == writer.event
  IN /\ up /\ writer.step = "commit"
     /\ mem' = Append(mem, e)
     /\ machine' =
          IF e.type = "method" THEN machine
          ELSE [machine EXCEPT
                  ![e.attempt].state = StateOf(e.type),
                  ![e.attempt].cause = IF e.type = "uncertain" THEN e.cause ELSE @]
     /\ writer' = Idle
     /\ UNCHANGED <<given, up, disk, tmp, clock>>

(* Writing or replacing fails (a full disk, say): the temporary file is    *)
(* removed and the caller gets the exception; nothing is recorded.         *)
PersistFails ==
  /\ up /\ writer.step \in {"write", "replace"}
  /\ tmp' = None
  /\ writer' = Idle
  /\ UNCHANGED <<given, up, disk, mem, machine, clock>>

\* The process dies at any point; only the files survive.
Crash ==
  /\ up
  /\ up' = FALSE
  /\ mem' = << >>
  /\ writer' = Idle
  /\ machine' = [a \in Attempt |-> None]
  /\ UNCHANGED <<given, disk, tmp, clock>>

Tick ==
  /\ clock < MaxClock
  /\ clock' = clock + 1
  /\ UNCHANGED <<given, up, disk, tmp, mem, writer, machine>>

\* The host restarts while no process runs: its monotonic clock is reset.
Reboot ==
  /\ ~up
  /\ clock' = 0
  /\ UNCHANGED <<given, up, disk, tmp, mem, writer, machine>>

Room == Len(mem) < MaxEvents

StoreNext ==
  \/ Open
  \/ \E a \in Attempt : Attach(a) \/ Detach(a)
  \/ \E a \in Attempt, type \in Lifecycle, cause \in Interruption \cup {None} :
       Room /\ BeginLifecycle(a, type, cause)
  \/ \E a \in Attempt : Room /\ BeginMethod(a)
  \/ WriteTemporary \/ Replace \/ Commit \/ PersistFails
  \/ Crash
  \/ Tick \/ Reboot

StoreSpec == StoreInit /\ [][StoreNext]_storeVars

----------------------------------------------------------------------------

\* The shape of the store's and the machines' state (events.py:62-66, 234-241).
StoreTypeOK ==
  /\ given \in SUBSET (Interruption \cup {None})
  /\ up \in BOOLEAN
  /\ disk \in Seq(Event) /\ mem \in Seq(Event)
  /\ tmp = None \/ tmp \in Seq(Event)
  /\ \/ writer = Idle
     \/ writer \in [step : {"write", "replace", "commit"}, event : Event]
  /\ machine \in [Attempt -> {None} \cup Machine]
  /\ clock \in Nat

(* The process never shows an event that is not durable: what it holds in  *)
(* memory is on disk, and the disk is ahead by at most the one event whose *)
(* append has replaced the file and not returned yet                       *)
(* (AppendOnlyEventStore._commit, events.py:92-103).                       *)
DurableBeforeVisible ==
  up => IF writer.step = "commit" THEN disk = Append(mem, writer.event)
                                  ELSE disk = mem

(* Whatever the moment of a crash, the next process accepts the file, and  *)
(* restore accepts every attempt in it (events.py:186-201, 300-346).       *)
ReloadNeverRefused ==
  Valid(disk) /\ \A a \in Attempt : Restorable(disk, a)

(* A machine that lived through interruptions and failed writes is the one *)
(* a restart would rebuild from the stream: same state, same remembered    *)
(* interruption, and a clock reading at least as late.                     *)
MachineMatchesStream ==
  writer.step = "idle" =>
    \A a \in Attempt : machine[a] # None =>
      /\ machine[a].state = StateAfter(mem, a)
      /\ machine[a].cause = CauseAfter(mem, a)
      /\ machine[a].last >= LastClock(mem, a)

(* The machine's guards and the stream's validator agree: what the machine *)
(* lets through is never refused by the store after the machine already    *)
(* advanced its clock reading (_append, events.py:348-364).                *)
ValidatorAgrees ==
  \A a \in Attempt, type \in Lifecycle :
    (/\ writer.step = "idle" /\ machine[a] # None
     /\ MachineAllows(machine[a], type, given) /\ clock >= machine[a].last)
      => ValidNext(mem, [attempt |-> a, type |-> type, cause |-> None, mono |-> clock])

----------------------------------------------------------------------------
(* The durable history of each attempt, as AttemptLog sees it.             *)

\* The k-th of a set of positions: up to it there are k of them.
Nth(P, k) == CHOOSE i \in P : Cardinality({j \in P : j <= i}) = k

History(events, a) ==
  LET P == Positions(events, a)
      Entry(i) == [type |-> events[i].type, cause |-> events[i].cause]
  IN  [k \in 1 .. Cardinality(P) |-> Entry(Nth(P, k))]

DurableHistory == [a \in Attempt |-> History(disk, a)]

Promise == INSTANCE AttemptLog WITH history <- DurableHistory, Blocked <- {}

(* The store implements the attempt log: at every moment, crashes, failed  *)
(* writes and restarts included, the file holds a legal history of every   *)
(* attempt and only ever gains one legal event.  Which interruptions block *)
(* an attempt is left to the next property, since it depends on the        *)
(* callers (events.py:92-137, 186-201, 254-364).                           *)
ImplementsAttemptLog == Promise!LogSpec

Policy == INSTANCE AttemptLog WITH history <- DurableHistory

\* The callers lift no block: they pass resume nothing, or a blocked kind.
PolicyIsLeftAlone == given \subseteq Blocked \cup {None}

(* After an interruption the policy blocks, the attempt can only end:      *)
(* through restarts, and whatever interrupted it before, no process starts *)
(* it again - unless a caller passes resume a kind the policy resumes,     *)
(* which is asked about instead of the remembered one (events.py:290-298). *)
DriftStaysBlocked == PolicyIsLeftAlone => Policy!BlockedStaysBlocked
============================================================================
