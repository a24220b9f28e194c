--------------------------- MODULE CampaignDriver ---------------------------
(***************************************************************************)
(* run_campaign of the driver script, with what it leaves on disk: the     *)
(* event stream, runs.jsonl and report.json.  The driver runs one campaign *)
(* at a time in the order of the plan; its callback makes a method run and *)
(* appends its events one by one.  The process may die between any two     *)
(* durable steps, and is started again over the same directory, each time  *)
(* with its own --max-campaigns.                                           *)
(***************************************************************************)
EXTENDS Integers, Sequences, SequencesExt

CONSTANTS
  Absent,       \* no process, file, event or result
  Plan,         \* the campaigns in order, no two alike
  SlotCount,    \* proposal slots of a method run
  MaxStarts,    \* how often the command is started
  MaxCrashes,   \* process deaths
  MaxFailures   \* exceptions in a callback: a failed append, a bad pack

ASSUME PlanType == /\ Plan \in Seq(Range(Plan)) /\ Plan # <<>>
                   /\ IsInjective(Plan)
                   /\ SlotCount \in Nat \ {0}

VARIABLES
  log,        \* events.jsonl, by campaign
  runsFile,   \* runs.jsonl, or Absent
  report,     \* report.json, or Absent
  leftover,   \* the directory holds the temporary event file and no event file
  driver,     \* the process, or Absent
  last,       \* how the last process ended
  starts, crashes, failures

files == <<runsFile, report, leftover>>
counters == <<starts, crashes, failures>>
driverVars == <<log, runsFile, report, leftover, driver, last, starts, crashes, failures>>

Campaign == Range(Plan)

(* A method run is summed up by the status that the driver derives from    *)
(* its responses and slots.                                                *)
MethodResult == {"completed", "provider_failure", "no_valid_proposal"}
RowStatus == MethodResult \cup {"tool_failure"}

(* The events of a method run: its start, a response and a slot for each   *)
(* slot, its completion.                                                   *)
MethodSteps == 2 * SlotCount + 2

Event(type, step, content) == [type |-> type, step |-> step, content |-> content]
EventType ==
  [type : {"started", "uncertain", "resumed", "method", "terminal"},
   step : 0 .. MethodSteps, content : RowStatus \cup {Absent}]

(* A row of runs.jsonl; report.json sums the rows up and hashes the files. *)
Row ==
  [campaign : Campaign, status : RowStatus, result : MethodResult \cup {Absent}]
Report ==
  [selected : Nat, calls : Nat, counts : [MethodResult -> Nat],
   events : [Campaign -> Seq(EventType)], runs : Seq(Row)]

ASSUME AbsentIsApart ==
  Absent \notin EventType /\ Absent \notin Seq(Row) /\ Absent \notin Report

Lifecycle(type) == Event(type, 0, Absent)

LastLifecycle(events) ==
  LET L == {i \in DOMAIN events : events[i].type # "method"}
  IN IF L = {} THEN Absent ELSE events[CHOOSE i \in L : \A j \in L : j <= i]

StateOf(c) == IF LastLifecycle(log[c]) = Absent THEN "planned"
              ELSE LastLifecycle(log[c]).type
StatusIn(c) == LastLifecycle(log[c]).content

Append_(c, e) == log' = [log EXCEPT ![c] = Append(@, e)]

-----------------------------------------------------------------------------
DriverInit ==
  /\ log = [c \in Campaign |-> <<>>]
  /\ runsFile = Absent
  /\ report = Absent
  /\ leftover = FALSE
  /\ driver = Absent
  /\ last = "never"
  /\ starts = 0 /\ crashes = 0 /\ failures = 0

(* The arguments name a prefix of the plan.  A directory that is not empty *)
(* and has no event file is refused.                                       *)
Begin ==
  /\ driver = Absent /\ ~leftover
  /\ starts < MaxStarts
  /\ starts' = starts + 1
  /\ \E n \in 1..Len(Plan) :
       driver' = [phase |-> "recover", selected |-> n, todo |-> SubSeq(Plan, 1, n),
                  rows |-> <<>>, step |-> 0, content |-> Absent]
  /\ last' = "running"
  /\ UNCHANGED <<log, files, crashes, failures>>

BeginRefused ==
  /\ driver = Absent /\ leftover
  /\ starts < MaxStarts
  /\ starts' = starts + 1
  /\ last' = "refused"
  /\ UNCHANGED <<log, files, driver, crashes, failures>>

At(phase) == driver # Absent /\ driver.phase = phase

\* Mutant: an attempt that was resumed before is not looked at.
InFlightFirst == {c \in Campaign : StateOf(c) = "started"}

InFlight == {c \in Campaign : StateOf(c) \in {"started", "resumed"}}

Recover ==
  /\ At("recover")
  /\ \/ \E c \in InFlight : Append_(c, Lifecycle("uncertain")) /\ UNCHANGED driver
     \/ InFlight = {} /\ driver' = [driver EXCEPT !.phase = "next"] /\ UNCHANGED log
  /\ UNCHANGED <<files, last, counters>>

Current == Head(driver.todo)

\* Mutant: what exists is taken to have completed.
ExistingRowCompleted(c) == [campaign |-> c, status |-> "completed", result |-> Absent]

(* The row of an attempt that is terminal already carries no result.       *)
ExistingRow(c) == [campaign |-> c, status |-> StatusIn(c), result |-> Absent]

Existing ==
  /\ At("next") /\ driver.todo # <<>>
  /\ StateOf(Current) = "terminal"
  /\ driver' = [driver EXCEPT !.todo = Tail(@), !.rows = Append(@, ExistingRow(Current))]
  /\ UNCHANGED <<log, files, last, counters>>

\* Mutant: a campaign is run again although it has ended.
LaunchAgain ==
  /\ At("next") /\ driver.todo # <<>>
  /\ Append_(Current, Lifecycle(IF StateOf(Current) = "uncertain" THEN "resumed" ELSE "started"))
  /\ driver' = [driver EXCEPT !.phase = "execute"]
  /\ UNCHANGED <<files, last, counters>>

Launch ==
  /\ At("next") /\ driver.todo # <<>>
  /\ StateOf(Current) \in {"planned", "uncertain"}
  /\ Append_(Current, Lifecycle(IF StateOf(Current) = "planned" THEN "started" ELSE "resumed"))
  /\ driver' = [driver EXCEPT !.phase = "execute"]
  /\ UNCHANGED <<files, last, counters>>

(* The method run happens in memory.                                       *)
Execute ==
  /\ At("execute")
  /\ \E content \in MethodResult :
       driver' = [driver EXCEPT !.phase = "append", !.step = 1, !.content = content]
  /\ UNCHANGED <<log, files, last, counters>>

\* Mutant: the completion event comes before the slots.
MethodEventEarly(step) ==
  Event("method", IF step = 1 THEN MethodSteps ELSE step - 1, driver.content)

MethodEvent(step) == Event("method", step, driver.content)

AppendMethodEvent ==
  /\ At("append")
  /\ Append_(Current, MethodEvent(driver.step))
  /\ driver' = IF driver.step < MethodSteps THEN [driver EXCEPT !.step = @ + 1]
               ELSE [driver EXCEPT !.phase = "finish", !.step = 0]
  /\ UNCHANGED <<files, last, counters>>

(* An exception in the callback becomes the failure of the attempt.        *)
CallbackRaises ==
  /\ At("execute") \/ At("append")
  /\ failures < MaxFailures
  /\ failures' = failures + 1
  /\ driver' = [driver EXCEPT !.phase = "finish", !.step = 0, !.content = "tool_failure"]
  /\ UNCHANGED <<log, files, last, starts, crashes>>

ResultOf(content) == IF content \in MethodResult THEN content ELSE Absent

Finish ==
  /\ At("finish")
  /\ Append_(Current, Event("terminal", 0, driver.content))
  /\ driver' = [driver EXCEPT !.phase = "next", !.todo = Tail(@), !.content = Absent,
       !.rows = Append(@, [campaign |-> Current, status |-> driver.content,
                           result |-> ResultOf(driver.content)])]
  /\ UNCHANGED <<files, last, counters>>

WriteRuns ==
  /\ At("next") /\ driver.todo = <<>>
  /\ runsFile' = driver.rows
  /\ driver' = [driver EXCEPT !.phase = "report"]
  /\ UNCHANGED <<log, report, leftover, last, counters>>

Count(rows, status) == Cardinality({i \in DOMAIN rows : rows[i].status = status})
Calls(rows) == SlotCount * Cardinality({i \in DOMAIN rows : rows[i].result # Absent})

(* A hash is as good as what it is taken of.                               *)
WriteReport ==
  /\ At("report")
  /\ report' = [selected |-> driver.selected, calls |-> Calls(driver.rows),
                counts |-> [s \in MethodResult |-> Count(driver.rows, s)],
                events |-> log, runs |-> runsFile]
  /\ driver' = Absent
  /\ last' = "exit"
  /\ UNCHANGED <<log, runsFile, leftover, counters>>

(* The first event of all is about to be written.                          *)
FirstAppend == At("next") /\ driver.todo # <<>> /\ \A c \in Campaign : log[c] = <<>>

(* An append writes a temporary file and renames it; a process that dies   *)
(* between the two leaves the temporary file behind.  There is another     *)
(* file beside it except in the first append.                              *)
Crash ==
  /\ driver # Absent
  /\ crashes < MaxCrashes
  /\ crashes' = crashes + 1
  /\ driver' = Absent
  /\ last' = "crash"
  /\ leftover' \in (IF FirstAppend THEN BOOLEAN ELSE {leftover})
  /\ UNCHANGED <<log, runsFile, report, starts, failures>>

Work == \/ Recover \/ Existing \/ Launch \/ Execute \/ AppendMethodEvent \/ Finish
        \/ WriteRuns \/ WriteReport

DriverNext == Begin \/ BeginRefused \/ Work \/ CallbackRaises \/ Crash

DriverSpec == DriverInit /\ [][DriverNext]_driverVars
(* The process works as long as it lives, and the command is repeated      *)
(* until one run of it has come to its end.                                *)
FairDriverSpec ==
  /\ DriverSpec
  /\ WF_driverVars(Work)
  /\ WF_driverVars(last # "exit" /\ (Begin \/ BeginRefused))

-----------------------------------------------------------------------------
(***************************************************************************)
(* validate_run_report: the files agree with each other, and each row with *)
(* the terminal event of its attempt.                                      *)
(***************************************************************************)
Validates ==
  /\ report # Absent /\ runsFile # Absent
  /\ report.runs = runsFile
  /\ report.events = log
  /\ \A i \in 1..Len(runsFile) :
       LET row == runsFile[i]
       IN /\ StateOf(row.campaign) = "terminal"
          /\ StatusIn(row.campaign) = row.status
          /\ \A j \in 1..(i - 1) : runsFile[j].campaign # row.campaign
  /\ report.selected = Len(runsFile)
  /\ report.calls = Calls(runsFile)
  /\ \A s \in MethodResult : report.counts[s] = Count(runsFile, s)

(***************************************************************************)
(* Properties.                                                             *)
(***************************************************************************)
(* Whatever crashed or failed before, and whichever part of the plan was   *)
(* asked for, what a driver leaves when it ends passes its own validation. *)
(* (run_development_campaign.py:220-351, 638-671)                          *)
ExitValidates == last = "exit" => Validates

(* The method events between a start (or resume) of an attempt and its end *)
(* are those of one method run, in order and without a gap; they are all   *)
(* there if the attempt ended with the status of that run.  Over resumes   *)
(* the sequence starts again, so that an attempt may hold several.         *)
(* (runtime/method_events.py:88-112)                                       *)
SegmentsAreMethodRuns ==
  \A c \in Campaign : \A i \in 1..Len(log[c]) :
    LET e == log[c][i]
        before == log[c][i - 1]
    IN /\ e.type = "method" =>
            /\ i > 1
            /\ \/ before.type \in {"started", "resumed"} /\ e.step = 1
               \/ /\ before.type = "method"
                  /\ e.step = before.step + 1 /\ e.content = before.content
       /\ e.type = "terminal" /\ e.content # "tool_failure" =>
            /\ before = Event("method", MethodSteps, e.content)

(* A row of runs.jsonl never claims more than the stream holds, also after *)
(* later drivers crashed or appended: its attempt is terminal with that    *)
(* status, and nothing follows.  (run_development_campaign.py:640,         *)
(* runtime/runner.py:298-320)                                              *)
RowsBackedByLog ==
  runsFile # Absent => \A i \in 1..Len(runsFile) :
    LET row == runsFile[i]
    IN /\ log[row.campaign] # <<>>
       /\ log[row.campaign][Len(log[row.campaign])] = Event("terminal", 0, row.status)
       /\ row.result # Absent => row.result = row.status

(* If the command is repeated while it crashes, in the end there is a      *)
(* report that validates - unless the very first append of all was cut     *)
(* between its two steps: then every later command is refused until the    *)
(* directory is cleared by hand.  (run_development_campaign.py:116-137,    *)
(* 492-493, 638-671; runtime/events.py:118-137)                            *)
ReportEventually ==
  \/ []<>(last = "exit" /\ Validates)
  \/ <>[](last = "crash" /\ starts = MaxStarts)
  \/ <>[](leftover /\ driver = Absent /\ report = Absent)
=============================================================================
