--------------------------- MODULE CampaignProofs ---------------------------
(***************************************************************************)
(* Theorems about a campaign: the method run (its safety properties, for   *)
(* every number of slots, retry policy, timeout, deadline, overrun and set *)
(* of replies), and the driver that runs the campaigns of a plan and can   *)
(* die and be started again (what its files claim, for every plan and any  *)
(* number of starts, crashes and failures).                                *)
(***************************************************************************)
EXTENDS MethodRunner, CampaignDriver, FiniteSetTheorems, WellFoundedInduction, TLAPS

Status == {"provider_failure", "truncated", "refusal", "abstain", "candidate",
           "invalid", "duplicate"}

Slot == [status : Status, response : Response]

(* The time one slot may take.                                             *)
Share == Deadline + Overrun

(* The clock of a call: what is not yet recorded began within the shares   *)
(* of the recorded slots, and a request went out before the deadline.      *)
InTime ==
  /\ clock \in Nat
  /\ cancelled \in BOOLEAN
  /\ slots \in Seq(Slot)
  /\ call = None => clock <= Len(slots) * Share
  /\ call # None =>
       /\ call \in Call
       /\ call.started <= clock
       /\ call.started <= Len(slots) * Share
       /\ Elapsed <= Share
       /\ call.phase = "sent" => Elapsed < Deadline

(* A request that is out when the cancellation comes is the last one.      *)
Counted ==
  /\ late \in Nat
  /\ late <= 1
  /\ ~cancelled => late = 0
  /\ (call # None /\ call.phase = "sent") => late = 0

LEMMA ShareType == Share \in Nat
  BY TimeBounds DEF Share

LEMMA NextShare ==
  ASSUME NEW n \in Nat
  PROVE  n * Share \in Nat /\ (n + 1) * Share = n * Share + Share
  BY ShareType

LEMMA NoShare == 0 * Share = 0
  BY ShareType

(* A failure is a response, and so is every reply.                         *)
LEMMA FailureIsResponse ==
  \A reason \in {"cancelled", "campaign_deadline", "transport_failure", "http_failure"} :
    Failure(reason) \in Response
  BY DEF Failure, Response, Check

LEMMA ReplyIsResponse == Reply \subseteq Response
  BY ReplyType

LEMMA StatusType == ASSUME NEW r PROVE StatusOf(r) \in Status
<1>1. Classified(r) \in Status
  BY DEF Classified, Status
<1>2. QED
  BY <1>1 DEF StatusOf, Status

(* Recording a response appends one slot.                                  *)
LEMMA RecordAppends ==
  ASSUME slots \in Seq(Slot),
         NEW r \in Response, Recorded(r)
  PROVE  /\ slots' \in Seq(Slot)
         /\ Len(slots') = Len(slots) + 1
         /\ \A i \in 1 .. Len(slots) : slots'[i] = slots[i]
         /\ slots'[Len(slots) + 1] = [status |-> StatusOf(r), response |-> r]
<1> DEFINE e == [status |-> StatusOf(r), response |-> r]
<1>1. e \in Slot
  BY StatusType DEF Slot
<1>2. slots' = Append(slots, e)
  BY DEF Recorded
<1> HIDE DEF e
<1>3. /\ slots' \in Seq(Slot)
      /\ Len(slots') = Len(slots) + 1
      /\ \A i \in 1 .. Len(slots) : slots'[i] = slots[i]
      /\ slots'[Len(slots) + 1] = e
  BY <1>1, <1>2
<1>4. QED
  BY <1>3 DEF e

(* Whatever ends a call hands a response to the slot.                      *)
LEMMA EndsWithResponse ==
  ASSUME Stop \/ Answered \/ GiveUp \/ Refused
  PROVE  \E r \in Response : Returned(r)
<1>1. CASE Stop
  <2>1. ControlReason \in {"cancelled", "campaign_deadline"}
    BY <1>1 DEF Stop, ControlReason
  <2>2. QED
    BY <1>1, <2>1, FailureIsResponse DEF Stop
<1>2. CASE Answered
  BY <1>2, ReplyIsResponse DEF Answered
<1>3. CASE GiveUp
  BY <1>3, FailureIsResponse DEF GiveUp
<1>4. CASE Refused
  BY <1>4, FailureIsResponse DEF Refused
<1>5. QED
  BY <1>1, <1>2, <1>3, <1>4

(* A request that was out: its timeout is cut to what is left of the       *)
(* deadline, so only the overrun goes beyond it.                           *)
LEMMA WaitInTime ==
  ASSUME InTime, Waited
  PROVE  /\ clock' \in Nat
         /\ clock <= clock'
         /\ clock' - call.started <= Share
<1>1. /\ call \in Call /\ clock \in Nat
      /\ Elapsed < Deadline
      /\ call.started <= clock
  BY DEF InTime, Waited
<1>2. PICK d \in 0 .. (Timeout + Overrun) : clock' = clock + d
  BY DEF Waited
<1>3. Timeout \in Nat /\ Timeout <= Deadline - Elapsed
  BY <1>1, TimeBounds DEF Timeout, Elapsed, Call
<1>4. QED
  BY <1>1, <1>2, <1>3, TimeBounds DEF Elapsed, Share, Call

LEMMA InTimeInit == Init => InTime
<1> SUFFICES ASSUME Init PROVE InTime
  OBVIOUS
<1>1. slots = <<>> /\ slots \in Seq(Slot) /\ Len(slots) = 0
  BY DEF Init
<1>2. clock <= Len(slots) * Share
  BY <1>1, NoShare DEF Init
<1>3. clock \in Nat /\ cancelled \in BOOLEAN /\ call = None
  BY DEF Init
<1>4. QED
  BY <1>1, <1>2, <1>3 DEF InTime

(* The end of a call whose clock is within its share.                      *)
LEMMA ReturnInTime ==
  ASSUME InTime, call # None, NEW r \in Response, Returned(r),
         clock' \in Nat, clock' - call.started <= Share, UNCHANGED cancelled
  PROVE  InTime'
<1>1. /\ slots \in Seq(Slot)
      /\ call.started \in Nat /\ call.started <= Len(slots) * Share
  BY DEF InTime, Call
<1>2. /\ slots' \in Seq(Slot)
      /\ Len(slots') = Len(slots) + 1
  BY <1>1, RecordAppends DEF Returned
<1>3. /\ Len(slots) * Share \in Nat
      /\ Len(slots') * Share = Len(slots) * Share + Share
  BY <1>1, <1>2, NextShare
<1>4. clock' <= Len(slots') * Share
  BY <1>1, <1>3, ShareType
<1>5. QED
  BY <1>2, <1>4 DEF InTime, Returned

LEMMA InTimeNext == InTime /\ [Next]_runVars => InTime'
<1> SUFFICES ASSUME InTime, [Next]_runVars PROVE InTime'
  OBVIOUS
<1>0. (call # None => call \in Call) /\ clock \in Nat
  BY DEF InTime
<1>1. CASE BeginCall
  <2>1. call' \in Call /\ call'.started = clock /\ call'.phase = "check"
    BY <1>0, <1>1, SlotBounds DEF BeginCall, Call
  <2>2. QED
    BY NoneIsNoCall, <1>0, <1>1, <2>1, ShareType DEF BeginCall, InTime, Elapsed
<1>2. CASE Send
  <2>1. call' \in Call /\ call'.started = call.started
    BY <1>0, <1>2 DEF Send, Call
  <2>2. Elapsed < Deadline
    BY <1>0, <1>2, NoneIsNoReason, TimeBounds DEF Send, ControlReason, Elapsed, Call
  <2>3. QED
    BY NoneIsNoCall, <1>2, <2>1, <2>2 DEF Send, InTime, Elapsed
<1>3. CASE Stop
  <2>1. PICK r \in Response : Returned(r)
    BY <1>3, EndsWithResponse
  <2>2. QED
    BY <1>0, <1>3, <2>1, ReturnInTime DEF Stop, InTime, Elapsed
<1>4. CASE Answered \/ GiveUp \/ Refused
  <2>1. PICK r \in Response : Returned(r)
    BY <1>4, EndsWithResponse
  <2>2. Waited
    BY <1>4 DEF Answered, GiveUp, Refused
  <2>3. call # None /\ UNCHANGED cancelled
    BY <2>2 DEF Waited
  <2>4. QED
    BY <2>1, <2>2, <2>3, WaitInTime, ReturnInTime
<1>5. CASE Retry
  <2>1. /\ clock' \in Nat /\ clock <= clock' /\ clock' - call.started <= Share
        /\ call # None /\ UNCHANGED <<cancelled, slots>>
    BY <1>5, WaitInTime DEF Retry, Waited
  <2>2. call.retry + 1 \in 1 .. MaxRetries /\ Backoff[call.retry + 1] \in Nat
    BY <1>0, <1>5, <2>1, SlotBounds DEF Retry, Call
  <2>3. /\ call' \in Call /\ call'.started = call.started
        /\ call'.phase = "sleep"
    <3> DEFINE again == call.retry + 1
               pause == Backoff[again]
    <3>1. call' = [call EXCEPT !.phase = "sleep", !.retry = again, !.rest = pause]
      BY <1>5 DEF Retry
    <3>2. again \in 0 .. MaxRetries /\ pause \in Nat
      BY <2>2, SlotBounds
    <3> HIDE DEF again, pause
    <3>3. QED
      BY <1>0, <2>1, <3>1, <3>2 DEF Call
  <2>4. QED
    BY NoneIsNoCall, <1>0, <2>1, <2>3, ShareType DEF InTime, Elapsed, Call
<1>6. CASE Sleep
  <2>1. /\ call' \in Call /\ call'.started = call.started
        /\ call'.phase = "sleep"
    BY <1>0, <1>6 DEF Sleep, Call
  <2>2. Elapsed < Deadline
    BY <1>0, <1>6, NoneIsNoReason, TimeBounds DEF Sleep, ControlReason, Elapsed, Call
  <2>3. call.started \in Nat /\ clock - call.started < Deadline /\ clock' = clock + 1
    BY <1>0, <1>6, <2>2 DEF Sleep, Elapsed, Call
  <2>4. clock' \in Nat /\ call.started <= clock' /\ Elapsed' <= Share
    BY <1>0, <1>6, <2>1, <2>3, TimeBounds DEF InTime, Sleep, Elapsed, Share
  <2>5. call # None /\ call.started <= Len(slots) * Share
    BY <1>6 DEF Sleep, InTime
  <2>6. QED
    BY NoneIsNoCall, <1>6, <2>1, <2>4, <2>5 DEF Sleep, InTime
<1>7. CASE Wake
  <2>1. /\ call' \in Call /\ call'.started = call.started
        /\ call'.phase = "check"
    BY <1>0, <1>7 DEF Wake, Call
  <2>2. QED
    BY NoneIsNoCall, <1>7, <2>1 DEF Wake, InTime, Elapsed
<1>8. CASE Cancel
  BY <1>8 DEF Cancel, InTime, Elapsed
<1>9. CASE UNCHANGED runVars
  BY <1>9 DEF runVars, InTime, Elapsed
<1>10. QED
  BY <1>1, <1>2, <1>3, <1>4, <1>5, <1>6, <1>7, <1>8, <1>9 DEF Next, Main

(* No call outlives its deadline by more than the overrun of one request,  *)
(* and the run keeps to one deadline for each slot (ollama.py:236-239).    *)
THEOREM DeadlineKept == RunSpec => []CallInDeadline
<1>1. InTime => CallInDeadline
  <2> SUFFICES ASSUME InTime PROVE CallInDeadline
    OBVIOUS
  <2>1. Len(slots) \in Nat
    BY DEF InTime
  <2>2. /\ Len(slots) * Share \in Nat
        /\ (Len(slots) + 1) * Share = Len(slots) * Share + Share
    BY <2>1, NextShare
  <2>3. CASE call = None
    BY <2>1, <2>3 DEF InTime, CallInDeadline, Share
  <2>4. CASE call # None
    <3>1. /\ clock \in Nat /\ call.started \in Nat /\ clock - call.started <= Share
          /\ call.started <= Len(slots) * Share
      BY <2>4 DEF InTime, Call, Elapsed
    <3>2. clock <= (Len(slots) + 1) * Share
      BY <2>2, <3>1, ShareType
    <3>3. Elapsed <= Share
      BY <2>4 DEF InTime
    <3>4. QED
      BY <2>4, <3>2, <3>3 DEF CallInDeadline, Share
  <2>5. QED
    BY <2>3, <2>4
<1>2. QED
  BY <1>1, InTimeInit, InTimeNext, PTL DEF RunSpec

----------------------------------------------------------------------------
LEMMA CountedInit == Init => Counted
  BY DEF Init, Counted

LEMMA CountedNext == InTime /\ Counted /\ [Next]_runVars => Counted'
<1> SUFFICES ASSUME InTime, Counted, [Next]_runVars PROVE Counted'
  OBVIOUS
<1>0. (call # None => call \in Call) /\ cancelled \in BOOLEAN
  BY DEF InTime
<1>1. CASE BeginCall
  BY <1>1 DEF BeginCall, Counted
<1>2. CASE Send
  <2>1. ~cancelled
    BY <1>2, NoneIsNoReason DEF Send, ControlReason
  <2>2. QED
    BY <1>2, <2>1 DEF Send, Counted
<1>3. CASE Stop
  BY <1>3 DEF Stop, Returned, Counted
<1>4. CASE Answered \/ GiveUp \/ Refused
  <2>1. Waited /\ call' = None
    BY <1>4 DEF Answered, GiveUp, Refused, Returned
  <2>2. QED
    BY <1>0, <2>1 DEF Waited, Counted
<1>5. CASE Retry
  <2>1. Waited
    BY <1>5 DEF Retry
  <2>2. call'.phase = "sleep"
    BY <1>0, <1>5, <2>1 DEF Retry, Waited, Call
  <2>3. QED
    BY <1>0, <2>1, <2>2 DEF Waited, Counted
<1>6. CASE Sleep
  <2>1. call'.phase = "sleep"
    BY <1>0, <1>6 DEF Sleep, Call
  <2>2. QED
    BY <1>6, <2>1 DEF Sleep, Counted
<1>7. CASE Wake
  <2>1. call'.phase = "check"
    BY <1>0, <1>7 DEF Wake, Call
  <2>2. QED
    BY <1>7, <2>1 DEF Wake, Counted
<1>8. CASE Cancel
  BY <1>8 DEF Cancel, Counted
<1>9. CASE UNCHANGED runVars
  BY <1>9 DEF runVars, Counted
<1>10. QED
  BY <1>1, <1>2, <1>3, <1>4, <1>5, <1>6, <1>7, <1>8, <1>9 DEF Next, Main

(* After the cancellation no request leaves: only the one that was under   *)
(* way can still be counted (ollama.py:308-326).                           *)
THEOREM CancelStopsRequests == RunSpec => []OneRequestAfterCancel
<1>1. Counted => OneRequestAfterCancel
  BY DEF Counted, OneRequestAfterCancel
<1>2. QED
  BY <1>1, InTimeInit, InTimeNext, CountedInit, CountedNext, PTL DEF RunSpec

----------------------------------------------------------------------------
(* The set of identities the runner keeps is the set of the identities of  *)
(* the recorded candidates.                                                *)
Kept ==
  /\ slots \in Seq(Slot)
  /\ hashes = {slots[j].response.content :
                 j \in {k \in 1 .. Len(slots) : slots[k].status = "candidate"}}
  /\ ProposalsOnce

(* What a response becomes, given the identities kept so far.              *)
LEMMA StatusMeaning ==
  ASSUME NEW r \in Response
  PROVE  /\ StatusOf(r) = "candidate" <=>
              /\ Usable(r) /\ r.usage # "fail" /\ r.measured # "fail"
              /\ r.content \notin hashes
         /\ StatusOf(r) = "duplicate" <=> Usable(r) /\ r.content \in hashes
<1>1. Classified(r) = "candidate" <=> Usable(r)
  <2>1. r.partial \in BOOLEAN
    BY DEF Response
  <2>2. r.content \in Candidate => r.content \notin {"empty", "abstain"}
    BY CandidatesAreNoWords DEF Words
  <2>3. QED
    BY <2>1, <2>2 DEF Classified, Usable, Mismatch
<1>2. Classified(r) # "duplicate"
  BY DEF Classified
<1>3. OverBudget(r) <=> r.usage = "fail" \/ r.measured = "fail"
  BY DEF OverBudget
<1>4. QED
  BY <1>1, <1>2, <1>3 DEF StatusOf

LEMMA KeptByRecording ==
  ASSUME Kept, NEW r \in Response, Recorded(r)
  PROVE  Kept'
<1> DEFINE n == Len(slots)
           Candidates == {k \in 1 .. n : slots[k].status = "candidate"}
<1>1. /\ slots' \in Seq(Slot)
      /\ n \in Nat
      /\ Len(slots') = n + 1
      /\ \A i \in 1 .. n : slots'[i] = slots[i]
      /\ slots'[n + 1] = [status |-> StatusOf(r), response |-> r]
  BY RecordAppends DEF Kept
<1>2. /\ slots'[n + 1].status = StatusOf(r)
      /\ slots'[n + 1].response = r
  BY <1>1
<1>3. hashes = {slots[j].response.content : j \in Candidates}
  BY DEF Kept
<1>4. hashes' = {slots'[j].response.content :
                  j \in {k \in 1 .. Len(slots') : slots'[k].status = "candidate"}}
  <2>1. CASE StatusOf(r) = "candidate"
    <3>1. hashes' = hashes \cup {r.content}
      BY <2>1 DEF Recorded
    <3>2. {k \in 1 .. Len(slots') : slots'[k].status = "candidate"}
            = Candidates \cup {n + 1}
      BY <1>1, <1>2, <2>1
    <3>3. QED
      BY <1>1, <1>2, <1>3, <3>1, <3>2
  <2>2. CASE StatusOf(r) # "candidate"
    <3>1. hashes' = hashes
      BY <2>2 DEF Recorded
    <3>2. {k \in 1 .. Len(slots') : slots'[k].status = "candidate"} = Candidates
      BY <1>1, <1>2, <2>2
    <3>3. QED
      BY <1>1, <1>3, <3>1, <3>2
  <2>3. QED
    BY <2>1, <2>2
<1>5. r.content \in hashes <=>
        \E j \in 1 .. n : /\ slots[j].status = "candidate"
                          /\ slots[j].response.content = r.content
  BY <1>3
<1>6. ProposalsOnce'
  <2> SUFFICES ASSUME NEW i \in 1 .. (n + 1)
               PROVE
    LET q == slots'[i].response
        First(j) == /\ slots'[j].status = "candidate"
                    /\ slots'[j].response.content = q.content
    IN /\ slots'[i].status = "candidate" <=>
            /\ Usable(q) /\ q.usage # "fail" /\ q.measured # "fail"
            /\ ~\E j \in 1 .. (i - 1) : First(j)
       /\ slots'[i].status = "duplicate" <=>
            Usable(q) /\ \E j \in 1 .. (i - 1) : First(j)
    BY <1>1 DEF ProposalsOnce, Usable
  <2>1. CASE i \in 1 .. n
    <3>1. slots'[i] = slots[i] /\ \A j \in 1 .. (i - 1) : slots'[j] = slots[j]
      BY <1>1, <2>1
    <3>2. QED
      BY <2>1, <3>1, SMTT(30) DEF Kept, ProposalsOnce
  <2>2. CASE i = n + 1
    <3>1. i - 1 = n
      BY <1>1, <2>2
    <3>2. QED
      BY <1>1, <1>2, <1>5, <2>2, <3>1, StatusMeaning
  <2>3. QED
    BY <1>1, <2>1, <2>2
<1>7. QED
  BY <1>1, <1>4, <1>6 DEF Kept

LEMMA KeptNext == Kept /\ [Next]_runVars => Kept'
<1> SUFFICES ASSUME Kept, [Next]_runVars PROVE Kept'
  OBVIOUS
<1>1. CASE Stop \/ Answered \/ GiveUp \/ Refused
  <2>1. PICK r \in Response : Returned(r)
    BY <1>1, EndsWithResponse
  <2>2. QED
    BY <2>1, KeptByRecording DEF Returned
<1>2. CASE UNCHANGED <<slots, hashes>>
  BY <1>2 DEF Kept, ProposalsOnce, Usable
<1>3. QED
  BY <1>1, <1>2 DEF Next, Main, BeginCall, Send, Retry, Sleep, Wake, Cancel, runVars

(* Each usable proposal within its budget counts once, as the candidate or *)
(* as a duplicate of it (methods/runner.py:154-180).                       *)
THEOREM ProposalsCountOnce == RunSpec => []ProposalsOnce
<1>1. Init => Kept
  BY DEF Init, Kept, ProposalsOnce
<1>2. Kept => ProposalsOnce
  BY DEF Kept
<1>3. QED
  BY <1>1, <1>2, KeptNext, PTL DEF RunSpec

----------------------------------------------------------------------------
(***************************************************************************)
(* CampaignDriver.  An attempt that has ended is never appended to, so     *)
(* what a row claims of it stays (Backed); a driver is at a campaign whose *)
(* attempt is in flight, and its rows are those of the campaigns before it *)
(* (AtWork).                                                               *)
(***************************************************************************)
\* A non-empty set of positions has a greatest member: the one nearest to the
\* end, by the well-foundedness of < on the distances.
LEMMA Greatest ==
  ASSUME NEW n \in Nat, NEW S, S \subseteq 1 .. n, S # {}
  PROVE  \E x \in S : \A y \in S : y <= x
<1> DEFINE R == {p \in Nat \X Nat : p[1] < p[2]}
           T == {n - y : y \in S}
<1>1. IsWellFoundedOn(R, Nat)
  BY NatLessThanWellFounded DEF OpToRel
<1>2. T \subseteq Nat /\ T # {}
  <2>1. \A y \in S : y \in Int /\ n - y \in Nat
    OBVIOUS
  <2>2. QED
    BY <2>1
<1>3. PICK t \in T : \A u \in T : ~(<<u, t>> \in R)
  <2> HIDE DEF R, T
  <2>1. QED
    BY <1>1, <1>2, WFMin
<1>4. PICK x \in S : t = n - x
  OBVIOUS
<1>5. \A y \in S : n - y \in T
  OBVIOUS
<1>6. \A y \in S : ~(n - y < n - x)
  <2> HIDE DEF T
  <2>1. QED
    BY <1>2, <1>3, <1>4, <1>5
<1>7. x \in Nat /\ \A y \in S : y \in Nat /\ y <= x
  BY <1>6
<1> QED BY <1>4, <1>7

LastOf(events) == events[Len(events)]

\* The method events of an attempt are those of method runs.
MethodRuns(events) ==
  \A i \in 1 .. Len(events) :
    /\ events[i].type = "method" =>
         /\ i > 1
         /\ \/ events[i - 1].type \in {"started", "resumed"} /\ events[i].step = 1
            \/ /\ events[i - 1].type = "method"
               /\ events[i].step = events[i - 1].step + 1
               /\ events[i].content = events[i - 1].content
    /\ events[i].type = "terminal" /\ events[i].content # "tool_failure" =>
         i > 1 /\ events[i - 1] = Event("method", MethodSteps, events[i].content)

Phases == {"recover", "next", "execute", "append", "finish", "report"}

DriverType ==
  [phase : Phases, selected : Nat, todo : Seq(Campaign), rows : Seq(Row), step : Nat,
   content : RowStatus \cup {Absent}]

DriverTypeOK ==
  /\ log \in [Campaign -> Seq(EventType)]
  /\ driver \in DriverType \cup {Absent}
  /\ runsFile \in Seq(Row) \cup {Absent}

\* Nothing follows the end of an attempt.
EndIsLast ==
  \A c \in Campaign : StateOf(c) = "terminal" =>
    /\ log[c] # << >> /\ LastOf(log[c]) = Event("terminal", 0, StatusIn(c))
    /\ StatusIn(c) \in RowStatus

Backed(logged, row) ==
  /\ logged[row.campaign] # << >>
  /\ LastOf(logged[row.campaign]) = Event("terminal", 0, row.status)
  /\ row.result # Absent => row.result = row.status

AllBacked(logged, rs) == \A i \in 1 .. Len(rs) : Backed(logged, rs[i])

\* The rows are those of the first campaigns of the plan, and what is left to
\* do are the next ones.
InOrder ==
  /\ Len(driver.rows) + Len(driver.todo) = driver.selected
  /\ driver.selected <= Len(Plan)
  /\ \A i \in 1 .. Len(driver.rows) : driver.rows[i].campaign = Plan[i]
  /\ \A i \in 1 .. Len(driver.todo) : driver.todo[i] = Plan[Len(driver.rows) + i]

InCampaign ==
  /\ driver.todo # << >> /\ StateOf(Current) \in {"started", "resumed"}
  /\ log[Current] # << >>
  /\ driver.phase = "execute" => LastOf(log[Current]).type \in {"started", "resumed"}
  /\ driver.phase = "append" =>
       /\ driver.step \in 1 .. MethodSteps /\ driver.content \in MethodResult
       /\ \/ driver.step = 1 /\ LastOf(log[Current]).type \in {"started", "resumed"}
          \/ driver.step > 1
               /\ LastOf(log[Current]) = Event("method", driver.step - 1, driver.content)
  /\ driver.phase = "finish" =>
       /\ driver.content \in RowStatus
       /\ driver.content # "tool_failure" =>
            LastOf(log[Current]) = Event("method", MethodSteps, driver.content)

AtWork == driver # Absent =>
  /\ InOrder /\ AllBacked(log, driver.rows)
  /\ driver.phase \in {"execute", "append", "finish"} => InCampaign
  /\ driver.phase = "report" => runsFile = driver.rows /\ driver.todo = << >>

FilesTold ==
  /\ runsFile # Absent => AllBacked(log, runsFile)
  /\ last = "exit" => driver = Absent /\ Validates

DriverInv ==
  /\ DriverTypeOK /\ EndIsLast
  /\ \A c \in Campaign : MethodRuns(log[c])
  /\ AtWork /\ FilesTold

\* The latest lifecycle event, when one event is appended.
LEMMA LifecycleEmpty == LastLifecycle(<< >>) = Absent
  BY DEF LastLifecycle

LEMMA LifecycleLast ==
  ASSUME NEW events \in Seq(EventType), events # << >>, LastOf(events).type # "method"
  PROVE  LastLifecycle(events) = LastOf(events)
<1> DEFINE L == {i \in DOMAIN events : events[i].type # "method"}
           n == Len(events)
           P(x) == x \in L /\ \A j \in L : j <= x
<1>1. n \in L /\ \A i \in L : i <= n /\ i \in Nat
  BY DEF LastOf
<1>2. P(n) /\ \A x : P(x) => x = n
  <2> HIDE DEF L, n
  <2> QED BY <1>1
<1>3. (CHOOSE x : P(x)) = n
  <2> HIDE DEF P
  <2> QED BY <1>2
<1>4. (CHOOSE i \in L : \A j \in L : j <= i) = n
  BY <1>3
<1>5. L # {}
  BY <1>1
<1> QED BY <1>4, <1>5 DEF LastLifecycle, LastOf

LEMMA LifecycleAfterMethod ==
  ASSUME NEW events \in Seq(EventType), NEW e, e.type = "method"
  PROVE  LastLifecycle(Append(events, e)) = LastLifecycle(events)
<1> DEFINE L == {i \in DOMAIN events : events[i].type # "method"}
           K == {i \in DOMAIN Append(events, e) : Append(events, e)[i].type # "method"}
           top == CHOOSE i \in L : \A j \in L : j <= i
<1>1. K = L
  OBVIOUS
<1>2. CASE L = {}
  BY <1>1, <1>2 DEF LastLifecycle
<1>3. CASE L # {}
  <2>1. L \subseteq 1 .. Len(events) /\ Len(events) \in Nat
    OBVIOUS
  <2>2. top \in L
    <3> HIDE DEF L
    <3>1. \E i \in L : \A j \in L : j <= i
      BY <1>3, <2>1, Greatest
    <3> QED BY <3>1
  <2>3. Append(events, e)[top] = events[top]
    <3> HIDE DEF L, top
    <3> QED BY <2>1, <2>2
  <2> HIDE DEF L, K
  <2> QED BY <1>1, <1>3, <2>3 DEF LastLifecycle, L, K
<1> QED BY <1>2, <1>3

LEMMA LifecycleTyped ==
  ASSUME NEW events \in Seq(EventType)
  PROVE  LastLifecycle(events) \in EventType \cup {Absent}
<1> DEFINE L == {i \in DOMAIN events : events[i].type # "method"}
           top == CHOOSE i \in L : \A j \in L : j <= i
<1>1. CASE L = {}
  BY <1>1 DEF LastLifecycle
<1>2. CASE L # {}
  <2>1. L \subseteq 1 .. Len(events) /\ Len(events) \in Nat
    OBVIOUS
  <2>2. top \in L
    <3> HIDE DEF L
    <3>1. \E i \in L : \A j \in L : j <= i
      BY <1>2, <2>1, Greatest
    <3> QED BY <3>1
  <2>3. events[top] \in EventType
    <3> HIDE DEF L, top
    <3> QED BY <2>1, <2>2
  <2> HIDE DEF L
  <2> QED BY <1>2, <2>3 DEF LastLifecycle, L
<1> QED BY <1>1, <1>2

LEMMA EventTyped ==
  /\ \A t \in {"started", "uncertain", "resumed"} : Lifecycle(t) \in EventType
  /\ \A x \in RowStatus : Event("terminal", 0, x) \in EventType
  /\ \A x \in RowStatus, k \in 0 .. MethodSteps : Event("method", k, x) \in EventType
<1>1. MethodSteps \in Nat
  BY PlanType DEF MethodSteps
<1> QED BY <1>1 DEF Lifecycle, Event, EventType

\* A row that is backed is a row of an attempt that has ended.
LEMMA BackedEnds ==
  ASSUME DriverTypeOK, NEW row \in Row, Backed(log, row)
  PROVE  StateOf(row.campaign) = "terminal" /\ StatusIn(row.campaign) = row.status
<1>1. row.campaign \in Campaign /\ log[row.campaign] \in Seq(EventType)
  BY DEF DriverTypeOK, Row
<1>2. /\ log[row.campaign] # << >>
      /\ LastOf(log[row.campaign]) = Event("terminal", 0, row.status)
  BY DEF Backed
<1>3. LastLifecycle(log[row.campaign]) = Event("terminal", 0, row.status)
  BY <1>1, <1>2, LifecycleLast DEF Event
<1>4. Event("terminal", 0, row.status) # Absent
  BY EventTyped, AbsentIsApart DEF Row
<1> QED BY <1>3, <1>4 DEF StateOf, StatusIn, Event

\* An event is appended to an attempt that has not ended.
LEMMA Appended ==
  ASSUME DriverTypeOK, EndIsLast, NEW c \in Campaign, NEW e \in EventType,
         StateOf(c) # "terminal", Append_(c, e),
         e.type = "terminal" => e = Event("terminal", 0, e.content) /\ e.content \in RowStatus
  PROVE  /\ log' \in [Campaign -> Seq(EventType)]
         /\ log'[c] # << >> /\ LastOf(log'[c]) = e /\ log'[c] = Append(log[c], e)
         /\ \A d \in Campaign \ {c} : log'[d] = log[d] /\ StateOf(d)' = StateOf(d)
         /\ StateOf(c)' = IF e.type = "method" THEN StateOf(c) ELSE e.type
         /\ EndIsLast'
         /\ \A row \in Row : Backed(log, row) => Backed(log', row)
<1>1. /\ log \in [Campaign -> Seq(EventType)]
      /\ log' = [log EXCEPT ![c] = Append(@, e)]
  BY DEF DriverTypeOK, Append_
<1>2. log[c] \in Seq(EventType) /\ Append(log[c], e) \in Seq(EventType)
  BY <1>1
<1>3. /\ log' \in [Campaign -> Seq(EventType)] /\ log'[c] = Append(log[c], e)
      /\ \A d \in Campaign \ {c} : log'[d] = log[d]
  BY <1>1, <1>2
<1>4. log'[c] # << >> /\ LastOf(log'[c]) = e
  BY <1>2, <1>3 DEF LastOf
<1>5. \A d \in Campaign \ {c} : StateOf(d)' = StateOf(d) /\ StatusIn(d)' = StatusIn(d)
  BY <1>3 DEF StateOf, StatusIn
<1>6. LastLifecycle(log'[c]) = IF e.type = "method" THEN LastLifecycle(log[c]) ELSE e
  <2>1. CASE e.type = "method"
    BY <1>2, <1>3, <2>1, LifecycleAfterMethod
  <2>2. CASE e.type # "method"
    BY <1>2, <1>3, <1>4, <2>2, LifecycleLast
  <2> QED BY <2>1, <2>2
<1>7. e # Absent
  BY AbsentIsApart
<1>8. StateOf(c)' = IF e.type = "method" THEN StateOf(c) ELSE e.type
  BY <1>6, <1>7 DEF StateOf
<1>9. EndIsLast'
  <2> SUFFICES ASSUME NEW d \in Campaign, StateOf(d)' = "terminal"
               PROVE  /\ log'[d] # << >> /\ LastOf(log'[d]) = Event("terminal", 0, StatusIn(d)')
                      /\ StatusIn(d)' \in RowStatus
    BY DEF EndIsLast
  <2>1. CASE d = c
    <3>1. e.type = "terminal" /\ StatusIn(c)' = e.content
      BY <1>6, <1>8, <2>1 DEF StatusIn
    <3> QED BY <1>4, <2>1, <3>1
  <2>2. CASE d # c
    BY <1>3, <1>5, <2>2 DEF EndIsLast
  <2> QED BY <2>1, <2>2
<1>10. ASSUME NEW row \in Row, Backed(log, row) PROVE Backed(log', row)
  <2>1. row.campaign \in Campaign \ {c}
    BY <1>10, BackedEnds DEF Row
  <2> QED BY <1>3, <1>10, <2>1 DEF Backed
<1> QED BY <1>3, <1>4, <1>5, <1>8, <1>9, <1>10

LEMMA RunsAppended ==
  ASSUME NEW events \in Seq(EventType), NEW e \in EventType, MethodRuns(events),
         e.type = "method" =>
           /\ events # << >>
           /\ \/ LastOf(events).type \in {"started", "resumed"} /\ e.step = 1
              \/ /\ LastOf(events).type = "method"
                 /\ e.step = LastOf(events).step + 1 /\ e.content = LastOf(events).content,
         e.type = "terminal" /\ e.content # "tool_failure" =>
           events # << >> /\ LastOf(events) = Event("method", MethodSteps, e.content)
  PROVE  MethodRuns(Append(events, e))
<1> DEFINE more == Append(events, e)
           n == Len(events)
<1>1. /\ n \in Nat /\ Len(more) = n + 1 /\ more[n + 1] = e
      /\ \A i \in 1 .. n : more[i] = events[i]
      /\ events # << >> => n > 0
  OBVIOUS
<1>2. ASSUME NEW i \in 1 .. n
      PROVE  more[i] = events[i] /\ (i > 1 => more[i - 1] = events[i - 1])
  BY <1>1
<1> HIDE DEF more
<1>3. ASSUME NEW i \in 1 .. (n + 1)
      PROVE  /\ more[i].type = "method" =>
                  /\ i > 1
                  /\ \/ more[i - 1].type \in {"started", "resumed"} /\ more[i].step = 1
                     \/ /\ more[i - 1].type = "method"
                        /\ more[i].step = more[i - 1].step + 1
                        /\ more[i].content = more[i - 1].content
             /\ more[i].type = "terminal" /\ more[i].content # "tool_failure" =>
                  i > 1 /\ more[i - 1] = Event("method", MethodSteps, more[i].content)
  <2>1. CASE i \in 1 .. n
    BY <1>2, <2>1 DEF MethodRuns
  <2>2. CASE i = n + 1
    BY <1>1, <2>2 DEF LastOf
  <2> QED BY <1>1, <2>1, <2>2
<1> QED BY <1>1, <1>3 DEF MethodRuns, more

\* Rows stay backed by a step that keeps each of them so.
LEMMA RowsStay ==
  ASSUME \A row \in Row : Backed(log, row) => Backed(log', row), NEW rs \in Seq(Row), AllBacked(log, rs)
  PROVE  \A i \in 1 .. Len(rs) : Backed(log', rs[i])
<1>1. \A i \in 1 .. Len(rs) : rs[i] \in Row
  OBVIOUS
<1> QED BY <1>1 DEF AllBacked

LEMMA FilesStay ==
  ASSUME DriverTypeOK, FilesTold, driver # Absent,
         \A row \in Row : Backed(log, row) => Backed(log', row), UNCHANGED <<runsFile, last>>
  PROVE  FilesTold'
<1>1. ASSUME runsFile # Absent PROVE \A i \in 1 .. Len(runsFile) : Backed(log', runsFile[i])
  BY <1>1, RowsStay DEF DriverTypeOK, FilesTold
<1> QED BY <1>1 DEF FilesTold, AllBacked

\* A step that leaves the log leaves what is said of it.
LEMMA LogSame ==
  ASSUME DriverInv, log' = log
  PROVE  /\ EndIsLast' /\ \A c \in Campaign : MethodRuns(log[c])'
         /\ \A row \in Row : Backed(log, row) => Backed(log', row)
         /\ \A c : StateOf(c)' = StateOf(c) /\ StatusIn(c)' = StatusIn(c)
<1>1. \A c : StateOf(c)' = StateOf(c) /\ StatusIn(c)' = StatusIn(c)
  BY DEF StateOf, StatusIn
<1>2. EndIsLast'
  BY <1>1 DEF DriverInv, EndIsLast
<1>3. \A row \in Row : Backed(log, row) => Backed(log', row)
  BY DEF Backed
<1> QED BY <1>1, <1>2, <1>3 DEF DriverInv, MethodRuns

LEMMA DriverFacts ==
  ASSUME DriverTypeOK, driver # Absent
  PROVE  /\ driver.phase \in Phases /\ driver.todo \in Seq(Campaign) /\ driver.selected \in Nat
         /\ driver.rows \in Seq(Row) /\ driver.step \in Nat
         /\ driver.content \in RowStatus \cup {Absent}
         /\ driver.todo # << >> =>
              /\ Current \in Campaign /\ Current = driver.todo[1]
              /\ Tail(driver.todo) \in Seq(Campaign)
              /\ Len(Tail(driver.todo)) = Len(driver.todo) - 1
              /\ \A i \in 1 .. (Len(driver.todo) - 1) :
                   Tail(driver.todo)[i] = driver.todo[i + 1]
<1>1. driver.todo \in Seq(Campaign)
  BY DEF DriverTypeOK, DriverType
<1>2. ASSUME NEW todo \in Seq(Campaign), todo # << >>
      PROVE  /\ Head(todo) \in Campaign /\ Head(todo) = todo[1]
             /\ Tail(todo) \in Seq(Campaign)
             /\ Len(Tail(todo)) = Len(todo) - 1
             /\ \A i \in 1 .. (Len(todo) - 1) : Tail(todo)[i] = todo[i + 1]
  BY <1>2
<1> QED BY <1>1, <1>2 DEF DriverTypeOK, DriverType, Current

LEMMA BeginKeeps == ASSUME DriverInv, Begin PROVE DriverInv'
<1>1. PICK n \in 1 .. Len(Plan) :
        driver' = [phase |-> "recover", selected |-> n, todo |-> SubSeq(Plan, 1, n),
                   rows |-> << >>, step |-> 0, content |-> Absent]
  BY DEF Begin
<1>2. log' = log /\ runsFile' = runsFile /\ last' = "running"
  BY DEF Begin, files
<1>3. Plan \in Seq(Campaign)
  BY PlanType DEF Campaign
<1>4. /\ SubSeq(Plan, 1, n) \in Seq(Campaign) /\ Len(SubSeq(Plan, 1, n)) = n
      /\ \A i \in 1 .. n : SubSeq(Plan, 1, n)[i] = Plan[i]
  BY <1>3
<1>5. << >> \in Seq(Row) /\ Len(<< >>) = 0
  OBVIOUS
<1>6. driver' \in DriverType
  BY <1>1, <1>4, <1>5 DEF DriverType, Phases
<1>7. DriverTypeOK'
  BY <1>2, <1>6 DEF DriverInv, DriverTypeOK
<1>8. InOrder' /\ AllBacked(log', driver'.rows)
  BY <1>1, <1>3, <1>4 DEF InOrder, AllBacked
<1>9. AtWork'
  BY <1>1, <1>8 DEF AtWork
<1>10. runsFile # Absent => \A i \in 1 .. Len(runsFile) : Backed(log', runsFile[i])
  BY <1>2, LogSame, RowsStay DEF DriverInv, DriverTypeOK, FilesTold
<1>11. FilesTold'
  BY <1>2, <1>10 DEF FilesTold, AllBacked
<1> QED BY <1>2, <1>7, <1>9, <1>11, LogSame DEF DriverInv

LEMMA BeginRefusedKeeps == ASSUME DriverInv, BeginRefused PROVE DriverInv'
<1>1. log' = log /\ runsFile' = runsFile /\ driver' = Absent /\ last' = "refused"
  BY DEF BeginRefused, files
<1>2. DriverTypeOK' /\ AtWork'
  BY <1>1 DEF DriverInv, DriverTypeOK, AtWork
<1>3. runsFile # Absent => \A i \in 1 .. Len(runsFile) : Backed(log', runsFile[i])
  BY <1>1, LogSame, RowsStay DEF DriverInv, DriverTypeOK, FilesTold
<1>4. FilesTold'
  BY <1>1, <1>3 DEF FilesTold, AllBacked
<1> QED BY <1>1, <1>2, <1>4, LogSame DEF DriverInv

LEMMA CrashKeeps == ASSUME DriverInv, Crash PROVE DriverInv'
<1>1. log' = log /\ runsFile' = runsFile /\ driver' = Absent /\ last' = "crash"
  BY DEF Crash
<1>2. DriverTypeOK' /\ AtWork'
  BY <1>1 DEF DriverInv, DriverTypeOK, AtWork
<1>3. runsFile # Absent => \A i \in 1 .. Len(runsFile) : Backed(log', runsFile[i])
  BY <1>1, LogSame, RowsStay DEF DriverInv, DriverTypeOK, FilesTold
<1>4. FilesTold'
  BY <1>1, <1>3 DEF FilesTold, AllBacked
<1> QED BY <1>1, <1>2, <1>4, LogSame DEF DriverInv

\* What is left to show for a step of a driver: the attempt it appended to, or
\* none, and where it is.
LEMMA DriverMoves ==
  ASSUME DriverInv, driver # Absent, driver' \in DriverType,
         log' \in [Campaign -> Seq(EventType)], EndIsLast',
         \A c \in Campaign : MethodRuns(log'[c]),
         \A row \in Row : Backed(log, row) => Backed(log', row), UNCHANGED <<runsFile, last>>,
         InOrder', driver'.rows = driver.rows \/
                     \E row \in Row : Backed(log', row) /\ driver'.rows = Append(driver.rows, row),
         driver'.phase \in {"execute", "append", "finish"} => InCampaign',
         driver'.phase = "report" => runsFile' = driver'.rows /\ driver'.todo = << >>
  PROVE  DriverInv'
<1> USE DEF DriverInv
<1>1. DriverTypeOK'
  BY DEF DriverTypeOK
<1>2. driver.rows \in Seq(Row)
  BY DriverFacts
<1>3. \A i \in 1 .. Len(driver.rows) : Backed(log', driver.rows[i])
  BY <1>2, RowsStay DEF AtWork
<1>4. AllBacked(log', driver'.rows)
  <2>1. CASE driver'.rows = driver.rows
    BY <1>3, <2>1 DEF AllBacked
  <2>2. ASSUME NEW row \in Row, Backed(log', row), driver'.rows = Append(driver.rows, row)
        PROVE  AllBacked(log', driver'.rows)
    <3>1. ASSUME NEW i \in 1 .. Len(driver'.rows) PROVE Backed(log', driver'.rows[i])
      <4>1. Len(driver'.rows) = Len(driver.rows) + 1 /\ Len(driver.rows) \in Nat
        BY <1>2, <2>2
      <4>2. CASE i = Len(driver.rows) + 1
        <5>1. driver'.rows[i] = row
          BY <1>2, <2>2, <4>2
        <5> QED BY <2>2, <5>1 DEF Backed
      <4>3. CASE i # Len(driver.rows) + 1
        <5>1. i \in 1 .. Len(driver.rows)
          BY <4>1, <4>3
        <5>2. driver'.rows[i] = driver.rows[i]
          BY <1>2, <2>2, <5>1
        <5> QED BY <1>3, <5>1, <5>2 DEF Backed
      <4> QED BY <4>2, <4>3
    <3> QED BY <3>1 DEF AllBacked, Backed
  <2> QED BY <2>1, <2>2
<1>5. AtWork'
  BY <1>4 DEF AtWork
<1>6. FilesTold'
  BY FilesStay
<1> QED BY <1>1, <1>5, <1>6

LEMMA RecoverKeeps == ASSUME DriverInv, Recover PROVE DriverInv'
<1> USE DEF DriverInv
<1>1. /\ driver # Absent /\ driver.phase = "recover" /\ UNCHANGED <<runsFile, last>>
      /\ InOrder
  BY DEF Recover, At, files, AtWork
<1>2. ASSUME NEW c \in InFlight, Append_(c, Lifecycle("uncertain")), UNCHANGED driver
      PROVE  DriverInv'
  <2> DEFINE e == Lifecycle("uncertain")
  <2>1. c \in Campaign /\ StateOf(c) # "terminal"
    BY <1>2 DEF InFlight
  <2>2. e \in EventType /\ e.type = "uncertain"
    BY EventTyped DEF Lifecycle, Event
  <2> HIDE DEF e
  <2>3. /\ log' \in [Campaign -> Seq(EventType)] /\ EndIsLast'
        /\ log'[c] = Append(log[c], e)
        /\ \A d \in Campaign \ {c} : log'[d] = log[d]
        /\ \A row \in Row : Backed(log, row) => Backed(log', row)
    <3>1. Append_(c, e)
      BY <1>2 DEF e
    <3> QED BY <2>1, <2>2, <3>1, Appended
  <2>4. log[c] \in Seq(EventType)
    BY <2>1 DEF DriverTypeOK
  <2>5. MethodRuns(Append(log[c], e))
    BY <2>1, <2>2, <2>4, RunsAppended
  <2>6. \A d \in Campaign : MethodRuns(log'[d])
    BY <2>3, <2>5
  <2>7. InOrder' /\ driver' \in DriverType /\ driver' = driver
    BY <1>1, <1>2 DEF InOrder, DriverTypeOK
  <2> QED BY <1>1, <2>3, <2>6, <2>7, DriverMoves
<1>3. ASSUME driver' = [driver EXCEPT !.phase = "next"], UNCHANGED log
      PROVE  DriverInv'
  <2>1. driver' \in DriverType /\ driver'.phase = "next"
    BY <1>1, <1>3 DEF DriverTypeOK, DriverType, Phases
  <2>2. InOrder' /\ driver'.rows = driver.rows
      /\ driver'.selected = driver.selected
    BY <1>1, <1>3 DEF InOrder, DriverTypeOK, DriverType
  <2>3. log' \in [Campaign -> Seq(EventType)] /\ \A c \in Campaign : MethodRuns(log'[c])
    BY <1>3 DEF DriverTypeOK
  <2> QED BY <1>1, <1>3, <2>1, <2>2, <2>3, LogSame, DriverMoves
<1> QED BY <1>2, <1>3 DEF Recover

\* The rows and what is left to do, when the campaign in hand is done.
LEMMA NextCampaign ==
  ASSUME DriverTypeOK, driver # Absent, InOrder, driver.todo # << >>,
         NEW row \in Row, row.campaign = Current,
         driver'.todo = Tail(driver.todo), driver'.rows = Append(driver.rows, row),
         driver'.selected = driver.selected
  PROVE  InOrder'
<1>1. /\ driver.rows \in Seq(Row) /\ driver.todo \in Seq(Campaign)
      /\ Current = driver.todo[1]
      /\ Len(Tail(driver.todo)) = Len(driver.todo) - 1
      /\ \A i \in 1 .. (Len(driver.todo) - 1) : Tail(driver.todo)[i] = driver.todo[i + 1]
  BY DriverFacts
<1>2. /\ Len(driver.todo) \in Nat /\ Len(driver.todo) > 0 /\ Len(driver.rows) \in Nat
      /\ Len(driver'.rows) = Len(driver.rows) + 1
      /\ driver'.rows[Len(driver.rows) + 1] = row
      /\ \A i \in 1 .. Len(driver.rows) : driver'.rows[i] = driver.rows[i]
  BY <1>1
<1>3. Len(Plan) \in Nat
  BY PlanType
<1>4. Len(driver'.rows) + Len(driver'.todo) = driver'.selected /\ driver'.selected <= Len(Plan)
  <2>1. Len(driver'.todo) = Len(driver.todo) - 1
    BY <1>1
  <2>2. Len(driver.rows) + Len(driver.todo) = driver.selected /\ driver.selected <= Len(Plan)
    BY DEF InOrder
  <2>3. \A r, t \in Nat : (r + 1) + (t - 1) = r + t
    OBVIOUS
  <2> QED BY <1>2, <1>3, <2>1, <2>2, <2>3
<1>5. ASSUME NEW i \in 1 .. Len(driver'.rows) PROVE driver'.rows[i].campaign = Plan[i]
  <2>1. CASE i = Len(driver.rows) + 1
    <3>1. driver.todo[1] = Plan[Len(driver.rows) + 1]
      BY <1>2 DEF InOrder
    <3> QED BY <1>1, <1>2, <2>1, <3>1
  <2>2. CASE i # Len(driver.rows) + 1
    <3>1. i \in 1 .. Len(driver.rows)
      BY <1>2, <2>2
    <3> QED BY <1>2, <3>1 DEF InOrder
  <2> QED BY <2>1, <2>2
<1>6. ASSUME NEW i \in 1 .. Len(driver'.todo)
      PROVE  driver'.todo[i] = Plan[Len(driver'.rows) + i]
  <2>1. i \in 1 .. (Len(driver.todo) - 1) /\ i + 1 \in 1 .. Len(driver.todo)
    BY <1>1, <1>2
  <2>2. driver'.todo[i] = driver.todo[i + 1]
    BY <1>1, <2>1
  <2>3. driver.todo[i + 1] = Plan[Len(driver.rows) + (i + 1)]
    BY <2>1 DEF InOrder
  <2>4. Len(driver.rows) + (i + 1) = Len(driver'.rows) + i
    <3>1. \A r, k \in Nat : r + (k + 1) = (r + 1) + k
      OBVIOUS
    <3>2. Len(driver'.rows) = Len(driver.rows) + 1 /\ Len(driver.rows) \in Nat
      BY <1>2
    <3>3. i \in Nat
      BY <2>1
    <3> HIDE DEF InOrder
    <3> QED BY ONLY <3>1, <3>2, <3>3
  <2> QED BY <2>2, <2>3, <2>4
<1> QED BY <1>4, <1>5, <1>6 DEF InOrder

\* An attempt that has ended is backed by the log.
LEMMA EndedIsBacked ==
  ASSUME DriverTypeOK, EndIsLast, NEW c \in Campaign, StateOf(c) = "terminal"
  PROVE  ExistingRow(c) \in Row /\ Backed(log, ExistingRow(c)) /\ StatusIn(c) \in RowStatus
<1>1. log[c] \in Seq(EventType) /\ log[c] # << >>
      /\ LastOf(log[c]) = Event("terminal", 0, StatusIn(c))
  BY DEF DriverTypeOK, EndIsLast
<1>2. StatusIn(c) \in RowStatus
  BY DEF EndIsLast
<1> QED BY <1>1, <1>2 DEF ExistingRow, Backed, Row

LEMMA ExistingKeeps == ASSUME DriverInv, Existing PROVE DriverInv'
<1> USE DEF DriverInv
<1> DEFINE row == ExistingRow(Current)
<1>1. /\ driver # Absent /\ driver.todo # << >> /\ StateOf(Current) = "terminal"
      /\ driver.phase = "next"
      /\ driver' = [driver EXCEPT !.todo = Tail(@), !.rows = Append(@, row)]
      /\ UNCHANGED <<log, runsFile, last>>
  BY DEF Existing, At, files
<1>2. Current \in Campaign
  BY <1>1, DriverFacts
<1>3. row \in Row /\ Backed(log, row) /\ row.campaign = Current
  BY <1>1, <1>2, EndedIsBacked DEF ExistingRow
<1> HIDE DEF row
<1>4. /\ driver'.todo = Tail(driver.todo) /\ driver'.rows = Append(driver.rows, row)
      /\ driver'.phase = "next" /\ driver' \in DriverType
       /\ driver'.selected = driver.selected
  <2>1. Tail(driver.todo) \in Seq(Campaign) /\ Append(driver.rows, row) \in Seq(Row)
    BY <1>1, <1>3, DriverFacts
  <2> QED BY <1>1, <2>1 DEF DriverTypeOK, DriverType
<1>5. InOrder'
  BY <1>1, <1>3, <1>4, NextCampaign DEF AtWork
<1>6. log' \in [Campaign -> Seq(EventType)] /\ \A c \in Campaign : MethodRuns(log'[c])
  BY <1>1 DEF DriverTypeOK
<1> QED BY <1>1, <1>3, <1>4, <1>5, <1>6, LogSame, DriverMoves

\* The driver stays at its campaign, with the log as it is or with one event
\* more for it.
LEMMA CurrentMoves ==
  ASSUME DriverInv, driver # Absent, driver' \in DriverType, driver'.todo = driver.todo,
         driver'.rows = driver.rows, driver'.selected = driver.selected,
         UNCHANGED <<runsFile, last>>
  PROVE  InOrder' /\ Current' = Current
  BY DEF DriverInv, AtWork, InOrder, Current

LEMMA LaunchKeeps == ASSUME DriverInv, Launch PROVE DriverInv'
<1> USE DEF DriverInv
<1> DEFINE launched == Lifecycle(IF StateOf(Current) = "planned" THEN "started" ELSE "resumed")
<1>1. /\ driver # Absent /\ driver.todo # << >>
      /\ StateOf(Current) \in {"planned", "uncertain"}
      /\ Append_(Current, launched) /\ driver' = [driver EXCEPT !.phase = "execute"]
      /\ UNCHANGED <<runsFile, last>>
  BY DEF Launch, At, files
<1>2. PICK c \in Campaign : c = Current
  BY <1>1, DriverFacts
<1>3. PICK e \in EventType : e = launched /\ e.type \in {"started", "resumed"}
  BY EventTyped DEF Lifecycle, Event
<1> HIDE DEF launched
<1>0. log[c] \in Seq(EventType) /\ StateOf(c) # "terminal" /\ Append_(c, e)
  BY <1>1, <1>2, <1>3 DEF DriverTypeOK
<1>4. /\ log' \in [Campaign -> Seq(EventType)] /\ EndIsLast'
      /\ log'[c] = Append(log[c], e) /\ log'[c] # << >> /\ LastOf(log'[c]) = e
      /\ \A d \in Campaign \ {c} : log'[d] = log[d]
      /\ StateOf(c)' = e.type
      /\ \A row \in Row : Backed(log, row) => Backed(log', row)
  BY <1>0, <1>3, Appended
<1>5. \A d \in Campaign : MethodRuns(log'[d])
  BY <1>0, <1>3, <1>4, RunsAppended
<1>6. /\ driver' \in DriverType /\ driver'.todo = driver.todo /\ driver'.rows = driver.rows
      /\ driver'.selected = driver.selected
      /\ driver'.phase = "execute"
  BY <1>1 DEF DriverTypeOK, DriverType, Phases
<1>7. InOrder' /\ Current' = Current
  BY <1>1, <1>6, CurrentMoves
<1>8. StateOf(Current)' = e.type
  BY <1>2, <1>4, <1>7 DEF StateOf
<1>9. InCampaign'
  BY <1>1, <1>2, <1>3, <1>4, <1>6, <1>7, <1>8 DEF InCampaign
<1> QED BY <1>1, <1>4, <1>5, <1>6, <1>7, <1>9, DriverMoves

LEMMA ExecuteKeeps == ASSUME DriverInv, Execute PROVE DriverInv'
<1> USE DEF DriverInv
<1>1. PICK content \in MethodResult :
        driver' = [driver EXCEPT !.phase = "append", !.step = 1, !.content = content]
  BY DEF Execute
<1>2. /\ driver # Absent /\ driver.phase = "execute" /\ InCampaign
      /\ UNCHANGED <<log, runsFile, last>>
  BY DEF Execute, At, files, AtWork
<1>3. /\ driver' \in DriverType /\ driver'.todo = driver.todo /\ driver'.rows = driver.rows
      /\ driver'.selected = driver.selected
      /\ driver'.phase = "append" /\ driver'.step = 1 /\ driver'.content = content
  BY <1>1, <1>2 DEF DriverTypeOK, DriverType, Phases, RowStatus
<1>4. InOrder' /\ Current' = Current
  BY <1>2, <1>3, CurrentMoves
<1>5. StateOf(Current)' = StateOf(Current)
  BY <1>2, <1>4 DEF StateOf
<1>6. 1 \in 1 .. MethodSteps
  BY PlanType DEF MethodSteps
<1>7. InCampaign'
  BY <1>2, <1>3, <1>4, <1>5, <1>6 DEF InCampaign
<1>8. log' \in [Campaign -> Seq(EventType)] /\ \A c \in Campaign : MethodRuns(log'[c])
  BY <1>2 DEF DriverTypeOK
<1> QED BY <1>2, <1>3, <1>4, <1>7, <1>8, LogSame, DriverMoves

LEMMA CallbackRaisesKeeps == ASSUME DriverInv, CallbackRaises PROVE DriverInv'
<1> USE DEF DriverInv
<1>1. /\ driver # Absent /\ InCampaign
      /\ driver' = [driver EXCEPT !.phase = "finish", !.step = 0, !.content = "tool_failure"]
      /\ UNCHANGED <<log, runsFile, last>>
  BY DEF CallbackRaises, At, files, AtWork
<1>2. /\ driver' \in DriverType /\ driver'.todo = driver.todo /\ driver'.rows = driver.rows
      /\ driver'.selected = driver.selected
      /\ driver'.phase = "finish" /\ driver'.content = "tool_failure"
  BY <1>1 DEF DriverTypeOK, DriverType, Phases, RowStatus
<1>3. InOrder' /\ Current' = Current
  BY <1>1, <1>2, CurrentMoves
<1>4. StateOf(Current)' = StateOf(Current)
  BY <1>1, <1>3 DEF StateOf
<1>5. InCampaign'
  BY <1>1, <1>2, <1>3, <1>4 DEF InCampaign, RowStatus
<1>6. log' \in [Campaign -> Seq(EventType)] /\ \A c \in Campaign : MethodRuns(log'[c])
  BY <1>1 DEF DriverTypeOK
<1> QED BY <1>1, <1>2, <1>3, <1>5, <1>6, LogSame, DriverMoves

LEMMA AppendMethodEventKeeps == ASSUME DriverInv, AppendMethodEvent PROVE DriverInv'
<1> USE DEF DriverInv
<1>1. /\ driver # Absent /\ driver.phase = "append" /\ InCampaign
      /\ Append_(Current, MethodEvent(driver.step))
      /\ driver' = IF driver.step < MethodSteps THEN [driver EXCEPT !.step = @ + 1]
                   ELSE [driver EXCEPT !.phase = "finish", !.step = 0]
      /\ UNCHANGED <<runsFile, last>>
  BY DEF AppendMethodEvent, At, files, AtWork
<1>2. PICK c \in Campaign : c = Current
  BY <1>1, DriverFacts DEF InCampaign
<1>3. /\ log[c] \in Seq(EventType) /\ log[c] # << >>
      /\ StateOf(c) \in {"started", "resumed"} /\ MethodSteps \in Nat
      /\ driver.step \in 1 .. MethodSteps /\ driver.content \in MethodResult
      /\ \/ driver.step = 1 /\ LastOf(log[c]).type \in {"started", "resumed"}
         \/ driver.step > 1
              /\ LastOf(log[c]) = Event("method", driver.step - 1, driver.content)
  <2>1. MethodSteps \in Nat
    BY PlanType DEF MethodSteps
  <2> QED BY <1>1, <1>2, <2>1 DEF DriverTypeOK, InCampaign
<1>4. PICK e \in EventType :
        /\ e = MethodEvent(driver.step) /\ e.type = "method" /\ e.step = driver.step
        /\ e.content = driver.content /\ e = Event("method", driver.step, driver.content)
  <2>1. driver.step \in 0 .. MethodSteps /\ driver.content \in RowStatus
    BY <1>3 DEF RowStatus
  <2>2. Event("method", driver.step, driver.content) \in EventType
    BY <2>1, EventTyped
  <2> QED BY <2>2 DEF MethodEvent, Event
<1>0. Append_(c, e)
  BY <1>1, <1>2, <1>4
<1>5. /\ log' \in [Campaign -> Seq(EventType)] /\ EndIsLast'
      /\ log'[c] = Append(log[c], e) /\ log'[c] # << >> /\ LastOf(log'[c]) = e
      /\ \A d \in Campaign \ {c} : log'[d] = log[d]
      /\ StateOf(c)' = StateOf(c)
      /\ \A row \in Row : Backed(log, row) => Backed(log', row)
  BY <1>0, <1>3, <1>4, Appended
<1>6. \/ LastOf(log[c]).type \in {"started", "resumed"} /\ e.step = 1
      \/ /\ LastOf(log[c]).type = "method"
         /\ e.step = LastOf(log[c]).step + 1 /\ e.content = LastOf(log[c]).content
  BY <1>3, <1>4 DEF Event
<1>7. MethodRuns(Append(log[c], e))
  BY <1>3, <1>4, <1>6, RunsAppended
<1>8. \A d \in Campaign : MethodRuns(log'[d])
  BY <1>5, <1>7
<1>9. /\ driver' \in DriverType /\ driver'.todo = driver.todo /\ driver'.rows = driver.rows
      /\ driver'.selected = driver.selected
      /\ driver'.content = driver.content
      /\ \/ /\ driver'.phase = "append" /\ driver'.step = driver.step + 1
            /\ driver.step < MethodSteps
         \/ driver'.phase = "finish" /\ driver.step = MethodSteps
  <2>1. driver \in DriverType
    BY <1>1 DEF DriverTypeOK
  <2>2. CASE driver.step < MethodSteps
    BY <1>1, <2>1, <2>2, SMTT(30) DEF DriverType, Phases
  <2>3. CASE ~(driver.step < MethodSteps)
    <3>1. driver.step = MethodSteps
      BY <1>3, <2>3
    <3> QED BY <1>1, <2>1, <2>3, <3>1 DEF DriverType, Phases
  <2> QED BY <2>2, <2>3
<1>10. InOrder' /\ Current' = Current
  BY <1>1, <1>9, CurrentMoves
<1>11. StateOf(Current)' = StateOf(Current)
  BY <1>2, <1>5, <1>10 DEF StateOf
<1>12. InCampaign'
  <2>1. /\ driver'.todo # << >> /\ StateOf(Current)' \in {"started", "resumed"}
        /\ log'[Current'] # << >> /\ LastOf(log'[Current']) = e
    BY <1>1, <1>2, <1>3, <1>5, <1>9, <1>10, <1>11 DEF InCampaign
  <2>2. CASE driver'.phase = "append"
    <3>1. /\ driver'.step = driver.step + 1 /\ driver.step < MethodSteps
          /\ driver'.step \in 1 .. MethodSteps /\ driver'.step > 1
          /\ driver'.step - 1 = driver.step
      BY <1>3, <1>9, <2>2
    <3> QED BY <1>3, <1>4, <1>9, <2>1, <2>2, <3>1 DEF InCampaign
  <2>3. CASE driver'.phase = "finish"
    BY <1>3, <1>4, <1>9, <2>1, <2>3 DEF InCampaign, RowStatus
  <2> QED BY <1>9, <2>2, <2>3
<1> QED BY <1>1, <1>5, <1>8, <1>9, <1>10, <1>12, DriverMoves

LEMMA FinishKeeps == ASSUME DriverInv, Finish PROVE DriverInv'
<1> USE DEF DriverInv
<1> DEFINE done == Event("terminal", 0, driver.content)
           made == [campaign |-> Current, status |-> driver.content,
                    result |-> ResultOf(driver.content)]
<1>1. /\ driver # Absent /\ driver.phase = "finish" /\ InCampaign
      /\ Append_(Current, done)
      /\ driver' = [driver EXCEPT !.phase = "next", !.todo = Tail(@), !.content = Absent,
                                  !.rows = Append(@, made)]
      /\ UNCHANGED <<runsFile, last>>
  BY DEF Finish, At, files, AtWork
<1>2. PICK c \in Campaign : c = Current
  BY <1>1, DriverFacts DEF InCampaign
<1>3. /\ log[c] \in Seq(EventType) /\ log[c] # << >>
      /\ StateOf(c) \in {"started", "resumed"} /\ driver.content \in RowStatus
      /\ driver.content # "tool_failure" =>
           LastOf(log[c]) = Event("method", MethodSteps, driver.content)
  BY <1>1, <1>2 DEF DriverTypeOK, InCampaign
<1>4. PICK e \in EventType :
        e = done /\ e = Event("terminal", 0, e.content) /\ e.content = driver.content
          /\ e.type = "terminal"
  BY <1>3, EventTyped DEF Event
<1>5. PICK row \in Row : row = made
  <2>1. ResultOf(driver.content) \in MethodResult \cup {Absent}
    BY ONLY DEF ResultOf
  <2>2. Current \in Campaign /\ driver.content \in RowStatus
    BY <1>2, <1>3
  <2>3. made \in Row
    BY ONLY <2>1, <2>2 DEF made, Row
  <2> QED BY ONLY <2>3
<1>6. /\ row.campaign = Current /\ row.status = driver.content
      /\ row.result # Absent => row.result = row.status
  BY <1>5 DEF ResultOf
<1>7. Append_(c, e)
  BY <1>1, <1>2, <1>4
<1>8. driver' = [driver EXCEPT !.phase = "next", !.todo = Tail(@), !.content = Absent,
                               !.rows = Append(@, row)]
  BY <1>1, <1>5
<1> HIDE DEF done, made
<1>9. /\ log' \in [Campaign -> Seq(EventType)] /\ EndIsLast'
      /\ log'[c] = Append(log[c], e) /\ log'[c] # << >> /\ LastOf(log'[c]) = e
      /\ \A d \in Campaign \ {c} : log'[d] = log[d]
      /\ \A r \in Row : Backed(log, r) => Backed(log', r)
  BY <1>3, <1>4, <1>7, Appended
<1>10. MethodRuns(Append(log[c], e))
  BY <1>3, <1>4, RunsAppended
<1>11. \A d \in Campaign : MethodRuns(log'[d])
  BY <1>9, <1>10
<1>12. Backed(log', row)
  BY <1>2, <1>4, <1>6, <1>9 DEF Backed
<1>13. /\ driver'.todo = Tail(driver.todo) /\ driver'.rows = Append(driver.rows, row)
       /\ driver'.phase = "next" /\ driver' \in DriverType
       /\ driver'.selected = driver.selected
  <2>1. Tail(driver.todo) \in Seq(Campaign) /\ Append(driver.rows, row) \in Seq(Row)
    BY <1>1, DriverFacts DEF InCampaign
  <2>2. driver \in DriverType
    BY <1>1 DEF DriverTypeOK
  <2> QED BY <1>8, <2>1, <2>2 DEF DriverType, Phases
<1>14. InOrder'
  BY <1>1, <1>6, <1>13, NextCampaign DEF AtWork, InCampaign
<1> QED BY <1>1, <1>9, <1>11, <1>12, <1>13, <1>14, DriverMoves

LEMMA WriteRunsKeeps == ASSUME DriverInv, WriteRuns PROVE DriverInv'
<1> USE DEF DriverInv
<1>1. /\ driver # Absent /\ runsFile' = driver.rows /\ driver.todo = << >>
      /\ driver' = [driver EXCEPT !.phase = "report"] /\ UNCHANGED <<log, last>>
      /\ InOrder /\ AllBacked(log, driver.rows) /\ last # "exit"
  BY DEF WriteRuns, At, AtWork, FilesTold
<1>2. /\ driver' \in DriverType /\ driver'.todo = driver.todo /\ driver'.rows = driver.rows
      /\ driver'.selected = driver.selected
      /\ driver'.phase = "report" /\ driver.rows \in Seq(Row)
  BY <1>1 DEF DriverTypeOK, DriverType, Phases
<1>3. DriverTypeOK'
  BY <1>1, <1>2 DEF DriverTypeOK
<1>4. AtWork'
  BY <1>1, <1>2 DEF AtWork, InOrder
<1>5. FilesTold'
  BY <1>1 DEF FilesTold
<1> QED BY <1>1, <1>3, <1>4, <1>5, LogSame

\* A report of rows that are backed, in the order of the plan, validates.
LEMMA WriteReportKeeps == ASSUME DriverInv, WriteReport PROVE DriverInv'
<1> USE DEF DriverInv
<1>1. /\ driver # Absent /\ driver.phase = "report" /\ runsFile = driver.rows
      /\ InOrder /\ AllBacked(log, driver.rows)
      /\ report' = [selected |-> driver.selected, calls |-> Calls(driver.rows),
                    counts |-> [s \in MethodResult |-> Count(driver.rows, s)],
                    events |-> log, runs |-> runsFile]
      /\ driver.todo = << >>
      /\ driver' = Absent /\ last' = "exit" /\ UNCHANGED <<log, runsFile>>
  BY DEF WriteReport, At, AtWork
<1>2. driver.rows \in Seq(Row) /\ Len(driver.rows) \in Nat /\ driver.selected = Len(driver.rows)
  <2>1. driver.rows \in Seq(Row) /\ Len(driver.todo) = 0
    BY <1>1, DriverFacts
  <2>2. Len(driver.rows) + Len(driver.todo) = driver.selected
    BY <1>1 DEF InOrder
  <2> QED BY <2>1, <2>2
<1>3. /\ report'.selected = Len(runsFile) /\ report'.calls = Calls(runsFile)
      /\ \A s \in MethodResult : report'.counts[s] = Count(runsFile, s)
      /\ report'.events = log /\ report'.runs = runsFile
  BY <1>1, <1>2
<1>4. report' \in Report
  <2>1. \A P : IsFiniteSet(P) => Cardinality(P) \in Nat
    BY FS_CardinalityType
  <2>2. IsFiniteSet(DOMAIN driver.rows)
    BY <1>2, FS_Interval
  <2>3. \A s : Count(driver.rows, s) \in Nat
    BY <2>1, <2>2, FS_Subset DEF Count
  <2>4. Cardinality({i \in DOMAIN driver.rows : driver.rows[i].result # Absent}) \in Nat
    BY <2>1, <2>2, FS_Subset
  <2>5. \A m, n \in Nat : m * n \in Nat
    OBVIOUS
  <2>6. Calls(driver.rows) \in Nat
    BY <2>4, <2>5, PlanType DEF Calls
  <2> QED BY <1>1, <1>2, <2>3, <2>6 DEF Report, DriverTypeOK
<1>5. runsFile # Absent /\ report' # Absent
  BY <1>1, <1>2, <1>4, AbsentIsApart
<1>6. ASSUME NEW i \in 1 .. Len(runsFile)
      PROVE  /\ StateOf(runsFile[i].campaign) = "terminal"
             /\ StatusIn(runsFile[i].campaign) = runsFile[i].status
             /\ \A j \in 1 .. (i - 1) : runsFile[j].campaign # runsFile[i].campaign
  <2>1. runsFile[i] \in Row /\ Backed(log, runsFile[i])
    BY <1>1, <1>2 DEF AllBacked
  <2>2. ASSUME NEW j \in 1 .. (i - 1) PROVE runsFile[j].campaign # runsFile[i].campaign
    <3>1. Len(driver.todo) \in Nat /\ Len(Plan) \in Nat /\ DOMAIN Plan = 1 .. Len(Plan)
      BY <1>1, DriverFacts, PlanType
    <3>2. Len(driver.rows) + Len(driver.todo) <= Len(Plan)
      BY <1>1, <1>2 DEF InOrder
    <3>3. i \in 1 .. Len(driver.rows) /\ j \in 1 .. Len(driver.rows) /\ i # j
      BY <1>1, <1>2
    <3>4. \A r, t, p \in Nat : r + t <= p => 1 .. r \subseteq 1 .. p
      OBVIOUS
    <3>5. 1 .. Len(driver.rows) \subseteq 1 .. Len(Plan)
      BY ONLY <1>2, <3>1, <3>2, <3>4
    <3>6. i \in DOMAIN Plan /\ j \in DOMAIN Plan
      BY ONLY <3>1, <3>3, <3>5
    <3>7. Plan[i] # Plan[j]
      BY ONLY <3>3, <3>6, PlanType DEF IsInjective
    <3>8. runsFile[i].campaign = Plan[i] /\ runsFile[j].campaign = Plan[j]
      BY <1>1, <3>3 DEF InOrder
    <3> QED BY ONLY <3>7, <3>8
  <2> QED BY <2>1, <2>2, BackedEnds
<1>7. \A c : StateOf(c)' = StateOf(c) /\ StatusIn(c)' = StatusIn(c)
  BY <1>1, LogSame
<1>8. Validates'
  BY <1>1, <1>3, <1>5, <1>6, <1>7 DEF Validates
<1>9. DriverTypeOK' /\ AtWork'
  BY <1>1 DEF DriverTypeOK, AtWork
<1>10. FilesTold'
  BY <1>1, <1>8 DEF FilesTold
<1> QED BY <1>1, <1>9, <1>10, LogSame

LEMMA DriverInitially == DriverInit => DriverInv
<1> SUFFICES ASSUME DriverInit PROVE DriverInv
  OBVIOUS
<1> USE DEF DriverInit
<1>1. DriverTypeOK
  BY DEF DriverTypeOK
<1>2. EndIsLast
  BY LifecycleEmpty DEF EndIsLast, StateOf
<1>3. \A c \in Campaign : MethodRuns(log[c])
  BY DEF MethodRuns
<1>4. AtWork /\ FilesTold
  BY DEF AtWork, FilesTold
<1> QED BY <1>1, <1>2, <1>3, <1>4 DEF DriverInv

LEMMA DriverStep == ASSUME DriverInv, [DriverNext]_driverVars PROVE DriverInv'
<1>1. CASE UNCHANGED driverVars
  <2>1. /\ UNCHANGED <<log, runsFile, report, driver, last>>
    BY <1>1 DEF driverVars
  <2>2. \A c : StateOf(c)' = StateOf(c) /\ StatusIn(c)' = StatusIn(c)
    BY <2>1, LogSame
  <2>3. Validates' = Validates /\ InOrder' = InOrder /\ InCampaign' = InCampaign
    <3>1. Current' = Current
      BY <2>1 DEF Current
    <3>2. StateOf(Current)' = StateOf(Current)
      BY <2>1, <3>1 DEF StateOf
    <3> QED BY <2>1, <2>2, <3>1, <3>2 DEF Validates, InOrder, InCampaign
  <2> QED BY <2>1, <2>3, LogSame DEF DriverInv, DriverTypeOK, AtWork, FilesTold
<1>2. CASE Begin \/ BeginRefused \/ Crash \/ CallbackRaises
  BY <1>2, BeginKeeps, BeginRefusedKeeps, CrashKeeps, CallbackRaisesKeeps
<1>3. CASE Recover \/ Existing \/ Launch \/ Execute
  BY <1>3, RecoverKeeps, ExistingKeeps, LaunchKeeps, ExecuteKeeps
<1>4. CASE AppendMethodEvent \/ Finish
  BY <1>4, AppendMethodEventKeeps, FinishKeeps
<1>5. CASE WriteRuns \/ WriteReport
  BY <1>5, WriteRunsKeeps, WriteReportKeeps
<1> QED BY <1>1, <1>2, <1>3, <1>4, <1>5 DEF DriverNext, Work

(* What holds at every moment of a campaign, in whichever process: an      *)
(* attempt that ended stays as it is, its method events are those of       *)
(* method runs, a living driver is where its log says, and the files on    *)
(* disk are told.                                                          *)
THEOREM DriverInvariant == DriverSpec => []DriverInv
  BY DriverInitially, DriverStep, PTL DEF DriverSpec

(* A driver that ends leaves files that pass its own validation, however   *)
(* often it died before and whichever prefix of the plan it was given      *)
(* (run_development_campaign.py:220-351, 638-671).                         *)
THEOREM DriverExitValidates == DriverSpec => []ExitValidates
<1>1. DriverInv => ExitValidates
  BY DEF DriverInv, FilesTold, ExitValidates
<1> QED BY <1>1, DriverInvariant, PTL

(* A row of runs.jsonl never claims more than the event stream holds, also *)
(* after later drivers died or appended (run_development_campaign.py:640,  *)
(* runtime/runner.py:298-320).                                             *)
THEOREM DriverRowsBacked == DriverSpec => []RowsBackedByLog
<1>1. DriverInv => RowsBackedByLog
  BY DEF DriverInv, FilesTold, AllBacked, Backed, LastOf, RowsBackedByLog
<1> QED BY <1>1, DriverInvariant, PTL

(* Between a start or resume of an attempt and its end are the events of   *)
(* one method run, in order and without a gap, and all of them when the    *)
(* attempt ended with the status of that run (method_events.py:88-112).    *)
THEOREM DriverSegments == DriverSpec => []SegmentsAreMethodRuns
<1>1. DriverInv => SegmentsAreMethodRuns
  BY DEF DriverInv, MethodRuns, SegmentsAreMethodRuns
<1> QED BY <1>1, DriverInvariant, PTL
============================================================================
