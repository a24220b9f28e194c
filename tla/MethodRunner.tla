---------------------------- MODULE MethodRunner ----------------------------
(***************************************************************************)
(* One method run: MethodRunner.run asks the provider once per proposal    *)
(* slot, with the same prompt each time, and every request goes through    *)
(* OllamaClient.propose with its retries, its back-off, the deadline and   *)
(* the cancellation callback.  Time is counted in slices of the back-off.  *)
(***************************************************************************)
EXTENDS Integers, Sequences, FiniteSets

CONSTANTS
  None,            \* absent
  N,               \* proposal slots
  MaxRetries,      \* RetryPolicy.max_retries
  Backoff,         \* RetryPolicy.backoff_seconds, one for each retry
  RequestTimeout,  \* request_timeout_seconds
  Deadline,        \* campaign_deadline_seconds as given to every propose
  Overrun,         \* how much longer than its timeout a request may take
  MayCancel,       \* whether a cancellation callback is given
  Candidate,       \* identities of compiled candidates
  Reply            \* the replies with a body that the model server may give

ASSUME SlotBounds == /\ N \in Nat \ {0}
                     /\ MaxRetries \in Nat
                     /\ Backoff \in [1..MaxRetries -> Nat]
ASSUME TimeBounds == /\ RequestTimeout \in Nat \ {0}
                     /\ Deadline \in Nat \ {0}
                     /\ Overrun \in Nat
                     /\ MayCancel \in BOOLEAN

(***************************************************************************)
(* A reply as the runner looks at it.  error is None or the client's       *)
(* reason; model says whether the served model is the expected one;        *)
(* content is the text after parsing; usage and measured are the verdicts  *)
(* of the two token checks.                                                *)
(***************************************************************************)
Words == {"empty", "prose", "abstain", "uncompiled"}
Content == Words \cup Candidate
Check == {"pass", "fail", "unknown"}

Response == [error : {None, "malformed", "cancelled", "campaign_deadline",
                      "transport_failure", "http_failure"},
             model : {"expected", "other", None}, partial : BOOLEAN,
             content : Content \cup {None}, usage : Check, measured : Check]

ASSUME ReplyType == Reply \subseteq {r \in Response : r.error \in {None, "malformed"}}
ASSUME NoneIsNoContent == None \notin Content
ASSUME NoneIsNoReason == None \notin {"cancelled", "campaign_deadline",
                                      "transport_failure", "http_failure"}
ASSUME CandidatesAreNoWords == Candidate \cap Words = {}

(* What propose keeps between two of its steps.                            *)
Call == [phase : {"check", "sent", "sleep"}, retry : 0 .. MaxRetries,
         started : Nat, rest : Nat]

ASSUME NoneIsNoCall == None \notin Call

VARIABLES
  clock,      \* time since the campaign began
  cancelled,  \* what the cancellation callback says
  call,       \* the propose under way, or None
  slots,      \* the recorded slots, in order
  hashes,     \* candidate_hashes
  late        \* requests that were out, or went out, after the cancellation

runVars == <<clock, cancelled, call, slots, hashes, late>>

(***************************************************************************)
(* Control of a call.                                                      *)
(***************************************************************************)
Elapsed == clock - call.started

\* Mutant: the cancellation callback is not asked.
ControlReasonDeadlineOnly ==
  IF Elapsed >= Deadline THEN "campaign_deadline" ELSE None

ControlReason ==
  IF cancelled THEN "cancelled"
  ELSE IF Elapsed >= Deadline THEN "campaign_deadline" ELSE None

\* Mutant: a request may use its whole timeout, whatever is left.
TimeoutWhole == RequestTimeout

(* The lower limit of a millisecond is below the resolution of this clock. *)
Timeout == IF Deadline - Elapsed < RequestTimeout THEN Deadline - Elapsed
                                                  ELSE RequestTimeout

Failure(reason) ==
  [error |-> reason, model |-> None, partial |-> FALSE, content |-> None,
   usage |-> "unknown", measured |-> "unknown"]

(***************************************************************************)
(* What a slot becomes.                                                    *)
(***************************************************************************)
Mismatch(r) == r.error = None /\ r.model # "expected"

Classified(r) ==
  IF Mismatch(r) \/ r.error # None THEN "provider_failure"
  ELSE IF r.partial THEN "truncated"
  ELSE CASE r.content = "empty"     -> "refusal"
         [] r.content = "abstain"   -> "abstain"
         [] r.content \in Candidate -> "candidate"
         [] OTHER                   -> "invalid"

OverBudget(r) == "fail" \in {r.usage, r.measured}

StatusOf(r) ==
  LET status == IF Classified(r) = "candidate" /\ r.content \in hashes
                THEN "duplicate" ELSE Classified(r)
  IN IF OverBudget(r) /\ status \notin {"duplicate", "provider_failure"}
     THEN "invalid" ELSE status

\* Mutant: a candidate is remembered before the budget is checked.
RecordedEarly(r) ==
  /\ slots' = Append(slots, [status |-> StatusOf(r), response |-> r])
  /\ hashes' = IF Classified(r) = "candidate" THEN hashes \cup {r.content} ELSE hashes

\* Mutant: a failed call does not use up its slot.
RecordedAnswers(r) ==
  IF r.error # None THEN UNCHANGED <<slots, hashes>>
  ELSE /\ slots' = Append(slots, [status |-> StatusOf(r), response |-> r])
       /\ hashes' = IF StatusOf(r) = "candidate" THEN hashes \cup {r.content} ELSE hashes

Recorded(r) ==
  /\ slots' = Append(slots, [status |-> StatusOf(r), response |-> r])
  /\ hashes' = IF StatusOf(r) = "candidate" THEN hashes \cup {r.content} ELSE hashes

(* propose returns r: the slot gets its record.                            *)
Returned(r) == call' = None /\ Recorded(r)

(***************************************************************************)
(* Steps.                                                                  *)
(***************************************************************************)
Init ==
  /\ clock = 0
  /\ cancelled = FALSE
  /\ call = None
  /\ slots = <<>>
  /\ hashes = {}
  /\ late = 0

BeginCall ==
  /\ call = None
  /\ Len(slots) < N
  /\ call' = [phase |-> "check", retry |-> 0, started |-> clock, rest |-> 0]
  /\ UNCHANGED <<clock, cancelled, slots, hashes, late>>

Send ==
  /\ call # None
  /\ call.phase = "check"
  /\ ControlReason = None
  /\ call' = [call EXCEPT !.phase = "sent"]
  /\ UNCHANGED <<clock, cancelled, slots, hashes, late>>

(* The check before a request, within the back-off or after it ends the call. *)
Stop ==
  /\ call # None
  /\ call.phase \in {"check", "sleep"}
  /\ ControlReason # None
  /\ Returned(Failure(ControlReason))
  /\ UNCHANGED <<clock, cancelled, late>>

(* How long the request was out.                                           *)
Waited ==
  /\ call # None
  /\ call.phase = "sent"
  /\ \E d \in 0..(Timeout + Overrun) : clock' = clock + d
  /\ late' = IF cancelled THEN late + 1 ELSE late
  /\ UNCHANGED cancelled

Answered == Waited /\ \E r \in Reply : Returned(r)

(* A transport error, or HTTP 429 or 5xx, with a retry left.               *)
Retry ==
  /\ Waited
  /\ call.retry < MaxRetries
  /\ call' = [call EXCEPT !.phase = "sleep", !.retry = @ + 1,
                          !.rest = Backoff[call.retry + 1]]
  /\ UNCHANGED <<slots, hashes>>

GiveUp ==
  /\ Waited
  /\ call.retry = MaxRetries
  /\ \E reason \in {"transport_failure", "http_failure"} : Returned(Failure(reason))

(* Any other status.                                                       *)
Refused == Waited /\ Returned(Failure("http_failure"))

(* One slice of the back-off, never past the deadline.                     *)
Sleep ==
  /\ call # None
  /\ call.phase = "sleep"
  /\ ControlReason = None
  /\ call.rest > 0
  /\ clock' = clock + 1
  /\ call' = [call EXCEPT !.rest = @ - 1]
  /\ UNCHANGED <<cancelled, slots, hashes, late>>

Wake ==
  /\ call # None
  /\ call.phase = "sleep"
  /\ ControlReason = None
  /\ call.rest = 0
  /\ call' = [call EXCEPT !.phase = "check"]
  /\ UNCHANGED <<clock, cancelled, slots, hashes, late>>

Main == \/ BeginCall \/ Send \/ Stop \/ Answered \/ Retry \/ GiveUp \/ Refused
        \/ Sleep \/ Wake

(* Another thread, at any time, for good.                                  *)
Cancel ==
  /\ MayCancel
  /\ ~cancelled
  /\ Len(slots) < N
  /\ cancelled' = TRUE
  /\ UNCHANGED <<clock, call, slots, hashes, late>>

Next == Main \/ Cancel

RunSpec == Init /\ [][Next]_runVars
FairRunSpec == RunSpec /\ WF_runVars(Main)

-----------------------------------------------------------------------------
(***************************************************************************)
(* Properties.                                                             *)
(***************************************************************************)
Usable(r) ==
  r.error = None /\ r.model = "expected" /\ ~r.partial /\ r.content \in Candidate

(* Each proposal counts once and none is lost: of the usable replies that  *)
(* respect both token checks, the first with its identity is a candidate   *)
(* and the others are duplicates of it; one that was rejected for its size *)
(* does not turn a later one into a duplicate.  (methods/runner.py:154-180)*)
ProposalsOnce ==
  \A i \in 1..Len(slots) :
    LET r == slots[i].response
        First(j) == /\ slots[j].status = "candidate"
                    /\ slots[j].response.content = r.content
    IN /\ slots[i].status = "candidate" <=>
            /\ Usable(r) /\ r.usage # "fail" /\ r.measured # "fail"
            /\ ~\E j \in 1..(i - 1) : First(j)
       /\ slots[i].status = "duplicate" <=>
            Usable(r) /\ \E j \in 1..(i - 1) : First(j)

(* No call outlives the deadline it was given by more than the overrun of  *)
(* its last request, however often it retries and backs off; the run as a  *)
(* whole keeps to one such deadline for each slot, not to one in all.      *)
(* (providers/ollama.py:236-239, 349-356, methods/runner.py:115-119)       *)
CallInDeadline ==
  /\ call # None => Elapsed <= Deadline + Overrun
  /\ clock <= (Len(slots) + (IF call = None THEN 0 ELSE 1)) * (Deadline + Overrun)

(* After the cancellation no request leaves for any of the remaining slots:*)
(* only the one that was under way may still be answered.                  *)
(* (providers/ollama.py:308-326)                                           *)
OneRequestAfterCancel == late <= 1

(* Every slot gets its record, also when the server never answers well or  *)
(* the campaign is cancelled.  (methods/runner.py:115-191)                 *)
RunEnds == <>(Len(slots) = N)
=============================================================================
