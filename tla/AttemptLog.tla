----------------------------- MODULE AttemptLog -----------------------------
(***************************************************************************)
(* What the runtime promises about a campaign attempt, whoever writes its  *)
(* events and whatever crashes in between: the durable history of every    *)
(* attempt grows by one legal lifecycle event at a time.                   *)
(*                                                                         *)
(* An attempt is started, may become uncertain (with the kind of           *)
(* interruption), may be started again unless the resume policy blocks     *)
(* that kind, and ends with one terminal event, after which its history    *)
(* never changes (src/crossllm/runtime/events.py, CampaignStateMachine).   *)
(***************************************************************************)
EXTENDS Integers, Sequences

CONSTANTS
  Attempt,       \* attempt identifiers
  Interruption,  \* kinds of interruption an attempt can be marked with
  Blocked,       \* the kinds the resume policy answers with BLOCK
  None           \* no interruption

VARIABLE history  \* attempt -> its lifecycle events, oldest first

Entry ==
  [type : {"started", "terminal"}, cause : {None}]
    \cup [type : {"uncertain"}, cause : Interruption]

\* May event e be the next one of an attempt whose last event is `last`?
Follows(last, e) ==
  CASE e.type = "started"   -> last.type = "uncertain" /\ last.cause \notin Blocked
    [] e.type = "uncertain" -> last.type = "started"
    [] e.type = "terminal"  -> last.type \in {"started", "uncertain"}

MayAppend(h, e) ==
  IF h = << >> THEN e.type = "started" ELSE Follows(h[Len(h)], e)

Record(a, e) ==
  /\ MayAppend(history[a], e)
  /\ history' = [history EXCEPT ![a] = Append(@, e)]

LogInit == history = [a \in Attempt |-> << >>]

LogNext == \E a \in Attempt, e \in Entry : Record(a, e)

LogSpec == LogInit /\ [][LogNext]_history

----------------------------------------------------------------------------

\* The histories are sequences of lifecycle events.
LogTypeOK == history \in [Attempt -> Seq(Entry)]

(* Every event of a history follows from the one before it, so restore     *)
(* (events.py:300-346) accepts every history that can be written.          *)
HistoriesLegal ==
  \A a \in Attempt :
    LET h == history[a]
    IN  /\ h # << >> => h[1].type = "started"
        /\ \A i \in 1 .. Len(h) - 1 : Follows(h[i], h[i + 1])

(* A terminal event is the last of its attempt, and there is at most one.  *)
TerminalIsLast ==
  \A a \in Attempt :
    \A i \in 1 .. Len(history[a]) :
      history[a][i].type = "terminal" => i = Len(history[a])

(* After an interruption the policy blocks, the attempt can only end: no   *)
(* later event starts it again, however often it is interrupted.           *)
BlockedStaysBlocked ==
  \A a \in Attempt :
    \A i \in 1 .. Len(history[a]) :
      (history[a][i].type = "uncertain" /\ history[a][i].cause \in Blocked) =>
        \A j \in i + 1 .. Len(history[a]) : history[a][j].type = "terminal"
============================================================================
