--------------------------- MODULE MCMethodRunner ---------------------------
(* Two candidates, each served well, too large by the provider's count or  *)
(* by the tokenizer's, cut off or by another model; and the other replies. *)
EXTENDS MethodRunner

CONSTANTS a, b

MCCandidate == {a, b}
MCBackoff == <<1, 2>>

Good(c) == [error |-> None, model |-> "expected", partial |-> FALSE,
            content |-> c, usage |-> "pass", measured |-> "unknown"]

MCReply ==
  {Good(c) : c \in {a, b, "abstain", "empty", "uncompiled"}}
  \cup {[Good(a) EXCEPT !.usage = "fail", !.measured = m] : m \in {"pass", "unknown"}}
  \cup {[Good(a) EXCEPT !.measured = "fail"], [Good(a) EXCEPT !.model = "other"],
        [Good(a) EXCEPT !.partial = TRUE], [Good("prose") EXCEPT !.usage = "fail"],
        [Good("empty") EXCEPT !.error = "malformed", !.content = None, !.model = None]}
=============================================================================
