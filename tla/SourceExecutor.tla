--------------------------- MODULE SourceExecutor ---------------------------
(* The repository's own tool for search, witness check and replay          *)
(* (scripts/source_executor.py, run_source_case_harness.py).               *)
(*                                                                         *)
(* Each of the three commands turns the predicate of a candidate into a    *)
(* Solidity test that passes exactly when the predicate is false after one *)
(* fixed workflow, builds and runs it in two containers and reads from     *)
(* what they print whether the candidate is violated.  Whether a predicate *)
(* holds, and whether its Solidity compiles, belongs to the candidate; the *)
(* containers may also fail, or not end, for reasons of their own.         *)
EXTENDS Naturals, Sequences

CONSTANT None  \* no value

\* What the tool can tell apart about the request for a candidate.
Request ==
  [profile : BOOLEAN,   \* the lineage and runtime it is written for
   identity : BOOLEAN,  \* the workspace is there and is that of the case
   kind : {"state", "literal", "closed", "temporal", "quantifier"},
   bound : BOOLEAN,     \* every symbol has a binding
   lowers : BOOLEAN,    \* every node has a Solidity form
   workflow : BOOLEAN,  \* both actions of the workflow are executable
   solc : {"accepts", "rejects_declaration", "rejects_predicate"},
                        \* external: what the compiler says of the types
   holds : BOOLEAN]     \* external: the predicate after the workflow

\* What befalls the containers of one execution; "runs": they end with the
\* verdict of the compiler and of the test.
Container == {"runs", "fails", "timeout", "no_start"}
Execution == [build : Container, test : Container]

(***************************************************************************)
(* run_harness: a build, then the test.  The message of the failed require *)
(* is the marker of a predicate that holds; a compiler that rejects the    *)
(* predicate quotes the line it is in.                                     *)
(***************************************************************************)
Receipt(status, marker) == [status |-> status, marker |-> marker]

Harness(r, e) ==
  IF e.build = "timeout" THEN Receipt("timeout", FALSE)
  ELSE IF e.build = "no_start" THEN Receipt("tool_error", FALSE)
  ELSE IF e.build = "fails" THEN Receipt("fail", FALSE)
  ELSE IF r.solc # "accepts" THEN Receipt("fail", r.solc = "rejects_predicate")
  ELSE IF e.test = "timeout" THEN Receipt("timeout", FALSE)
  ELSE IF e.test = "no_start" THEN Receipt("tool_error", FALSE)
  ELSE IF e.test = "fails" THEN Receipt("fail", FALSE)
  ELSE IF r.holds THEN Receipt("fail", TRUE)
  ELSE Receipt("pass", FALSE)

\* _prepare and the writing of the test: why a request is not executed.
Refusal(r) ==
  IF ~r.profile THEN "unsupported"
  ELSE IF ~r.identity THEN "malformed"
  ELSE IF r.kind \in {"temporal", "quantifier"} THEN "unsupported"
  ELSE IF r.kind = "closed" THEN "malformed"
  ELSE IF ~r.bound \/ ~r.lowers THEN "unsupported"
  ELSE None

(***************************************************************************)
(* The three commands.  Each prints one object and exits with 0; trace is  *)
(* the hash of the witness its request gives.  Where no action of the      *)
(* workflow is there the search and the check fail as a whole.             *)
(***************************************************************************)
SearchPrints(status, complete, violation, witness) ==
  [ran |-> "answered", status |-> status, complete |-> complete,
   violation |-> violation, witness |-> witness]

SearchCommand(r, e, trace) ==
  LET receipt == Harness(r, e)
      Incomplete(status) == SearchPrints(status, FALSE, FALSE, None)
  IN IF Refusal(r) = "unsupported" THEN Incomplete("unsupported")
     ELSE IF Refusal(r) = "malformed" THEN Incomplete("unknown")
     ELSE IF receipt.status = "timeout" THEN Incomplete("timeout")
     ELSE IF receipt.status = "tool_error" THEN Incomplete("unsupported")
     ELSE IF receipt.status = "fail" /\ ~receipt.marker THEN Incomplete("crash")
     ELSE IF ~r.workflow THEN Incomplete("unknown")
     ELSE IF receipt.status = "pass" THEN SearchPrints("sat", TRUE, TRUE, trace)
     ELSE SearchPrints("bounded_unsat", TRUE, FALSE, None)

CheckPrints(status, trace, violation, holds) ==
  [ran |-> "answered", status |-> status, trace |-> trace,
   violation |-> violation, holds |-> holds]

\* w is the trace of the witness that is checked.
CheckCommand(r, e, trace, w) ==
  LET receipt == Harness(r, e)
  IN IF Refusal(r) # None THEN CheckPrints("unsupported", None, None, None)
     ELSE IF ~r.workflow THEN CheckPrints("unknown", None, None, None)
     ELSE IF w # trace THEN CheckPrints("fail", trace, None, None)
     ELSE IF receipt.status = "pass" THEN CheckPrints("pass", trace, TRUE, FALSE)
     ELSE IF receipt.status = "timeout" THEN CheckPrints("unknown", trace, None, None)
     ELSE CheckPrints("fail", trace, FALSE, TRUE)

ReplayPrints(status, trace, holds, relevant) ==
  [ran |-> "answered", status |-> status, trace |-> trace,
   holds |-> holds, relevant |-> relevant]

\* The request is made again from the witness, which keeps the bindings,
\* actions and identity of its search; a literal has no bindings.
ReplayCommand(r, e, trace, w) ==
  LET receipt == Harness(r, e)
  IN IF r.kind = "literal" THEN ReplayPrints("unknown", None, None, None)
     ELSE IF Refusal(r) # None \/ ~r.workflow THEN ReplayPrints("unsupported", None, None, None)
     ELSE IF w # trace THEN ReplayPrints("fail", trace, None, None)
     ELSE IF receipt.status = "pass" THEN ReplayPrints("pass", trace, FALSE, TRUE)
     ELSE IF receipt.status = "timeout" THEN ReplayPrints("unknown", trace, None, None)
     ELSE ReplayPrints("fail", trace, TRUE, TRUE)
=============================================================================
