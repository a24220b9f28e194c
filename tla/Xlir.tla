-------------------------------- MODULE Xlir --------------------------------
(***************************************************************************)
(* What happens to one proposed invariant (cli.py xlir-smt-check,          *)
(* runtime/dry_run.py, verification/adapter.py): it is compiled, lowered   *)
(* for the adapter, given to the solver as a question about a violation or *)
(* about its antecedent (Z3XLIRBackend._check), and its antecedent is also *)
(* looked for among given bindings or traces (xlir/vacuity.py).            *)
(***************************************************************************)
EXTENDS XlirTerms

CONSTANTS Question,         \* [raw, length]: a proposal and the trace length given with it
          CampaignElapsed,  \* seconds the campaign may have used before the query
          CampaignDeadline

(* A trace has at least one observation: what lowers and what evaluates a  *)
(* formula refuse any other (lowering.py:128, evaluator.py:44).            *)
ASSUME QuestionsAreAsked == Question \subseteq [raw : Proposal, length : (Nat \ {0}) \cup {None}]
ASSUME NoneIsNoLowering == None # "term"

VARIABLES question,   \* the proposal under way
          invariant,  \* what the compiler made of it, None before
          lowered,    \* the adapter's lowering: None, "term" or "unsupported"
          answer,     \* the solver's result, None before the query
          finite      \* the result of check_antecedent or check_antecedent_transition

xlirVars == <<question, invariant, lowered, answer, finite>>

(* The traces that give every symbol of e a value of its type at every     *)
(* position the translation can look at.                                   *)
Positions(e, length) == IF length # None /\ HasTemporal(e) THEN 0 .. length - 1 ELSE {0}

Traces(e, length) ==
  LET symbols == {part \in Parts[e] : part.kind = "symbol"}
      places == {<<s.id, s.state, i>> : s \in symbols, i \in Positions(e, length)}
  IN {t \in [places -> UNION {Values(Table[s.id]) : s \in symbols}] :
        \A x \in places : t[x] \in Values(Table[x[1]])}

Length == question.length
At(e, t) == Evaluated(e, t, Length)
Solved(e, t) == Translated(e, t, Length)

Implication == invariant.kind = "binary" /\ invariant.operator = "implies"

(* The formula a query is about, and the truth value it looks for. *)
Subject(query) == IF query = "antecedent" THEN invariant.left ELSE invariant
Goal(query) == Truth(query = "antecedent")
IsModel(query, t) ==
  LET x == Solved(Subject(query), t) IN x.sound /\ x.term = Goal(query)

Incomplete(query, status) == [query |-> query, status |-> status, complete |-> FALSE]

-----------------------------------------------------------------------------
XlirInit ==
  /\ question \in Question
  /\ invariant = None
  /\ lowered = None
  /\ answer = None
  /\ finite = None

CompileProposal ==
  /\ invariant = None
  /\ invariant' = Compile(question.raw)
  /\ UNCHANGED <<question, lowered, answer, finite>>

Usable == invariant \notin {None, Rejected}

(* RuntimeAdapter.adapt: a candidate whose invariant cannot be lowered is  *)
(* UNSUPPORTED.                                                            *)
Lower ==
  /\ Usable /\ lowered = None /\ answer = None
  /\ lowered' = IF Lowers(invariant, Length) THEN "term" ELSE "unsupported"
  /\ UNCHANGED <<question, invariant, answer, finite>>

(* check_violation and check_antecedent up to the call of the solver. *)
Ask(query, elapsed, cancelled) ==
  /\ Usable /\ lowered = None /\ answer = None
  /\ answer' = Incomplete(query,
                  IF query = "antecedent" /\ ~Implication THEN "unsupported"
                  ELSE IF elapsed >= CampaignDeadline THEN "timeout"
                  ELSE IF cancelled THEN "unknown"
                  ELSE IF HasTemporal(Subject(query)) /\ Length = None THEN "unsupported"
                  ELSE "solving")
  /\ UNCHANGED <<question, invariant, lowered, finite>>

Solving == answer # None /\ answer.status = "solving"

(* The solver decides.  A cancellation seen after it is reported instead.  *)
SolverDecides ==
  /\ Solving
  /\ answer' = [answer EXCEPT !.complete = TRUE,
                              !.status = IF \E t \in Traces(Subject(answer.query), Length) : IsModel(answer.query, t)
                                         THEN "sat" ELSE "bounded_unsat"]
  /\ UNCHANGED <<question, invariant, lowered, finite>>

(* Interrupted, out of time, or given up by the solver; a callback or the  *)
(* solver that raises.                                                     *)
SolverGivesUp ==
  /\ Solving
  /\ answer' \in {Incomplete(answer.query, status) : status \in {"unknown", "timeout", "crash"}}
  /\ UNCHANGED <<question, invariant, lowered, finite>>

(* check_antecedent without a trace length, check_antecedent_transition    *)
(* with one.  The bindings come in any order and end at the first hit or   *)
(* error, so that each hit and each error can be the one that is met.      *)
CheckAntecedent(exhaustive) ==
  /\ Usable /\ finite = None /\ answer # None /\ answer.query = "antecedent" /\ ~Solving
  /\ IF ~Implication
     THEN finite' = [status |-> "not_applicable", complete |-> TRUE]
     ELSE LET results == {At(invariant.left, t) : t \in Traces(invariant.left, Length)}
          IN \/ /\ Value(1) \in results
                /\ finite' = [status |-> "reachable", complete |-> exhaustive]
             \/ /\ Fail \in results \/ ~exhaustive
                /\ finite' = [status |-> "unknown", complete |-> FALSE]
             \/ /\ exhaustive /\ results \subseteq {Value(0)}
                /\ finite' = [status |-> "bounded_unsat", complete |-> TRUE]
  /\ UNCHANGED <<question, invariant, lowered, answer>>

XlirNext ==
  \/ CompileProposal
  \/ Lower
  \/ \E query \in {"violation", "antecedent"}, elapsed \in CampaignElapsed, cancelled \in BOOLEAN :
       Ask(query, elapsed, cancelled)
  \/ SolverDecides
  \/ SolverGivesUp
  \/ \E exhaustive \in BOOLEAN : CheckAntecedent(exhaustive)

XlirSpec == XlirInit /\ [][XlirNext]_xlirVars

-----------------------------------------------------------------------------
(* The two places where the meanings are known to differ: the evaluator    *)
(* leaves the result of a logical shift of an int256 unsigned              *)
(* (evaluator.py:197), and compares addresses by their spelling (144).     *)
Ordinary(e) ==
  \A part \in Parts[e] :
    /\ part.kind = "binary" /\ part.operator = "shr" => Type[part] = "uint256"
    /\ part.kind = "literal" /\ part.type = "address" => part.value % 2 = 0
    /\ part.kind = "quantifier" /\ part.over = "address" =>
         \A k \in DOMAIN part.domain : part.domain[k].value % 2 = 0

LowerCase(t) == \A x \in DOMAIN t : Table[x[1]] = "address" => t[x] % 2 = 0

(* Whenever the evaluator has a value for the whole invariant, the lowered *)
(* term has the same, whatever the evaluator skipped on the way            *)
(* (lowering.py: "makes it possible to compare a future SMT backend with   *)
(* the concrete evaluator").                                               *)
LoweredAgrees ==
  lowered = "term" /\ Ordinary(invariant) =>
    \A t \in Traces(invariant, Length) :
      LET value == At(invariant, t)
      IN LowerCase(t) /\ value.ok => Solved(invariant, t).term = value.v

(* A complete answer is right about the evaluator: whichever model comes   *)
(* with a SAT answer, it evaluates, without an error, to the value asked   *)
(* for; and after BOUNDED_UNSAT only a binding for which some part of the  *)
(* formula, needed or not, is undefined can still do so (smt.py _check;    *)
(* docs/smt_backend.md: "the finite expanded bit-vector formula was        *)
(* exhausted"), nor does the finite check of the antecedent contradict it: *)
(* what that one enumerated and found unreachable, the solver does not     *)
(* reach (vacuity.py:33-101).                                              *)
SolverShows ==
  answer # None /\ answer.complete /\ Ordinary(invariant) =>
    LET e == Subject(answer.query)
        wanted == Value(Goal(answer.query))
    IN /\ \A t \in Traces(e, Length) : LowerCase(t) =>
            IF answer.status = "sat"
            THEN IsModel(answer.query, t) => At(e, t) = wanted
            ELSE At(e, t) = wanted => ~Solved(e, t).sound
       /\ finite # None /\ finite.status = "bounded_unsat" => answer.status # "sat"
=============================================================================
