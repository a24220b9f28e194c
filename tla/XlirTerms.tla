------------------------------ MODULE XlirTerms ------------------------------
(***************************************************************************)
(* The invariant language XLIR (xlir/compiler.py, evaluator.py,            *)
(* lowering.py) and its translation for the solver (backends/smt.py).      *)
(* The language has two meanings, each written out in Python: the          *)
(* evaluator computes with unbounded integers, checks their range and      *)
(* skips what it does not need; the solver gets bit vectors that wrap,     *)
(* with side constraints for every operation that could go wrong.          *)
(*                                                                         *)
(* A proposal is a record with the fields of the JSON object.  A word has  *)
(* W bits, in place of 256.  All values are integers: a bool is 0 or 1, an *)
(* address is twice its number plus 1 when its hexadecimal digits are      *)
(* spelled in upper case; bytes32 behaves as address.                      *)
(*                                                                         *)
(* What descends into an expression is written in two parts: TypeBy(type,  *)
(* e) is the type of e if the function type gives those of its parts, and  *)
(* Type is the function for which that holds of every expression.          *)
(***************************************************************************)
EXTENDS Integers, Sequences, FiniteSets, FiniteSetsExt

CONSTANTS W,          \* bits of a word
          Addresses,  \* how many numbers an address may be
          Table,      \* symbol_id |-> type, the public symbol table
          MaxNodes,   \* maximum_ast_nodes
          Proposal,   \* the JSON objects that occur, with all their parts
          Depth,      \* how deep each of them nests
          None

Numbers == {"uint256", "int256"}
Types == Numbers \cup {"bool", "address"}

ASSUME WidthPositive == {W, MaxNodes, Addresses} \subseteq Nat \ {0}
ASSUME NoneIsApart == None \notin Types /\ None \notin Proposal

(* The powers of two. *)
PowerBy(power, n) == IF n = 0 THEN 1 ELSE 2 * power[n - 1]
Power[n \in Nat] == PowerBy(Power, n)

Limit == Power[W]
Lowest == -Power[W - 1]

(* The values a literal or a binding of a type may have. *)
Values(type) ==
  CASE type = "uint256" -> 0 .. Limit - 1
    [] type = "int256"  -> Lowest .. -Lowest - 1
    [] type = "bool"    -> {0, 1}
    [] type = "address" -> 0 .. 2 * Addresses - 1

Within(type, v) == v \in Values(type)

(* The number that a word of a type stands for. *)
Reading(type, bits) == IF type = "int256" /\ bits >= -Lowest THEN bits - Limit ELSE bits

(* _normalize_integer *)
Normal(type, v) == Reading(type, v % Limit)

-----------------------------------------------------------------------------
(* The compiler *)

Rejected == [kind |-> "rejected"]

(* expand_primitive: seven names for three shapes. *)
Expanded(raw) ==
  LET a == raw.arguments
      Negated(e) == [kind |-> "unary", operator |-> "not", operand |-> e]
      Implied(l, r) == [kind |-> "binary", operator |-> "implies", left |-> l, right |-> r]
  IN CASE raw.id \in {"justified_destination_effect", "proof_binding"} /\ Len(a) = 2 -> Implied(a[1], a[2])
       [] raw.id = "challenge_window" /\ Len(a) = 2 -> Implied(a[1], Negated(a[2]))
       [] raw.id \in {"replay_exclusion", "callback_noninterference"} /\ Len(a) = 1 -> Negated(a[1])
       [] raw.id \in {"quorum_authorization", "intent_consumption"} /\ Len(a) = 1 -> a[1]
       [] OTHER -> Rejected

Operands(e) ==
  CASE e.kind \in {"unary", "temporal"} -> {e.operand}
    [] e.kind = "binary"                -> {e.left, e.right}
    [] e.kind = "quantifier"            -> {e.body}
    [] e.kind = "primitive"             -> {Expanded(e)}
    [] OTHER                            -> {}

(* JSON objects are finite trees. *)
ASSUME ProposalsAreTrees ==
  /\ Depth \in [Proposal -> Nat]
  /\ UNION {Operands(e) : e \in Proposal} \subseteq Proposal
  /\ \A e \in Proposal :
       /\ \A part \in Operands(e) : Depth[part] < Depth[e]
       /\ e.kind = "quantifier" => e.domain \in Seq([kind : {"literal"}, type : Types, value : Int])
       /\ e.kind = "temporal" => e.horizon \in Nat \cup {None}

NodesBy(nodes, e) ==
  CASE e.kind \in {"unary", "temporal"} -> 1 + nodes[e.operand]
    [] e.kind = "binary"                -> 1 + nodes[e.left] + nodes[e.right]
    [] e.kind = "quantifier"            -> 1 + Len(e.domain) + nodes[e.body]
    [] e.kind = "primitive"             -> 1 + nodes[Expanded(e)]
    [] OTHER                            -> 1
Nodes[e \in Proposal] == NodesBy(Nodes, e)

(* The type of a unary or binary expression over operands of the given     *)
(* types, "none" for a mismatch.                                           *)
UnaryType(op, t) ==
  CASE op = "not" /\ t = "bool"       -> "bool"
    [] op = "neg" /\ t = "int256"     -> t
    [] op = "bitnot" /\ t \in Numbers -> t
    [] OTHER                          -> "none"

Logical == {"and", "or", "implies"}
Equality == {"eq", "neq"}
Ordering == {"ge", "le", "gt", "lt"}
Arithmetic == {"add", "sub", "mul", "div", "mod"}
BitOps == {"band", "bor", "bxor"}

\* Mutant: shifts check their operands like the other bit operations.
BinaryTypeUniform(op, l, r) ==
  CASE op \in Logical /\ {l, r} = {"bool"}                    -> "bool"
    [] op \in Equality /\ l \in Types /\ r = l                -> "bool"
    [] op \in Ordering /\ l \in Numbers /\ r = l              -> "bool"
    [] op \in Arithmetic \cup BitOps /\ l \in Numbers /\ r = l -> l
    [] op \in {"shl", "shr", "sar"} /\ l \in Numbers /\ r = "uint256" -> l
    [] OTHER -> "none"

BinaryType(op, l, r) ==
  CASE op \in Logical /\ {l, r} = {"bool"}                    -> "bool"
    [] op \in Equality /\ l \in Types /\ r = l                -> "bool"
    [] op \in Ordering /\ l \in Numbers /\ r = l              -> "bool"
    [] op \in Arithmetic \cup BitOps /\ l \in Numbers /\ r = l -> l
    [] op \in {"shl", "shr"} /\ l \in Numbers /\ r = "uint256" -> l
    [] op = "sar" /\ l = "int256" /\ r = "uint256"            -> l
    [] OTHER -> "none"

Among(type, types) == IF type \in types THEN type ELSE "none"
BoolIf(condition) == IF condition THEN "bool" ELSE "none"

(* The types that XLIRCompiler._expression gives, "none" for what it       *)
(* rejects.                                                                *)
TypeBy(type, e) ==
  CASE e.kind = "symbol" ->
         IF e.id \in DOMAIN Table /\ e.state \in {"pre", "post"} THEN Among(Table[e.id], Types) ELSE "none"
    [] e.kind = "bound"   -> Among(e.type, Types)
    [] e.kind = "literal" -> Among(e.type, {t \in Types : Within(t, e.value)})
    [] e.kind = "unary"   -> UnaryType(e.operator, type[e.operand])
    [] e.kind = "binary"  -> BinaryType(e.operator, type[e.left], type[e.right])
    [] e.kind = "quantifier" ->
         BoolIf(/\ e.operator \in {"forall", "exists"}
                /\ \A k \in DOMAIN e.domain : e.domain[k].type = e.over /\ Within(e.over, e.domain[k].value)
                /\ type[e.body] = "bool")
    [] e.kind = "temporal" ->
         BoolIf(/\ \/ e.operator = "once" /\ e.horizon \in Nat
                   \/ e.operator = "globally" /\ e.horizon = None
                /\ type[e.operand] = "bool")
    [] e.kind = "primitive" -> type[Expanded(e)]
    [] OTHER -> "none"
Type[e \in Proposal] == TypeBy(Type, e)

(* The part of _bound_ref and _quantifier that is about _bound_variables:  *)
(* scope gives the type of each variable, None for one that is not bound.  *)
Variable == {e.variable : e \in {e \in Proposal : e.kind \in {"bound", "quantifier"}}}
Scope == [Variable -> Types \cup {None}]
Unbound == [x \in Variable |-> None]

ScopedBy(scoped, e, scope) ==
  CASE e.kind = "bound"      -> scope[e.variable] = e.type
    [] e.kind = "quantifier" -> /\ scope[e.variable] = None /\ e.over \in Types
                                /\ scoped[<<e.body, [scope EXCEPT ![e.variable] = e.over]>>]
    [] OTHER                 -> \A part \in Operands(e) : scoped[<<part, scope>>]
Scoped[x \in Proposal \X Scope] == ScopedBy(Scoped, x[1], x[2])

(* What a primitive stands for.  One below the root stays in place, and    *)
(* all that follows looks through it.                                      *)
ExpressionBy(expression, e) == IF e.kind = "primitive" THEN expression[Expanded(e)] ELSE e
Expression[e \in Proposal] == ExpressionBy(Expression, e)

(* XLIRCompiler.compile of a proposal that is no abstention. *)
Compile(raw) ==
  IF Nodes[raw] <= MaxNodes /\ Type[raw] = "bool" /\ Scoped[<<raw, Unbound>>]
  THEN Expression[raw]
  ELSE Rejected

-----------------------------------------------------------------------------
(* The evaluator *)

Fail == [ok |-> FALSE]
Value(v) == [ok |-> TRUE, v |-> v]
Truth(condition) == IF condition THEN 1 ELSE 0
Checked(type, v) == IF Within(type, v) THEN Value(v) ELSE Fail

Magnitude(v) == IF v < 0 THEN -v ELSE v
Signum(v) == IF v < 0 THEN -1 ELSE 1
Quotient(l, r) == Signum(l) * Signum(r) * (Magnitude(l) \div Magnitude(r))
Remainder(l, r) == Signum(l) * (Magnitude(l) % Magnitude(r))

Compare(op, l, r) ==
  CASE op = "eq"  -> l = r
    [] op = "neq" -> l # r
    [] op = "ge"  -> l >= r
    [] op = "le"  -> l <= r
    [] op = "gt"  -> l > r
    [] op = "lt"  -> l < r

(* The factor of a shift.  By the width or more, only copies of the sign   *)
(* are left.                                                               *)
Factor(r) == Power[IF r > W THEN W ELSE r]

Shifted(op, type, l, r) ==
  IF r >= W THEN IF op = "sar" /\ l < 0 THEN -1 ELSE 0
  ELSE CASE op = "shl" -> Normal(type, l * Factor(r))
         [] op = "shr" -> Normal("uint256", l) \div Factor(r)
         [] op = "sar" -> l \div Factor(r)

(* Two words combined bit by bit; word[n] is the result of the lowest n    *)
(* bits.                                                                   *)
Bit(v, n) == (v \div Power[n]) % 2
OfBits(op, x, y) ==
  CASE op = "band" -> x * y
    [] op = "bor"  -> Truth(x + y > 0)
    [] op = "bxor" -> (x + y) % 2

WordBy(word, n, op, l, r) ==
  IF n = 0 THEN 0 ELSE word[n - 1] + Power[n - 1] * OfBits(op, Bit(l, n - 1), Bit(r, n - 1))
Bitwise2(op, l, r) ==
  LET word[n \in Nat] == WordBy(word, n, op, l, r)
  IN word[W]

(* The binary operators that evaluate both operands. *)
Computed(op, type, l, r) ==
  CASE op \in Equality \cup Ordering -> Value(Truth(Compare(op, l, r)))
    [] op = "add" -> Checked(type, l + r)
    [] op = "sub" -> Checked(type, l - r)
    [] op = "mul" -> Checked(type, l * r)
    [] op = "div" -> IF r = 0 \/ (l = Lowest /\ r = -1) THEN Fail ELSE Value(Quotient(l, r))
    [] op = "mod" -> IF r = 0 THEN Fail ELSE Value(Remainder(l, r))
    [] op \in BitOps -> Value(Normal(type, Bitwise2(op, l % Limit, r % Limit)))
    [] op \in {"shl", "shr", "sar"} -> Value(Shifted(op, type, l, r))

(* Python's and, or, all and any: the results in order, up to the first    *)
(* that is an error or decides.                                            *)
Shortcut(results, decided) ==
  LET last == {k \in DOMAIN results : ~results[k].ok \/ results[k].v = decided}
  IN IF last = {} THEN Value(1 - decided) ELSE results[Min(last)]

(* The positions a temporal operator looks at, from position i of a trace  *)
(* of the given length; both translations unroll the same ranges.          *)
LookedAt(e, i, length) ==
  IF e.horizon = None THEN [k \in 1 .. length |-> k - 1]
  ELSE LET first == IF i > e.horizon THEN i - e.horizon ELSE 0
       IN [k \in 1 .. i - first + 1 |-> first + k - 1]

(* What a unary and a binary operator make of the results of its operands, *)
(* in an expression of this type.                                          *)
UnaryValue(op, type, x) ==
  IF ~x.ok THEN Fail
  ELSE CASE op = "not" -> Value(1 - x.v)
         [] op = "neg" -> IF x.v = Lowest THEN Fail ELSE Value(-x.v)
         [] op = "bitnot" -> Value(Normal(type, -x.v - 1))

BinaryValue(op, type, l, r) ==
  IF ~l.ok THEN Fail
  ELSE CASE op = "and" -> Shortcut(<<l, r>>, 0)
         [] op = "or" -> Shortcut(<<l, r>>, 1)
         [] op = "implies" -> Shortcut(<<Value(1 - l.v), r>>, 1)
         [] OTHER -> IF r.ok THEN Computed(op, type, l.v, r.v) ELSE Fail

(* Where a part is evaluated: under the values of the bound variables, at  *)
(* a position.                                                             *)
Place == Proposal \X [Variable -> Int \cup {None}] \X Nat

With(bound, e, k) == [bound EXCEPT ![e.variable] = e.domain[k].value]

(* _evaluate at position i of a trace: trace[<<id, state, i>>] is the      *)
(* binding of a symbol there, length is None when there is no trace.       *)
EvaluatedBy(value, e, bound, i, trace, length) ==
  CASE e.kind = "symbol"  -> Checked(Type[e], trace[<<e.id, e.state, i>>])
    [] e.kind = "bound"   -> Checked(e.type, bound[e.variable])
    [] e.kind = "literal" -> Value(e.value)
    [] e.kind = "quantifier" ->
         Shortcut([k \in DOMAIN e.domain |-> value[<<e.body, With(bound, e, k), i>>]],
                  Truth(e.operator = "exists"))
    [] e.kind = "temporal" /\ length # None ->
         LET at == LookedAt(e, i, length)
         IN Shortcut([k \in DOMAIN at |-> value[<<e.operand, bound, at[k]>>]],
                     Truth(e.operator = "once"))
    [] e.kind = "unary" -> UnaryValue(e.operator, Type[e], value[<<e.operand, bound, i>>])
    [] e.kind = "binary" ->
         BinaryValue(e.operator, Type[e], value[<<e.left, bound, i>>], value[<<e.right, bound, i>>])
    [] e.kind = "primitive" -> value[<<Expanded(e), bound, i>>]
    [] OTHER -> Fail

Evaluated(e, trace, length) ==
  LET value[x \in Place] == EvaluatedBy(value, x[1], x[2], x[3], trace, length)
  IN value[<<e, Unbound, 0>>]

-----------------------------------------------------------------------------
(* The translations *)

(* The bit vector that stands for a value, 160 bits wide for an address. *)
Bits(type, v) == IF type = "address" THEN v \div 2 ELSE v % Limit

\* Mutant: the ordering operators compare signed words as unsigned ones.
OrderedUnsigned(op, type, l, r) == Compare(op, l, r)

Ordered(op, type, l, r) == Compare(op, Reading(type, l), Reading(type, r))

(* The term of a binary operator (lowering.py's _binary and the end of     *)
(* smt.py's _translate): l and r are bit vectors of operands of this type. *)
Operation(op, type, l, r) ==
  LET x == Reading(type, l)
      y == Reading(type, r)
  IN CASE op \in Equality \cup Ordering -> Truth(Ordered(op, type, l, r))
       [] op = "and" -> l * r
       [] op = "or" -> Truth(l + r > 0)
       [] op = "implies" -> Truth(l <= r)
       [] op = "add" -> (x + y) % Limit
       [] op = "sub" -> (x - y) % Limit
       [] op = "mul" -> (x * y) % Limit
       [] op = "div" -> (IF y = 0 THEN -Signum(x) ELSE Quotient(x, y)) % Limit
       [] op = "mod" -> (IF y = 0 THEN x ELSE Remainder(x, y)) % Limit
       [] op \in BitOps -> Bitwise2(op, l, r)
       [] op = "shl" -> (l * Factor(r)) % Limit
       [] op = "shr" -> l \div Factor(r)
       [] op = "sar" -> (Reading("int256", l) \div Factor(r)) % Limit

(* The side constraints of an operator: no overflow, no underflow, no      *)
(* division by zero.                                                       *)
\* Mutant: subtraction is only guarded against underflow, as for unsigned words.
ConstraintUnsignedSub(op, type, l, r) ==
  LET x == Reading(type, l)
      y == Reading(type, r)
  IN CASE op = "add" -> Within(type, x + y)
       [] op = "sub" -> type = "int256" \/ Within(type, x - y)
       [] op = "mul" -> Within(type, x * y)
       [] op = "div" -> y # 0 /\ Within(type, Quotient(x, y))
       [] op = "mod" -> y # 0
       [] OTHER -> TRUE

Constraint(op, type, l, r) ==
  LET x == Reading(type, l)
      y == Reading(type, r)
  IN CASE op = "add" -> Within(type, x + y)
       [] op = "sub" -> Within(type, x - y)
       [] op = "mul" -> Within(type, x * y)
       [] op = "div" -> y # 0 /\ Within(type, Quotient(x, y))
       [] op = "mod" -> y # 0
       [] OTHER -> TRUE

Every(parts) == \A k \in DOMAIN parts : parts[k].sound
Joined(parts, decided) ==
  [term |-> IF \E k \in DOMAIN parts : parts[k].term = decided THEN decided ELSE 1 - decided,
   sound |-> Every(parts)]

Plain(term) == [term |-> term, sound |-> TRUE]

UnaryTerm(op, x) ==
  CASE op = "not" -> [term |-> 1 - x.term, sound |-> x.sound]
    [] op = "neg" -> [term |-> (-x.term) % Limit, sound |-> x.sound /\ x.term # Lowest % Limit]
    [] op = "bitnot" -> [term |-> Limit - 1 - x.term, sound |-> x.sound]

BinaryTerm(op, type, l, r) ==
  [term |-> Operation(op, type, l.term, r.term),
   sound |-> l.sound /\ r.sound /\ Constraint(op, type, l.term, r.term)]

(* Z3XLIRBackend._translate under an assignment: the value of the term,    *)
(* and whether all constraints collected on the way hold.  The trace is    *)
(* the evaluator's; the solver sees the bits of its values.                *)
TranslatedBy(meaning, e, bound, i, trace, length) ==
  CASE e.kind = "symbol"  -> Plain(Bits(Type[e], trace[<<e.id, e.state, i>>]))
    [] e.kind = "bound"   -> Plain(Bits(e.type, bound[e.variable]))
    [] e.kind = "literal" -> Plain(Bits(e.type, e.value))
    [] e.kind = "quantifier" ->
         Joined([k \in DOMAIN e.domain |-> meaning[<<e.body, With(bound, e, k), i>>]],
                Truth(e.operator = "exists"))
    [] e.kind = "temporal" /\ length # None ->
         LET at == LookedAt(e, i, length)
         IN Joined([k \in DOMAIN at |-> meaning[<<e.operand, bound, at[k]>>]],
                   Truth(e.operator = "once"))
    [] e.kind = "unary" -> UnaryTerm(e.operator, meaning[<<e.operand, bound, i>>])
    [] e.kind = "binary" ->
         BinaryTerm(e.operator, Type[e.left], meaning[<<e.left, bound, i>>], meaning[<<e.right, bound, i>>])
    [] e.kind = "primitive" -> meaning[<<Expanded(e), bound, i>>]
    [] OTHER -> Plain(0)

Translated(e, trace, length) ==
  LET meaning[x \in Place] == TranslatedBy(meaning, x[1], x[2], x[3], trace, length)
  IN meaning[<<e, Unbound, 0>>]

(* The parts that a translation comes to: a quantifier over nothing hides  *)
(* its body.                                                               *)
PartsBy(parts, e) ==
  {e} \cup IF e.kind = "quantifier" /\ Len(e.domain) = 0 THEN {}
           ELSE UNION {parts[part] : part \in Operands(e)}
Parts[e \in Proposal] == PartsBy(Parts, e)

HasTemporal(e) == \E part \in Parts[e] : part.kind = "temporal"

(* Whether XLIRLowerer has a term for every part: div and mod are missing  *)
(* from its table of operators, and a trace needs its length.              *)
Lowers(e, length) ==
  /\ \A part \in Parts[e] : part.kind = "binary" => part.operator \notin {"div", "mod"}
  /\ HasTemporal(e) => length # None
=============================================================================
