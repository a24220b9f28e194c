------------------------------- MODULE MCXlir -------------------------------
(* Words of three bits.  The proposals combine every operator with signed  *)
(* and unsigned symbols, under every shape that can skip an operand.       *)
EXTENDS Xlir

MCTable == [i |-> "int256", j |-> "int256", u |-> "uint256", v |-> "uint256", p |-> "bool", q |-> "bool", a |-> "address"]

Sym(id) == [kind |-> "symbol", id |-> id, state |-> "post"]
Before(id) == [kind |-> "symbol", id |-> id, state |-> "pre"]
Lit(type, n) == [kind |-> "literal", type |-> type, value |-> n]
Var(type) == [kind |-> "bound", variable |-> "x", type |-> type]
Un(op, e) == [kind |-> "unary", operator |-> op, operand |-> e]
Bin(op, l, r) == [kind |-> "binary", operator |-> op, left |-> l, right |-> r]
Over(op, type, domain, body) ==
  [kind |-> "quantifier", operator |-> op, variable |-> "x", over |-> type, domain |-> domain, body |-> body]
Time(op, horizon, e) == [kind |-> "temporal", operator |-> op, horizon |-> horizon, operand |-> e]
Macro(id, arguments) == [kind |-> "primitive", id |-> id, arguments |-> arguments]

Words == Arithmetic \cup BitOps
Shift == {"shl", "shr", "sar"}
Order == Equality \cup Ordering

(* Every operation on two symbols of a type. *)
Signed == {Bin(op, Sym("i"), Before("j")) : op \in Words} \cup {Bin(op, Sym("i"), Sym("u")) : op \in Shift}
          \cup {Un(op, Sym("i")) : op \in {"neg", "bitnot"}}
Unsigned == {Bin(op, Sym("u"), Sym("v")) : op \in Words \cup Shift} \cup {Un(op, Sym("u")) : op \in {"neg", "bitnot"}}

Atoms(orders) ==
  {Bin(op, e, Lit("int256", n)) : op \in orders, e \in Signed, n \in {-4, 0}}
  \cup {Bin(op, e, Lit("uint256", n)) : op \in orders, e \in Unsigned, n \in {0, 5}}

(* An operand that is skipped for some bindings. *)
Guarded ==
  {Bin(op, Bin("neq", Before("j"), Lit("int256", 0)), Bin("ge", Bin(f, Sym("i"), Before("j")), Lit("int256", n))) :
     op \in Logical, f \in Words, n \in {-4, 0}}
  \cup {Bin(op, Bin("eq", Bin(f, Sym("u"), Sym("v")), Lit("uint256", n)), Bin("lt", Sym("u"), Lit("uint256", 4))) :
     op \in Logical, f \in Words \cup Shift, n \in {0, 5}}

(* A result used by another operation. *)
Nested ==
  {Bin("ge", Bin(op, Bin(inner, Sym("i"), Before("j")), Lit("int256", -2)), Lit("int256", -1)) :
     op \in Words, inner \in Words}
  \cup {Bin("lt", Bin(op, Lit("uint256", 6), Bin(inner, Sym("u"), Sym("v"))), Lit("uint256", 3)) :
     op \in Words \cup Shift, inner \in {"sub", "shl", "bxor", "mod"}}

Quantified ==
  {Over(op, "int256", domain, Bin(order, Bin(f, Sym("i"), Var("int256")), Before("j"))) :
     op \in {"forall", "exists"}, order \in {"ge", "neq"}, f \in Words,
     domain \in {<< >>, <<Lit("int256", -4)>>, <<Lit("int256", 1), Lit("int256", 0), Lit("int256", -1)>>}}
  \cup {Over("forall", "int256", <<Lit("int256", 1)>>, Over("exists", "int256", << >>, Sym("p"))),
        Over("forall", "int256", <<Lit("int256", 4)>>, Sym("p")),
        Over("forall", "uint256", <<Lit("int256", 1)>>, Sym("p")),
        Over("exists", "bool", <<Lit("bool", 0), Lit("bool", 1)>>, Bin("eq", Var("bool"), Sym("p"))),
        Bin("ge", Var("int256"), Sym("i"))}
  \cup {Over(op, "address", domain, Bin(order, Var("address"), Sym("a"))) :
     op \in {"forall", "exists"}, order \in Equality,
     domain \in {<<Lit("address", 2)>>, <<Lit("address", 2), Lit("address", 3)>>}}
  \cup {Over("exists", "int256", << >>, e) : e \in {Bin("eq", Bin("div", Var("int256"), Sym("i")), Sym("i")),
                                                   Time("once", 1, Sym("p"))}}

Temporals ==
  LET inner == {Sym("p"), Bin("implies", Sym("p"), Before("p")), Bin("ge", Sym("i"), Lit("int256", 0)),
                Bin("eq", Bin("div", Lit("int256", 2), Sym("i")), Lit("int256", 1))}
      once == {Time("once", h, e) : h \in 0 .. 2, e \in inner}
      always == {Time("globally", None, e) : e \in inner}
  IN once \cup always \cup {Time("globally", None, e) : e \in once} \cup {Time("once", 1, e) : e \in always}
     \cup {Bin(op, Sym("p"), e) : op \in Logical, e \in {Time("once", 1, Before("p")), Time("globally", None, Before("p"))}}
     \cup {Time("globally", 1, Sym("p")), Time("once", None, Sym("p"))}

(* Operands of the wrong type, truth values, addresses and primitives. *)
Rest ==
  {Bin(op, Sym(l), Sym(r)) : op \in Words \cup Shift \cup Order \cup Logical, l \in {"i", "u", "p", "a"}, r \in {"i", "u", "q", "a"}}
  \cup {Bin(op, Sym("a"), Lit("address", n)) : op \in {"eq", "neq"}, n \in {2, 3}}
  \cup {Macro(id, <<Sym("p"), Sym("q")>>) : id \in {"justified_destination_effect", "challenge_window", "proof_binding", "replay_exclusion"}}
  \cup {Macro(id, <<Sym("p")>>) : id \in {"quorum_authorization", "callback_noninterference", "intent_consumption", "replay_exclusion", "other"}}
  \cup {Un("not", Un("not", Sym("p"))), Sym("missing"), Lit("bool", 1)}

Bare == Atoms(Order) \cup Guarded \cup Nested \cup Quantified \cup Rest

(* The same as the antecedent of an implication. *)
Implied ==
  {Bin("implies", e, Sym("q")) : e \in Atoms({"lt"})}
  \cup {Bin("implies", e, Lit("bool", 0)) : e \in Guarded \cup Quantified}

MCQuestion == [raw : Bare \cup Implied \cup Temporals, length : {None}]
              \cup [raw : Temporals \cup {Bin("implies", e, Lit("bool", 0)) : e \in Temporals}, length : {3}]
              \cup [raw : Rest, length : {1}]
(* The objects that occur, with the parts of their parts, and how deep they nest. *)
Grown(S) == S \cup UNION {Operands(e) : e \in S}
MCProposal == Grown(Grown(Grown(Grown(Grown({q.raw : q \in MCQuestion} \cup {Rejected})))))

MCDepth ==
  LET height[e \in MCProposal] == IF Operands(e) = {} THEN 0 ELSE 1 + Max({height[part] : part \in Operands(e)})
  IN [e \in MCProposal |-> height[e]]
=============================================================================
