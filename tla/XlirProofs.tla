----------------------------- MODULE XlirProofs -----------------------------
(***************************************************************************)
(* What the evaluator, the lowered term and the solver's query of one      *)
(* proposal have to do with each other, for every width of a word, every   *)
(* symbol table and every proposal.                                        *)
(*                                                                         *)
(* The operators of XlirTerms descend into an expression, a recursive      *)
(* function each.  That there is a function for each of their equations is *)
(* proved once, for the operator Body that stands for all of them.  Then   *)
(* come facts about words, and, by induction over the expression, that the *)
(* two meanings of it correspond.                                          *)
(***************************************************************************)
EXTENDS Xlir, FiniteSetTheorems, WellFoundedInduction, TLAPS

----------------------------------------------------------------------------
(* Induction                                                               *)

\* What holds of 0 and of the successor of each number it holds of, holds of
\* all: a least exception would have a predecessor that is none.
LEMMA AllNumbers ==
  ASSUME NEW A, 0 \in A, \A n \in Nat : n \in A => n + 1 \in A
  PROVE  Nat \subseteq A
<1> DEFINE R == {p \in Nat \X Nat : p[1] < p[2]}
           T == Nat \ A
<1> SUFFICES ASSUME T # {} PROVE FALSE
  OBVIOUS
<1>1. IsWellFoundedOn(R, Nat)
  BY NatLessThanWellFounded DEF OpToRel
<1>2. T \subseteq Nat
  OBVIOUS
<1>3. PICK t \in T : \A u \in T : ~(<<u, t>> \in R)
  <2> HIDE DEF R, T
  <2> QED BY <1>1, <1>2, WFMin
<1>4. t # 0 /\ t \in Nat
  OBVIOUS
<1>5. t - 1 \in Nat /\ (t - 1) + 1 = t /\ <<t - 1, t>> \in R
  BY <1>4
<1>6. t - 1 \in T
  BY <1>5
<1> QED BY <1>3, <1>5, <1>6

\* A set of numbers with a member has a least one.
LEMMA LeastNumber ==
  ASSUME NEW S \in SUBSET Nat, S # {}
  PROVE  Min(S) \in S /\ \A x \in S : Min(S) <= x
<1> DEFINE R == {p \in Nat \X Nat : p[1] < p[2]}
<1>1. IsWellFoundedOn(R, Nat)
  BY NatLessThanWellFounded DEF OpToRel
<1>2. PICK t \in S : \A u \in S : ~(<<u, t>> \in R)
  <2> HIDE DEF R
  <2> QED BY <1>1, WFMin
<1>3. ASSUME NEW u \in S PROVE t <= u
  <2>1. u \in Nat /\ t \in Nat /\ (u < t => <<u, t>> \in R)
    OBVIOUS
  <2> HIDE DEF R
  <2> QED BY <1>2, <2>1
<1> QED BY <1>3 DEF Min

----------------------------------------------------------------------------
(* Recursion.  Body(k, p, f, x) is what the recursive function named k,    *)
(* with the arguments p, has at x if f is that function.                   *)

Names == {"power", "type", "scoped", "expression", "parts", "word", "evaluated", "translated"}

Body(k, p, f, x) ==
  CASE k = "power"      -> PowerBy(f, x)
    [] k = "word"       -> WordBy(f, x, p.op, p.l, p.r)
    [] k = "type"       -> TypeBy(f, x)
    [] k = "expression" -> ExpressionBy(f, x)
    [] k = "parts"      -> PartsBy(f, x)
    [] k = "scoped"     -> ScopedBy(f, x[1], x[2])
    [] k = "evaluated"  -> EvaluatedBy(f, x[1], x[2], x[3], p.trace, p.length)
    [] k = "translated" -> TranslatedBy(f, x[1], x[2], x[3], p.trace, p.length)

Domain(k) ==
  CASE k \in {"power", "word"} -> Nat
    [] k = "scoped" -> Proposal \X Scope
    [] k \in {"evaluated", "translated"} -> Place
    [] OTHER -> Proposal

Rank(k, x) ==
  CASE k \in {"power", "word"} -> x
    [] k \in {"scoped", "evaluated", "translated"} -> Depth[x[1]]
    [] OTHER -> Depth[x]

(* A trace has no length or a natural number of observations. *)
Fits(k, p) == k \in {"evaluated", "translated"} => p.length \in Nat \cup {None}

Alike(k, f, g, n) == \A y \in Domain(k) : Rank(k, y) < n => f[y] = g[y]

LEMMA RankNatural ==
  ASSUME NEW k \in Names, NEW x \in Domain(k)
  PROVE  Rank(k, x) \in Nat
BY ProposalsAreTrees DEF Rank, Domain, Names, Place

LEMMA PartsAreProposals ==
  ASSUME NEW e \in Proposal, NEW part \in Operands(e)
  PROVE  part \in Proposal /\ Depth[part] \in Nat /\ Depth[e] \in Nat /\ Depth[part] < Depth[e]
BY ProposalsAreTrees

LEMMA DomainLiterals ==
  ASSUME NEW e \in Proposal, e.kind = "quantifier"
  PROVE  /\ Len(e.domain) \in Nat /\ DOMAIN e.domain = 1 .. Len(e.domain)
         /\ \A j \in DOMAIN e.domain :
              e.domain[j].kind = "literal" /\ e.domain[j].type \in Types /\ e.domain[j].value \in Int
<1> DEFINE Literal == [kind : {"literal"}, type : Types, value : Int]
<1>1. e.domain \in Seq(Literal)
  BY ProposalsAreTrees
<1>2. Len(e.domain) \in Nat /\ DOMAIN e.domain = 1 .. Len(e.domain) /\ \A j \in DOMAIN e.domain : e.domain[j] \in Literal
  <2> HIDE DEF Literal
  <2> QED BY <1>1
<1> QED BY <1>2

\* Each of the functions looks only at what ranks lower.
LEMMA LocalNumbers ==
  ASSUME NEW k \in {"power", "word"}, NEW p, NEW f, NEW g, NEW x \in Domain(k),
         Alike(k, f, g, Rank(k, x))
  PROVE  Body(k, p, f, x) = Body(k, p, g, x)
<1>1. x \in Nat /\ Rank(k, x) = x
  BY DEF Domain, Rank
<1>2. x # 0 => f[x - 1] = g[x - 1]
  BY <1>1 DEF Alike, Domain, Rank
<1> QED BY <1>1, <1>2 DEF Body, PowerBy, WordBy

LEMMA LocalTerms ==
  ASSUME NEW k \in {"type", "expression", "parts"}, NEW p, NEW f, NEW g, NEW e \in Domain(k),
         Alike(k, f, g, Rank(k, e))
  PROVE  Body(k, p, f, e) = Body(k, p, g, e)
<1>1. e \in Proposal /\ Rank(k, e) = Depth[e] /\ Domain(k) = Proposal
  BY DEF Domain, Rank
<1>2. \A part \in Operands(e) : f[part] = g[part]
  BY <1>1, PartsAreProposals DEF Alike, Rank
<1>3. CASE k = "type"
  BY <1>1, <1>2, <1>3 DEF Body, TypeBy, Operands
<1>4. CASE k = "expression"
  BY <1>1, <1>2, <1>4 DEF Body, ExpressionBy, Operands
<1>5. CASE k = "parts"
  BY <1>1, <1>2, <1>5 DEF Body, PartsBy
<1> QED BY <1>3, <1>4, <1>5

LEMMA LocalScopes ==
  ASSUME NEW p, NEW f, NEW g, NEW x \in Domain("scoped"),
         Alike("scoped", f, g, Rank("scoped", x))
  PROVE  Body("scoped", p, f, x) = Body("scoped", p, g, x)
<1> DEFINE e == x[1]
           scope == x[2]
<1>1. e \in Proposal /\ scope \in Scope /\ Rank("scoped", x) = Depth[e] /\ Domain("scoped") = Proposal \X Scope
  BY DEF Domain, Rank
<1>2. \A part \in Operands(e), s \in Scope : f[<<part, s>>] = g[<<part, s>>]
  BY <1>1, PartsAreProposals DEF Alike, Rank
<1>3. CASE e.kind = "quantifier"
  <2>1. e.over \in Types => [scope EXCEPT ![e.variable] = e.over] \in Scope
    BY <1>1 DEF Scope
  <2>2. e.body \in Operands(e)
    BY <1>3 DEF Operands
  <2> QED BY <1>2, <1>3, <2>1, <2>2 DEF Body, ScopedBy
<1>4. CASE e.kind # "quantifier"
  BY <1>1, <1>2, <1>4 DEF Body, ScopedBy
<1> QED BY <1>3, <1>4

\* The value of a part is looked up for the same part, at a place.
LEMMA LocalPlaces ==
  ASSUME NEW k \in {"evaluated", "translated"}, NEW f, NEW g,
         NEW e \in Proposal, NEW bound \in [Variable -> Int \cup {None}], NEW i \in Nat,
         Alike(k, f, g, Depth[e])
  PROVE  /\ \A part \in Operands(e) : f[<<part, bound, i>>] = g[<<part, bound, i>>]
         /\ e.kind = "quantifier" =>
              \A j \in DOMAIN e.domain :
                 f[<<e.body, With(bound, e, j), i>>] = g[<<e.body, With(bound, e, j), i>>]
         /\ e.kind = "temporal" =>
              \A n \in Nat : f[<<e.operand, bound, n>>] = g[<<e.operand, bound, n>>]
<1> DEFINE Bindings == [Variable -> Int \cup {None}]
<1>1. \A part \in Operands(e), b \in Bindings, n \in Nat : f[<<part, b, n>>] = g[<<part, b, n>>]
  BY PartsAreProposals DEF Alike, Rank, Domain, Place
<1>2. CASE e.kind = "quantifier"
  <2>1. ASSUME NEW j \in DOMAIN e.domain PROVE With(bound, e, j) \in Bindings
    <3>1. e.domain[j].value \in Int
      BY <1>2, DomainLiterals
    <3> QED BY <3>1 DEF With
  <2>2. e.body \in Operands(e)
    BY <1>2 DEF Operands
  <2> QED BY <1>1, <1>2, <2>1, <2>2
<1>3. CASE e.kind = "temporal"
  <2>1. e.operand \in Operands(e)
    BY <1>3 DEF Operands
  <2> QED BY <1>1, <1>3, <2>1
<1> QED BY <1>1, <1>2, <1>3

\* The positions a temporal operator looks at are natural numbers.
LEMMA PositionsLookedAt ==
  ASSUME NEW e \in Proposal, e.kind = "temporal", NEW i \in Nat, NEW length \in Nat
  PROVE  \E n \in Nat : LookedAt(e, i, length) \in [1 .. n -> Nat]
<1>1. CASE e.horizon = None
  BY <1>1 DEF LookedAt
<1>2. CASE e.horizon # None
  <2>1. e.horizon \in Nat
    BY <1>2, ProposalsAreTrees
  <2> DEFINE first == IF i > e.horizon THEN i - e.horizon ELSE 0
  <2>2. first \in 0 .. i
    BY <2>1
  <2>3. LookedAt(e, i, length) = [k \in 1 .. i - first + 1 |-> first + k - 1]
    BY <1>2 DEF LookedAt
  <2> HIDE DEF first
  <2>4. i - first + 1 \in Nat /\ \A k \in 1 .. i - first + 1 : first + k - 1 \in Nat
    BY <2>2
  <2> QED BY <2>3, <2>4
<1> QED BY <1>1, <1>2

LEMMA LocalMeanings ==
  ASSUME NEW k \in {"evaluated", "translated"}, NEW p, Fits(k, p), NEW f, NEW g, NEW x \in Domain(k),
         Alike(k, f, g, Rank(k, x))
  PROVE  Body(k, p, f, x) = Body(k, p, g, x)
<1> DEFINE e == x[1]
           bound == x[2]
           i == x[3]
<1>1. /\ Alike(k, f, g, Depth[e])
      /\ e \in Proposal /\ bound \in [Variable -> Int \cup {None}] /\ i \in Nat /\ p.length \in Nat \cup {None}
  BY DEF Domain, Rank, Fits, Place
<1>2. /\ \A part \in Operands(e) : f[<<part, bound, i>>] = g[<<part, bound, i>>]
      /\ e.kind = "quantifier" =>
           \A j \in DOMAIN e.domain : f[<<e.body, With(bound, e, j), i>>] = g[<<e.body, With(bound, e, j), i>>]
      /\ e.kind = "temporal" =>
           \A n \in Nat : f[<<e.operand, bound, n>>] = g[<<e.operand, bound, n>>]
  <2> HIDE DEF e, bound, i
  <2> QED BY <1>1, LocalPlaces
<1>3. Body(k, p, f, x) = IF k = "evaluated" THEN EvaluatedBy(f, e, bound, i, p.trace, p.length)
                         ELSE TranslatedBy(f, e, bound, i, p.trace, p.length)
  BY DEF Body
<1>4. Body(k, p, g, x) = IF k = "evaluated" THEN EvaluatedBy(g, e, bound, i, p.trace, p.length)
                         ELSE TranslatedBy(g, e, bound, i, p.trace, p.length)
  BY DEF Body
<1>5. CASE e.kind = "quantifier"
  <2>1. \A j \in DOMAIN e.domain : f[<<e.body, With(bound, e, j), i>>] = g[<<e.body, With(bound, e, j), i>>]
    BY <1>2, <1>5
  <2>2. [j \in DOMAIN e.domain |-> f[<<e.body, With(bound, e, j), i>>]]
        = [j \in DOMAIN e.domain |-> g[<<e.body, With(bound, e, j), i>>]]
    BY <2>1
  <2> HIDE DEF e, bound, i
  <2> QED BY <1>3, <1>4, <1>5, <2>2 DEF EvaluatedBy, TranslatedBy
<1>6. CASE e.kind = "temporal" /\ p.length # None
  <2> DEFINE at == LookedAt(e, i, p.length)
  <2>1. \A n \in Nat : f[<<e.operand, bound, n>>] = g[<<e.operand, bound, n>>]
    BY <1>2, <1>6
  <2>2. \A j \in DOMAIN at : at[j] \in Nat
    <3>1. PICK n \in Nat : at \in [1 .. n -> Nat]
      BY <1>1, <1>6, PositionsLookedAt
    <3> HIDE DEF at
    <3> QED BY <3>1
  <2>3. [j \in DOMAIN at |-> f[<<e.operand, bound, at[j]>>]]
        = [j \in DOMAIN at |-> g[<<e.operand, bound, at[j]>>]]
    <3> HIDE DEF at, e
    <3> QED BY <2>1, <2>2
  <2> HIDE DEF e, bound, i
  <2> QED BY <1>3, <1>4, <1>6, <2>3 DEF EvaluatedBy, TranslatedBy
<1>7. CASE e.kind \in {"unary", "binary", "primitive"}
  <2>1. /\ e.kind = "unary" => f[<<e.operand, bound, i>>] = g[<<e.operand, bound, i>>]
        /\ e.kind = "binary" => /\ f[<<e.left, bound, i>>] = g[<<e.left, bound, i>>]
                                /\ f[<<e.right, bound, i>>] = g[<<e.right, bound, i>>]
        /\ e.kind = "primitive" => f[<<Expanded(e), bound, i>>] = g[<<Expanded(e), bound, i>>]
    BY <1>2, <1>7 DEF Operands
  <2> HIDE DEF e, bound, i
  <2> QED BY <1>3, <1>4, <1>7, <2>1 DEF EvaluatedBy, TranslatedBy
<1>8. CASE /\ e.kind \notin {"unary", "binary", "primitive", "quantifier"}
           /\ ~(e.kind = "temporal" /\ p.length # None)
  <2> HIDE DEF e, bound, i
  <2> QED BY <1>3, <1>4, <1>8 DEF EvaluatedBy, TranslatedBy
<1> QED BY <1>5, <1>6, <1>7, <1>8

LEMMA Locality ==
  ASSUME NEW k \in Names, NEW p, Fits(k, p), NEW f, NEW g, NEW x \in Domain(k),
         Alike(k, f, g, Rank(k, x))
  PROVE  Body(k, p, f, x) = Body(k, p, g, x)
BY LocalNumbers, LocalTerms, LocalScopes, LocalMeanings DEF Names

Solves(k, p, f) == f = [x \in Domain(k) |-> Body(k, p, f, x)]
Below(k, n) == {x \in Domain(k) : Rank(k, x) < n}
Upto(k, p, n, f) == f = [x \in Below(k, n) |-> Body(k, p, f, x)]

LEMMA UptoExists ==
  ASSUME NEW k \in Names, NEW p, Fits(k, p), NEW n \in Nat
  PROVE  \E f : Upto(k, p, n, f)
<1> DEFINE A == {m \in Nat : \E f : Upto(k, p, m, f)}
<1>1. 0 \in A
  <2>1. Below(k, 0) = {}
    BY RankNatural DEF Below
  <2>2. Upto(k, p, 0, [x \in {} |-> None])
    BY <2>1 DEF Upto
  <2> QED BY <2>2
<1>2. ASSUME NEW m \in Nat, m \in A PROVE m + 1 \in A
  <2>1. PICK f : Upto(k, p, m, f)
    BY <1>2
  <2> DEFINE g == [x \in Below(k, m + 1) |-> Body(k, p, f, x)]
  <2>2. ASSUME NEW x \in Below(k, m + 1) PROVE g[x] = Body(k, p, g, x)
    <3>1. x \in Domain(k) /\ Rank(k, x) \in Nat /\ Rank(k, x) < m + 1
      BY RankNatural DEF Below
    <3>2. ASSUME NEW y \in Domain(k), Rank(k, y) < Rank(k, x) PROVE f[y] = g[y]
      <4>1. Rank(k, y) \in Nat
        BY RankNatural
      <4>2. y \in Below(k, m) /\ y \in Below(k, m + 1)
        BY <3>1, <3>2, <4>1 DEF Below
      <4> QED BY <2>1, <4>2 DEF Upto
    <3>3. Body(k, p, f, x) = Body(k, p, g, x)
      <4> HIDE DEF g
      <4> QED BY <3>1, <3>2, Locality DEF Alike
    <3> QED BY <3>3
  <2>3. Upto(k, p, m + 1, g)
    <3>1. g = [x \in Below(k, m + 1) |-> g[x]]
      OBVIOUS
    <3> HIDE DEF g
    <3> QED BY <2>2, <3>1 DEF Upto
  <2> HIDE DEF g
  <2> QED BY <2>3
<1> HIDE DEF A
<1>3. Nat \subseteq A
  BY <1>1, <1>2, AllNumbers
<1> QED BY <1>3 DEF A

LEMMA UptoAgree ==
  ASSUME NEW k \in Names, NEW p, Fits(k, p), NEW n \in Nat, NEW m \in Nat,
         NEW f, Upto(k, p, n, f), NEW g, Upto(k, p, m, g),
         NEW x \in Domain(k), Rank(k, x) < n, Rank(k, x) < m
  PROVE  f[x] = g[x]
<1> DEFINE A == {j \in Nat : \A y \in Domain(k) : Rank(k, y) < j /\ Rank(k, y) < n /\ Rank(k, y) < m => f[y] = g[y]}
<1>1. 0 \in A
  BY RankNatural
<1>2. ASSUME NEW j \in Nat, j \in A PROVE j + 1 \in A
  <2> SUFFICES ASSUME NEW y \in Domain(k), Rank(k, y) < j + 1, Rank(k, y) < n, Rank(k, y) < m
               PROVE  f[y] = g[y]
    OBVIOUS
  <2>1. Rank(k, y) \in Nat
    BY RankNatural
  <2>2. Alike(k, f, g, Rank(k, y))
    <3> SUFFICES ASSUME NEW z \in Domain(k), Rank(k, z) < Rank(k, y) PROVE f[z] = g[z]
      BY DEF Alike
    <3>1. Rank(k, z) \in Nat
      BY RankNatural
    <3> QED BY <1>2, <2>1, <3>1
  <2>3. Body(k, p, f, y) = Body(k, p, g, y)
    BY <2>2, Locality
  <2>4. y \in Below(k, n) /\ y \in Below(k, m)
    BY DEF Below
  <2> QED BY <2>3, <2>4 DEF Upto
<1> HIDE DEF A
<1>3. Nat \subseteq A
  BY <1>1, <1>2, AllNumbers
<1>4. Rank(k, x) \in Nat /\ Rank(k, x) + 1 \in A
  BY <1>3, RankNatural
<1> QED BY <1>4 DEF A

\* There is such a function, for each of the names.
LEMMA SolutionExists ==
  ASSUME NEW k \in Names, NEW p, Fits(k, p)
  PROVE  \E f : Solves(k, p, f)
<1> DEFINE Some(n) == CHOOSE f : Upto(k, p, n, f)
           F == [x \in Domain(k) |-> Some(Rank(k, x) + 1)[x]]
<1>1. \A n \in Nat : Upto(k, p, n, Some(n))
  BY UptoExists
<1>2. ASSUME NEW x \in Domain(k) PROVE F[x] = Body(k, p, F, x)
  <2> DEFINE n == Rank(k, x) + 1
             h == Some(n)
  <2>1. Rank(k, x) \in Nat /\ n \in Nat /\ Upto(k, p, n, h) /\ F[x] = h[x] /\ x \in Below(k, n)
    BY <1>1, RankNatural DEF Below
  <2> HIDE DEF h
  <2>2. h[x] = Body(k, p, h, x)
    BY <2>1 DEF Upto
  <2>3. ASSUME NEW y \in Domain(k), Rank(k, y) < Rank(k, x) PROVE h[y] = F[y]
    <3>1. Rank(k, y) \in Nat /\ Rank(k, y) + 1 \in Nat /\ Rank(k, y) < Rank(k, y) + 1 /\ Rank(k, y) < n
      BY <2>1, <2>3, RankNatural
    <3>2. Upto(k, p, Rank(k, y) + 1, Some(Rank(k, y) + 1)) /\ F[y] = Some(Rank(k, y) + 1)[y]
      BY <1>1, <3>1
    <3> HIDE DEF F, Some, n
    <3> QED BY <2>1, <3>1, <3>2, UptoAgree
  <2>4. Body(k, p, h, x) = Body(k, p, F, x)
    <3> HIDE DEF F, n
    <3> QED BY <2>3, Locality DEF Alike
  <2> QED BY <2>1, <2>2, <2>4
<1>3. F = [x \in Domain(k) |-> F[x]]
  OBVIOUS
<1> HIDE DEF F
<1>4. Solves(k, p, F)
  BY <1>2, <1>3 DEF Solves
<1> QED BY <1>4

LEMMA PowerEquation == \A n \in Nat : Power[n] = PowerBy(Power, n)
<1>1. \E f : f = [n \in Nat |-> PowerBy(f, n)]
  BY SolutionExists DEF Solves, Domain, Body, Names, Fits
<1> DEFINE g == CHOOSE f : f = [n \in Nat |-> PowerBy(f, n)]
<1>2. g = [n \in Nat |-> PowerBy(g, n)]
  BY <1>1
<1>3. Power = g
  BY DEF Power
<1> QED BY <1>2, <1>3

LEMMA TypeEquation == \A e \in Proposal : Type[e] = TypeBy(Type, e)
<1>1. \E f : f = [e \in Proposal |-> TypeBy(f, e)]
  BY SolutionExists DEF Solves, Domain, Body, Names, Fits
<1> DEFINE g == CHOOSE f : f = [e \in Proposal |-> TypeBy(f, e)]
<1>2. g = [e \in Proposal |-> TypeBy(g, e)]
  BY <1>1
<1>3. Type = g
  BY DEF Type
<1> QED BY <1>2, <1>3

LEMMA ExpressionEquation == \A e \in Proposal : Expression[e] = ExpressionBy(Expression, e)
<1>1. \E f : f = [e \in Proposal |-> ExpressionBy(f, e)]
  BY SolutionExists DEF Solves, Domain, Body, Names, Fits
<1> DEFINE g == CHOOSE f : f = [e \in Proposal |-> ExpressionBy(f, e)]
<1>2. g = [e \in Proposal |-> ExpressionBy(g, e)]
  BY <1>1
<1>3. Expression = g
  BY DEF Expression
<1> QED BY <1>2, <1>3

LEMMA PartsEquation == \A e \in Proposal : Parts[e] = PartsBy(Parts, e)
<1>1. \E f : f = [e \in Proposal |-> PartsBy(f, e)]
  BY SolutionExists DEF Solves, Domain, Body, Names, Fits
<1> DEFINE g == CHOOSE f : f = [e \in Proposal |-> PartsBy(f, e)]
<1>2. g = [e \in Proposal |-> PartsBy(g, e)]
  BY <1>1
<1>3. Parts = g
  BY DEF Parts
<1> QED BY <1>2, <1>3

LEMMA ScopedEquation == \A e \in Proposal, scope \in Scope : Scoped[<<e, scope>>] = ScopedBy(Scoped, e, scope)
<1>0. \E f : Solves("scoped", None, f)
  BY SolutionExists DEF Names, Fits
<1>1. \E f : f = [x \in Proposal \X Scope |-> ScopedBy(f, x[1], x[2])]
  BY <1>0 DEF Solves, Domain, Body
<1> DEFINE g == CHOOSE f : f = [x \in Proposal \X Scope |-> ScopedBy(f, x[1], x[2])]
<1>2. g = [x \in Proposal \X Scope |-> ScopedBy(g, x[1], x[2])]
  BY <1>1
<1>3. Scoped = g
  BY DEF Scoped
<1> HIDE DEF g
<1>4. ASSUME NEW e \in Proposal, NEW scope \in Scope
      PROVE  g[<<e, scope>>] = ScopedBy(g, e, scope)
  BY <1>2
<1> QED BY <1>3, <1>4

LEMMA WordEquation ==
  ASSUME NEW op, NEW l, NEW r
  PROVE  \E f : Bitwise2(op, l, r) = f[W] /\ \A n \in Nat : f[n] = WordBy(f, n, op, l, r)
<1> DEFINE p == [op |-> op, l |-> l, r |-> r]
           g == CHOOSE f : f = [n \in Nat |-> WordBy(f, n, op, l, r)]
<1>1. \E f : Solves("word", p, f)
  BY SolutionExists DEF Names, Fits
<1>2. \E f : f = [n \in Nat |-> WordBy(f, n, op, l, r)]
  BY <1>1 DEF Solves, Domain, Body
<1>3. g = [n \in Nat |-> WordBy(g, n, op, l, r)]
  BY <1>2
<1>4. Bitwise2(op, l, r) = g[W]
  BY DEF Bitwise2
<1> HIDE DEF g
<1> QED BY <1>3, <1>4

(* The functions behind Evaluated and Translated. *)
Evaluates(f, trace, length) ==
  \A e \in Proposal, bound \in [Variable -> Int \cup {None}], i \in Nat :
     f[<<e, bound, i>>] = EvaluatedBy(f, e, bound, i, trace, length)
Translates(f, trace, length) ==
  \A e \in Proposal, bound \in [Variable -> Int \cup {None}], i \in Nat :
     f[<<e, bound, i>>] = TranslatedBy(f, e, bound, i, trace, length)

LEMMA EvaluatedEquation ==
  ASSUME NEW e, NEW trace, NEW length \in Nat \cup {None}
  PROVE  \E f : Evaluated(e, trace, length) = f[<<e, Unbound, 0>>] /\ Evaluates(f, trace, length)
<1> DEFINE p == [trace |-> trace, length |-> length]
           g == CHOOSE f : f = [x \in Place |-> EvaluatedBy(f, x[1], x[2], x[3], trace, length)]
<1>1. \E f : Solves("evaluated", p, f)
  BY SolutionExists DEF Names, Fits
<1>2. \E f : f = [x \in Place |-> EvaluatedBy(f, x[1], x[2], x[3], trace, length)]
  BY <1>1 DEF Solves, Domain, Body
<1>3. g = [x \in Place |-> EvaluatedBy(g, x[1], x[2], x[3], trace, length)]
  BY <1>2
<1>4. Evaluated(e, trace, length) = g[<<e, Unbound, 0>>]
  BY DEF Evaluated
<1> HIDE DEF g
<1>5. Evaluates(g, trace, length)
  BY <1>3 DEF Evaluates, Place
<1> QED BY <1>4, <1>5

LEMMA TranslatedEquation ==
  ASSUME NEW e, NEW trace, NEW length \in Nat \cup {None}
  PROVE  \E f : Translated(e, trace, length) = f[<<e, Unbound, 0>>] /\ Translates(f, trace, length)
<1> DEFINE p == [trace |-> trace, length |-> length]
           g == CHOOSE f : f = [x \in Place |-> TranslatedBy(f, x[1], x[2], x[3], trace, length)]
<1>1. \E f : Solves("translated", p, f)
  BY SolutionExists DEF Names, Fits
<1>2. \E f : f = [x \in Place |-> TranslatedBy(f, x[1], x[2], x[3], trace, length)]
  BY <1>1 DEF Solves, Domain, Body
<1>3. g = [x \in Place |-> TranslatedBy(g, x[1], x[2], x[3], trace, length)]
  BY <1>2
<1>4. Translated(e, trace, length) = g[<<e, Unbound, 0>>]
  BY DEF Translated
<1> HIDE DEF g
<1>5. Translates(g, trace, length)
  BY <1>3 DEF Translates, Place
<1> QED BY <1>4, <1>5

\* What holds of an expression if it holds of its parts, holds of all.
LEMMA AllProposals ==
  ASSUME NEW G, \A e \in Proposal : Operands(e) \subseteq G => e \in G
  PROVE  Proposal \subseteq G
<1> DEFINE A == {n \in Nat : \A e \in Proposal : Depth[e] < n => e \in G}
<1>1. 0 \in A
  BY ProposalsAreTrees
<1>2. ASSUME NEW n \in Nat, n \in A PROVE n + 1 \in A
  <2> SUFFICES ASSUME NEW e \in Proposal, Depth[e] < n + 1 PROVE e \in G
    OBVIOUS
  <2>1. ASSUME NEW part \in Operands(e) PROVE part \in G
    BY <1>2, PartsAreProposals
  <2> QED BY <2>1
<1> HIDE DEF A
<1>3. Nat \subseteq A
  BY <1>1, <1>2, AllNumbers
<1>4. ASSUME NEW e \in Proposal PROVE e \in G
  <2>1. Depth[e] \in Nat /\ Depth[e] + 1 \in A
    BY <1>3, ProposalsAreTrees
  <2> QED BY <2>1 DEF A
<1> QED BY <1>4

----------------------------------------------------------------------------
(* Words                                                                   *)

LEMMA PowerFacts ==
  ASSUME NEW n \in Nat
  PROVE  Power[n] \in Nat \ {0} /\ Power[0] = 1 /\ Power[n + 1] = 2 * Power[n]
<1> DEFINE A == {k \in Nat : Power[k] \in Nat \ {0}}
<1>1. Power[0] = 1 /\ \A k \in Nat : Power[k + 1] = 2 * Power[k]
  <2>1. \A k \in Nat : k + 1 \in Nat /\ k + 1 # 0 /\ (k + 1) - 1 = k
    OBVIOUS
  <2> QED BY <2>1, PowerEquation DEF PowerBy
<1>2. 0 \in A /\ \A k \in Nat : k \in A => k + 1 \in A
  BY <1>1
<1> HIDE DEF A
<1>3. Nat \subseteq A
  BY <1>2, AllNumbers
<1> QED BY <1>1, <1>3 DEF A

LEMMA WordFacts ==
  /\ W \in Nat \ {0} /\ Addresses \in Nat \ {0}
  /\ Power[W - 1] \in Nat \ {0} /\ Limit = 2 * Power[W - 1] /\ Lowest = -Power[W - 1]
  /\ Limit \in Nat /\ Limit > 1 /\ Lowest \in Int /\ Limit = -(2 * Lowest)
<1>1. W \in Nat \ {0} /\ Addresses \in Nat \ {0} /\ W - 1 \in Nat /\ (W - 1) + 1 = W
  BY WidthPositive
<1>2. Power[W - 1] \in Nat \ {0} /\ Power[W] = 2 * Power[W - 1]
  BY <1>1, PowerFacts
<1> QED BY <1>1, <1>2 DEF Limit, Lowest

\* A number is a multiple of the divisor and the remainder, in one way.
LEMMA Division ==
  ASSUME NEW a \in Int, NEW b \in Nat \ {0}
  PROVE  a \div b \in Int /\ a % b \in 0 .. b - 1 /\ a = (a \div b) * b + (a % b)
OBVIOUS

LEMMA MultiplesOf ==
  ASSUME NEW b \in Nat \ {0}, NEW q \in Int, q * b < b, q * b > -b
  PROVE  q = 0
<1>1. q >= 1 => q * b >= b
  OBVIOUS
<1>2. q <= -1 => q * b <= -b
  OBVIOUS
<1> QED BY <1>1, <1>2

LEMMA RemainderUnique ==
  ASSUME NEW b \in Nat \ {0}, NEW q \in Int, NEW r \in 0 .. b - 1
  PROVE  (q * b + r) % b = r /\ (q * b + r) \div b = q
<1> DEFINE a == q * b + r
           p == a \div b
           s == a % b
<1>1. a \in Int
  OBVIOUS
<1> HIDE DEF a
<1>2. p \in Int /\ s \in 0 .. b - 1 /\ a = p * b + s
  BY <1>1, Division
<1> HIDE DEF p, s
<1>3. (q - p) * b = s - r
  BY <1>1, <1>2 DEF a
<1>4. q - p = 0
  BY <1>2, <1>3, MultiplesOf
<1> QED BY <1>2, <1>3, <1>4 DEF a, p, s

LEMMA RemainderMultiple ==
  ASSUME NEW b \in Nat \ {0}, NEW q \in Int
  PROVE  (q * b) % b = 0
<1> DEFINE a == q * b
<1>1. a \in Int /\ 0 \in 0 .. b - 1 /\ (q * b + 0) % b = 0
  BY RemainderUnique
<1>2. q * b + 0 = a
  BY <1>1
<1> QED BY <1>1, <1>2

LEMMA RemainderShift ==
  ASSUME NEW b \in Nat \ {0}, NEW a \in Int, NEW q \in Int
  PROVE  (a + q * b) % b = a % b
<1>1. a \div b \in Int /\ a % b \in 0 .. b - 1 /\ a = (a \div b) * b + (a % b)
  BY Division
<1> DEFINE p == a \div b
           r == a % b
<1>2. a + q * b = (p + q) * b + r
  BY <1>1
<1>3. p + q \in Int /\ r \in 0 .. b - 1
  BY <1>1
<1> HIDE DEF p, r
<1>4. ((p + q) * b + r) % b = r
  BY <1>3, RemainderUnique
<1> QED BY <1>2, <1>4 DEF r

(* The terms of a type: bit vectors, and Booleans as 0 and 1. *)
Word(type) ==
  CASE type \in Numbers -> 0 .. Limit - 1
    [] type = "bool"    -> {0, 1}
    [] OTHER            -> Nat

LEMMA RemainderSmall ==
  ASSUME NEW v \in Int
  PROVE  /\ v \in 0 .. Limit - 1 => v % Limit = v /\ v \div Limit = 0
         /\ v \in -Limit .. -1 => v % Limit = v + Limit /\ v \div Limit = -1
         /\ v % Limit \in 0 .. Limit - 1
<1> DEFINE L == Limit
<1>1. L \in Nat \ {0}
  BY WordFacts
<1> HIDE DEF L
<1>2. ASSUME v \in 0 .. L - 1 PROVE v % L = v /\ v \div L = 0
  <2>1. 0 * L + v = v
    BY <1>1
  <2> QED BY <1>1, <1>2, <2>1, RemainderUnique
<1>3. ASSUME v \in -L .. -1 PROVE v % L = v + L /\ v \div L = -1
  <2>1. (-1) * L + (v + L) = v /\ v + L \in 0 .. L - 1 /\ -1 \in Int
    BY <1>1, <1>3
  <2> QED BY <1>1, <2>1, RemainderUnique
<1>4. v % L \in 0 .. L - 1
  BY <1>1, Division
<1> QED BY <1>2, <1>3, <1>4 DEF L

\* A number reads back from its bits.
LEMMA NumberBits ==
  ASSUME NEW type \in Numbers, NEW v \in Values(type)
  PROVE  /\ v \in Int /\ Bits(type, v) = v % Limit
         /\ Bits(type, v) \in 0 .. Limit - 1 /\ Reading(type, Bits(type, v)) = v
<1>1. type \in {"uint256", "int256"} /\ Bits(type, v) = v % Limit
  BY DEF Numbers, Bits
<1>2. CASE type = "uint256"
  <2>1. v \in 0 .. Limit - 1
    BY <1>2 DEF Values
  <2>2. v % Limit = v
    BY <2>1, WordFacts, RemainderSmall
  <2>3. Bits(type, v) = v
    BY <1>1, <2>2
  <2>4. Reading(type, v) = v
    BY <1>2 DEF Reading
  <2>5. v \in Int
    BY <2>1, WordFacts
  <2> QED BY <1>1, <2>1, <2>3, <2>4, <2>5
<1>3. CASE type = "int256"
  <2>1. v \in Lowest .. -Lowest - 1
    BY <1>3 DEF Values
  <2>2. CASE v >= 0
    <3>1. v \in Int /\ v \in 0 .. Limit - 1 /\ ~(v >= -Lowest)
      BY <2>1, <2>2, WordFacts
    <3>2. v % Limit = v
      BY <3>1, RemainderSmall
    <3> QED BY <1>1, <3>1, <3>2 DEF Reading
  <2>3. CASE v < 0
    <3>1. v \in Int /\ v \in -Limit .. -1 /\ v + Limit \in 0 .. Limit - 1 /\ v + Limit >= -Lowest /\ (v + Limit) - Limit = v
      BY <2>1, <2>3, WordFacts
    <3>2. v % Limit = v + Limit
      BY <3>1, RemainderSmall
    <3> QED BY <1>1, <1>3, <3>1, <3>2 DEF Reading
  <2> QED BY <2>1, <2>2, <2>3, WordFacts
<1> QED BY <1>1, <1>2, <1>3

\* The bits read as a number of the type, which has these bits.
LEMMA WordReads ==
  ASSUME NEW type \in Numbers, NEW b \in 0 .. Limit - 1
  PROVE  Reading(type, b) \in Values(type) /\ Reading(type, b) \in Int /\ Reading(type, b) % Limit = b
<1>1. type \in {"uint256", "int256"}
  BY DEF Numbers
<1>2. CASE ~(type = "int256" /\ b >= -Lowest)
  <2>1. Reading(type, b) = b
    BY <1>2 DEF Reading
  <2>2. b \in Int /\ b % Limit = b
    BY WordFacts, RemainderSmall
  <2>3. b \in Values(type)
    BY <1>1, <1>2, WordFacts DEF Values
  <2> QED BY <2>1, <2>2, <2>3
<1>3. CASE type = "int256" /\ b >= -Lowest
  <2>1. Reading(type, b) = b - Limit
    BY <1>3 DEF Reading
  <2>2. b - Limit \in Lowest .. -Lowest - 1 /\ b - Limit \in -Limit .. -1 /\ (b - Limit) + Limit = b /\ b - Limit \in Int
    BY <1>3, WordFacts
  <2>3. (b - Limit) % Limit = b
    BY <2>2, RemainderSmall
  <2> QED BY <1>3, <2>1, <2>2, <2>3 DEF Values
<1> QED BY <1>2, <1>3

LEMMA NormalNumber ==
  ASSUME NEW type \in Numbers, NEW v \in Int
  PROVE  Normal(type, v) \in Values(type) /\ Bits(type, Normal(type, v)) = v % Limit
<1>1. v % Limit \in 0 .. Limit - 1
  BY RemainderSmall
<1>2. /\ Reading(type, v % Limit) \in Values(type)
      /\ Reading(type, v % Limit) % Limit = v % Limit
  BY <1>1, WordReads
<1> QED BY <1>2, NumberBits DEF Normal

\* Congruent numbers have congruent sums and products.
LEMMA Congruent ==
  ASSUME NEW a \in Int, NEW c \in Int
  PROVE  /\ (a % Limit) \in Int
         /\ ((a % Limit) * c) % Limit = (a * c) % Limit
         /\ ((a % Limit) + c) % Limit = (a + c) % Limit
         /\ (c - (a % Limit)) % Limit = (c - a) % Limit
<1> DEFINE L == Limit
           q == a \div L
           r == a % L
<1>1. L \in Nat \ {0}
  BY WordFacts
<1> HIDE DEF L
<1>2. q \in Int /\ r \in 0 .. L - 1 /\ a = q * L + r
  BY <1>1, Division
<1> HIDE DEF q, r
<1>3. /\ a * c = r * c + (q * c) * L /\ a + c = (r + c) + q * L /\ c - a = (c - r) + (-q) * L
      /\ r * c \in Int /\ q * c \in Int /\ r + c \in Int /\ c - r \in Int /\ -q \in Int /\ r \in Int
  BY <1>1, <1>2
<1>4. /\ (r * c + (q * c) * L) % L = (r * c) % L
      /\ ((r + c) + q * L) % L = (r + c) % L
      /\ ((c - r) + (-q) * L) % L = (c - r) % L
  BY <1>1, <1>2, <1>3, RemainderShift
<1>5. /\ r \in Int /\ (r * c) % L = (a * c) % L /\ (r + c) % L = (a + c) % L /\ (c - r) % L = (c - a) % L
  BY <1>3, <1>4
<1> QED BY <1>5 DEF L, r

\* The bits combined one by one make a word.
LEMMA BitwiseWord ==
  ASSUME NEW op \in BitOps, NEW l \in Nat, NEW r \in Nat
  PROVE  Bitwise2(op, l, r) \in 0 .. Limit - 1
<1>1. PICK f : Bitwise2(op, l, r) = f[W] /\ \A n \in Nat : f[n] = WordBy(f, n, op, l, r)
  BY WordEquation
<1>2. ASSUME NEW n \in Nat PROVE OfBits(op, Bit(l, n), Bit(r, n)) \in {0, 1}
  <2>1. \A a \in Int : a % 2 \in {0, 1}
    OBVIOUS
  <2>2. Power[n] \in Nat \ {0}
    BY PowerFacts
  <2>3. l \div Power[n] \in Int /\ r \div Power[n] \in Int
    <3> DEFINE P == Power[n]
    <3>1. P \in Nat \ {0}
      BY <2>2
    <3> HIDE DEF P
    <3>2. l \div P \in Int /\ r \div P \in Int
      BY <3>1, Division
    <3> QED BY <3>2 DEF P
  <2>4. Bit(l, n) \in {0, 1} /\ Bit(r, n) \in {0, 1}
    BY <2>1, <2>3 DEF Bit
  <2> DEFINE x == Bit(l, n)
             y == Bit(r, n)
  <2>5. x * y \in {0, 1} /\ Truth(x + y > 0) \in {0, 1} /\ (x + y) % 2 \in {0, 1}
    <3> HIDE DEF x, y
    <3>1. x \in {0, 1} /\ y \in {0, 1}
      BY <2>4 DEF x, y
    <3> QED BY <2>1, <3>1 DEF Truth
  <2> QED BY <2>5 DEF OfBits, BitOps
<1> DEFINE A == {n \in Nat : f[n] \in 0 .. Power[n] - 1}
<1>3. 0 \in A
  BY <1>1, PowerFacts DEF WordBy
<1>4. ASSUME NEW n \in Nat, n \in A PROVE n + 1 \in A
  <2> DEFINE b == OfBits(op, Bit(l, n), Bit(r, n))
             P == Power[n]
  <2>1. n + 1 # 0 /\ (n + 1) - 1 = n /\ n + 1 \in Nat
    OBVIOUS
  <2>2. f[n + 1] = f[n] + P * b
    BY <1>1, <2>1 DEF WordBy
  <2>3. b \in {0, 1} /\ P \in Nat \ {0} /\ Power[n + 1] = 2 * P /\ f[n] \in 0 .. P - 1
    BY <1>2, <1>4, PowerFacts
  <2> HIDE DEF b, P
  <2>4. P * b \in {0, P}
    BY <2>3
  <2> QED BY <2>1, <2>2, <2>3, <2>4
<1> HIDE DEF A
<1>5. Nat \subseteq A
  BY <1>3, <1>4, AllNumbers
<1>6. f[W] \in 0 .. Power[W] - 1
  BY <1>5, WordFacts DEF A
<1> QED BY <1>1, <1>6 DEF Limit

\* Division of natural numbers does not enlarge.
LEMMA NaturalQuotient ==
  ASSUME NEW a \in Nat, NEW b \in Nat \ {0}
  PROVE  /\ a \div b \in 0 .. a /\ (b > 1 /\ a > 0 => a \div b < a)
         /\ a % b \in 0 .. b - 1 /\ a % b <= a
<1> DEFINE q == a \div b
           r == a % b
<1>1. q \in Int /\ r \in 0 .. b - 1 /\ a = q * b + r
  BY Division
<1> HIDE DEF q, r
<1>2. q >= 0
  <2>1. q <= -1 => q * b <= -b
    BY <1>1
  <2> QED BY <1>1, <2>1
<1>3. q * b >= q /\ (b > 1 => q * b >= 2 * q)
  <2>1. q * b = q + q * (b - 1) /\ q * (b - 1) >= 0
    BY <1>1, <1>2
  <2>2. b > 1 => q * b = 2 * q + q * (b - 2) /\ q * (b - 2) >= 0
    BY <1>1, <1>2
  <2> QED BY <1>1, <2>1, <2>2
<1>4. q \in 0 .. a /\ (b > 1 /\ a > 0 => q < a) /\ r <= a
  BY <1>1, <1>2, <1>3
<1> QED BY <1>1, <1>4 DEF q, r

\* Quotients and remainders of signed words are words, except one.
LEMMA NumberQuotient ==
  ASSUME NEW type \in Numbers, NEW l \in Values(type), NEW r \in Values(type), r # 0
  PROVE  /\ Quotient(l, r) \in Int /\ Remainder(l, r) \in Int
         /\ Remainder(l, r) \in Values(type)
         /\ ~(l = Lowest /\ r = -1) => Quotient(l, r) \in Values(type)
         /\ l = Lowest /\ r = -1 => Quotient(l, r) \notin Values(type)
<1>1. l \in Int /\ r \in Int
  BY NumberBits
<1> DEFINE a == Magnitude(l)
           b == Magnitude(r)
           q == a \div b
           m == a % b
<1>2. a \in Nat /\ b \in Nat \ {0} /\ (l >= 0 => a = l) /\ (l < 0 => a = -l) /\ (r >= 0 => b = r) /\ (r < 0 => b = -r)
  BY <1>1 DEF Magnitude
<1>3. /\ Signum(l) = IF l < 0 THEN -1 ELSE 1
      /\ Signum(r) = IF r < 0 THEN -1 ELSE 1
      /\ Quotient(l, r) = Signum(l) * Signum(r) * q /\ Remainder(l, r) = Signum(l) * m
  BY DEF Signum, Quotient, Remainder
<1> HIDE DEF a, b
<1>4. q \in 0 .. a /\ (b > 1 /\ a > 0 => q < a) /\ m \in 0 .. b - 1 /\ m <= a
  BY <1>2, NaturalQuotient
<1>5. b = 1 => q = a
  <2>1. a * 1 + 0 = a
    BY <1>2
  <2> QED BY <1>2, <2>1, RemainderUnique
<1> HIDE DEF q, m
<1>6. /\ Quotient(l, r) = IF (l < 0) = (r < 0) THEN q ELSE -q
      /\ Remainder(l, r) = IF l < 0 THEN -m ELSE m
  BY <1>1, <1>3, <1>4
<1>7. CASE type = "uint256"
  <2>1. l \in 0 .. Limit - 1 /\ r \in 0 .. Limit - 1
    BY <1>7 DEF Values
  <2>2. Quotient(l, r) = q /\ Remainder(l, r) = m /\ l = a /\ r = b
    BY <1>2, <1>6, <2>1, WordFacts
  <2>3. q \in 0 .. Limit - 1 /\ m \in 0 .. Limit - 1 /\ l # Lowest
    BY <1>1, <1>4, <2>1, <2>2, WordFacts
  <2> QED BY <1>7, <2>2, <2>3 DEF Values
<1>8. CASE type = "int256"
  <2> DEFINE H == -Lowest
  <2>1. H \in Nat \ {0} /\ l \in -H .. H - 1 /\ r \in -H .. H - 1 /\ Lowest = -H
    BY <1>8, WordFacts DEF Values
  <2>2. Values(type) = -H .. H - 1
    BY <1>8, <2>1 DEF Values
  <2> HIDE DEF H
  <2>3. a <= H /\ b <= H
    BY <1>1, <1>2, <2>1
  <2>4. Remainder(l, r) \in -H .. H - 1
    BY <1>1, <1>2, <1>4, <1>6, <2>1, <2>3
  <2>5. Quotient(l, r) \in -H .. H
    BY <1>1, <1>2, <1>4, <1>6, <2>1, <2>3
  <2>6. ASSUME ~(l = Lowest /\ r = -1) PROVE Quotient(l, r) # H
    <3> SUFFICES ASSUME Quotient(l, r) = H PROVE FALSE
      OBVIOUS
    <3>1. q = H /\ (l < 0) = (r < 0)
      BY <1>1, <1>2, <1>4, <1>6, <2>1, <2>3
    <3>2. a = H /\ b = 1
      BY <1>1, <1>2, <1>4, <2>1, <2>3, <3>1
    <3> QED BY <1>1, <1>2, <2>1, <2>6, <3>1, <3>2
  <2>7. ASSUME l = Lowest, r = -1 PROVE Quotient(l, r) = H
    <3>1. l = -H /\ l < 0 /\ r < 0
      BY <2>1, <2>7
    <3>2. a + l = 0 /\ b + r = 0
      BY <1>1, <1>2, <3>1
    <3>3. a = H
      BY <1>1, <1>2, <2>1, <3>1, <3>2
    <3>4. b = 1
      <4>1. r + 1 = 0
        BY <1>1, <2>7
      <4> QED BY <1>1, <1>2, <3>2, <4>1
    <3> QED BY <1>5, <1>6, <3>1, <3>3, <3>4
  <2> QED BY <2>1, <2>2, <2>4, <2>5, <2>6, <2>7
<1> QED BY <1>7, <1>8 DEF Numbers

LEMMA FactorFacts ==
  ASSUME NEW r \in Nat
  PROVE  Factor(r) \in Nat \ {0} /\ (r >= W => Factor(r) = Limit)
<1>1. W \in Nat /\ (IF r > W THEN W ELSE r) \in Nat /\ (r >= W => (IF r > W THEN W ELSE r) = W)
  BY WordFacts
<1> QED BY <1>1, PowerFacts DEF Factor, Limit

\* A shift to the right keeps the sign and does not enlarge.
LEMMA FloorQuotient ==
  ASSUME NEW l \in Int, NEW b \in Nat \ {0}
  PROVE  (l >= 0 => l \div b \in 0 .. l) /\ (l < 0 => l \div b \in l .. -1)
<1> DEFINE q == l \div b
           m == l % b
<1>1. q \in Int /\ m \in 0 .. b - 1 /\ l = q * b + m
  BY Division
<1> HIDE DEF q, m
<1>2. (q >= 0 => q * b >= q) /\ (q < 0 => q * b <= -b)
  <2>1. q * b = q + q * (b - 1) /\ (q >= 0 => q * (b - 1) >= 0)
    BY <1>1
  <2>2. q < 0 => q * b <= -b
    BY <1>1
  <2> QED BY <1>1, <2>1, <2>2
<1>3. l < 0 => q >= l
  <2> SUFFICES ASSUME l < 0, q < l PROVE FALSE
    BY <1>1
  <2>1. q * b = q + q * (b - 1) /\ q * (b - 1) <= -(b - 1)
    BY <1>1
  <2>2. q * b + m <= q
    BY <1>1, <2>1
  <2> QED BY <1>1, <2>2
<1>4. l >= 0 => q \in 0 .. l
  BY <1>1, <1>2
<1>5. l < 0 => q \in l .. -1
  <2>1. q >= 0 => l >= 0
    BY <1>1, <1>2
  <2> QED BY <1>1, <1>3, <2>1
<1> QED BY <1>4, <1>5 DEF q

\* What the compiler lets an operator combine.
LEMMA BinaryTypes ==
  ASSUME NEW op, NEW l, NEW r, BinaryType(op, l, r) # "none"
  PROVE  LET type == BinaryType(op, l, r)
         IN \/ op \in Logical /\ l = "bool" /\ r = "bool" /\ type = "bool"
            \/ op \in Equality /\ l \in Types /\ r = l /\ type = "bool"
            \/ op \in Ordering /\ l \in Numbers /\ r = l /\ type = "bool"
            \/ op \in Arithmetic \cup BitOps /\ l \in Numbers /\ r = l /\ type = l
            \/ op \in {"shl", "shr", "sar"} /\ l \in Numbers /\ r = "uint256" /\ type = l
               /\ (op = "sar" => l = "int256")
BY DEF BinaryType, Logical, Equality, Ordering, Arithmetic, BitOps, Numbers

\* Operators have terms of their type, whether or not they are defined.
LEMMA OperationWord ==
  ASSUME NEW op, NEW lt, NEW rt, BinaryType(op, lt, rt) # "none",
         NEW l \in Word(lt), NEW r \in Word(rt)
  PROVE  Operation(op, lt, l, r) \in Word(BinaryType(op, lt, rt))
<1> DEFINE type == BinaryType(op, lt, rt)
<1>1. \A v \in Int : v % Limit \in 0 .. Limit - 1
  BY RemainderSmall
<1>2. CASE op \in Logical /\ lt = "bool" /\ rt = "bool" /\ type = "bool"
  <2>1. l \in {0, 1} /\ r \in {0, 1} /\ Word(type) = {0, 1}
    BY <1>2 DEF Word, Numbers
  <2>2. /\ op = "and" => Operation(op, lt, l, r) = l * r
        /\ op = "or" => Operation(op, lt, l, r) = Truth(l + r > 0)
        /\ op = "implies" => Operation(op, lt, l, r) = Truth(l <= r)
    BY DEF Operation, Equality, Ordering, BitOps
  <2>3. l * r \in {0, 1} /\ Truth(l + r > 0) \in {0, 1} /\ Truth(l <= r) \in {0, 1}
    BY <2>1 DEF Truth
  <2> QED BY <1>2, <2>1, <2>2, <2>3 DEF Logical
<1>3. CASE op \in Equality \cup Ordering /\ type = "bool"
  <2>1. Word(type) = {0, 1}
    BY <1>3 DEF Word, Numbers
  <2>2. Operation(op, lt, l, r) = Truth(Ordered(op, lt, l, r))
    BY <1>3 DEF Operation, Equality, Ordering, BitOps
  <2> QED BY <2>1, <2>2 DEF Truth
<1>4. ASSUME lt \in Numbers
      PROVE  /\ l \in 0 .. Limit - 1 /\ l \in Nat /\ Reading(lt, l) \in Int /\ Word(lt) = 0 .. Limit - 1
             /\ Reading("int256", l) \in Int
  BY <1>4, WordFacts, WordReads DEF Word, Numbers
<1>5. CASE op \in Arithmetic /\ lt \in Numbers /\ rt = lt /\ type = lt
  <2> DEFINE x == Reading(lt, l)
             y == Reading(lt, r)
  <2>1. r \in 0 .. Limit - 1 /\ x \in Int /\ y \in Int /\ x \in Values(lt) /\ y \in Values(lt)
    BY <1>4, <1>5, WordReads DEF Word
  <2>2. y # 0 => Quotient(x, y) \in Int /\ Remainder(x, y) \in Int
    BY <1>5, <2>1, NumberQuotient
  <2>3. Signum(x) \in Int
    BY DEF Signum
  <2> HIDE DEF x, y
  <2>4. /\ x + y \in Int /\ x - y \in Int /\ x * y \in Int
        /\ (IF y = 0 THEN -Signum(x) ELSE Quotient(x, y)) \in Int
        /\ (IF y = 0 THEN x ELSE Remainder(x, y)) \in Int
    BY <2>1, <2>2, <2>3
  <2>5. Operation(op, lt, l, r) =
          CASE op = "add" -> (x + y) % Limit
            [] op = "sub" -> (x - y) % Limit
            [] op = "mul" -> (x * y) % Limit
            [] op = "div" -> (IF y = 0 THEN -Signum(x) ELSE Quotient(x, y)) % Limit
            [] op = "mod" -> (IF y = 0 THEN x ELSE Remainder(x, y)) % Limit
    BY <1>5 DEF Operation, Arithmetic, Equality, Ordering, BitOps, x, y
  <2>6. Operation(op, lt, l, r) \in 0 .. Limit - 1
    <3> HIDE DEF type
    <3> QED BY <1>1, <1>5, <2>4, <2>5 DEF Arithmetic
  <2> QED BY <1>4, <1>5, <2>6
<1>6. CASE op \in BitOps /\ lt \in Numbers /\ rt = lt /\ type = lt
  <2>1. r \in Nat
    BY <1>6, WordFacts DEF Word
  <2>2. Operation(op, lt, l, r) = Bitwise2(op, l, r)
    BY <1>6 DEF Operation, BitOps, Equality, Ordering
  <2> QED BY <1>4, <1>6, <2>1, <2>2, BitwiseWord
<1>7. CASE op \in {"shl", "shr", "sar"} /\ lt \in Numbers /\ rt = "uint256" /\ type = lt
  <2>1. r \in Nat
    BY <1>7, WordFacts DEF Word, Numbers
  <2> DEFINE F == Factor(r)
             z == Reading("int256", l)
  <2>2. F \in Nat \ {0}
    BY <2>1, FactorFacts
  <2>3. /\ op = "shl" => Operation(op, lt, l, r) = (l * F) % Limit
        /\ op = "shr" => Operation(op, lt, l, r) = l \div F
        /\ op = "sar" => Operation(op, lt, l, r) = (z \div F) % Limit
    BY DEF Operation, BitOps, Equality, Ordering
  <2>4. z \in Int
    BY <1>4, <1>7
  <2> HIDE DEF F, z
  <2>5. l \in 0 .. Limit - 1 /\ l \in Nat /\ l * F \in Int /\ Limit \in Int
    BY <1>4, <1>7, <2>2, WordFacts
  <2>7. z \div F \in Int /\ l \div F \in 0 .. l
    BY <2>2, <2>4, <2>5, Division, NaturalQuotient
  <2>6. Operation(op, lt, l, r) \in 0 .. Limit - 1
    <3>1. CASE op = "shl"
      BY <1>1, <2>3, <2>5, <3>1
    <3>2. CASE op = "shr"
      BY <2>3, <2>5, <2>7, <3>2
    <3>3. CASE op = "sar"
      BY <1>1, <2>3, <2>7, <3>3
    <3> QED BY <1>7, <3>1, <3>2, <3>3
  <2> QED BY <1>4, <1>7, <2>6
<1> QED BY <1>2, <1>3, <1>5, <1>6, <1>7, BinaryTypes

LEMMA TruthBits ==
  ASSUME NEW v \in {0, 1}
  PROVE  v % Limit = v /\ Bits("bool", v) = v /\ v \in Values("bool")
<1>1. v \in Int /\ v \in 0 .. Limit - 1
  BY WordFacts
<1>2. v % Limit = v
  BY <1>1, RemainderSmall
<1> QED BY <1>2 DEF Bits, Values, Numbers

\* An operator that evaluates both operands has a value of its type, and the
\* term computes the bits of that value from those of the operands; where the
\* side constraints hold there is a value.
THEOREM OperationAgrees ==
  ASSUME NEW op, NEW lt, NEW rt, BinaryType(op, lt, rt) # "none",
         op \notin Logical, op = "shr" => lt = "uint256",
         NEW x \in Values(lt), NEW y \in Values(rt),
         lt = "address" => x % 2 = 0, rt = "address" => y % 2 = 0
  PROVE  LET type == BinaryType(op, lt, rt)
             c == Computed(op, type, x, y)
             l == Bits(lt, x)
             r == Bits(rt, y)
         IN /\ type # "address" /\ c.ok \in BOOLEAN
            /\ c.ok => c.v \in Values(type) /\ Operation(op, lt, l, r) = Bits(type, c.v)
            /\ Constraint(op, lt, l, r) => c.ok
<1> DEFINE type == BinaryType(op, lt, rt)
           c == Computed(op, type, x, y)
           l == Bits(lt, x)
           r == Bits(rt, y)
           Claim == /\ type # "address" /\ c.ok \in BOOLEAN
                    /\ c.ok => c.v \in Values(type) /\ Operation(op, lt, l, r) = Bits(type, c.v)
                    /\ Constraint(op, lt, l, r) => c.ok
<1> SUFFICES Claim
  OBVIOUS
<1>1. CASE op \in Equality \cup Ordering
  <2>1. type = "bool" /\ lt \in Types /\ rt = lt /\ (lt \in Numbers \/ op \in Equality)
    BY <1>1, BinaryTypes DEF Logical, Equality, Ordering, Arithmetic, BitOps, Types
  <2>2. Compare(op, Reading(lt, l), Reading(rt, r)) = Compare(op, x, y)
    <3>1. CASE lt \in Numbers
      BY <2>1, <3>1, NumberBits
    <3>2. CASE lt = "bool"
      <4>1. x \in {0, 1} /\ y \in {0, 1} /\ l = x % Limit /\ r = y % Limit
        BY <2>1, <3>2 DEF Values, Bits, Numbers
      <4>2. l = x /\ r = y
        BY ONLY <4>1, TruthBits
      <4> HIDE DEF l, r
      <4> QED BY <2>1, <3>2, <4>2 DEF Reading
    <3>3. CASE lt = "address"
      <4>1. l = x \div 2 /\ r = y \div 2 /\ Reading(lt, l) = l /\ Reading(rt, r) = r
        BY <2>1, <3>3 DEF Bits, Reading
      <4>2. x \in Int /\ y \in Int
        BY <2>1, <3>3, WordFacts DEF Values, Numbers
      <4>3. x = 2 * (x \div 2) /\ y = 2 * (y \div 2) /\ x \div 2 \in Int /\ y \div 2 \in Int
        BY <2>1, <3>3, <4>2
      <4>4. (l = r) = (x = y)
        BY <4>1, <4>3
      <4>5. op \in Equality
        BY <2>1, <3>3 DEF Numbers
      <4> HIDE DEF l, r
      <4> QED BY <4>1, <4>4, <4>5 DEF Compare, Equality
    <3> QED BY <2>1, <3>1, <3>2, <3>3 DEF Types
  <2>3. Operation(op, lt, l, r) = Truth(Compare(op, x, y))
    BY <1>1, <2>1, <2>2 DEF Operation, Ordered, Equality, Ordering, BitOps
  <2>4. c = Value(Truth(Compare(op, x, y)))
    BY <1>1 DEF Computed, Equality, Ordering, BitOps
  <2>5. c.ok = TRUE /\ c.v = Truth(Compare(op, x, y)) /\ c.v \in {0, 1}
    BY <2>4 DEF Value, Truth
  <2>6. Values(type) = {0, 1} /\ Bits(type, c.v) = c.v
    <3>1. Values(type) = {0, 1}
      BY <2>1 DEF Values, Numbers
    <3> HIDE DEF c, type
    <3> QED BY <2>1, <2>5, <3>1, TruthBits
  <2> HIDE DEF c, type, l, r
  <2> QED BY <2>1, <2>3, <2>5, <2>6
<1>2. CASE op \in Arithmetic
  <2>1. type = lt /\ lt \in Numbers /\ rt = lt
    BY <1>2, BinaryTypes DEF Logical, Equality, Ordering, Arithmetic, BitOps
  <2>2. x \in Int /\ y \in Int /\ Reading(lt, l) = x /\ Reading(lt, r) = y /\ type # "address"
    BY <2>1, NumberBits DEF Numbers
  <2>3. \A v : Within(type, v) => v \in Int /\ Bits(type, v) = v % Limit
    BY <2>1, NumberBits DEF Within
  <2>4. CASE op \in {"add", "sub", "mul"}
    <3> DEFINE v == CASE op = "add" -> x + y [] op = "sub" -> x - y [] op = "mul" -> x * y
    <3>1. Operation(op, lt, l, r) = v % Limit /\ Constraint(op, lt, l, r) = Within(lt, v)
      BY <2>2, <2>4 DEF Operation, Constraint, Equality, Ordering, BitOps
    <3>2. c = Checked(type, v)
      BY <2>4 DEF Computed, Equality, Ordering, BitOps
    <3> HIDE DEF v, c, l, r, type
    <3>3. c = IF Within(type, v) THEN [ok |-> TRUE, v |-> v] ELSE [ok |-> FALSE]
      BY <3>2 DEF Checked, Value, Fail
    <3>4. CASE Within(type, v)
      BY <2>1, <2>2, <2>3, <3>1, <3>3, <3>4 DEF Within
    <3>5. CASE ~Within(type, v)
      BY <2>1, <2>2, <3>1, <3>3, <3>5
    <3> QED BY <3>4, <3>5
  <2>5. CASE op = "div"
    <3>1. c = IF y = 0 \/ (x = Lowest /\ y = -1) THEN [ok |-> FALSE] ELSE [ok |-> TRUE, v |-> Quotient(x, y)]
      BY <2>5 DEF Computed, Equality, Ordering, BitOps, Value, Fail
    <3>2. /\ Operation(op, lt, l, r) = (IF y = 0 THEN -Signum(x) ELSE Quotient(x, y)) % Limit
          /\ Constraint(op, lt, l, r) = (y # 0 /\ Within(lt, Quotient(x, y)))
      BY <2>2, <2>5 DEF Operation, Constraint, Equality, Ordering, BitOps
    <3>3. y # 0 => /\ ~(x = Lowest /\ y = -1) => Quotient(x, y) \in Values(type)
                   /\ x = Lowest /\ y = -1 => Quotient(x, y) \notin Values(type)
      BY <2>1, NumberQuotient
    <3> HIDE DEF c, l, r, type
    <3>4. CASE y = 0
      BY <2>2, <3>1, <3>2, <3>4
    <3>5. CASE y # 0 /\ x = Lowest /\ y = -1
      BY <2>1, <2>2, <3>1, <3>2, <3>3, <3>5 DEF Within
    <3>6. CASE y # 0 /\ ~(x = Lowest /\ y = -1)
      BY <2>1, <2>2, <2>3, <3>1, <3>2, <3>3, <3>6 DEF Within
    <3> QED BY <3>4, <3>5, <3>6
  <2>6. CASE op = "mod"
    <3>1. c = IF y = 0 THEN [ok |-> FALSE] ELSE [ok |-> TRUE, v |-> Remainder(x, y)]
      BY <2>6 DEF Computed, Equality, Ordering, BitOps, Value, Fail
    <3>2. /\ Operation(op, lt, l, r) = (IF y = 0 THEN x ELSE Remainder(x, y)) % Limit
          /\ Constraint(op, lt, l, r) = (y # 0)
      BY <2>2, <2>6 DEF Operation, Constraint, Equality, Ordering, BitOps
    <3>3. y # 0 => Remainder(x, y) \in Values(type)
      BY <2>1, NumberQuotient
    <3> HIDE DEF c, l, r, type
    <3>4. CASE y = 0
      BY <2>2, <3>1, <3>2, <3>4
    <3>5. CASE y # 0
      BY <2>2, <2>3, <3>1, <3>2, <3>3, <3>5 DEF Within
    <3> QED BY <3>4, <3>5
  <2> HIDE DEF Claim
  <2> QED BY <1>2, <2>4, <2>5, <2>6 DEF Arithmetic
<1>3. CASE op \in BitOps
  <2>1. type = lt /\ lt \in Numbers /\ rt = lt
    BY <1>3, BinaryTypes DEF Logical, Equality, Ordering, Arithmetic, BitOps
  <2>2. l = x % Limit /\ r = y % Limit /\ l \in Nat /\ r \in Nat /\ type # "address"
    BY <2>1, NumberBits, WordFacts DEF Numbers
  <2> DEFINE v == Bitwise2(op, l, r)
  <2>3. v \in 0 .. Limit - 1 /\ v \in Int
    <3> HIDE DEF l, r
    <3>1. v \in 0 .. Limit - 1
      BY <1>3, <2>2, BitwiseWord
    <3> HIDE DEF v
    <3> QED BY <3>1, WordFacts
  <2>4. Operation(op, lt, l, r) = v /\ Constraint(op, lt, l, r) = TRUE
    BY <1>3 DEF Operation, Constraint, Equality, Ordering, BitOps
  <2>5. c = [ok |-> TRUE, v |-> Normal(type, v)]
    BY <1>3, <2>2 DEF Computed, Equality, Ordering, BitOps, Value
  <2> HIDE DEF v, c, l, r, type
  <2>6. Normal(type, v) \in Values(type) /\ Bits(type, Normal(type, v)) = v
    BY <2>1, <2>3, NormalNumber, RemainderSmall
  <2> QED BY <2>2, <2>4, <2>5, <2>6
<1>4. CASE op \in {"shl", "shr", "sar"}
  <2>1. type = lt /\ lt \in Numbers /\ rt = "uint256" /\ (op = "sar" => lt = "int256")
    BY <1>4, BinaryTypes DEF Logical, Equality, Ordering, Arithmetic, BitOps
  <2>2. /\ x \in Int /\ l = x % Limit /\ l \in 0 .. Limit - 1 /\ Reading(lt, l) = x /\ type # "address"
        /\ y \in Nat /\ r = y
    <3>1. y \in 0 .. Limit - 1
      BY <2>1 DEF Values
    <3>2. y \in Nat /\ r = y
      BY <2>1, <3>1, NumberBits, WordFacts, RemainderSmall DEF Numbers
    <3> QED BY <2>1, <3>2, NumberBits DEF Numbers
  <2> DEFINE F == Factor(y)
             v == Shifted(op, type, x, y)
  <2>3. F \in Nat \ {0} /\ (y >= W => F = Limit)
    BY <2>2, FactorFacts
  <2>4. /\ op = "shl" => Operation(op, lt, l, r) = (l * F) % Limit
        /\ op = "shr" => Operation(op, lt, l, r) = l \div F
        /\ op = "sar" => Operation(op, lt, l, r) = (x \div F) % Limit
        /\ Constraint(op, lt, l, r) = TRUE
    BY <1>4, <2>1, <2>2 DEF Operation, Constraint, Equality, Ordering, BitOps
  <2>5. c = [ok |-> TRUE, v |-> v]
    BY <1>4 DEF Computed, Equality, Ordering, BitOps, Value
  <2>6. /\ y >= W => v = IF op = "sar" /\ x < 0 THEN -1 ELSE 0
        /\ ~(y >= W) => /\ op = "shl" => v = Normal(type, x * F)
                        /\ op = "shr" => v = Normal("uint256", x) \div F
                        /\ op = "sar" => v = x \div F
    BY DEF Shifted
  <2> HIDE DEF F, v, c, l, r, type
  <2>7. v \in Values(type) /\ Bits(type, v) = Operation(op, lt, l, r)
    <3>0. type \in Numbers /\ Limit \in Nat \ {0} /\ W \in Nat
      BY <2>1, WordFacts
    <3>1. 0 \in Values(type) /\ Bits(type, 0) = 0 /\ 0 % Limit = 0
      <4>1. 0 \in Values(type)
        BY <3>0, WordFacts DEF Values, Numbers
      <4>2. 0 % Limit = 0
        BY TruthBits
      <4> QED BY <3>0, <4>1, <4>2, NumberBits
    <3>2. CASE op = "shl"
      <4>1. CASE y >= W
        <5>1. (l * F) % Limit = 0
          <6>1. l \in Int /\ F = Limit
            BY <2>2, <2>3, <3>0, <4>1
          <6> QED BY <3>0, <6>1, RemainderMultiple
        <5> QED BY <2>4, <2>6, <3>1, <3>2, <4>1, <5>1
      <4>2. CASE ~(y >= W)
        <5>1. x * F \in Int /\ F \in Int
          BY <2>2, <2>3
        <5>2. (l * F) % Limit = (x * F) % Limit
          BY <2>2, <5>1, Congruent
        <5> QED BY <2>4, <2>6, <3>0, <3>2, <4>2, <5>1, <5>2, NormalNumber
      <4> QED BY <4>1, <4>2
    <3>3. CASE op = "shr"
      <4>1. type = "uint256" /\ x \in 0 .. Limit - 1 /\ l = x /\ l \in Nat
        <5>1. type = "uint256"
          BY <2>1, <3>3
        <5>2. Reading(lt, l) = l
          BY <2>1, <5>1 DEF Reading
        <5> QED BY <2>2, <3>0, <5>1, <5>2
      <4>2. l \div F \in 0 .. l
        BY <2>3, <4>1, NaturalQuotient
      <4>3. l \div F \in 0 .. Limit - 1 /\ l \div F \in Int
        BY <2>2, <3>0, <4>1, <4>2
      <4>4. l \div F \in Values(type) /\ Bits(type, l \div F) = l \div F
        <5>1. l \div F \in Values(type)
          BY <4>1, <4>3 DEF Values
        <5> QED BY <3>0, <4>3, <5>1, NumberBits, RemainderSmall
      <4>5. CASE y >= W
        <5>1. l \div F = 0
          BY <2>2, <2>3, <4>1, <4>5, RemainderSmall
        <5> QED BY <2>4, <2>6, <3>1, <3>3, <4>5, <5>1
      <4>6. CASE ~(y >= W)
        <5>1. Normal("uint256", x) = l
          BY <2>2 DEF Normal, Reading
        <5> QED BY <2>4, <2>6, <3>3, <4>4, <4>6, <5>1
      <4> QED BY <4>5, <4>6
    <3>4. CASE op = "sar"
      <4>1. type = "int256" /\ x \in Lowest .. -Lowest - 1
        BY <2>1, <3>4 DEF Values
      <4>2. v = x \div F
        <5>1. CASE y >= W
          <6>1. F = Limit
            BY <2>3, <5>1
          <6>2. (x >= 0 => x \in 0 .. Limit - 1) /\ (x < 0 => x \in -Limit .. -1)
            BY <2>2, <4>1, WordFacts
          <6>3. x \div Limit = IF x < 0 THEN -1 ELSE 0
            BY <2>2, <6>2, RemainderSmall
          <6> QED BY <2>6, <3>4, <5>1, <6>1, <6>3
        <5> QED BY <2>6, <3>4, <5>1
      <4>3. x \div F \in Lowest .. -Lowest - 1
        <5>1. (x >= 0 => x \div F \in 0 .. x) /\ (x < 0 => x \div F \in x .. -1)
          BY <2>2, <2>3, FloorQuotient
        <5> QED BY <2>2, <4>1, <5>1, WordFacts
      <4>4. v \in Values(type)
        BY <4>1, <4>2, <4>3 DEF Values
      <4>5. Bits(type, v) = v % Limit
        BY <3>0, <4>4, NumberBits
      <4> QED BY <2>4, <3>4, <4>2, <4>4, <4>5
    <3> QED BY <1>4, <3>2, <3>3, <3>4
  <2> QED BY <2>2, <2>4, <2>5, <2>7
<1> HIDE DEF Claim
<1> QED BY <1>1, <1>2, <1>3, <1>4, BinaryTypes

\* Negation and complement, on words and on what they stand for.
LEMMA NegationAgrees ==
  ASSUME NEW v \in Values("int256")
  PROVE  LET t == Bits("int256", v)
         IN /\ t # Lowest % Limit => v # Lowest
            /\ v # Lowest => -v \in Values("int256") /\ (-t) % Limit = Bits("int256", -v)
<1>1. "int256" \in Numbers /\ v \in Int /\ Bits("int256", v) = v % Limit /\ v \in Lowest .. -Lowest - 1
  BY NumberBits DEF Numbers, Values
<1>2. ASSUME v # Lowest PROVE -v \in Values("int256")
  BY <1>1, <1>2, WordFacts DEF Values, Numbers
<1>3. ASSUME v # Lowest PROVE Bits("int256", -v) = (-v) % Limit
  BY <1>1, <1>2, <1>3, NumberBits
<1>4. (0 - (v % Limit)) % Limit = (0 - v) % Limit /\ v % Limit \in Int
  BY <1>1, Congruent
<1>5. 0 - (v % Limit) = -(v % Limit) /\ 0 - v = -v
  <2> DEFINE m == v % Limit
  <2>1. m \in Int
    BY <1>4
  <2> HIDE DEF m
  <2>2. 0 - m = -m /\ 0 - v = -v
    BY <1>1, <2>1
  <2> QED BY <2>2 DEF m
<1> QED BY <1>1, <1>2, <1>3, <1>4, <1>5

LEMMA ComplementAgrees ==
  ASSUME NEW type \in Numbers, NEW v \in Values(type)
  PROVE  /\ Normal(type, -v - 1) \in Values(type)
         /\ Bits(type, Normal(type, -v - 1)) = Limit - 1 - Bits(type, v)
<1> DEFINE m == v % Limit
<1>1. v \in Int /\ Bits(type, v) = m /\ -v - 1 \in Int
  BY NumberBits
<1>2. m \in 0 .. Limit - 1 /\ Limit \in Nat
  BY <1>1, RemainderSmall, WordFacts
<1>3. (-1 - m) % Limit = (-1 - v) % Limit
  BY <1>1, Congruent
<1> HIDE DEF m
<1>4. -1 - m \in Int /\ -1 - m \in -Limit .. -1 /\ -1 - v = -v - 1 /\ (-1 - m) + Limit = Limit - 1 - m
  BY <1>1, <1>2
<1>5. (-1 - m) % Limit = Limit - 1 - m
  BY <1>4, RemainderSmall
<1>6. (-v - 1) % Limit = Limit - 1 - m
  BY <1>3, <1>4, <1>5
<1> QED BY <1>1, <1>6, NormalNumber

----------------------------------------------------------------------------
(* The two meanings of an expression correspond                            *)

(* x is the evaluator's result and y the translation's, of a type: the     *)
(* term is one of the type; where there is a value, the term is its bits;  *)
(* and where the constraints hold there is a value.  Addresses are spelled *)
(* in lower case.                                                          *)
Agree(type, x, y) ==
  /\ y.term \in Word(type) /\ y.sound \in BOOLEAN /\ x.ok \in BOOLEAN
  /\ x.ok => /\ x = Value(x.v) /\ x.v \in Values(type) /\ y.term = Bits(type, x.v)
             /\ type = "address" => x.v % 2 = 0
  /\ y.sound => x.ok

LEMMA AgreeTruth ==
  ASSUME NEW x, NEW y
  PROVE  Agree("bool", x, y) <=>
           /\ y.term \in {0, 1} /\ y.sound \in BOOLEAN /\ x.ok \in BOOLEAN
           /\ x.ok => x = Value(x.v) /\ x.v \in {0, 1} /\ y.term = x.v
           /\ y.sound => x.ok
<1>1. Word("bool") = {0, 1} /\ Values("bool") = {0, 1}
  BY DEF Word, Values, Numbers
<1> QED BY <1>1, TruthBits DEF Agree

\* A value and its bits, whatever the constraints.
LEMMA AgreeValue ==
  ASSUME NEW type \in Types, NEW v \in Values(type), NEW w, Bits(type, w) = Bits(type, v),
         type = "address" => v % 2 = 0
  PROVE  Agree(type, Value(v), Plain(Bits(type, w))) /\ Checked(type, v) = Value(v)
<1>1. Bits(type, v) \in Word(type)
  <2>1. CASE type \in Numbers
    <3>1. Word(type) = 0 .. Limit - 1
      BY <2>1 DEF Word, Numbers
    <3> QED BY <2>1, <3>1, NumberBits
  <2>2. CASE type = "bool"
    BY <2>2, TruthBits DEF Word, Values, Numbers
  <2>3. CASE type = "address"
    <3>1. v \in Nat
      BY <2>3, WordFacts DEF Values, Numbers
    <3>2. v \div 2 \in Nat
      BY <3>1
    <3> QED BY <2>3, <3>2 DEF Word, Bits, Numbers
  <2> QED BY <2>1, <2>2, <2>3 DEF Types
<1>2. Value(v).ok = TRUE /\ Value(v).v = v /\ Plain(Bits(type, w)).term = Bits(type, w) /\ Plain(Bits(type, w)).sound = TRUE
  BY DEF Value, Plain
<1> QED BY <1>1, <1>2 DEF Agree, Checked, Within

\* What Python's any and all come to.
LEMMA ShortcutCases ==
  ASSUME NEW n \in Nat, NEW results, DOMAIN results = 1 .. n, NEW decided
  PROVE  \/ /\ \A k \in 1 .. n : results[k].ok /\ results[k].v # decided
            /\ Shortcut(results, decided) = Value(1 - decided)
         \/ \E k \in 1 .. n : /\ ~results[k].ok \/ results[k].v = decided
                              /\ Shortcut(results, decided) = results[k]
                              /\ \A j \in 1 .. k - 1 : results[j].v # decided
<1> DEFINE last == {k \in DOMAIN results : ~results[k].ok \/ results[k].v = decided}
<1>1. Shortcut(results, decided) = IF last = {} THEN Value(1 - decided) ELSE results[Min(last)]
  BY DEF Shortcut
<1>2. CASE last = {}
  BY <1>1, <1>2
<1>3. CASE last # {}
  <2>1. last \in SUBSET Nat
    OBVIOUS
  <2>2. Min(last) \in last /\ \A k \in last : Min(last) <= k
    <3> HIDE DEF last
    <3> QED BY <1>3, <2>1, LeastNumber
  <2>3. Shortcut(results, decided) = results[Min(last)]
    BY <1>1, <1>3
  <2> DEFINE m == Min(last)
  <2>4. m \in 1 .. n
    BY <2>2
  <2>5. ASSUME NEW j \in 1 .. m - 1 PROVE results[j].v # decided
    <3>1. j \in 1 .. n /\ ~(m <= j)
      <4> HIDE DEF m
      <4> QED BY <2>4
    <3> QED BY <2>2, <3>1
  <2> QED BY <2>2, <2>3, <2>5
<1> QED BY <1>2, <1>3

\* The expansion of a quantifier or a temporal operator.
LEMMA JoinedAgrees ==
  ASSUME NEW n \in Nat, NEW results, DOMAIN results = 1 .. n, NEW parts, DOMAIN parts = 1 .. n,
         NEW decided \in {0, 1}, \A k \in 1 .. n : Agree("bool", results[k], parts[k])
  PROVE  Agree("bool", Shortcut(results, decided), Joined(parts, decided))
<1> DEFINE y == Joined(parts, decided)
           x == Shortcut(results, decided)
<1>1. /\ y.term = IF \E k \in 1 .. n : parts[k].term = decided THEN decided ELSE 1 - decided
      /\ y.sound = \A k \in 1 .. n : parts[k].sound
  BY DEF Joined, Every
<1>2. /\ y.term \in {0, 1} /\ y.sound \in BOOLEAN /\ 1 - decided \in {0, 1} /\ 1 - decided # decided
  BY <1>1
<1>3. \A k \in 1 .. n : /\ parts[k].term \in {0, 1} /\ results[k].ok \in BOOLEAN
                        /\ results[k].ok => /\ results[k] = Value(results[k].v) /\ results[k].v \in {0, 1}
                                            /\ parts[k].term = results[k].v
                        /\ parts[k].sound => results[k].ok
  BY AgreeTruth
<1> HIDE DEF x, y
<1>4. CASE /\ \A k \in 1 .. n : results[k].ok /\ results[k].v # decided
           /\ x = Value(1 - decided)
  <2>1. x.ok = TRUE /\ x.v = 1 - decided /\ x = Value(x.v)
    BY <1>4 DEF Value
  <2>2. y.term = 1 - decided
    BY <1>1, <1>3, <1>4
  <2> QED BY <1>2, <2>1, <2>2, AgreeTruth DEF x, y
<1>5. ASSUME NEW k \in 1 .. n, ~results[k].ok \/ results[k].v = decided, x = results[k]
      PROVE  Agree("bool", x, y)
  <2>1. x.ok \in BOOLEAN /\ (y.sound => x.ok)
    BY <1>1, <1>3, <1>5
  <2>2. x.ok => x = Value(x.v) /\ x.v = decided /\ parts[k].term = decided
    BY <1>3, <1>5
  <2>3. x.ok => y.term = decided
    BY <1>1, <2>2
  <2> QED BY <1>2, <2>1, <2>2, <2>3, AgreeTruth
<1>6. \/ /\ \A k \in 1 .. n : results[k].ok /\ results[k].v # decided
         /\ x = Value(1 - decided)
      \/ \E k \in 1 .. n : (~results[k].ok \/ results[k].v = decided) /\ x = results[k]
  BY ShortcutCases DEF x
<1> QED BY <1>4, <1>5, <1>6 DEF x, y

LEMMA PartsFacts ==
  ASSUME NEW e \in Proposal
  PROVE  /\ e \in Parts[e]
         /\ ~(e.kind = "quantifier" /\ Len(e.domain) = 0) =>
              \A part \in Operands(e) : Parts[part] \subseteq Parts[e]
BY PartsEquation DEF PartsBy

Binding == [Variable -> Int \cup {None}]

(* A binding of the variables in scope by values of their types. *)
Matches(scope, bound) ==
  /\ scope \in Scope /\ bound \in Binding
  /\ \A x \in Variable : scope[x] # None => /\ bound[x] \in Values(scope[x])
                                            /\ scope[x] = "address" => bound[x] % 2 = 0

(* The trace t of the evaluator gives every symbol of e a value of its     *)
(* type at the positions that are looked at, and u gives the solver the    *)
(* same bits.                                                              *)
Watched(e, t, u, length, positions) ==
  \A part \in Parts[e] :
    /\ part.kind = "symbol" =>
         \A i \in positions :
           LET v == t[<<part.id, part.state, i>>]
               w == u[<<part.id, part.state, i>>]
           IN /\ v \in Values(Type[part]) /\ Bits(Type[part], w) = Bits(Type[part], v)
              /\ Type[part] = "address" => v % 2 = 0
    /\ part.kind = "temporal" => length # None /\ positions = 0 .. length - 1

Sensible(e, t, u, length, positions) ==
  Type[e] # "none" /\ Ordinary(e) /\ Watched(e, t, u, length, positions)

(* The results of two functions correspond for e. *)
Corresponds(e, f, g, positions) ==
  \A scope \in Scope, bound \in Binding, i \in positions :
    Scoped[<<e, scope>>] /\ Matches(scope, bound) => Agree(Type[e], f[<<e, bound, i>>], g[<<e, bound, i>>])

LEMMA SensibleParts ==
  ASSUME NEW e \in Proposal, NEW t, NEW u, NEW length, NEW positions,
         Sensible(e, t, u, length, positions),
         ~(e.kind = "quantifier" /\ Len(e.domain) = 0),
         NEW part \in Operands(e), Type[part] # "none"
  PROVE  Sensible(part, t, u, length, positions)
<1>1. Parts[part] \subseteq Parts[e]
  BY PartsFacts
<1>2. Ordinary(part)
  BY <1>1 DEF Sensible, Ordinary
<1>3. Watched(part, t, u, length, positions)
  BY <1>1 DEF Sensible, Watched
<1> QED BY <1>2, <1>3 DEF Sensible

(* What is known where an expression is met, in the lemmas that follow. *)
Met(e, f, g, t, u, length, positions, scope, bound, i) ==
  /\ length \in Nat \cup {None} /\ positions \subseteq Nat
  /\ Evaluates(f, t, length) /\ Translates(g, u, length)
  /\ Sensible(e, t, u, length, positions)
  /\ i \in positions /\ Scoped[<<e, scope>>] /\ Matches(scope, bound)
  /\ \A part \in Operands(e) :
       Sensible(part, t, u, length, positions) => Corresponds(part, f, g, positions)

LEMMA MetFacts ==
  ASSUME NEW e \in Proposal, NEW f, NEW g, NEW t, NEW u, NEW length, NEW positions, NEW scope, NEW bound, NEW i,
         Met(e, f, g, t, u, length, positions, scope, bound, i)
  PROVE  /\ f[<<e, bound, i>>] = EvaluatedBy(f, e, bound, i, t, length)
         /\ g[<<e, bound, i>>] = TranslatedBy(g, e, bound, i, u, length)
         /\ Type[e] = TypeBy(Type, e) /\ Type[e] # "none" /\ ScopedBy(Scoped, e, scope)
         /\ i \in Nat /\ scope \in Scope /\ bound \in Binding /\ e \in Parts[e]
         /\ ~(e.kind = "quantifier" /\ Len(e.domain) = 0) =>
              \A part \in Operands(e) : Type[part] # "none" => Corresponds(part, f, g, positions)
<1>1. i \in Nat /\ scope \in Scope /\ bound \in Binding /\ Type[e] # "none"
  BY DEF Met, Matches, Sensible
<1>2. f[<<e, bound, i>>] = EvaluatedBy(f, e, bound, i, t, length)
  BY <1>1 DEF Met, Evaluates, Binding
<1>3. g[<<e, bound, i>>] = TranslatedBy(g, e, bound, i, u, length)
  BY <1>1 DEF Met, Translates, Binding
<1>4. Type[e] = TypeBy(Type, e) /\ ScopedBy(Scoped, e, scope)
  BY <1>1, TypeEquation, ScopedEquation DEF Met
<1>5. ASSUME ~(e.kind = "quantifier" /\ Len(e.domain) = 0), NEW part \in Operands(e), Type[part] # "none"
      PROVE  Corresponds(part, f, g, positions)
  <2>1. Sensible(part, t, u, length, positions)
    BY <1>5, SensibleParts DEF Met
  <2> QED BY <2>1 DEF Met
<1> QED BY <1>1, <1>2, <1>3, <1>4, <1>5, PartsFacts

\* The translations of one expression whose parts correspond.
LEMMA LeafAgrees ==
  ASSUME NEW e \in Proposal, NEW f, NEW g, NEW t, NEW u, NEW length, NEW positions, NEW scope, NEW bound, NEW i,
         Met(e, f, g, t, u, length, positions, scope, bound, i), e.kind \in {"symbol", "bound", "literal"}
  PROVE  Agree(Type[e], f[<<e, bound, i>>], g[<<e, bound, i>>])
<1>0. /\ f[<<e, bound, i>>] = EvaluatedBy(f, e, bound, i, t, length)
      /\ g[<<e, bound, i>>] = TranslatedBy(g, e, bound, i, u, length)
      /\ Type[e] = TypeBy(Type, e) /\ Type[e] # "none" /\ ScopedBy(Scoped, e, scope) /\ e \in Parts[e]
  BY MetFacts
<1>1. CASE e.kind = "symbol"
  <2> DEFINE v == t[<<e.id, e.state, i>>]
             w == u[<<e.id, e.state, i>>]
  <2>1. Type[e] \in Types
    BY <1>0, <1>1 DEF TypeBy, Among
  <2>2. v \in Values(Type[e]) /\ Bits(Type[e], w) = Bits(Type[e], v) /\ (Type[e] = "address" => v % 2 = 0)
    <3>1. Watched(e, t, u, length, positions) /\ i \in positions
      BY DEF Met, Sensible
    <3> QED BY <1>0, <1>1, <3>1 DEF Watched
  <2>3. f[<<e, bound, i>>] = Checked(Type[e], v) /\ g[<<e, bound, i>>] = Plain(Bits(Type[e], w))
    <3>1. EvaluatedBy(f, e, bound, i, t, length) = Checked(Type[e], v)
      BY ONLY <1>1 DEF EvaluatedBy
    <3>2. TranslatedBy(g, e, bound, i, u, length) = Plain(Bits(Type[e], w))
      BY ONLY <1>1 DEF TranslatedBy
    <3> QED BY <1>0, <3>1, <3>2
  <2> HIDE DEF v, w
  <2> QED BY <2>1, <2>2, <2>3, AgreeValue
<1>2. CASE e.kind = "bound"
  <2> DEFINE v == bound[e.variable]
  <2>1. Type[e] = e.type /\ e.type \in Types
    BY <1>0, <1>2 DEF TypeBy, Among
  <2>2. scope[e.variable] = e.type
    BY <1>0, <1>2 DEF ScopedBy
  <2>3. e.variable \in Variable
    BY <1>2 DEF Variable
  <2>4. v \in Values(Type[e]) /\ (Type[e] = "address" => v % 2 = 0)
    <3>1. Matches(scope, bound)
      BY DEF Met
    <3> QED BY <2>1, <2>2, <2>3, <3>1, NoneIsApart DEF Matches
  <2>5. f[<<e, bound, i>>] = Checked(e.type, v) /\ g[<<e, bound, i>>] = Plain(Bits(e.type, v))
    <3>1. EvaluatedBy(f, e, bound, i, t, length) = Checked(e.type, v)
      BY ONLY <1>2 DEF EvaluatedBy
    <3>2. TranslatedBy(g, e, bound, i, u, length) = Plain(Bits(e.type, v))
      BY ONLY <1>2 DEF TranslatedBy
    <3> QED BY <1>0, <3>1, <3>2
  <2> HIDE DEF v
  <2> QED BY <2>1, <2>4, <2>5, AgreeValue
<1>3. CASE e.kind = "literal"
  <2>1. Type[e] = e.type /\ e.type \in Types /\ Within(e.type, e.value)
    BY <1>0, <1>3 DEF TypeBy, Among, Types, Numbers
  <2>2. e.type = "address" => e.value % 2 = 0
    <3>1. Ordinary(e)
      BY DEF Met, Sensible
    <3> QED BY <1>0, <1>3, <3>1 DEF Ordinary
  <2>3. f[<<e, bound, i>>] = Value(e.value) /\ g[<<e, bound, i>>] = Plain(Bits(e.type, e.value))
    <3>1. EvaluatedBy(f, e, bound, i, t, length) = Value(e.value)
      BY ONLY <1>3 DEF EvaluatedBy
    <3>2. TranslatedBy(g, e, bound, i, u, length) = Plain(Bits(e.type, e.value))
      BY ONLY <1>3 DEF TranslatedBy
    <3> QED BY <1>0, <3>1, <3>2
  <2> QED BY <2>1, <2>2, <2>3, AgreeValue DEF Within
<1> QED BY <1>1, <1>2, <1>3

LEMMA UnaryAgrees ==
  ASSUME NEW op, NEW type, NEW x, NEW y, Agree(type, x, y), UnaryType(op, type) # "none"
  PROVE  Agree(UnaryType(op, type), UnaryValue(op, UnaryType(op, type), x), UnaryTerm(op, y))
<1> DEFINE value == UnaryValue(op, UnaryType(op, type), x)
           term == UnaryTerm(op, y)
<1>1. \/ op = "not" /\ type = "bool" /\ UnaryType(op, type) = "bool"
      \/ op = "neg" /\ type = "int256" /\ UnaryType(op, type) = type
      \/ op = "bitnot" /\ type \in Numbers /\ UnaryType(op, type) = type
  BY DEF UnaryType
<1>2. x.ok \in BOOLEAN /\ y.sound \in BOOLEAN /\ Fail.ok = FALSE /\ \A v : Value(v).ok = TRUE /\ Value(v).v = v
  BY DEF Agree, Fail, Value
<1>3. ~x.ok => value = Fail
  BY DEF UnaryValue
<1>4. CASE op = "not" /\ type = "bool" /\ UnaryType(op, type) = "bool"
  <2>1. y.term \in {0, 1} /\ (x.ok => x.v \in {0, 1} /\ y.term = x.v) /\ (y.sound => x.ok)
    BY <1>4, AgreeTruth
  <2>2. term.term = 1 - y.term /\ term.sound = y.sound
    BY <1>4 DEF UnaryTerm
  <2>3. x.ok => value = Value(1 - x.v)
    BY <1>4 DEF UnaryValue
  <2> HIDE DEF value, term
  <2>4. 1 - y.term \in {0, 1} /\ (x.ok => 1 - x.v \in {0, 1} /\ 1 - y.term = 1 - x.v)
    BY <2>1
  <2>5. value.ok = x.ok /\ (x.ok => value.v = 1 - x.v /\ value = Value(value.v))
    BY <1>2, <1>3, <2>3
  <2>6. Agree("bool", value, term)
    BY <1>2, <2>1, <2>2, <2>4, <2>5, AgreeTruth
  <2> QED BY <1>4, <2>6 DEF value, term
<1>5. CASE op = "neg" /\ type = "int256" /\ UnaryType(op, type) = type
  <2>1. y.term \in Word("int256") /\ (y.sound => x.ok)
        /\ (x.ok => x.v \in Values("int256") /\ y.term = Bits("int256", x.v))
    BY <1>5 DEF Agree
  <2>2. term.term = (-y.term) % Limit /\ term.sound = (y.sound /\ y.term # Lowest % Limit)
    BY <1>5 DEF UnaryTerm
  <2>3. x.ok => value = IF x.v = Lowest THEN Fail ELSE Value(-x.v)
    BY <1>5 DEF UnaryValue
  <2>4. (-y.term) % Limit \in Word("int256")
    <3>1. Word("int256") = 0 .. Limit - 1
      BY DEF Word, Numbers
    <3> DEFINE n == y.term
    <3>2. n \in 0 .. Limit - 1
      BY <2>1, <3>1
    <3> HIDE DEF n
    <3>3. -n \in Int
      BY <3>2, WordFacts
    <3>4. (-n) % Limit \in 0 .. Limit - 1
      BY <3>3, RemainderSmall
    <3> QED BY <3>1, <3>4 DEF n
  <2>5. x.ok => /\ y.term # Lowest % Limit => x.v # Lowest
                /\ x.v # Lowest => -x.v \in Values("int256") /\ (-y.term) % Limit = Bits("int256", -x.v)
    BY <2>1, NegationAgrees
  <2> QED BY <1>2, <1>3, <1>5, <2>1, <2>2, <2>3, <2>4, <2>5 DEF Agree
<1>6. CASE op = "bitnot" /\ type \in Numbers /\ UnaryType(op, type) = type
  <2>1. y.term \in Word(type) /\ (y.sound => x.ok) /\ type # "address"
        /\ (x.ok => x.v \in Values(type) /\ y.term = Bits(type, x.v))
    BY <1>6 DEF Agree, Numbers
  <2>2. term.term = Limit - 1 - y.term /\ term.sound = y.sound
    BY <1>6 DEF UnaryTerm
  <2>3. x.ok => value = Value(Normal(type, -x.v - 1))
    BY <1>6 DEF UnaryValue
  <2>4. Limit - 1 - y.term \in Word(type)
    <3>1. Word(type) = 0 .. Limit - 1
      BY <1>6 DEF Word, Numbers
    <3> DEFINE n == y.term
    <3>2. n \in 0 .. Limit - 1
      BY <2>1, <3>1
    <3> HIDE DEF n
    <3>3. Limit - 1 - n \in 0 .. Limit - 1
      BY <3>2, WordFacts
    <3> QED BY <3>1, <3>3 DEF n
  <2>5. x.ok => /\ Normal(type, -x.v - 1) \in Values(type)
                /\ Limit - 1 - y.term = Bits(type, Normal(type, -x.v - 1))
    BY <1>6, <2>1, ComplementAgrees
  <2> QED BY <1>2, <1>3, <1>6, <2>1, <2>2, <2>3, <2>4, <2>5 DEF Agree
<1> QED BY <1>1, <1>4, <1>5, <1>6

LEMMA BinaryAgrees ==
  ASSUME NEW op, NEW lt, NEW rt, NEW x1, NEW y1, NEW x2, NEW y2,
         Agree(lt, x1, y1), Agree(rt, x2, y2), BinaryType(op, lt, rt) # "none", op = "shr" => lt = "uint256"
  PROVE  Agree(BinaryType(op, lt, rt), BinaryValue(op, BinaryType(op, lt, rt), x1, x2), BinaryTerm(op, lt, y1, y2))
<1> DEFINE type == BinaryType(op, lt, rt)
           value == BinaryValue(op, type, x1, x2)
           term == BinaryTerm(op, lt, y1, y2)
<1>1. Operation(op, lt, y1.term, y2.term) \in Word(type)
  BY OperationWord DEF Agree
<1>2. x1.ok \in BOOLEAN /\ x2.ok \in BOOLEAN /\ y1.sound \in BOOLEAN /\ y2.sound \in BOOLEAN
      /\ Fail.ok = FALSE /\ \A v : Value(v).ok = TRUE /\ Value(v).v = v
  BY DEF Agree, Fail, Value
<1>3. ~x1.ok => value = Fail
  BY DEF BinaryValue
<1>4. term.term = Operation(op, lt, y1.term, y2.term)
      /\ term.sound = (y1.sound /\ y2.sound /\ Constraint(op, lt, y1.term, y2.term))
  BY DEF BinaryTerm
<1>5. term.sound \in BOOLEAN
  BY <1>4
<1>6. CASE op \in Logical
  <2>1. lt = "bool" /\ rt = "bool" /\ type = "bool"
    BY <1>6, BinaryTypes DEF Logical, Equality, Ordering, Arithmetic, BitOps
  <2>2. /\ y1.term \in {0, 1} /\ (x1.ok => x1 = Value(x1.v) /\ x1.v \in {0, 1} /\ y1.term = x1.v)
        /\ y2.term \in {0, 1} /\ (x2.ok => x2 = Value(x2.v) /\ x2.v \in {0, 1} /\ y2.term = x2.v)
        /\ (y1.sound => x1.ok) /\ (y2.sound => x2.ok)
    BY <2>1, AgreeTruth
  <2>3. CASE ~x1.ok
    BY <1>1, <1>2, <1>3, <1>4, <1>5, <2>1, <2>2, <2>3 DEF Agree
  <2>4. ASSUME x1.ok, NEW left, left.ok = TRUE, left = Value(left.v), left.v \in {0, 1}, NEW decided \in {0, 1},
               value = Shortcut(<<left, x2>>, decided)
        PROVE  /\ value.ok \in BOOLEAN /\ (y1.sound /\ y2.sound => value.ok) /\ (value.ok => value = Value(value.v))
               /\ left.v = decided => value.ok /\ value.v = decided
               /\ left.v # decided => value.ok = x2.ok
               /\ left.v # decided /\ x2.ok => value.v = x2.v
    <3> DEFINE results == <<left, x2>>
    <3>1. DOMAIN results = 1 .. 2 /\ results[1] = left /\ results[2] = x2 /\ 2 \in Nat
      OBVIOUS
    <3>2. \/ /\ \A k \in 1 .. 2 : results[k].ok /\ results[k].v # decided
             /\ Shortcut(results, decided) = Value(1 - decided)
          \/ \E k \in 1 .. 2 : /\ ~results[k].ok \/ results[k].v = decided
                               /\ Shortcut(results, decided) = results[k]
                               /\ \A j \in 1 .. k - 1 : results[j].v # decided
      <4> HIDE DEF results
      <4> DEFINE n == 2
      <4>1. DOMAIN results = 1 .. n /\ n \in Nat
        BY <3>1
      <4> HIDE DEF n
      <4>2. \/ /\ \A k \in 1 .. n : results[k].ok /\ results[k].v # decided
               /\ Shortcut(results, decided) = Value(1 - decided)
            \/ \E k \in 1 .. n : /\ ~results[k].ok \/ results[k].v = decided
                                 /\ Shortcut(results, decided) = results[k]
                                 /\ \A j \in 1 .. k - 1 : results[j].v # decided
        BY <4>1, ShortcutCases
      <4> QED BY <4>2 DEF n
    <3>3. Value(1 - decided).ok = TRUE /\ Value(1 - decided).v = 1 - decided /\ 1 - decided \in {0, 1}
          /\ 1 - decided # decided
      BY DEF Value
    <3> HIDE DEF results
    <3>4. CASE (\A k \in 1 .. 2 : results[k].ok /\ results[k].v # decided) /\ value = Value(1 - decided)
      <4>1. x2.ok /\ x2.v # decided /\ left.v # decided
        BY <3>1, <3>4
      <4> QED BY <2>2, <3>3, <3>4, <4>1
    <3>5. CASE (~left.ok \/ left.v = decided) /\ value = left
      BY <2>4, <3>5
    <3>6. CASE left.v # decided /\ value = x2
      BY <1>2, <2>2, <2>4, <3>6
    <3> QED BY <2>4, <3>1, <3>2, <3>4, <3>5, <3>6 DEF results
  <2>5. \A decided \in {0, 1} : \A left :
          x1.ok /\ left.ok = TRUE /\ left = Value(left.v) /\ left.v \in {0, 1} /\ value = Shortcut(<<left, x2>>, decided) =>
            /\ value.ok \in BOOLEAN /\ (y1.sound /\ y2.sound => value.ok) /\ (value.ok => value = Value(value.v))
            /\ left.v = decided => value.ok /\ value.v = decided
            /\ left.v # decided => value.ok = x2.ok
            /\ left.v # decided /\ x2.ok => value.v = x2.v
    BY <2>4
  <2>6. CASE x1.ok /\ op = "and"
    <3>1. value = Shortcut(<<x1, x2>>, 0) /\ term.term = y1.term * y2.term
      BY <1>4, <2>6 DEF BinaryValue, Operation, Equality, Ordering, BitOps
    <3> HIDE DEF value, term
    <3>2. /\ value.ok \in BOOLEAN /\ (y1.sound /\ y2.sound => value.ok) /\ (value.ok => value = Value(value.v))
          /\ x1.v = 0 => value.ok /\ value.v = 0
          /\ x1.v # 0 => value.ok = x2.ok
          /\ x1.v # 0 /\ x2.ok => value.v = x2.v
      BY <2>2, <2>5, <2>6, <3>1
    <3>3. value.ok => value.v \in {0, 1} /\ term.term = value.v
      BY <2>2, <2>6, <3>1, <3>2
    <3>4. term.term \in {0, 1}
      BY <2>2, <3>1
    <3> QED BY <1>4, <1>5, <2>1, <3>2, <3>3, <3>4, AgreeTruth DEF value, term
  <2>7. CASE x1.ok /\ op = "or"
    <3>1. value = Shortcut(<<x1, x2>>, 1) /\ term.term = Truth(y1.term + y2.term > 0)
      BY <1>4, <2>7 DEF BinaryValue, Operation, Equality, Ordering, BitOps
    <3> HIDE DEF value, term
    <3>2. /\ value.ok \in BOOLEAN /\ (y1.sound /\ y2.sound => value.ok) /\ (value.ok => value = Value(value.v))
          /\ x1.v = 1 => value.ok /\ value.v = 1
          /\ x1.v # 1 => value.ok = x2.ok
          /\ x1.v # 1 /\ x2.ok => value.v = x2.v
      BY <2>2, <2>5, <2>7, <3>1
    <3>3. value.ok => value.v \in {0, 1} /\ term.term = value.v
      BY <2>2, <2>7, <3>1, <3>2 DEF Truth
    <3>4. term.term \in {0, 1}
      BY <3>1 DEF Truth
    <3> QED BY <1>4, <1>5, <2>1, <3>2, <3>3, <3>4, AgreeTruth DEF value, term
  <2>8. CASE x1.ok /\ op = "implies"
    <3>1. value = Shortcut(<<Value(1 - x1.v), x2>>, 1) /\ term.term = Truth(y1.term <= y2.term)
      BY <1>4, <2>8 DEF BinaryValue, Operation, Equality, Ordering, BitOps
    <3> DEFINE left == Value(1 - x1.v)
    <3>2. left.ok = TRUE /\ left.v = 1 - x1.v /\ left = Value(left.v) /\ left.v \in {0, 1}
      BY <1>2, <2>2, <2>8
    <3> HIDE DEF value, term, left
    <3>3. /\ value.ok \in BOOLEAN /\ (y1.sound /\ y2.sound => value.ok) /\ (value.ok => value = Value(value.v))
          /\ left.v = 1 => value.ok /\ value.v = 1
          /\ left.v # 1 => value.ok = x2.ok
          /\ left.v # 1 /\ x2.ok => value.v = x2.v
      BY <2>5, <2>8, <3>1, <3>2 DEF left
    <3>4. value.ok => value.v \in {0, 1} /\ term.term = value.v
      BY <2>2, <2>8, <3>1, <3>2, <3>3 DEF Truth
    <3>5. term.term \in {0, 1}
      BY <3>1 DEF Truth
    <3> QED BY <1>4, <1>5, <2>1, <3>3, <3>4, <3>5, AgreeTruth DEF value, term
  <2> QED BY <1>2, <1>6, <2>3, <2>6, <2>7, <2>8 DEF Logical
<1>7. CASE op \notin Logical
  <2>1. x1.ok => value = IF x2.ok THEN Computed(op, type, x1.v, x2.v) ELSE Fail
    BY <1>7 DEF BinaryValue, Logical
  <2>2. CASE ~x1.ok \/ ~x2.ok
    BY <1>1, <1>2, <1>3, <1>4, <1>5, <2>1, <2>2 DEF Agree
  <2>3. CASE x1.ok /\ x2.ok
    <3>1. /\ x1.v \in Values(lt) /\ y1.term = Bits(lt, x1.v) /\ (lt = "address" => x1.v % 2 = 0)
          /\ x2.v \in Values(rt) /\ y2.term = Bits(rt, x2.v) /\ (rt = "address" => x2.v % 2 = 0)
      BY <2>3 DEF Agree
    <3>2. /\ type # "address" /\ value.ok \in BOOLEAN
          /\ value.ok => value.v \in Values(type) /\ Operation(op, lt, y1.term, y2.term) = Bits(type, value.v)
          /\ Constraint(op, lt, y1.term, y2.term) => value.ok
      BY <1>7, <2>1, <2>3, <3>1, OperationAgrees
    <3>3. value.ok => value = Value(value.v)
      <4>1. value = Computed(op, type, x1.v, x2.v)
        BY <2>1, <2>3
      <4>2. op \in Equality \cup Ordering \cup Arithmetic \cup BitOps \cup {"shl", "shr", "sar"}
        BY <1>7, BinaryTypes
      <4> QED BY <1>2, <4>1, <4>2 DEF Computed, Checked, Equality, Ordering, Arithmetic, BitOps
    <3> QED BY <1>1, <1>2, <1>4, <1>5, <3>2, <3>3 DEF Agree
  <2> QED BY <2>2, <2>3
<1> QED BY <1>6, <1>7

LEMMA OperatorAgrees ==
  ASSUME NEW e \in Proposal, NEW f, NEW g, NEW t, NEW u, NEW length, NEW positions, NEW scope, NEW bound, NEW i,
         Met(e, f, g, t, u, length, positions, scope, bound, i), e.kind \in {"unary", "binary", "primitive"}
  PROVE  Agree(Type[e], f[<<e, bound, i>>], g[<<e, bound, i>>])
<1>0. /\ f[<<e, bound, i>>] = EvaluatedBy(f, e, bound, i, t, length)
      /\ g[<<e, bound, i>>] = TranslatedBy(g, e, bound, i, u, length)
      /\ Type[e] = TypeBy(Type, e) /\ Type[e] # "none" /\ ScopedBy(Scoped, e, scope) /\ e \in Parts[e]
      /\ scope \in Scope /\ bound \in Binding /\ Matches(scope, bound) /\ i \in positions
  <2>1. /\ f[<<e, bound, i>>] = EvaluatedBy(f, e, bound, i, t, length)
        /\ g[<<e, bound, i>>] = TranslatedBy(g, e, bound, i, u, length)
        /\ Type[e] = TypeBy(Type, e) /\ Type[e] # "none" /\ ScopedBy(Scoped, e, scope) /\ e \in Parts[e]
        /\ scope \in Scope /\ bound \in Binding
    BY MetFacts
  <2>2. Matches(scope, bound) /\ i \in positions
    BY DEF Met
  <2> QED BY <2>1, <2>2
<1>1. ASSUME NEW part \in Operands(e), Type[part] # "none"
      PROVE  Agree(Type[part], f[<<part, bound, i>>], g[<<part, bound, i>>])
  <2>1. Corresponds(part, f, g, positions)
    <3>1. ~(e.kind = "quantifier" /\ Len(e.domain) = 0)
      OBVIOUS
    <3> QED BY <1>1, <3>1, MetFacts
  <2>2. Scoped[<<part, scope>>]
    BY <1>0 DEF ScopedBy
  <2> QED BY <1>0, <2>1, <2>2 DEF Corresponds
<1>2. CASE e.kind = "unary"
  <2> DEFINE x == f[<<e.operand, bound, i>>]
             y == g[<<e.operand, bound, i>>]
  <2>1. Type[e] = UnaryType(e.operator, Type[e.operand]) /\ e.operand \in Operands(e)
    BY <1>0, <1>2 DEF TypeBy, Operands
  <2>2. Type[e.operand] # "none"
    BY <1>0, <2>1 DEF UnaryType, Numbers
  <2>3. Agree(Type[e.operand], x, y)
    BY <1>1, <2>1, <2>2
  <2>4. f[<<e, bound, i>>] = UnaryValue(e.operator, Type[e], x)
    <3>1. EvaluatedBy(f, e, bound, i, t, length) = UnaryValue(e.operator, Type[e], x)
      BY ONLY <1>2 DEF EvaluatedBy
    <3> QED BY <1>0, <3>1
  <2>5. g[<<e, bound, i>>] = UnaryTerm(e.operator, y)
    <3>1. TranslatedBy(g, e, bound, i, u, length) = UnaryTerm(e.operator, y)
      BY ONLY <1>2 DEF TranslatedBy
    <3> QED BY <1>0, <3>1
  <2> HIDE DEF x, y
  <2> QED BY <1>0, <2>1, <2>3, <2>4, <2>5, UnaryAgrees
<1>3. CASE e.kind = "binary"
  <2> DEFINE x1 == f[<<e.left, bound, i>>]
             y1 == g[<<e.left, bound, i>>]
             x2 == f[<<e.right, bound, i>>]
             y2 == g[<<e.right, bound, i>>]
  <2>1. Type[e] = BinaryType(e.operator, Type[e.left], Type[e.right]) /\ {e.left, e.right} \subseteq Operands(e)
    BY <1>0, <1>3 DEF TypeBy, Operands
  <2>2. Type[e.left] # "none" /\ Type[e.right] # "none" /\ (e.operator = "shr" => Type[e] = Type[e.left])
    BY <1>0, <2>1, BinaryTypes DEF Types, Numbers, Logical, Equality, Ordering, Arithmetic, BitOps
  <2>3. Agree(Type[e.left], x1, y1) /\ Agree(Type[e.right], x2, y2)
    BY <1>1, <2>1, <2>2
  <2>4. f[<<e, bound, i>>] = BinaryValue(e.operator, Type[e], x1, x2)
    <3>1. EvaluatedBy(f, e, bound, i, t, length) = BinaryValue(e.operator, Type[e], x1, x2)
      BY ONLY <1>3 DEF EvaluatedBy
    <3> QED BY <1>0, <3>1
  <2>5. g[<<e, bound, i>>] = BinaryTerm(e.operator, Type[e.left], y1, y2)
    <3>1. TranslatedBy(g, e, bound, i, u, length) = BinaryTerm(e.operator, Type[e.left], y1, y2)
      BY ONLY <1>3 DEF TranslatedBy
    <3> QED BY <1>0, <3>1
  <2>6. e.operator = "shr" => Type[e.left] = "uint256"
    <3>1. Ordinary(e)
      BY DEF Met, Sensible
    <3> QED BY <1>0, <1>3, <2>2, <3>1 DEF Ordinary
  <2> HIDE DEF x1, y1, x2, y2
  <2> QED BY <1>0, <2>1, <2>3, <2>4, <2>5, <2>6, BinaryAgrees
<1>4. CASE e.kind = "primitive"
  <2>1. Type[e] = Type[Expanded(e)] /\ Expanded(e) \in Operands(e)
    BY <1>0, <1>4 DEF TypeBy, Operands
  <2>2. f[<<e, bound, i>>] = f[<<Expanded(e), bound, i>>]
    <3>1. EvaluatedBy(f, e, bound, i, t, length) = f[<<Expanded(e), bound, i>>]
      BY ONLY <1>4 DEF EvaluatedBy
    <3> QED BY <1>0, <3>1
  <2>3. g[<<e, bound, i>>] = g[<<Expanded(e), bound, i>>]
    <3>1. TranslatedBy(g, e, bound, i, u, length) = g[<<Expanded(e), bound, i>>]
      BY ONLY <1>4 DEF TranslatedBy
    <3> QED BY <1>0, <3>1
  <2> QED BY <1>0, <1>1, <2>1, <2>2, <2>3
<1> QED BY <1>2, <1>3, <1>4

\* A temporal operator stays within the trace.
LEMMA PositionsKept ==
  ASSUME NEW e \in Proposal, e.kind = "temporal", NEW length \in Nat, NEW i \in 0 .. length - 1
  PROVE  \E n \in Nat : LookedAt(e, i, length) \in [1 .. n -> 0 .. length - 1]
<1>1. CASE e.horizon = None
  <2>1. \A k \in 1 .. length : k - 1 \in 0 .. length - 1
    OBVIOUS
  <2> QED BY <1>1, <2>1 DEF LookedAt
<1>2. CASE e.horizon # None
  <2>1. e.horizon \in Nat
    BY <1>2, ProposalsAreTrees
  <2> DEFINE first == IF i > e.horizon THEN i - e.horizon ELSE 0
  <2>2. first \in 0 .. i
    BY <2>1
  <2>3. LookedAt(e, i, length) = [k \in 1 .. i - first + 1 |-> first + k - 1]
    BY <1>2 DEF LookedAt
  <2> HIDE DEF first
  <2>4. i - first + 1 \in Nat /\ \A k \in 1 .. i - first + 1 : first + k - 1 \in 0 .. length - 1
    BY <2>2
  <2> QED BY <2>3, <2>4
<1> QED BY <1>1, <1>2

LEMMA ListAgrees ==
  ASSUME NEW e \in Proposal, NEW f, NEW g, NEW t, NEW u, NEW length, NEW positions, NEW scope, NEW bound, NEW i,
         Met(e, f, g, t, u, length, positions, scope, bound, i), e.kind \in {"quantifier", "temporal"}
  PROVE  Agree(Type[e], f[<<e, bound, i>>], g[<<e, bound, i>>])
<1>0. /\ f[<<e, bound, i>>] = EvaluatedBy(f, e, bound, i, t, length)
      /\ g[<<e, bound, i>>] = TranslatedBy(g, e, bound, i, u, length)
      /\ Type[e] = TypeBy(Type, e) /\ Type[e] # "none" /\ ScopedBy(Scoped, e, scope) /\ e \in Parts[e]
      /\ scope \in Scope /\ bound \in Binding /\ Matches(scope, bound) /\ i \in positions
  <2>1. /\ f[<<e, bound, i>>] = EvaluatedBy(f, e, bound, i, t, length)
        /\ g[<<e, bound, i>>] = TranslatedBy(g, e, bound, i, u, length)
        /\ Type[e] = TypeBy(Type, e) /\ Type[e] # "none" /\ ScopedBy(Scoped, e, scope) /\ e \in Parts[e]
        /\ scope \in Scope /\ bound \in Binding
    BY MetFacts
  <2>2. Matches(scope, bound) /\ i \in positions
    BY DEF Met
  <2> QED BY <2>1, <2>2
<1>1. Type[e] = "bool"
  BY <1>0 DEF TypeBy, BoolIf
<1>2. \A condition : Truth(condition) \in {0, 1}
  BY DEF Truth
<1>3. CASE e.kind = "quantifier"
  <2> DEFINE inner == [scope EXCEPT ![e.variable] = e.over]
             results == [k \in DOMAIN e.domain |-> f[<<e.body, With(bound, e, k), i>>]]
             parts == [k \in DOMAIN e.domain |-> g[<<e.body, With(bound, e, k), i>>]]
             decided == Truth(e.operator = "exists")
             n == Len(e.domain)
  <2>1. n \in Nat /\ DOMAIN e.domain = 1 .. n /\ \A k \in 1 .. n : e.domain[k].value \in Int
    BY <1>3, DomainLiterals
  <2>2. /\ \A k \in 1 .. n : Within(e.over, e.domain[k].value)
        /\ Type[e.body] = "bool" /\ e.body \in Operands(e)
    BY <1>0, <1>1, <1>3, <2>1 DEF TypeBy, BoolIf, Operands
  <2>3. e.over \in Types /\ Scoped[<<e.body, inner>>] /\ e.variable \in Variable
    BY <1>0, <1>3 DEF ScopedBy, Variable
  <2>4. inner \in Scope
    BY <1>0, <2>3 DEF Scope
  <2>5. ASSUME NEW k \in 1 .. n PROVE Agree("bool", results[k], parts[k])
    <3> DEFINE under == With(bound, e, k)
    <3>1. under \in Binding /\ under[e.variable] = e.domain[k].value
          /\ \A x \in Variable : x # e.variable => under[x] = bound[x]
      BY <1>0, <2>1, <2>3 DEF With, Binding
    <3>2. e.over = "address" => e.domain[k].value % 2 = 0
      <4>1. Ordinary(e)
        BY DEF Met, Sensible
      <4> QED BY <1>0, <1>3, <2>1, <4>1 DEF Ordinary
    <3>3. inner[e.variable] = e.over /\ \A x \in Variable : x # e.variable => inner[x] = scope[x]
      BY <1>0, <2>3 DEF Scope
    <3> HIDE DEF inner, under
    <3>4. Matches(inner, under)
      <4>1. ASSUME NEW x \in Variable, inner[x] # None
            PROVE  under[x] \in Values(inner[x]) /\ (inner[x] = "address" => under[x] % 2 = 0)
        <5>1. CASE x = e.variable
          BY <2>2, <3>1, <3>2, <3>3, <5>1 DEF Within
        <5>2. CASE x # e.variable
          BY <1>0, <3>1, <3>3, <4>1, <5>2 DEF Matches
        <5> QED BY <5>1, <5>2
      <4> QED BY <2>4, <3>1, <4>1 DEF Matches
    <3>5. Corresponds(e.body, f, g, positions)
      <4>1. n # 0
        BY <2>1
      <4>2. Type[e.body] # "none"
        BY <2>2
      <4> QED BY <2>2, <4>1, <4>2, MetFacts
    <3>6. Agree("bool", f[<<e.body, under, i>>], g[<<e.body, under, i>>])
      BY <1>0, <2>2, <2>3, <2>4, <3>1, <3>4, <3>5 DEF Corresponds
    <3> QED BY <2>1, <3>6 DEF under
  <2>6. f[<<e, bound, i>>] = Shortcut(results, decided)
    <3>1. EvaluatedBy(f, e, bound, i, t, length) = Shortcut(results, decided)
      BY ONLY <1>3 DEF EvaluatedBy
    <3> QED BY <1>0, <3>1
  <2>7. g[<<e, bound, i>>] = Joined(parts, decided)
    <3>1. TranslatedBy(g, e, bound, i, u, length) = Joined(parts, decided)
      BY ONLY <1>3 DEF TranslatedBy
    <3> QED BY <1>0, <3>1
  <2>8. DOMAIN results = 1 .. n /\ DOMAIN parts = 1 .. n /\ decided \in {0, 1} /\ n \in Nat
    BY <1>2, <2>1
  <2> HIDE DEF results, parts, decided, n
  <2> QED BY <1>1, <2>5, <2>6, <2>7, <2>8, JoinedAgrees
<1>4. CASE e.kind = "temporal"
  <2> DEFINE at == LookedAt(e, i, length)
             results == [k \in DOMAIN at |-> f[<<e.operand, bound, at[k]>>]]
             parts == [k \in DOMAIN at |-> g[<<e.operand, bound, at[k]>>]]
             decided == Truth(e.operator = "once")
  <2>1. length # None /\ positions = 0 .. length - 1 /\ length \in Nat
    BY <1>0, <1>4 DEF Met, Sensible, Watched
  <2>2. PICK n \in Nat : at \in [1 .. n -> positions]
    BY <1>0, <1>4, <2>1, PositionsKept
  <2>3. Type[e.operand] = "bool" /\ e.operand \in Operands(e)
    BY <1>0, <1>1, <1>4 DEF TypeBy, BoolIf, Operands
  <2>4. Scoped[<<e.operand, scope>>]
    BY <1>0, <1>4, <2>3 DEF ScopedBy
  <2>5. Corresponds(e.operand, f, g, positions)
    <3>1. ~(e.kind = "quantifier" /\ Len(e.domain) = 0) /\ Type[e.operand] # "none"
      BY <1>4, <2>3
    <3> QED BY <2>3, <3>1, MetFacts
  <2>6. f[<<e, bound, i>>] = Shortcut(results, decided)
    <3>1. EvaluatedBy(f, e, bound, i, t, length) = Shortcut(results, decided)
      BY ONLY <1>4, <2>1 DEF EvaluatedBy
    <3> QED BY <1>0, <3>1
  <2>7. g[<<e, bound, i>>] = Joined(parts, decided)
    <3>1. TranslatedBy(g, e, bound, i, u, length) = Joined(parts, decided)
      BY ONLY <1>4, <2>1 DEF TranslatedBy
    <3> QED BY <1>0, <3>1
  <2> HIDE DEF at
  <2>8. ASSUME NEW k \in 1 .. n PROVE Agree("bool", results[k], parts[k])
    <3>1. at[k] \in positions /\ DOMAIN at = 1 .. n
      BY <2>2
    <3>2. Agree("bool", f[<<e.operand, bound, at[k]>>], g[<<e.operand, bound, at[k]>>])
      BY <1>0, <2>3, <2>4, <2>5, <3>1 DEF Corresponds
    <3> QED BY <3>1, <3>2
  <2>9. DOMAIN results = 1 .. n /\ DOMAIN parts = 1 .. n /\ decided \in {0, 1}
    BY <1>2, <2>2
  <2> HIDE DEF results, parts, decided
  <2> QED BY <1>1, <2>6, <2>7, <2>8, <2>9, JoinedAgrees
<1> QED BY <1>3, <1>4

\* The two meanings of every expression correspond.
LEMMA Correspondence ==
  ASSUME NEW f, NEW g, NEW t, NEW u, NEW length \in Nat \cup {None}, NEW positions \in SUBSET Nat,
         Evaluates(f, t, length), Translates(g, u, length)
  PROVE  \A e \in Proposal : Sensible(e, t, u, length, positions) => Corresponds(e, f, g, positions)
<1> DEFINE G == {e \in Proposal : Sensible(e, t, u, length, positions) => Corresponds(e, f, g, positions)}
<1>1. ASSUME NEW e \in Proposal, Operands(e) \subseteq G, Sensible(e, t, u, length, positions)
      PROVE  Corresponds(e, f, g, positions)
  <2> SUFFICES ASSUME NEW scope \in Scope, NEW bound \in Binding, NEW i \in positions,
                      Scoped[<<e, scope>>], Matches(scope, bound)
               PROVE  Agree(Type[e], f[<<e, bound, i>>], g[<<e, bound, i>>])
    BY DEF Corresponds
  <2>1. Met(e, f, g, t, u, length, positions, scope, bound, i)
    BY <1>1 DEF Met
  <2>2. e.kind \in {"symbol", "bound", "literal", "unary", "binary", "primitive", "quantifier", "temporal"}
    <3>1. Type[e] = TypeBy(Type, e) /\ Type[e] # "none"
      BY <2>1, MetFacts
    <3> QED BY <3>1 DEF TypeBy
  <2> QED BY <2>1, <2>2, LeafAgrees, OperatorAgrees, ListAgrees
<1>2. \A e \in Proposal : Operands(e) \subseteq G => e \in G
  BY <1>1
<1> HIDE DEF G
<1>3. Proposal \subseteq G
  BY <1>2, AllProposals
<1> QED BY <1>3 DEF G

----------------------------------------------------------------------------
(* The whole formula                                                       *)

LEMMA PartsTyped ==
  \A e \in Proposal : Type[e] # "none" => \A part \in Parts[e] : part \in Proposal /\ Type[part] # "none"
<1> DEFINE G == {e \in Proposal :
                   Type[e] # "none" => \A part \in Parts[e] : part \in Proposal /\ Type[part] # "none"}
<1>1. ASSUME NEW e \in Proposal, Operands(e) \subseteq G, Type[e] # "none", NEW part \in Parts[e]
      PROVE  part \in Proposal /\ Type[part] # "none"
  <2>1. CASE part = e
    BY <1>1, <2>1
  <2>2. CASE part # e
    <3>1. ~(e.kind = "quantifier" /\ Len(e.domain) = 0) /\ part \in UNION {Parts[x] : x \in Operands(e)}
      BY <1>1, <2>2, PartsEquation DEF PartsBy
    <3>2. PICK x \in Operands(e) : part \in Parts[x]
      BY <3>1
    <3>3. Type[x] # "none"
      <4>1. Type[e] = TypeBy(Type, e)
        BY TypeEquation
      <4>2. e.kind \in {"unary", "binary", "quantifier", "temporal", "primitive"}
        BY <3>2 DEF Operands
      <4>3. CASE e.kind = "unary"
        BY <1>1, <3>2, <4>1, <4>3 DEF TypeBy, Operands, UnaryType, Numbers
      <4>4. CASE e.kind = "binary"
        <5>1. BinaryType(e.operator, Type[e.left], Type[e.right]) # "none" /\ x \in {e.left, e.right}
          BY <1>1, <3>2, <4>1, <4>4 DEF TypeBy, Operands
        <5> QED BY <5>1, BinaryTypes DEF Types, Numbers
      <4>5. CASE e.kind \in {"quantifier", "temporal"}
        BY <1>1, <3>2, <4>1, <4>5 DEF TypeBy, Operands, BoolIf
      <4>6. CASE e.kind = "primitive"
        BY <1>1, <3>2, <4>1, <4>6 DEF TypeBy, Operands
      <4> QED BY <4>2, <4>3, <4>4, <4>5, <4>6
    <3> QED BY <1>1, <3>2, <3>3
  <2> QED BY <2>1, <2>2
<1>2. \A e \in Proposal : Operands(e) \subseteq G => e \in G
  BY <1>1
<1> HIDE DEF G
<1>3. Proposal \subseteq G
  BY <1>2, AllProposals
<1> QED BY <1>3 DEF G

\* The two meanings of a formula that is asked about correspond, on a trace
\* t and on any u that gives the solver the same bits.
THEOREM RootAgrees ==
  ASSUME NEW e \in Proposal, Type[e] = "bool", Scoped[<<e, Unbound>>], Ordinary(e),
         NEW length \in (Nat \ {0}) \cup {None}, HasTemporal(e) => length # None,
         NEW t \in Traces(e, length), LowerCase(t),
         NEW u, \A x \in DOMAIN t : Bits(Table[x[1]], u[x]) = Bits(Table[x[1]], t[x])
  PROVE  Agree("bool", Evaluated(e, t, length), Translated(e, u, length))
<1> DEFINE positions == Positions(e, length)
<1>1. positions \in SUBSET Nat /\ 0 \in positions
  BY DEF Positions
<1>2. Watched(e, t, u, length, positions)
  <2> SUFFICES ASSUME NEW part \in Parts[e]
               PROVE  /\ part.kind = "symbol" =>
                           \A i \in positions :
                             LET v == t[<<part.id, part.state, i>>]
                                 w == u[<<part.id, part.state, i>>]
                             IN /\ v \in Values(Type[part]) /\ Bits(Type[part], w) = Bits(Type[part], v)
                                /\ Type[part] = "address" => v % 2 = 0
                      /\ part.kind = "temporal" => length # None /\ positions = 0 .. length - 1
    BY DEF Watched
  <2>1. part.kind = "temporal" => length # None /\ positions = 0 .. length - 1
    BY DEF HasTemporal, Positions
  <2>2. ASSUME part.kind = "symbol", NEW i \in positions
        PROVE  LET v == t[<<part.id, part.state, i>>]
                   w == u[<<part.id, part.state, i>>]
               IN /\ v \in Values(Type[part]) /\ Bits(Type[part], w) = Bits(Type[part], v)
                  /\ Type[part] = "address" => v % 2 = 0
    <3> DEFINE symbols == {x \in Parts[e] : x.kind = "symbol"}
               places == {<<s.id, s.state, k>> : s \in symbols, k \in positions}
               place == <<part.id, part.state, i>>
    <3>1. place \in places /\ place[1] = part.id
      BY <2>2
    <3>2. DOMAIN t = places /\ \A x \in places : t[x] \in Values(Table[x[1]])
      BY DEF Traces
    <3>3. Type[part] = Table[part.id]
      <4>1. part \in Proposal /\ Type[part] # "none"
        BY PartsTyped
      <4>2. Type[part] = TypeBy(Type, part)
        BY <4>1, TypeEquation
      <4> QED BY <2>2, <4>1, <4>2 DEF TypeBy, Among
    <3> HIDE DEF places, place
    <3>4. /\ t[place] \in Values(Type[part]) /\ Bits(Type[part], u[place]) = Bits(Type[part], t[place])
          /\ Type[part] = "address" => t[place] % 2 = 0
      BY <3>1, <3>2, <3>3 DEF LowerCase
    <3> QED BY <3>4 DEF place
  <2> QED BY <2>1, <2>2
<1>3. length \in Nat \cup {None}
  OBVIOUS
<1>4. PICK f : Evaluated(e, t, length) = f[<<e, Unbound, 0>>] /\ Evaluates(f, t, length)
  BY <1>3, EvaluatedEquation
<1>5. PICK g : Translated(e, u, length) = g[<<e, Unbound, 0>>] /\ Translates(g, u, length)
  BY <1>3, TranslatedEquation
<1> HIDE DEF positions
<1>6. Sensible(e, t, u, length, positions)
  BY <1>2 DEF Sensible
<1>7. Corresponds(e, f, g, positions)
  BY <1>1, <1>3, <1>4, <1>5, <1>6, Correspondence
<1>8. Unbound \in Scope /\ Unbound \in Binding /\ Matches(Unbound, Unbound)
  BY DEF Unbound, Scope, Binding, Matches
<1> QED BY <1>1, <1>4, <1>5, <1>7, <1>8 DEF Corresponds

\* What a primitive stands for is a formula of the same type.
LEMMA ExpressionFacts ==
  \A e \in Proposal : /\ Expression[e] \in Proposal /\ Type[Expression[e]] = Type[e]
                      /\ Scoped[<<e, Unbound>>] => Scoped[<<Expression[e], Unbound>>]
<1> DEFINE G == {e \in Proposal : /\ Expression[e] \in Proposal /\ Type[Expression[e]] = Type[e]
                                  /\ Scoped[<<e, Unbound>>] => Scoped[<<Expression[e], Unbound>>]}
<1>1. ASSUME NEW e \in Proposal, Operands(e) \subseteq G
      PROVE  /\ Expression[e] \in Proposal /\ Type[Expression[e]] = Type[e]
             /\ Scoped[<<e, Unbound>>] => Scoped[<<Expression[e], Unbound>>]
  <2>1. CASE e.kind = "primitive"
    <3>1. Operands(e) = {Expanded(e)} /\ Expression[e] = Expression[Expanded(e)]
      BY <2>1, ExpressionEquation DEF Operands, ExpressionBy
    <3>2. Type[e] = Type[Expanded(e)]
      BY <2>1, TypeEquation DEF TypeBy
    <3>3. Scoped[<<e, Unbound>>] => Scoped[<<Expanded(e), Unbound>>]
      <4>1. Unbound \in Scope
        BY DEF Unbound, Scope
      <4>2. Scoped[<<e, Unbound>>] = ScopedBy(Scoped, e, Unbound)
        BY <4>1, ScopedEquation
      <4> QED BY <2>1, <3>1, <4>2 DEF ScopedBy
    <3> QED BY <1>1, <3>1, <3>2, <3>3
  <2>2. CASE e.kind # "primitive"
    BY <2>2, ExpressionEquation DEF ExpressionBy
  <2> QED BY <2>1, <2>2
<1>2. \A e \in Proposal : Operands(e) \subseteq G => e \in G
  BY <1>1
<1> HIDE DEF G
<1>3. Proposal \subseteq G
  BY <1>2, AllProposals
<1> QED BY <1>3 DEF G

\* The antecedent of an implication is a formula like the implication.
LEMMA Antecedent ==
  ASSUME NEW e \in Proposal, Type[e] = "bool", Scoped[<<e, Unbound>>],
         e.kind = "binary", e.operator = "implies"
  PROVE  /\ e.left \in Proposal /\ Type[e.left] = "bool" /\ Scoped[<<e.left, Unbound>>]
         /\ Ordinary(e) => Ordinary(e.left)
<1>1. e.left \in Operands(e) /\ e.left \in Proposal
  <2>1. e.left \in Operands(e)
    BY DEF Operands
  <2> QED BY <2>1, PartsAreProposals
<1>2. Type[e.left] = "bool"
  <2>1. BinaryType("implies", Type[e.left], Type[e.right]) # "none"
    BY TypeEquation DEF TypeBy
  <2> QED BY <2>1, BinaryTypes DEF Logical, Equality, Ordering, Arithmetic, BitOps
<1>3. Scoped[<<e.left, Unbound>>]
  <2>1. Unbound \in Scope
    BY DEF Unbound, Scope
  <2>2. ScopedBy(Scoped, e, Unbound)
    BY <2>1, ScopedEquation
  <2> QED BY <1>1, <2>2 DEF ScopedBy
<1>4. Parts[e.left] \subseteq Parts[e]
  BY <1>1, PartsFacts
<1> QED BY <1>1, <1>2, <1>3, <1>4 DEF Ordinary

----------------------------------------------------------------------------
(* The specification                                                       *)

(* The proposals that are formulas, closed and of type bool. *)
Formula == {e \in Proposal : Type[e] = "bool" /\ Scoped[<<e, Unbound>>]}

(* The solver was asked a question that it can be asked. *)
Askable ==
  /\ answer.query = "antecedent" => Implication
  /\ HasTemporal(Subject(answer.query)) => Length # None

SolverStatus ==
  IF \E t \in Traces(Subject(answer.query), Length) : IsModel(answer.query, t) THEN "sat" ELSE "bounded_unsat"

Results == {At(invariant.left, t) : t \in Traces(invariant.left, Length)}

XlirInv ==
  /\ question \in Question
  /\ invariant \in {None, Rejected} \cup Formula
  /\ lowered # None \/ answer # None => Usable
  /\ lowered = "term" => Lowers(invariant, Length)
  /\ answer # None =>
       /\ answer \in [query : {"violation", "antecedent"}, complete : BOOLEAN,
                      status : {"unsupported", "timeout", "unknown", "crash", "solving", "sat", "bounded_unsat"}]
       /\ answer.complete => answer.status = SolverStatus
       /\ Solving \/ answer.complete => Askable
  /\ finite # None =>
       /\ answer # None /\ answer.query = "antecedent" /\ ~Solving
       /\ finite.status = "bounded_unsat" => Results \subseteq {Value(0)}

(* What a step that keeps the question and the formula keeps with them. *)
LEMMA SameFormula ==
  ASSUME UNCHANGED <<question, invariant>>
  PROVE  /\ Length' = Length /\ (Usable' <=> Usable) /\ (Implication' <=> Implication) /\ Results' = Results
         /\ Lowers(invariant, Length)' = Lowers(invariant, Length)
         /\ \A query : /\ Subject(query)' = Subject(query)
                       /\ \A t : IsModel(query, t)' <=> IsModel(query, t)
BY DEF Length, Usable, Implication, Results, Subject, IsModel, Solved, Goal, At

LEMMA SameAnswer ==
  ASSUME UNCHANGED <<question, invariant, answer>>
  PROVE  /\ (Solving' <=> Solving) /\ (Askable' <=> Askable) /\ SolverStatus' = SolverStatus
<1>1. Length' = Length /\ (Implication' <=> Implication)
      /\ \A query : Subject(query)' = Subject(query) /\ \A t : IsModel(query, t)' <=> IsModel(query, t)
  BY SameFormula
<1> QED BY <1>1 DEF Solving, Askable, SolverStatus

LEMMA XlirInitInv == XlirInit => XlirInv
BY NoneIsNoLowering DEF XlirInit, XlirInv

LEMMA CompileInv ==
  ASSUME XlirInv, CompileProposal
  PROVE  XlirInv'
<1>1. question' \in Question /\ UNCHANGED <<question, lowered, answer, finite>> /\ invariant = None
  BY DEF XlirInv, CompileProposal
<1>2. invariant' \in {None, Rejected} \cup Formula
  <2>1. question.raw \in Proposal
    BY QuestionsAreAsked DEF XlirInv
  <2> QED BY <2>1, ExpressionFacts DEF CompileProposal, Compile, Formula
<1>3. lowered = None /\ answer = None /\ finite = None
  BY <1>1 DEF XlirInv, Usable
<1> QED BY <1>1, <1>2, <1>3, NoneIsNoLowering DEF XlirInv

LEMMA LowerInv ==
  ASSUME XlirInv, Lower
  PROVE  XlirInv'
<1>1. UNCHANGED <<question, invariant, answer, finite>> /\ Usable /\ answer = None
      /\ lowered' = IF Lowers(invariant, Length) THEN "term" ELSE "unsupported"
  BY DEF Lower
<1>2. finite = None
  BY <1>1 DEF XlirInv
<1>3. Usable' /\ Lowers(invariant, Length)' = Lowers(invariant, Length)
  BY <1>1, SameFormula
<1> QED BY <1>1, <1>2, <1>3 DEF XlirInv

LEMMA AskInv ==
  ASSUME XlirInv, NEW query \in {"violation", "antecedent"}, NEW elapsed, NEW cancelled, Ask(query, elapsed, cancelled)
  PROVE  XlirInv'
<1> DEFINE status == IF query = "antecedent" /\ ~Implication THEN "unsupported"
                     ELSE IF elapsed >= CampaignDeadline THEN "timeout"
                     ELSE IF cancelled THEN "unknown"
                     ELSE IF HasTemporal(Subject(query)) /\ Length = None THEN "unsupported"
                     ELSE "solving"
<1>1. UNCHANGED <<question, invariant, lowered, finite>> /\ Usable /\ lowered = None /\ answer = None
      /\ answer' = [query |-> query, status |-> status, complete |-> FALSE]
  BY DEF Ask, Incomplete
<1>2. status \in {"unsupported", "timeout", "unknown", "solving"}
      /\ (status = "solving" => (query = "antecedent" => Implication) /\ (HasTemporal(Subject(query)) => Length # None))
  OBVIOUS
<1> HIDE DEF status
<1>3. answer'.query = query /\ answer'.status = status /\ answer'.complete = FALSE
      /\ answer' \in [query : {"violation", "antecedent"}, complete : BOOLEAN,
                      status : {"unsupported", "timeout", "unknown", "crash", "solving", "sat", "bounded_unsat"}]
  BY <1>1, <1>2
<1>4. Usable' /\ Length' = Length /\ (Implication' <=> Implication) /\ Subject(query)' = Subject(query)
  BY <1>1, SameFormula
<1>5. Solving' => Askable'
  <2>1. Solving' => status = "solving"
    BY <1>3 DEF Solving
  <2>2. Askable' <=> (query = "antecedent" => Implication') /\ (HasTemporal(Subject(query)') => Length' # None)
    BY <1>3 DEF Askable, Subject
  <2> QED BY <1>2, <1>4, <2>1, <2>2
<1>6. finite = None /\ lowered' # "term"
  BY <1>1, NoneIsNoLowering DEF XlirInv
<1> QED BY <1>1, <1>3, <1>4, <1>5, <1>6 DEF XlirInv

LEMMA DecideInv ==
  ASSUME XlirInv, SolverDecides
  PROVE  XlirInv'
<1>1. UNCHANGED <<question, invariant, lowered, finite>> /\ Solving /\ answer # None
      /\ answer' = [answer EXCEPT !.complete = TRUE, !.status = SolverStatus]
  BY DEF SolverDecides, Solving, SolverStatus
<1>2. SolverStatus \in {"sat", "bounded_unsat"}
  BY DEF SolverStatus
<1>3. answer \in [query : {"violation", "antecedent"}, complete : BOOLEAN,
                  status : {"unsupported", "timeout", "unknown", "crash", "solving", "sat", "bounded_unsat"}]
      /\ Askable /\ finite = None /\ Usable
  BY <1>1 DEF XlirInv
<1>4. answer'.query = answer.query /\ answer'.status = SolverStatus /\ answer'.complete = TRUE
      /\ answer' \in [query : {"violation", "antecedent"}, complete : BOOLEAN,
                      status : {"unsupported", "timeout", "unknown", "crash", "solving", "sat", "bounded_unsat"}]
  BY <1>1, <1>2, <1>3
<1>5. /\ Usable' /\ Length' = Length /\ (Implication' <=> Implication)
      /\ Lowers(invariant, Length)' = Lowers(invariant, Length)
      /\ Subject(answer.query)' = Subject(answer'.query)
      /\ \A query : Subject(query)' = Subject(query) /\ \A t : IsModel(query, t)' <=> IsModel(query, t)
  BY <1>1, <1>3, SameFormula
<1>6. SolverStatus' = SolverStatus /\ Askable'
  BY <1>3, <1>4, <1>5 DEF SolverStatus, Askable
<1> QED BY <1>1, <1>3, <1>4, <1>5, <1>6 DEF XlirInv

LEMMA GiveUpInv ==
  ASSUME XlirInv, SolverGivesUp
  PROVE  XlirInv'
<1>1. UNCHANGED <<question, invariant, lowered, finite>> /\ Solving /\ answer # None
  BY DEF SolverGivesUp, Solving
<1>2. PICK status \in {"unknown", "timeout", "crash"} : answer' = [query |-> answer.query, status |-> status, complete |-> FALSE]
  BY DEF SolverGivesUp, Incomplete
<1>3. answer.query \in {"violation", "antecedent"} /\ finite = None /\ Usable
  BY <1>1 DEF XlirInv
<1>4. answer'.status = status /\ answer'.complete = FALSE
      /\ answer' \in [query : {"violation", "antecedent"}, complete : BOOLEAN,
                      status : {"unsupported", "timeout", "unknown", "crash", "solving", "sat", "bounded_unsat"}]
  BY <1>2, <1>3
<1>5. Usable' /\ Lowers(invariant, Length)' = Lowers(invariant, Length)
  BY <1>1, <1>3, SameFormula
<1>6. ~Solving'
  BY <1>4 DEF Solving
<1> QED BY <1>1, <1>3, <1>4, <1>5, <1>6 DEF XlirInv

LEMMA CheckInv ==
  ASSUME XlirInv, NEW exhaustive \in BOOLEAN, CheckAntecedent(exhaustive)
  PROVE  XlirInv'
<1>1. UNCHANGED <<question, invariant, lowered, answer>> /\ Usable
      /\ answer # None /\ answer.query = "antecedent" /\ ~Solving
  BY DEF CheckAntecedent
<1>2. finite'.status = "bounded_unsat" => Results \subseteq {Value(0)}
  BY DEF CheckAntecedent, Results
<1>3. Usable' /\ Lowers(invariant, Length)' = Lowers(invariant, Length) /\ Results' = Results
  BY <1>1, SameFormula
<1>4. (Solving' <=> Solving) /\ (Askable' <=> Askable) /\ SolverStatus' = SolverStatus
  BY <1>1, SameAnswer
<1> QED BY <1>1, <1>2, <1>3, <1>4 DEF XlirInv

LEMMA StutterInv ==
  ASSUME XlirInv, UNCHANGED xlirVars
  PROVE  XlirInv'
<1>1. UNCHANGED <<question, invariant, lowered, answer, finite>>
  BY DEF xlirVars
<1>2. (Usable' <=> Usable) /\ Lowers(invariant, Length)' = Lowers(invariant, Length) /\ Results' = Results
  BY <1>1, SameFormula
<1>3. (Solving' <=> Solving) /\ (Askable' <=> Askable) /\ SolverStatus' = SolverStatus
  BY <1>1, SameAnswer
<1> QED BY <1>1, <1>2, <1>3 DEF XlirInv

\* What the checks of one proposal keep: the solver is asked only about a
\* formula of type bool without free variables, and only what it can be
\* asked; a complete answer says whether there is a model; and a finite check
\* that found the antecedent unreachable has seen it false in every trace.
THEOREM XlirInvariance == XlirSpec => []XlirInv
<1>1. ASSUME XlirInv, [XlirNext]_xlirVars PROVE XlirInv'
  BY <1>1, CompileInv, LowerInv, AskInv, DecideInv, GiveUpInv, CheckInv, StutterInv DEF XlirNext
<1> QED BY <1>1, XlirInitInv, PTL DEF XlirSpec

\* Where there is a value the term is its truth value, and where the
\* constraints hold there is a value.
LEMMA TruthAgrees ==
  ASSUME NEW e \in Formula, Ordinary(e), question \in Question, HasTemporal(e) => Length # None,
         NEW t \in Traces(e, Length), LowerCase(t),
         NEW u, \A x \in DOMAIN t : Bits(Table[x[1]], u[x]) = Bits(Table[x[1]], t[x])
  PROVE  /\ At(e, t).ok \in BOOLEAN /\ Solved(e, u).sound \in BOOLEAN
         /\ At(e, t).ok => At(e, t) = Value(At(e, t).v) /\ At(e, t).v \in {0, 1} /\ Solved(e, u).term = At(e, t).v
         /\ Solved(e, u).sound => At(e, t).ok
<1>1. Length \in (Nat \ {0}) \cup {None}
  BY QuestionsAreAsked DEF Length
<1>2. Agree("bool", Evaluated(e, t, Length), Translated(e, u, Length))
  BY <1>1, RootAgrees DEF Formula
<1>3. Agree("bool", At(e, t), Solved(e, u))
  BY <1>2 DEF At, Solved
<1> QED BY <1>3, AgreeTruth

LEMMA UsableIsFormula ==
  XlirInv /\ Usable => /\ invariant \in Formula
                       /\ Implication => invariant.left \in Formula
                                         /\ (Ordinary(invariant) => Ordinary(invariant.left))
<1>1. XlirInv /\ Usable => invariant \in Formula
  BY DEF XlirInv, Usable
<1>2. invariant \in Formula /\ Implication =>
        invariant.left \in Formula /\ (Ordinary(invariant) => Ordinary(invariant.left))
  BY Antecedent DEF Formula, Implication
<1> QED BY <1>1, <1>2

\* The lowered term of an invariant has, in every trace with lower-case
\* addresses, the value the evaluator has, whenever the evaluator has one:
\* XLIRLowerer and XLIREvaluator agree on ordinary invariants.
THEOREM LoweringAgrees == XlirSpec => []LoweredAgrees
<1>1. XlirInv => LoweredAgrees
  <2> SUFFICES ASSUME XlirInv, lowered = "term", Ordinary(invariant), NEW t \in Traces(invariant, Length),
                      LowerCase(t), At(invariant, t).ok
               PROVE  Solved(invariant, t).term = At(invariant, t).v
    BY DEF LoweredAgrees
  <2>1. Usable
    BY NoneIsNoLowering DEF XlirInv
  <2>2. invariant \in Formula /\ question \in Question /\ (HasTemporal(invariant) => Length # None)
    BY <2>1, UsableIsFormula DEF XlirInv, Lowers
  <2> QED BY <2>2, TruthAgrees
<1> QED BY <1>1, XlirInvariance, PTL

\* The trace with its addresses spelled in lower case.
Lowered(t) == [x \in DOMAIN t |-> IF Table[x[1]] = "address" THEN 2 * (t[x] \div 2) ELSE t[x]]

LEMMA LoweredTrace ==
  ASSUME NEW e, NEW length, NEW u \in Traces(e, length)
  PROVE  /\ Lowered(u) \in Traces(e, length) /\ LowerCase(Lowered(u))
         /\ \A x \in DOMAIN Lowered(u) : Bits(Table[x[1]], u[x]) = Bits(Table[x[1]], Lowered(u)[x])
<1> DEFINE symbols == {part \in Parts[e] : part.kind = "symbol"}
           places == {<<s.id, s.state, i>> : s \in symbols, i \in Positions(e, length)}
           all == UNION {Values(Table[s.id]) : s \in symbols}
           t == Lowered(u)
<1>1. Traces(e, length) = {x \in [places -> all] : \A p \in places : x[p] \in Values(Table[p[1]])}
  BY DEF Traces
<1>2. \A p \in places : Values(Table[p[1]]) \subseteq all
  OBVIOUS
<1> HIDE DEF places, all
<1>3. DOMAIN u = places /\ DOMAIN t = places /\ \A p \in places : u[p] \in Values(Table[p[1]])
  BY <1>1 DEF Lowered
<1>4. ASSUME NEW p \in places, Table[p[1]] = "address"
      PROVE  /\ t[p] \in Values("address") /\ t[p] % 2 = 0
             /\ Bits("address", u[p]) = Bits("address", t[p])
  <2> DEFINE v == u[p]
             h == v \div 2
  <2>1. Values("address") = 0 .. 2 * Addresses - 1 /\ Addresses \in Nat
    BY WidthPositive DEF Values, Numbers
  <2>2. v \in 0 .. 2 * Addresses - 1 /\ t[p] = 2 * h
    BY <1>3, <1>4, <2>1 DEF Lowered
  <2> HIDE DEF v
  <2>3. h \in Nat /\ 2 * h <= v /\ (2 * h) \div 2 = h /\ (2 * h) % 2 = 0
    BY <2>1, <2>2
  <2>4. 2 * h \in 0 .. 2 * Addresses - 1
    <3> HIDE DEF h
    <3> QED BY <2>1, <2>2, <2>3
  <2>5. Bits("address", v) = h /\ Bits("address", t[p]) = h
    BY <2>2, <2>3 DEF Bits
  <2> QED BY <2>1, <2>2, <2>3, <2>4, <2>5 DEF v
<1>5. ASSUME NEW p \in places, Table[p[1]] # "address" PROVE t[p] = u[p]
  BY <1>3, <1>5 DEF Lowered
<1>6. \A p \in places : t[p] \in Values(Table[p[1]])
  BY <1>3, <1>4, <1>5
<1>7. t \in [places -> all]
  <2>1. t = [p \in places |-> t[p]]
    BY <1>3 DEF Lowered
  <2> QED BY <1>2, <1>6, <2>1
<1>8. LowerCase(t)
  BY <1>3, <1>4 DEF LowerCase
<1>9. \A p \in places : Bits(Table[p[1]], u[p]) = Bits(Table[p[1]], t[p])
  BY <1>4, <1>5
<1> QED BY <1>1, <1>3, <1>6, <1>7, <1>8, <1>9

\* A complete answer of the solver is right about the evaluator, and not
\* contradicted by a finite check of the antecedent.
THEOREM AnswersShow == XlirSpec => []SolverShows
<1>1. XlirInv => SolverShows
  <2> SUFFICES ASSUME XlirInv, answer # None, answer.complete, Ordinary(invariant)
               PROVE  LET e == Subject(answer.query)
                          wanted == Value(Goal(answer.query))
                      IN /\ \A t \in Traces(e, Length) : LowerCase(t) =>
                              IF answer.status = "sat"
                              THEN IsModel(answer.query, t) => At(e, t) = wanted
                              ELSE At(e, t) = wanted => ~Solved(e, t).sound
                         /\ finite # None /\ finite.status = "bounded_unsat" => answer.status # "sat"
    BY DEF SolverShows
  <2> DEFINE e == Subject(answer.query)
             goal == Goal(answer.query)
  <2>1. e \in Formula /\ Ordinary(e) /\ (HasTemporal(e) => Length # None) /\ question \in Question
    BY UsableIsFormula DEF XlirInv, Askable, Subject
  <2>2. goal \in {0, 1} /\ Value(goal).ok = TRUE /\ Value(goal).v = goal
    BY DEF Goal, Truth, Value
  <2> HIDE DEF e
  <2>3. ASSUME NEW t \in Traces(e, Length), LowerCase(t)
        PROVE  IF answer.status = "sat"
               THEN IsModel(answer.query, t) => At(e, t) = Value(goal)
               ELSE At(e, t) = Value(goal) => ~Solved(e, t).sound
    <3>1. /\ At(e, t).ok => At(e, t) = Value(At(e, t).v) /\ Solved(e, t).term = At(e, t).v
          /\ Solved(e, t).sound => At(e, t).ok
      BY <2>1, <2>3, TruthAgrees
    <3>2. IsModel(answer.query, t) <=> Solved(e, t).sound /\ Solved(e, t).term = goal
      BY DEF IsModel, e
    <3>3. CASE answer.status = "sat"
      BY <3>1, <3>2, <3>3
    <3>4. CASE answer.status # "sat"
      <4>1. ~IsModel(answer.query, t)
        <5>1. answer.status = SolverStatus
          BY DEF XlirInv
        <5> QED BY <3>4, <5>1 DEF SolverStatus, e
      <4>2. At(e, t) = Value(goal) => Solved(e, t).term = goal
        BY <2>2, <3>1
      <4> QED BY <3>2, <3>4, <4>1, <4>2
    <3> QED BY <3>3, <3>4
  <2>4. ASSUME finite # None, finite.status = "bounded_unsat", answer.status = "sat"
        PROVE  FALSE
    <3>1. Results \subseteq {Value(0)} /\ answer.query = "antecedent" /\ answer.status = SolverStatus
      BY <2>4 DEF XlirInv
    <3>2. e = invariant.left /\ goal = 1
      BY <3>1 DEF e, Subject, Goal, Truth
    <3>3. PICK u \in Traces(e, Length) : IsModel(answer.query, u)
      BY <2>4, <3>1 DEF SolverStatus, e
    <3>4. Solved(e, u).sound /\ Solved(e, u).term = 1
      BY <3>2, <3>3 DEF IsModel, e
    <3> DEFINE t == Lowered(u)
    <3>5. /\ t \in Traces(e, Length) /\ LowerCase(t)
          /\ \A x \in DOMAIN t : Bits(Table[x[1]], u[x]) = Bits(Table[x[1]], t[x])
      BY LoweredTrace
    <3> HIDE DEF t
    <3>6. At(e, t).ok /\ At(e, t).v = 1
      BY <2>1, <3>4, <3>5, TruthAgrees
    <3>7. At(e, t) = Value(0)
      BY <3>1, <3>2, <3>5 DEF Results
    <3> QED BY <3>6, <3>7 DEF Value
  <2> QED BY <2>3, <2>4 DEF e
<1> QED BY <1>1, XlirInvariance, PTL
=============================================================================
