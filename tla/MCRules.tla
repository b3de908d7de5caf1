------------------------------- MODULE MCRules -------------------------------
(***************************************************************************)
(* The rules of default_rules, of discrete mathematics and (MCTheories) of *)
(* set theory and order put to every question over small sets of formulas  *)
(* and records, family by family.                                          *)
(***************************************************************************)
EXTENDS RuleVerdicts, MCTheories

P == Atom("P", <<>>)
Q == Atom("Q", <<>>)
c == Const("c")
d == Const("d")
e == Const("e")
x == Var("x")
y == Var("y")
z == Var("z")
F(t) == Atom("F", <<t>>)
G(t) == Atom("G", <<t>>)
R(s, t) == Related("R", s, t)
AllF  == ForAll("x", F(x))
SomeF == Exists("x", F(x))

Context(H) == [hypotheses |-> H, arbitrary |-> {"c"}, constrained |-> {}, declared |-> {}]
(* Formulas from formulas: the candidates themselves are the hypotheses.   *)
FromCandidates(cs) == {Context(ToSet(cs))}

(* Connectives.                                                            *)
ConnectiveRules ==
  {"ConjunctionElimination", "ConjunctionIntroduction", "BiconditionalElimination", "Reiteration",
   "ModusPonens", "ModusTollens", "DisjunctionIntroduction", "BiconditionalIntroduction",
   "DisjunctiveSyllogism", "HypotheticalSyllogism", "Explosion"}
ConnectiveFormulas ==
  {P, Q, Not(P), Not(Q), And(<<P, Q>>), Or(<<P, Q>>), Or(<<Q, P>>), Implies(P, Q), Implies(Q, P),
   Implies(P, P), Implies(Not(Q), Not(P)), Iff(P, Q), Iff(Q, P)}
ConnectiveStructures == StructuresOf(1, {"c"}, [p \in {"P", "Q"} |-> 0])

(* Quantifiers and equality.                                               *)
TermRules ==
  {"UniversalInstantiation", "UniversalModusPonens", "ExistentialIntroduction", "Reflexivity",
   "Symmetry", "Transitivity"}
TermFormulas ==
  {Equals(c, d), Equals(d, c), Equals(d, e), Equals(c, e), Equals(c, c), F(c), F(d), G(c), AllF,
   SomeF, ForAll("x", Exists("y", R(x, y))), Exists("y", R(c, y)), Exists("y", R(y, y)), R(c, d),
   ForAll("x", R(x, x)), Exists("x", R(c, x)), ForAll("x", Implies(F(x), G(x))), ForAll("x", Implies(F(x), F(d))),
   Exists("x", Equals(x, d)), ForAll("y", Equals(y, c))}
TermStructures == StructuresOf(2, {"c", "d", "e"}, [p \in {"F", "G", "R"} |-> IF p = "R" THEN 2 ELSE 1])

(* A quantifier over a body with quantifiers of its own, whose names two   *)
(* formulas may use differently.                                           *)
MatcherRules == {"UniversalInstantiation"}
MatcherFormulas(rule) ==
  {ForAll("x", ForAll("z", Exists("y", R(x, y)))), ForAll("z", Exists("y", R(c, y))),
   ForAll("y", Exists("z", R(c, y))), ForAll("y", Exists("z", R(c, z)))}
MatcherStructures == StructuresOf(2, {"c"}, [p \in {"R"} |-> 2])

(* Rules that consume subproofs, with c the constant that may be fresh.    *)
(* outer is what stood above the subproof, and what a declaration says of  *)
(* a constrained c is that F holds of it.                                  *)
Flag == Atom("c", <<>>)
Pinned == Implies(F(c), Equals(c, d))
OnlyD   == And(<<F(d), ForAll("y", Implies(F(y), Equals(y, d)))>>)
OnlyOne == Exists("x", And(<<F(x), ForAll("y", Implies(F(y), Equals(y, x)))>>))

Record(assumption, conclusion, outer) ==
  [assumption |-> assumption, conclusion |-> conclusion, fresh |-> assumption = Flag,
   inner |-> {assumption, conclusion}, outer |-> outer]

SubproofRules ==
  {"ConditionalIntroduction", "ProofByContradiction", "DisjunctionElimination",
   "UniversalGeneralization", "ExistentialElimination", "Uniqueness"}
Lines == {F(c), F(d), AllF, SomeF, And(<<F(d), Not(F(d))>>)}
Records == {Record(a, b, {}) : a \in {Flag, F(c), F(d), Not(F(c))}, b \in Lines}
Nested  == {Record(a, b, {F(c)}) : a \in {Flag, F(c)}, b \in {F(c), AllF}}
Cases   == {Record(a, b, {}) : a \in {F(c), F(d)}, b \in {F(d), SomeF}}
SubproofCandidates(rule) ==
  CASE rule = "Uniqueness"             -> {SomeF, Pinned, Implies(F(c), Equals(d, c)), Implies(F(d), Equals(d, c))}
    [] rule = "DisjunctionElimination" -> {Or(<<F(c), F(d)>>)} \cup Cases
    [] rule = "ExistentialElimination" -> {SomeF, Exists("y", Equals(y, c))} \cup Records \cup Nested
    [] OTHER                           -> Records \cup Nested
SubproofClaims(rule) ==
  IF rule = "Uniqueness" THEN {OnlyOne}
  ELSE {F(c), F(d), AllF, SomeF, ForAll("y", F(y)), Not(F(c)), Implies(F(c), F(d)), Implies(F(d), AllF)}
SubproofContexts ==
  {[Context(H) EXCEPT !.constrained = N, !.arbitrary = A] :
     H \in {{}, {F(c)}, {F(d)}, {SomeF}, {AllF}, {OnlyD}}, N \in {{}, {"c"}}, A \in {{}, {"c"}}}
SubproofStructures == StructuresOf(2, {"c", "d"}, [p \in {"F"} |-> 1])

(* Relations on X.                                                         *)
In(t) == Related("In", t, Const("X"))
RelationFormulas ==
  {R(c, c), R(c, d), R(d, c), R(d, d), In(c), In(d), Equals(c, d), Not(R(c, c)), Not(R(d, c)),
   Or(<<R(c, d), R(d, c)>>)}
RelationOn(X, properties) ==
  [name |-> "R", kind |-> "predicate", arity |-> 2, refers |-> {X}, properties |-> properties]
RelationContexts(cs) ==
  {[Context(ToSet(cs)) EXCEPT !.declared = {RelationOn(X, {p})}] :
     X \in {"X", "Y"}, p \in {"reflexive", "irreflexive", "symmetric", "antisymmetric", "asymmetric",
                           "transitive", "total"}}
RelationStructures ==
  StructuresOf(2, {"c", "d", "X", "Y"}, [p \in {"R", "In"} |-> 2])

(* Part by part: equivalent formulas over two propositions, and formulas   *)
(* over a function, in which the type Nat is what Zero and Succ generate.  *)
MCFormulasFrom(S) ==
  {Not(f) : f \in S} \cup {Implies(f, g) : f, g \in S}
  \cup {Node(op, "", <<f, g>>) : op \in {"and", "or"}, f, g \in S}
Literals == {P, Q, Not(P), Not(Q)}
EquivalenceFormulas ==
  LET pairs == MCFormulasFrom(Literals)
  IN  pairs \cup {Not(f) : f \in pairs} \cup {Iff(P, f) : f \in pairs}
      \cup {Node(op, "", <<P, f>>) : op \in {"and", "or"}, f \in {And(<<Q, P>>), Or(<<Q, P>>)}}
      \cup {Node(op, "", <<f, g>>) : op \in {"and", "or"},
               f \in {Or(<<P, Q>>), And(<<P, Q>>)}, g \in {Or(<<P, P>>), And(<<P, P>>), Or(<<P, Q>>)}}

f1(t) == Fun("f", <<t>>)
SubstitutionFormulas ==
  {Equals(c, d), Equals(f1(c), d), Equals(d, f1(f1(c))), F(c), F(d), F(f1(c)), F(f1(d)),
   F(f1(f1(c))), And(<<F(c), F(d)>>), And(<<F(d), F(d)>>), Not(F(f1(c))), Not(F(f1(d))),
   ForAll("x", Equals(f1(x), d)), ForAll("x", Equals(f1(x), c)), Exists("x", Equals(x, c)),
   ForAll("x", Implies(Equals(x, c), F(c))), ForAll("x", Implies(Equals(x, c), F(d)))}
SubstitutionStructures ==
  WithFunctions(StructuresOf(2, {"c", "d"}, [p \in {"F"} |-> 1]), 2, [f \in {"f"} |-> 1])

(* What is claimed of every number, x being the number; n may be a name    *)
(* that this uses already.                                                 *)
Claimed ==
  {F(x), Exists("n", R(x, Var("n"))), ForAll("n", Implies(R(x, Var("n")), F(Var("n")))), Not(F(x))}
InductionClaim(q) == ForAll("x", Implies(T(x), q))
InductionCandidates ==
  {Substitute(q, "x", Zero) : q \in Claimed}
  \cup {StepOf(q, "x", n) : q \in Claimed, n \in {"x", "n", "m"}}
InductionStructures ==
  {m \in WithFunctions(StructuresOf(2, {"Zero"}, [p \in {"F", "R", "Nat"} |-> IF p = "R" THEN 2 ELSE 1]),
                       2, [f \in {"Succ"} |-> 1]) :
     LET zero == m.object["Zero"]
     IN  m.holds["Nat"] = {<<v>> : v \in {zero, m.apply["Succ"][<<zero>>]}}}

(* Algebra: equations between terms over a unary and a binary function.    *)
g2(s, t) == Fun("g", <<s, t>>)
f3(t) == f1(f1(f1(t)))
AlgebraEquations ==
  {Equals(c, d), Equals(d, c), Equals(f1(c), d), Equals(f1(f1(c)), c), Equals(f3(c), c), Equals(f1(f3(c)), c),
   Equals(g2(c, d), d), F(c)}
AlgebraClaims ==
  {Equals(c, d), Equals(c, f1(c)), Equals(f1(d), f1(c)), Equals(f1(f1(c)), f1(f1(d))),
   Equals(d, f1(f1(c))), Equals(g2(c, d), g2(d, d)), Equals(g2(c, d), c), F(d)}
AlgebraTerms == UNION {{n \in Nodes(q) : IsTerm(n)} : q \in AlgebraEquations \cup AlgebraClaims}
AlgebraStructures ==
  WithFunctions(StructuresOf(2, {"c", "d"}, [p \in {"F"} |-> 1]), 2,
                [f \in {"f", "g"} |-> IF f = "f" THEN 1 ELSE 2])
MCTerm         == AlgebraTerms
MCIsApplication(t) == Is("fun", t)
MCSymbol(t)    == t.sym
MCArguments(t) == t.kids
AlgebraProblems ==
  {AlgebraProblem(cs, phi) :
     cs  \in UNION {[1 .. n -> {q \in AlgebraEquations : Is("equals", q)}] : n \in 1 .. 2},
     phi \in {q \in AlgebraClaims : Is("equals", q)}}
Kernels ==
  {{<<s, t>> \in MCTerm \X MCTerm : Value(s, m, <<>>) = Value(t, m, <<>>)} :
     m \in {m \in AlgebraStructures : m.holds["F"] = {}}}
MCProblems == AlgebraProblems
MCMeanings == Kernels

(* The families together.  Relations on X are declared for their rules,    *)
(* and a constrained c has F.                                              *)
MCAskedRules == ConnectiveRules \cup TermRules \cup SubproofRules \cup RelationRule
                \cup RewritingRule \cup {"Algebra"} \cup TheoryRule
MCCandidate(rule) ==
  CASE rule \in ConnectiveRules -> ConnectiveFormulas
    [] rule \in TermRules       -> TermFormulas
    [] rule \in SubproofRules   -> SubproofCandidates(rule)
    [] rule \in RelationRule    -> RelationFormulas
    [] rule = "PropositionalEquivalence" -> EquivalenceFormulas
    [] rule = "Substitution"    -> SubstitutionFormulas
    [] rule = "Induction"       -> InductionCandidates
    [] rule = "Algebra"         -> AlgebraEquations
    [] OTHER                    -> TheoryCandidates(rule)
MCClaim(rule) ==
  CASE rule \in SubproofRules  -> SubproofClaims(rule)
    [] rule = "Induction"       -> {InductionClaim(q) : q \in Claimed}
    [] rule = "Algebra"         -> AlgebraClaims
    [] rule \in TheoryRule      -> TheoryClaims(rule)
    [] OTHER                    -> MCCandidate(rule)
MCContexts(rule, cs) ==
  CASE rule \in SubproofRules -> SubproofContexts
    [] rule \in RelationRule  -> RelationContexts(cs)
    [] OTHER                  -> FromCandidates(cs)
MCStructures(rule) ==
  CASE rule \in ConnectiveRules -> ConnectiveStructures
    [] rule \in TermRules       -> TermStructures
    [] rule \in SubproofRules   -> SubproofStructures
    [] rule \in RelationRule    -> RelationStructures
    [] rule = "PropositionalEquivalence" -> ConnectiveStructures
    [] rule = "Substitution"    -> SubstitutionStructures
    [] rule = "Induction"       -> InductionStructures
    [] rule = "Algebra"         -> AlgebraStructures
    [] OTHER                    -> TheoryStructures(rule)
MCFits(ctx, m) ==
  /\ "c" \in ctx.constrained => HoldsIn(F(c), m)
  /\ \A D \in ctx.declared : DeclaredTrue(D, m)

MatcherContexts(rule, cs) == FromCandidates(cs)
MatcherStructuresOf(rule) == MatcherStructures
=============================================================================
