----------------------------- MODULE TheoryRules -----------------------------
(***************************************************************************)
(* The rules of source/SetTheory.py (SET_THEORY_ENVIRONMENT) and           *)
(* source/OrderTheory.py.  The rules for the axioms of set theory cite     *)
(* nothing: they read off the formula claimed whether it is the axiom, or  *)
(* the axiom at some set, under any bound names.  Which names may coincide *)
(* and which terms a quantifier may reach is then all that keeps the       *)
(* formula an axiom.                                                       *)
(***************************************************************************)
EXTENDS RewritingRules

CONSTANT MaxCardinal   \* bound: the largest cardinal a line cites
ASSUME CardinalAssumption == MaxCardinal \in Nat

Member(s, X) == Atom("In", <<s, X>>)
EmptySet     == Const("EmptySet")
IsMember(f)  == IsA("atom", f) /\ f.sym = "In" /\ Len(f.kids) = 2

(* Y is the set of the u with R; and an equation either way round.         *)
DefinedBy(Y, u, R) == ForAll(u, Iff(Member(Var(u), Y), R))
EitherWay(s, t)    == {Equals(s, t), Equals(t, s)}

TermsIn(phi)      == {n \in Nodes(phi) : IsTerm(n)}
TermNames(t)      == {n.sym : n \in {m \in Nodes(t) : m.op # "fun"}}
Outside(t, names) == FreeVariables(t) \cap names = {}

-----------------------------------------------------------------------------
(* Membership.                                                             *)

EmptySetProperty(phi) == Is("not", phi) /\ IsMember(phi.kids[1]) /\ phi.kids[1].kids[2] = EmptySet

(* match_membership_characterization: the first side that is u's           *)
(* membership in a set that does not itself depend on u.                   *)
MembershipSides(f) ==
  {i \in DOMAIN f.kids[1].kids :
     LET m == f.kids[1].kids[i]
     IN  IsMember(m) /\ m.kids[1] = Var(f.sym) /\ f.sym \notin FreeVariables(m.kids[2])}
Characterizes(f) == IsA("forall", f) /\ Is("iff", f.kids[1]) /\ MembershipSides(f) # {}

(* Negations come off what is given and what is claimed together.          *)
RECURSIVE Peeled(_, _)
Peeled(given, claimed) ==
  IF Is("not", given) /\ Is("not", claimed)
  THEN [Peeled(given.kids[1], claimed.kids[1]) EXCEPT !.negated = ~ @]
  ELSE [given |-> given, claimed |-> claimed, negated |-> FALSE]

(* f, or its mirror image when it is an equation, says P of t.             *)
SaysOf(t, u, P, f) ==
  \E g \in IF Is("equals", f) THEN EitherWay(f.kids[1], f.kids[2]) ELSE {f} :
    Readings(u, P, g, {}) \subseteq {t}

(* Membership for the whole property; or, one way only, from a disjunct to *)
(* membership.  Mutant of FromDisjunct: both ways.                         *)
FromDisjunctBothWays(concluded, negated) == TRUE
FromDisjunct(concluded, negated) == concluded # negated

ByProperty(characterization, instance, phi) ==
  /\ Characterizes(characterization)
  /\ ~ IsRecord(instance)
  /\ LET sides == characterization.kids[1].kids
         first == IF 1 \in MembershipSides(characterization) THEN 1 ELSE 2
         u     == characterization.sym
         S     == sides[first].kids[2]
         P     == sides[3 - first]
         p     == Peeled(instance, phi)
         Stated(member, other, concluded) ==
           /\ IsMember(member)
           /\ member.kids[2] = S
           /\ \/ SaysOf(member.kids[1], u, P, other)
              \/ /\ Is("or", P) /\ FromDisjunct(concluded, p.negated)
                 /\ \E i \in DOMAIN P.kids : SaysOf(member.kids[1], u, P.kids[i], other)
     IN  Stated(p.given, p.claimed, FALSE) \/ Stated(p.claimed, p.given, TRUE)

SetProperty(cs, phi) ==
  LET By(f, g) == ByProperty(f, g, phi)
  IN  InSomeOrder(cs, By)

(* subset_formula and _extract_subset_operands.                            *)
Subset(v, X, Y) == ForAll(v, Implies(Member(Var(v), X), Member(Var(v), Y)))
Includes(f, X, Y) == IsA("forall", f) /\ f = Subset(f.sym, X, Y)

SetEquality(cs, phi) ==
  LET Both(f, g) == Includes(f, phi.kids[1], phi.kids[2]) /\ Includes(g, phi.kids[2], phi.kids[1])
  IN  Is("equals", phi) /\ InSomeOrder(cs, Both)

-----------------------------------------------------------------------------
(* The axioms by name.  All the names a line binds must differ.  Mutants   *)
(* of AllDiffer and NotCaptured: any names do, any term does.              *)
AnyNames(names) == TRUE
AllDiffer(names) == IsInjective(names)

AnyTerm(t, names) == TRUE
NotCaptured(t, names) == Outside(t, names)

Separation(phi) ==
  \E Y, u \in BoundNames(phi), X \in TermsIn(phi), B \in Nodes(phi) :
    /\ AllDiffer(<<Y, u>>)
    /\ NotCaptured(X, {Y, u})
    /\ ~ IsTerm(B) /\ Y \notin FreeVariables(B)
    /\ phi = Exists(Y, DefinedBy(Var(Y), u, And(<<Member(Var(u), X), B>>)))

(* "u is s or u is t", each equation either way round.                     *)
PairClauses(u, s, t) == {Or(<<f, g>>) : f \in EitherWay(Var(u), s), g \in EitherWay(Var(u), t)}

PairingAxiom(phi) ==
  \/ \E a, b, Y, u \in BoundNames(phi) :
       /\ AllDiffer(<<a, b, Y, u>>)
       /\ \E s, t \in {a, b} :
            /\ s # t
            /\ phi = ForAll(a, ForAll(b, Exists(Y, DefinedBy(Var(Y), u,
                       Or(<<Equals(Var(u), Var(s)), Equals(Var(u), Var(t))>>)))))
  \/ \E Y, u \in BoundNames(phi), s, t \in TermsIn(phi) :
       /\ AllDiffer(<<Y, u>>)
       /\ NotCaptured(s, {Y, u}) /\ NotCaptured(t, {Y, u})
       /\ \E R \in PairClauses(u, s, t) : phi = Exists(Y, DefinedBy(Var(Y), u, R))

(* The rule of one line "There is a set W = {s, t}", whose claim is the    *)
(* property of the constant W the line declares.                           *)
PairingWitness(phi) ==
  \E u \in BoundNames(phi), W, s, t \in TermsIn(phi) :
    /\ Is("const", W)
    /\ W.sym \notin TermNames(s) \cup TermNames(t)
    /\ \E R \in PairClauses(u, s, t) : phi = DefinedBy(W, u, R)

(* Union and PowerSet: the axiom in full, about the X it quantifies, or    *)
(* its instance at a set (_split_defined_set, _is_the_axioms_set).         *)
UnionOf(Y, u, v, X) ==
  Exists(Y, DefinedBy(Var(Y), u, Exists(v, And(<<Member(Var(v), X), Member(Var(u), Var(v))>>))))
PowerSetOf(Y, u, w, X) == Exists(Y, DefinedBy(Var(Y), u, Subset(w, Var(u), X)))

InFullOrAtASet(phi, Axiom(_, _, _, _)) ==
  \E Y, u, v \in BoundNames(phi) :
    \/ \E X \in BoundNames(phi) :
         AllDiffer(<<X, Y, u, v>>) /\ phi = ForAll(X, Axiom(Y, u, v, Var(X)))
    \/ \E t \in TermsIn(phi) :
         AllDiffer(<<Y, u, v>>) /\ NotCaptured(t, {Y, u, v}) /\ phi = Axiom(Y, u, v, t)

UnionAxiom(phi)    == InFullOrAtASet(phi, UnionOf)
PowerSetAxiom(phi) == InFullOrAtASet(phi, PowerSetOf)

(* Extensionality, Foundation, Choice: one sentence each, up to the names  *)
(* it binds.  mem is membership between variables.                         *)
mem(a, b) == Member(Var(a), Var(b))

Extensionality ==
  {ForAll("x", ForAll("y", Implies(ForAll("z", sides), Equals(Var("x"), Var("y"))))) :
     sides \in {Iff(mem("z", "x"), mem("z", "y")), Iff(mem("z", "y"), mem("z", "x"))}}

Foundation ==
  {ForAll("x", Implies(
     Exists("y", mem("y", "x")),
     Exists("y", And(<<mem("y", "x"), Not(Exists("z", And(<<mem("z", "y"), mem("z", "x")>>)))>>))))}

Choice ==
  LET Nonempty == ForAll("A", Implies(mem("A", "X"), Exists("a", mem("a", "A"))))
      Disjoint == ForAll("A", ForAll("B", Implies(
                    And(<<mem("A", "X"), mem("B", "X"), Not(Equals(Var("A"), Var("B")))>>),
                    Not(Exists("c", And(<<mem("c", "A"), mem("c", "B")>>))))))
      Selector == Exists("C", ForAll("A", Implies(mem("A", "X"),
                    Exists("a", And(<<mem("a", "A"), mem("a", "C"),
                      ForAll("b", Implies(And(<<mem("b", "A"), mem("b", "C")>>),
                                          Equals(Var("b"), Var("a"))))>>)))))
  IN  {ForAll("X", Implies(And(<<Nonempty, Disjoint>>), Selector))}

ExactAxiom(axioms, phi) == \E axiom \in axioms : AlphaEq(phi, axiom)

(* X contains the empty set and with each y the union of y and {y}.        *)
SuccessorClauses(u, y) ==
  {Or(<<mem(u, y), Equals(Var(u), Var(y))>>), Or(<<Equals(Var(u), Var(y)), mem(u, y)>>)}
InfiniteSet(X, y, S, u, R) ==
  Exists(X, And(<<Member(EmptySet, Var(X)),
    ForAll(y, Implies(mem(y, X),
      Exists(S, And(<<DefinedBy(Var(S), u, R), mem(S, X)>>))))>>))

InfinityAxiom(phi) ==
  \E X, y, S, u \in BoundNames(phi) :
    /\ AllDiffer(<<X, y, S, u>>)
    /\ \E R \in SuccessorClauses(u, y) : phi = InfiniteSet(X, y, S, u, R)

(* The image C of A under a B that relates each x in A to one y.  The      *)
(* uniqueness clause has B with z for y, by a substitution that does not   *)
(* rename: z is not free in B, but B may bind it.                          *)
ImageExists(x, y, z, C, A, B) ==
  Implies(
    ForAll(x, Implies(Member(Var(x), A),
      Exists(y, And(<<B, ForAll(z, Implies(Substitute(B, y, Var(z)), Equals(Var(z), Var(y))))>>)))),
    Exists(C, DefinedBy(Var(C), y, Exists(x, And(<<Member(Var(x), A), B>>)))))

Replacement(phi) ==
  /\ Is("implies", phi)
  /\ LET x == phi.kids[1].sym
         C == phi.kids[2].sym
     IN  \E y, z \in BoundNames(phi), A \in TermsIn(phi), B \in Nodes(phi) :
           /\ AllDiffer(<<x, y, z, C>>)
           /\ NotCaptured(A, {x, y, z, C})
           /\ ~ IsTerm(B) /\ {C, z} \cap FreeVariables(B) = {}
           /\ phi = ImageExists(x, y, z, C, A, B)

-----------------------------------------------------------------------------
(* Finite sets.  A cardinal is a constant that carries its number.         *)
Cardinal(n)  == Const(ToString(n))
Finite(X)    == Atom("Finite", <<X>>)
Infinite(X)  == Atom("Infinite", <<X>>)
OfSize(X, n) == Atom("Cardinality", <<X, Cardinal(n)>>)
PowerSet(X)  == Fun("PowerSet", <<X>>)
InEitherOrder(f, X, Y) == {Fun(f, <<X, Y>>), Fun(f, <<Y, X>>)}

(* What a bijection carries from either of its sets to the other: that P   *)
(* holds of the set, with more arguments perhaps.                          *)
Carried(cs, phi, P, more) ==
  LET Says(X) == Atom(P, <<X>> \o more)
      Along(f, g) ==
        /\ IsA("atom", g) /\ g.sym = "Bijection" /\ Len(g.kids) = 3
        /\ <<f, phi>> \in {<<Says(g.kids[2]), Says(g.kids[3])>>, <<Says(g.kids[3]), Says(g.kids[2])>>}
  IN  InSomeOrder(cs, Along)

CardinalityUnderBijection(cs, phi) ==
  \E n \in 0 .. MaxCardinal : Carried(cs, phi, "Cardinality", <<Cardinal(n)>>)

EmptySetFinite(phi)      == phi = Finite(EmptySet)
EmptySetCardinality(phi) == phi = OfSize(EmptySet, 0)

CardinalityImpliesFinite(cs, phi) ==
  \E X \in TermsIn(phi), n \in 0 .. MaxCardinal : cs[1] = OfSize(X, n) /\ phi = Finite(X)

FiniteSubset(cs, phi) ==
  LET Within(f, g) ==
        /\ IsA("atom", f) /\ Len(f.kids) = 1 /\ f = Finite(f.kids[1])
        /\ \E X \in TermsIn(phi) :
             /\ phi = Finite(X)
             /\ Includes(g, X, f.kids[1])
             /\ g.sym \notin TermNames(X) \cup TermNames(f.kids[1])
  IN  InSomeOrder(cs, Within)

(* Of two finite sets the union, the product; of one the sets below it.    *)
FiniteTogether(f, cs, phi) ==
  \E X, Y \in TermsIn(phi) :
    /\ cs = <<Finite(X), Finite(Y)>>
    /\ \E Z \in InEitherOrder(f, X, Y) : phi = Finite(Z)

FinitePowerSet(cs, phi) == \E X \in TermsIn(phi) : cs[1] = Finite(X) /\ phi = Finite(PowerSet(X))

CardinalityPowerSet(cs, phi) ==
  \E X \in TermsIn(phi), n \in 0 .. MaxCardinal :
    cs[1] = OfSize(X, n) /\ phi = OfSize(PowerSet(X), 2 ^ n)

CardinalityCartesianProduct(cs, phi) ==
  \E X, Y \in TermsIn(phi), m, n \in 0 .. MaxCardinal :
    /\ cs = <<OfSize(X, m), OfSize(Y, n)>>
    /\ \E Z \in InEitherOrder("CartesianProduct", X, Y) : phi = OfSize(Z, m * n)

(* _is_disjoint_formula.                                                   *)
AreDisjoint(f, X, Y) ==
  /\ IsA("forall", f)
  /\ \E A, B \in {X, Y} :
       {A, B} = {X, Y}
       /\ f = ForAll(f.sym, Not(And(<<Member(Var(f.sym), A), Member(Var(f.sym), B)>>)))

CardinalityDisjointUnion(cs, phi) ==
  \E k \in 1 .. 3 :
    /\ IsA("forall", cs[k])
    /\ \E X, Y \in TermsIn(phi), m, n \in 0 .. MaxCardinal :
         /\ RemoveAt(cs, k) = <<OfSize(X, m), OfSize(Y, n)>>
         /\ AreDisjoint(cs[k], X, Y)
         /\ \E Z \in InEitherOrder("Union", X, Y) : phi = OfSize(Z, m + n)

-----------------------------------------------------------------------------
(* Order on the integers.                                                  *)
Less(s, t)      == Atom("Less", <<s, t>>)
LessEqual(s, t) == Atom("LessEqual", <<s, t>>)
IsPairOf(p, f)  == IsA("atom", f) /\ f.sym = p /\ Len(f.kids) = 2

OrderTransitivity(cs, phi) ==
  /\ IsPairOf("Less", cs[1]) /\ IsPairOf("Less", cs[2])
  /\ cs[1].kids[2] = cs[2].kids[1]
  /\ phi = Less(cs[1].kids[1], cs[2].kids[2])

OrderIrreflexivity(cs, phi) ==
  \E t \in TermsIn(phi) : cs[1] = Atom("Int", <<t>>) /\ phi = Not(Less(t, t))

LessEqualDefinition(cs, phi) ==
  /\ IsPairOf("LessEqual", phi)
  /\ LET s == phi.kids[1]
         t == phi.kids[2]
     IN  cs[1] \in {Or(<<Less(s, t), Equals(s, t)>>), Or(<<Equals(s, t), Less(s, t)>>)}

-----------------------------------------------------------------------------
AxiomRule ==
  {"Separation", "Replacement", "PairingAxiom", "PairingWitness", "UnionAxiom", "PowerSetAxiom",
   "InfinityAxiom", "ExtensionalityAxiom", "FoundationAxiom", "ChoiceAxiom"}
FactRule == AxiomRule \cup {"EmptySetProperty", "EmptySetFinite", "EmptySetCardinality"}
OneLineRule ==
  {"CardinalityImpliesFinite", "FinitePowerSet", "CardinalityPowerSet", "OrderIrreflexivity",
   "LessEqualDefinition"}
TwoLineRule ==
  {"SetProperty", "SetEquality", "FiniteSubset", "FiniteUnion", "FiniteCartesianProduct",
   "FiniteUnderBijection", "InfiniteUnderBijection", "CardinalityUnderBijection",
   "CardinalityCartesianProduct", "OrderTransitivity"}
TheoryRule == FactRule \cup OneLineRule \cup TwoLineRule \cup {"CardinalityDisjointUnion"}

TheoryArity(rule) ==
  CASE rule \in FactRule    -> 0
    [] rule \in OneLineRule -> 1
    [] rule \in TwoLineRule -> 2
    [] OTHER                -> 3

SaysFact(rule, phi) ==
  CASE rule = "Separation"          -> Separation(phi)
    [] rule = "Replacement"         -> Replacement(phi)
    [] rule = "PairingAxiom"        -> PairingAxiom(phi)
    [] rule = "PairingWitness"      -> PairingWitness(phi)
    [] rule = "UnionAxiom"          -> UnionAxiom(phi)
    [] rule = "PowerSetAxiom"       -> PowerSetAxiom(phi)
    [] rule = "InfinityAxiom"       -> InfinityAxiom(phi)
    [] rule = "ExtensionalityAxiom" -> ExactAxiom(Extensionality, phi)
    [] rule = "FoundationAxiom"     -> ExactAxiom(Foundation, phi)
    [] rule = "ChoiceAxiom"         -> ExactAxiom(Choice, phi)
    [] rule = "EmptySetProperty"    -> EmptySetProperty(phi)
    [] rule = "EmptySetFinite"      -> EmptySetFinite(phi)
    [] rule = "EmptySetCardinality" -> EmptySetCardinality(phi)

AskTheory(rule, cs, phi) ==
  CASE rule \in FactRule                    -> SaysFact(rule, phi)
    [] rule = "SetProperty"                 -> SetProperty(cs, phi)
    [] rule = "SetEquality"                 -> SetEquality(cs, phi)
    [] rule = "CardinalityImpliesFinite"    -> CardinalityImpliesFinite(cs, phi)
    [] rule = "FiniteSubset"                -> FiniteSubset(cs, phi)
    [] rule = "FiniteUnion"                 -> FiniteTogether("Union", cs, phi)
    [] rule = "FiniteCartesianProduct"      -> FiniteTogether("CartesianProduct", cs, phi)
    [] rule = "FinitePowerSet"              -> FinitePowerSet(cs, phi)
    [] rule = "FiniteUnderBijection"        -> Carried(cs, phi, "Finite", <<>>)
    [] rule = "InfiniteUnderBijection"      -> Carried(cs, phi, "Infinite", <<>>)
    [] rule = "CardinalityUnderBijection"   -> CardinalityUnderBijection(cs, phi)
    [] rule = "CardinalityPowerSet"         -> CardinalityPowerSet(cs, phi)
    [] rule = "CardinalityCartesianProduct" -> CardinalityCartesianProduct(cs, phi)
    [] rule = "CardinalityDisjointUnion"    -> CardinalityDisjointUnion(cs, phi)
    [] rule = "OrderTransitivity"           -> OrderTransitivity(cs, phi)
    [] rule = "OrderIrreflexivity"          -> OrderIrreflexivity(cs, phi)
    [] rule = "LessEqualDefinition"         -> LessEqualDefinition(cs, phi)

(* The rules of a proof in any of the theories.                            *)
RuleArity(rule) == IF rule \in TheoryRule THEN TheoryArity(rule) ELSE AskArity(rule)
AskInTheory(rule, cs, phi, ctx) ==
  IF rule \in TheoryRule
  THEN Len(cs) = TheoryArity(rule) /\ AskTheory(rule, cs, phi)
  ELSE AskAny(rule, cs, phi, ctx)
=============================================================================
