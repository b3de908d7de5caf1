------------------------------ MODULE MCTheories ------------------------------
(***************************************************************************)
(* The questions MCRules puts to the rules of set theory and order, and    *)
(* the structures and the axioms their answers are measured against.       *)
(***************************************************************************)
EXTENDS TheoryRules

SetA == Const("A")
SetB == Const("B")
Closed(S) == {f \in S : IsClosed(f)}

-----------------------------------------------------------------------------
(* Lines that claim an axiom: its form under every choice of the names it  *)
(* binds, the same name twice included, at A and at the bound variables.   *)
At(names) == {SetA} \cup {Var(n) : n \in names}

(* Properties of u: bound names inside them may be those outside.          *)
PropertiesOf(u, names) ==
  {Not(mem(u, u)), Equals(Var(u), SetB)}
  \cup UNION {{Exists(w, mem(w, u)), ForAll(w, Not(mem(u, w)))} : w \in names}

SeparationLines ==
  Closed({Exists(p[1], DefinedBy(Var(p[1]), p[2], And(<<Member(Var(p[2]), X), B>>))) :
            p \in {"Y", "u"} \X {"Y", "u"}, X \in At({"Y", "u"}),
            B \in PropertiesOf("u", {"Y", "u", "w"}) \cup {Not(mem("u", "Y"))}})

PairingLines ==
  LET Names == {"a", "b", "Y", "u"}
  IN  {ForAll(p[1], ForAll(p[2], Exists(p[3], DefinedBy(Var(p[3]), p[4],
         Or(<<Equals(Var(p[4]), Var(p[i])), Equals(Var(p[4]), Var(p[3 - i]))>>))))) :
         p \in [1 .. 4 -> Names], i \in 1 .. 2}
      \cup
      Closed(UNION {{Exists(p[1], DefinedBy(Var(p[1]), p[2], R)) : R \in PairClauses(p[2], s, t)} :
               p \in {"Y", "u"} \X {"Y", "u"}, s \in At({"Y", "u"}), t \in {SetB, Var("u")}})

(* Of a pair said to be W, at W and at the bound variable too.             *)
WitnessLines ==
  UNION {{DefinedBy(Const("W"), "u", R) : R \in PairClauses("u", s, t)} :
           s, t \in {SetA, SetB, Const("W"), Var("u"), PowerSet(Var("u"))}}

AtASetLines(Axiom(_, _, _, _)) ==
  LET Names == {"X", "Y", "u", "v"}
  IN  {ForAll(p[1], Axiom(p[2], p[3], p[4], Var(p[1]))) : p \in [1 .. 4 -> Names]}
      \cup Closed({Axiom(p[1], p[2], p[3], X) : p \in [1 .. 3 -> Names \ {"X"}], X \in At(Names)})

InfinityLines ==
  UNION {{InfiniteSet(p[1], p[2], p[3], p[4], R) : R \in SuccessorClauses(p[4], p[2])} :
           p \in [1 .. 4 -> {"X", "y", "S", "u"}]}

(* Sentences shaped like Extensionality and Foundation, and Choice with    *)
(* one of its names changed.                                               *)
ExtensionalityLines ==
  {ForAll(p[1], ForAll(p[2], Implies(ForAll(p[3], Iff(mem(p[3], p[i]), mem(p[3], p[3 - i]))),
                                     Equals(Var(p[1]), Var(p[2]))))) :
     p \in [1 .. 3 -> {"x", "y", "z"}], i \in 1 .. 2}
FoundationLines ==
  {ForAll(p[1], Implies(Exists(p[2], mem(p[2], p[1])),
     Exists(p[2], And(<<mem(p[2], p[1]), Not(Exists(p[3], And(<<mem(p[3], p[2]), mem(p[3], p[1])>>)))>>)))) :
     p \in [1 .. 3 -> {"x", "y", "z"}]}
RECURSIVE Respelled(_, _, _)
Respelled(f, old, new) ==
  [f EXCEPT !.sym  = IF @ = old /\ f.op \in {"var", "forall", "exists"} THEN new ELSE @,
            !.kids = [i \in DOMAIN @ |-> Respelled(@[i], old, new)]]
ChoiceLines ==
  {Respelled(f, old, new) : f \in Choice, old \in {"X", "A", "B", "C", "a", "b", "c"},
                            new \in {"X", "A", "B", "C", "a", "b", "c", "d"}}

(* Relations of y to x; w is a name bound inside, perhaps that of the      *)
(* uniqueness clause.                                                      *)
Relations(x, y, w) == {Equals(Var(y), Var(x)), mem(y, x), Exists(w, mem(w, y)), Exists(w, And(<<mem(w, x), mem(y, w)>>))}
ReplacementLines ==
  Closed(UNION {{ImageExists(p[1], p[2], p[3], p[4], X, B) :
                   p \in [1 .. 4 -> {"x", "y", "z", "C"}], X \in At({"x", "z"})} :
                B \in UNION {Relations("x", "y", w) : w \in {"x", "y", "z", "w"}}})

(* What the axioms say, in names no line uses.                             *)
MCAxioms(rule) ==
  CASE rule = "Separation" ->
         {Exists("_Y", DefinedBy(Var("_Y"), "_u", And(<<Member(Var("_u"), SetA), B>>))) :
            B \in PropertiesOf("_u", {"_w", "_u"})}
    [] rule = "PairingAxiom" ->
         {ForAll("_a", ForAll("_b", Exists("_Y", DefinedBy(Var("_Y"), "_u",
            Or(<<Equals(Var("_u"), p[1]), Equals(Var("_u"), p[2])>>))))) :
            p \in {<<Var("_a"), Var("_b")>>, <<Var("_b"), Var("_a")>>}}
         \cup {Exists("_Y", DefinedBy(Var("_Y"), "_u", R)) : R \in PairClauses("_u", SetA, SetB)}
    [] rule = "PairingWitness" ->
         {DefinedBy(Const("W"), "_u", R) :
            R \in UNION {PairClauses("_u", s, t) : s, t \in {SetA, SetB}}}
    [] rule = "UnionAxiom" ->
         {UnionOf("_Y", "_u", "_v", SetA), ForAll("_X", UnionOf("_Y", "_u", "_v", Var("_X")))}
    [] rule = "PowerSetAxiom" ->
         {PowerSetOf("_Y", "_u", "_v", SetA), ForAll("_X", PowerSetOf("_Y", "_u", "_v", Var("_X")))}
    [] rule = "InfinityAxiom" ->
         {InfiniteSet("_X", "_y", "_S", "_u", R) : R \in SuccessorClauses("_u", "_y")}
    [] rule = "Replacement" ->
         {ImageExists("_x", "_y", "_z", "_C", SetA, B) :
            B \in UNION {Relations(r[1], r[2], w) : r \in {<<"_x", "_y">>, <<"_y", "_x">>}, w \in {"_w", "_x", "_y"}}}
    [] rule = "ExtensionalityAxiom" -> Extensionality
    [] rule = "FoundationAxiom"     -> Foundation
    [] rule = "ChoiceAxiom"         -> Choice

-----------------------------------------------------------------------------
(* The sets of rank below n, with the true membership: in them             *)
(* Extensionality, Foundation, Separation, Union and Choice hold.          *)
Rank[n \in 0 .. 3] == IF n = 0 THEN {} ELSE SUBSET Rank[n - 1]
SetStructures(constants) ==
  UNION {{[domain |-> Rank[n],
           object |-> ("EmptySet" :> {}) @@ o,
           holds  |-> [p \in {"In"} |-> {q \in Rank[n] \X Rank[n] : q[1] \in q[2]}]] :
            o \in [constants -> Rank[n]]} : n \in 1 .. 3}
TrueInSets == {"Separation", "UnionAxiom", "ExtensionalityAxiom", "FoundationAxiom", "ChoiceAxiom"}

(* A set and its defining property; inclusions.                            *)
OneTerm == Const("c")
TwoTerm == Const("d")
MembershipFormulas ==
  LET PairAB(t)  == Or(<<Equals(t, OneTerm), Equals(t, TwoTerm)>>)
      literals == {Member(t, X) : t \in {OneTerm, TwoTerm}, X \in {SetA, SetB}}
                  \cup {Equals(OneTerm, TwoTerm), Equals(TwoTerm, OneTerm), Equals(OneTerm, OneTerm),
                        PairAB(OneTerm), Not(Member(OneTerm, SetB))}
  IN  literals \cup {Not(f) : f \in literals}
      \cup {DefinedBy(SetA, "u", PairAB(Var("u"))), DefinedBy(SetA, "u", Not(Member(Var("u"), SetB))),
            ForAll("u", Iff(Equals(Var("u"), OneTerm), Member(Var("u"), SetA))),
            DefinedBy(SetA, "u", Or(<<Member(OneTerm, SetB), Equals(Var("u"), TwoTerm)>>)),
            DefinedBy(Var("u"), "u", Equals(Var("u"), OneTerm))}
EmptyLines == {Not(Member(t, X)) : t \in {SetA, EmptySet}, X \in {EmptySet, SetA}} \cup {Member(SetA, EmptySet)}
Inclusions == {Subset(v, X, Y) : v \in {"v", "w"}, X, Y \in {SetA, SetB, EmptySet}}
Equations  == {Equals(X, Y) : X, Y \in {SetA, SetB, EmptySet}}

-----------------------------------------------------------------------------
(* Finite sets and others.  A set is a set of numbers, one with 0 in it is *)
(* infinite; the union of two is what it is, of a power set and a product  *)
(* only the size is kept.  The elements and the numerals are further sets. *)
Base       == SUBSET (0 .. 2)
Sizes      == 0 .. 4
OfSizeN(n) == 11 .. 10 + n
Together(p) == p[1] \cup p[2]
SetsBelow(p) == IF 0 \in p[1] THEN {0} ELSE OfSizeN(2 ^ Cardinality(p[1]))
Product(p) ==
  IF {} \in {p[1], p[2]} THEN {}
  ELSE IF 0 \in Together(p) THEN {0}
  ELSE OfSizeN(Cardinality(p[1]) * Cardinality(p[2]))
AnySet == Base \cup {OfSizeN(n) : n \in 0 .. 4}
SameSize(X, Y) == (0 \in X) = (0 \in Y) /\ (0 \notin X => Cardinality(X) = Cardinality(Y))

FiniteStructures ==
  {[domain |-> Base \cup {{-1}, {-2}, {-3}},
    object |-> [k \in {"A", "B", "EmptySet", "f"} \cup {ToString(n) : n \in Sizes} |->
                  CASE k = "A" -> X [] k = "B" -> Y [] k = "EmptySet" -> {} [] k = "f" -> {-9}
                    [] OTHER -> {100 + (CHOOSE n \in Sizes : ToString(n) = k)}],
    apply  |-> [op \in {"Union", "CartesianProduct", "PowerSet"} |->
                  CASE op = "Union"            -> [p \in [1 .. 2 -> Base] |-> Together(p)]
                    [] op = "CartesianProduct" -> [p \in [1 .. 2 -> Base] |-> Product(p)]
                    [] op = "PowerSet"         -> [p \in [1 .. 1 -> Base] |-> SetsBelow(p)]],
    holds  |-> [rel \in {"In", "Finite", "Infinite", "Cardinality", "Bijection"} |->
                  CASE rel = "In"          -> UNION {{<<{-1 - n}, Z>> : n \in Z} : Z \in Base}
                    [] rel = "Finite"      -> {<<Z>> : Z \in {S \in AnySet : 0 \notin S}}
                    [] rel = "Infinite"    -> {<<Z>> : Z \in {S \in AnySet : 0 \in S}}
                    [] rel = "Cardinality" -> {<<Z, {100 + Cardinality(Z)}>> : Z \in {S \in AnySet : 0 \notin S}}
                    [] rel = "Bijection"   -> {<<{-9}, p[1], p[2]>> : p \in {q \in Base \X Base : SameSize(q[1], q[2])}}]] :
     X, Y \in Base}

Combined == InEitherOrder("Union", SetA, SetB) \cup InEitherOrder("CartesianProduct", SetA, SetB) \cup {PowerSet(SetA)}
Bijections == {Atom("Bijection", <<Const("f"), p[1], p[2]>>) : p \in {<<SetA, SetB>>, <<SetB, SetA>>}}
DisjointSets == {ForAll("v", Not(And(<<Member(Var("v"), SetA), Member(Var("v"), X)>>))) : X \in {SetA, SetB}}
FinitenessFormulas ==
  {Finite(SetA), Finite(SetB), Infinite(SetA), Infinite(SetB)} \cup Bijections
  \cup {Subset("v", SetA, SetB), Subset("v", SetB, SetA)}
FinitenessClaims == {Finite(X) : X \in Combined \cup {SetA, SetB, EmptySet}} \cup {Infinite(SetA), Infinite(SetB)}
SizeFormulas  == {OfSize(X, n) : X \in {SetA, SetB}, n \in 0 .. MaxCardinal} \cup {Finite(SetB)}
SizeClaims    == {OfSize(X, n) : X \in Combined \cup {SetB, EmptySet}, n \in Sizes} \cup {Finite(SetA)}

FinitenessRules == {"FiniteSubset", "FiniteUnion", "FiniteCartesianProduct", "FinitePowerSet",
                    "FiniteUnderBijection", "InfiniteUnderBijection", "EmptySetFinite"}
SizeRules == {"CardinalityImpliesFinite", "CardinalityPowerSet", "CardinalityCartesianProduct",
              "CardinalityUnderBijection", "CardinalityDisjointUnion", "EmptySetCardinality"}

-----------------------------------------------------------------------------
(* The integers 1 to 3.                                                    *)
OrderRules == {"OrderTransitivity", "OrderIrreflexivity", "LessEqualDefinition"}
Integer == {Const("c"), Const("d"), Const("e")}
OrderFormulas ==
  {Less(s, t) : s, t \in Integer} \cup {Atom("Int", <<t>>) : t \in Integer}
  \cup {Or(<<Less(OneTerm, TwoTerm), q>>) : q \in {Equals(OneTerm, TwoTerm), Equals(TwoTerm, OneTerm)}}
  \cup {Or(<<Equals(OneTerm, TwoTerm), Less(OneTerm, TwoTerm)>>)}
OrderClaims ==
  {Less(s, t) : s, t \in Integer} \cup {Not(Less(s, t)) : s, t \in Integer}
  \cup {LessEqual(s, t) : s, t \in Integer}
OrderStructures ==
  {[domain |-> 1 .. 3, object |-> o,
    holds  |-> [p \in {"Less", "LessEqual", "Int"} |->
                  CASE p = "Less"      -> {q \in (1 .. 3) \X (1 .. 3) : q[1] < q[2]}
                    [] p = "LessEqual" -> {q \in (1 .. 3) \X (1 .. 3) : q[1] <= q[2]}
                    [] p = "Int"       -> {<<v>> : v \in 1 .. 3}]] :
     o \in [{"c", "d", "e"} -> 1 .. 3]}

-----------------------------------------------------------------------------
TheoryCandidates(rule) ==
  CASE rule = "SetProperty"       -> MembershipFormulas
    [] rule = "SetEquality"       -> Inclusions \cup {Equals(SetA, SetB)}
    [] rule \in FinitenessRules   -> FinitenessFormulas
    [] rule \in SizeRules         -> SizeFormulas \cup (IF rule = "CardinalityDisjointUnion" THEN DisjointSets ELSE Bijections)
    [] rule \in OrderRules        -> OrderFormulas
    [] OTHER                      -> {}
TheoryClaims(rule) ==
  CASE rule = "SetProperty"         -> MembershipFormulas
    [] rule = "SetEquality"         -> Equations
    [] rule = "EmptySetProperty"    -> EmptyLines
    [] rule \in FinitenessRules     -> FinitenessClaims
    [] rule \in SizeRules           -> SizeClaims
    [] rule \in OrderRules          -> OrderClaims
    [] rule = "Separation"          -> SeparationLines
    [] rule = "Replacement"         -> ReplacementLines
    [] rule = "PairingAxiom"        -> PairingLines
    [] rule = "PairingWitness"      -> WitnessLines
    [] rule = "UnionAxiom"          -> AtASetLines(UnionOf)
    [] rule = "PowerSetAxiom"       -> AtASetLines(PowerSetOf)
    [] rule = "InfinityAxiom"       -> InfinityLines
    [] rule = "ExtensionalityAxiom" -> ExtensionalityLines
    [] rule = "FoundationAxiom"     -> FoundationLines
    [] rule = "ChoiceAxiom"         -> ChoiceLines
TheoryStructures(rule) ==
  CASE rule = "SetProperty"                           -> SetStructures({"A", "B", "c", "d"})
    [] rule \in TrueInSets \cup {"SetEquality", "EmptySetProperty"} -> SetStructures({"A", "B"})
    [] rule \in FinitenessRules \cup SizeRules        -> FiniteStructures
    [] rule \in OrderRules                            -> OrderStructures
    [] OTHER                                          -> {}
=============================================================================
