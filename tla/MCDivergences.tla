---------------------------- MODULE MCDivergences ----------------------------
(***************************************************************************)
(* Three proofs the kernel accepts and should not, each in a family of     *)
(* proofs just large enough to contain it.                                 *)
(***************************************************************************)
EXTENDS ProofSoundness, InferenceRules, RelationRules

FlagOf(k) == Atom(k, <<>>)
Plain(name, kind, arity) ==
  [name |-> name, kind |-> kind, arity |-> arity, refers |-> {}, properties |-> {}]
Object(k) == Plain(k, "object", AnyArity)
R(s, t) == Related("R", s, t)
c == Const("c")
x == Var("x")

MCTrueIn(f, m) == HoldsIn(f, m)
SubproofLine == Node("subproof", "", <<>>)
MCLabel == (1 .. MaxDepth) \X (Formula \cup {SubproofLine})
MCLabelsOf(fs, depth) == IF fs = <<>> THEN {<<depth, SubproofLine>>} ELSE {<<depth, fs[1]>>}
MCCitedCounts(rule) == {DiscreteArity(rule)}
MCJustifies(rule, cs, phi, ctx) ==
  IF rule \in RelationRule THEN AskRelation(rule, cs, phi, ctx) ELSE AskRule(rule, cs, phi, ctx)
AllClaims(rule) == Formula

(* A constant generalized only where the conclusion says so: from          *)
(* forall x, R(x,x) to forall x, R(x,c).                                   *)
CaptureFormula      == {ForAll("x", R(x, x)), ForAll("x", R(x, c)), R(c, c), FlagOf("c")}
CapturePremises     == {<<ForAll("x", R(x, x))>>}
CaptureFresh        == {FlagOf("c")}
CaptureInitial      == {Plain("R", "predicate", 2)}
CaptureDeclarations == {<<Object("c")>>}
CaptureStructure    == StructuresOf(2, {"c"}, [p \in {"R"} |-> 2])
CaptureMeans(d, m)  == TRUE
CaptureMaxSeen      == <<3, 2>>

(* A relation declared symmetric in a subproof, and another R after it.    *)
a == Const("a")
b == Const("b")
Q == Atom("Q", <<>>)
Swap == Implies(R(a, b), R(b, a))
LeakFormula      == {Q, R(a, b), R(b, a), Swap, Implies(Q, Swap)}
LeakAssume       == {Q, R(a, b)}
LeakInitial      == {Object("a"), Object("b"), Object("X"), Plain("Q", "closed_formula", AnyArity)}
SymmetricR       == [Plain("R", "predicate", 2) EXCEPT !.refers = {"X"}, !.properties = {"symmetric"}]
LeakDeclarations == {<<SymmetricR>>, <<Plain("R", "predicate", 2)>>}
LeakStructure    == StructuresOf(2, {"a", "b", "X"}, [p \in {"R", "Q"} |-> IF p = "Q" THEN 0 ELSE 2])
LeakClaims(rule) ==
  IF rule = "RelationSymmetry" THEN {R(b, a)} ELSE {Swap, Implies(Q, Swap)}
LeakMaxSeen      == <<2, 2, 2>>

(* A "(Fresh Variable)" line that states a formula.                        *)
P(t) == Atom("P", <<t>>)
AllP == ForAll("x", P(x))
FormulaLineFormula      == {P(c), AllP, Q, FlagOf("c"), Implies(Q, AllP), Implies(P(c), Implies(Q, AllP))}
FormulaLineAssume       == {Q}
FormulaLineFresh        == {P(c), FlagOf("c")}
FormulaLineInitial      == {Plain("P", "predicate", 1), Plain("Q", "closed_formula", AnyArity)}
FormulaLineDeclarations == {<<Object("c")>>}
FormulaLineStructure    == StructuresOf(2, {"c"}, [p \in {"P", "Q"} |-> IF p = "Q" THEN 0 ELSE 1])
FormulaLineClaims(rule) ==
  CASE rule = "UniversalGeneralization" -> {AllP}
    [] rule = "ConditionalIntroduction" -> {Implies(Q, AllP), Implies(P(c), Implies(Q, AllP))}
    [] OTHER                            -> {P(c)}
FormulaLineMaxSeen      == <<2, 2, 2, 2>>
=============================================================================
