----------------------------- MODULE MCFreshness -----------------------------
(***************************************************************************)
(* Proofs with quantifiers about one predicate P and one constant c, which *)
(* the proof may declare, assume something of, or introduce as arbitrary,  *)
(* in any order and again after a subproof closed.  Truth is judged in     *)
(* every structure with two elements.                                      *)
(***************************************************************************)
EXTENDS RelationTruth, InferenceRules

Pc    == Atom("P", <<Const("c")>>)
AllP  == ForAll("x", Atom("P", <<Var("x")>>))
SomeP == Exists("x", Atom("P", <<Var("x")>>))
AllQ  == ForAll("y", Atom("P", <<Var("y")>>))
SomeQ == Exists("y", Atom("P", <<Var("y")>>))
FlagOf(c) == Atom(c, <<>>)

Plain(name, kind, arity) ==
  [name |-> name, kind |-> kind, arity |-> arity, refers |-> {}, properties |-> {}]

Written == {Pc, AllP, SomeP, AllQ, SomeQ, FlagOf("c"), Implies(Pc, AllQ)}

(* The assumptions about truth and matching are about these too: a body    *)
(* that is a conditional, one without the variable, one with the constant; *)
(* an atom with two terms; and the other connectives and an equation.      *)
Px == Atom("P", <<Var("x")>>)
Unwritten ==
  {ForAll("x", Implies(Px, AllQ)), Exists("x", Implies(Px, Pc)), Implies(Pc, Pc), Exists("x", Pc),
   Exists("x", FlagOf("c")), ForAll("x", Implies(FlagOf("c"), Pc)),
   Related("R", Const("c"), Const("c")),
   Not(Pc), Or(<<Pc, AllQ>>), And(<<SomeP, Pc>>), Iff(Pc, AllQ),
   Equals(Const("c"), Const("c")), Exists("x", Equals(Var("x"), Const("c")))}
MCFormula == Written \cup Unwritten
MCInitialDeclarations == {Plain("P", "predicate", 1)}
MCDeclarationLists == {<<Plain("c", "object", AnyArity)>>}
MCPremiseLists == {<<Pc>>, <<AllP, SomeP>>}
MCDeclareLines == {Pc}
MCAssumeLines  == {Pc}
MCFreshLines   == {FlagOf("c")}
MCClaims(rule) ==
  CASE rule = "UniversalGeneralization"  -> {AllQ}
    [] rule = "ExistentialElimination"   -> {SomeQ, AllQ}
    [] rule = "ExistentialIntroduction"  -> {SomeQ}
    [] rule = "UniversalInstantiation"   -> {Pc}
    [] rule = "ConditionalIntroduction"  -> {Implies(Pc, AllQ)}
    [] OTHER                             -> {Pc, AllQ}

(* A flag says nothing; its atom is false in every structure.  The pairs   *)
(* of R are the same in each.                                              *)
MCStructure ==
  {[m EXCEPT !.holds = ("c" :> {}) @@ ("R" :> {<<1, 1>>, <<1, 2>>}) @@ m.holds] :
     m \in StructuresOf(2, {"c"}, [p \in {"P"} |-> 1])}
Truth == [f \in Formula |-> {m \in MCStructure : HoldsIn(f, m)}]
MCTrueIn(f, m) == m \in Truth[f]
MCDenotation(t, m)        == Value(t, m, <<>>)
MCDomain(m)               == m.domain
MCHolds(r, u, v, m)       == <<u, v>> \in m.holds[r]
MCBodyTrue(q, v, m)       == Evaluate(q.kids[1], m, q.sym :> v)
MCReinterpreted(m, c, v)  == IF c = "c" THEN [m EXCEPT !.object = [o \in {"c"} |-> v]] ELSE m

SubproofLine == Node("subproof", "", <<>>)
MCLabel == (1 .. MaxDepth) \X (Formula \cup {SubproofLine})
MCLabelsOf(fs, depth) == IF fs = <<>> THEN {<<depth, SubproofLine>>} ELSE {<<depth, fs[1]>>}
MCCitedCounts(rule) == IF rule = "ExistentialElimination" THEN {1} ELSE {PremiseArity(rule)}
MCMaxSeen == <<4, 2, 2>>
=============================================================================
