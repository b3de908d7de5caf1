------------------------------- MODULE MCScope -------------------------------
(***************************************************************************)
(* The kernel on a handful of formulas and labels, every line the syntax   *)
(* allows: what the walk does to its scopes, stacks and books.             *)
(***************************************************************************)
EXTENDS ProofValidator, InferenceRules

A  == Atom("A", <<>>)
Pc == Atom("P", <<Const("c")>>)
FlagOf(c) == Atom(c, <<>>)

MCFormula == {A, Pc, FlagOf("c"), Implies(A, A)}

Object(c) == [name |-> c, kind |-> "object", arity |-> AnyArity, refers |-> {}, properties |-> {}]
Proposition(p) ==
  [name |-> p, kind |-> "closed_formula", arity |-> AnyArity, refers |-> {}, properties |-> {}]
RelationOn(x) ==
  [name |-> "P", kind |-> "predicate", arity |-> 1, refers |-> {x}, properties |-> {}]

MCInitialDeclarations == {Proposition("A")}
Pointing(c, x) == [Object(c) EXCEPT !.refers = {x}]
FlatDeclarationLists == {<<Object("c")>>, <<RelationOn("c")>>, <<Pointing("c", "A")>>}
MCFreshLines == {FlagOf("c"), Pc}
FlatAxioms == {A}
FlatPremiseLists == {<<Pc, A>>, <<Implies(A, A)>>}
FlatPremises == {A, Pc}
FlatMaxSeen == <<2, 2>>
MCLabelsOf(fs, depth) ==
  IF fs \in {<<>>, <<A>>} \/ (depth = 3 /\ fs = <<Pc>>) THEN {NoLabel, "1"} ELSE {"1"}
MCClaims(rule) == IF rule = "Reiteration" THEN {A, Pc} ELSE {Implies(A, A)}
MCCitedCounts(rule) == {PremiseArity(rule)}
=============================================================================
