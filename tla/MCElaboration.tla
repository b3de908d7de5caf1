---------------------------- MODULE MCElaboration ----------------------------
(***************************************************************************)
(* The elaborator beside the kernel, with subproofs in subproofs: an       *)
(* existential formula that a line may assume, take for granted or cite,   *)
(* and a constant that may be declared, introduced or named as a witness.  *)
(* Label "2" is for the lines that name a witness.                         *)
(***************************************************************************)
EXTENDS MCScope, Elaboration

SomeP == Exists("x", Atom("P", <<Var("x")>>))
MCWitnessOf(f, c) == Substitute(f.kids[1], f.sym, Const(c))
TextFormula      == {A, FlagOf("c"), SomeP, Implies(SomeP, SomeP)} \cup {MCWitnessOf(SomeP, c) : c \in Name}
TextDeclareLines == {A}
TextAssumeLines  == {SomeP}
TextFreshLines   == {FlagOf("c"), Pc}
TextPremiseLists == {<<SomeP>>, <<A, SomeP>>}
TextAxioms       == {A}
TextDeclarationLists    == {<<Object("c")>>}
TextInitialDeclarations == MCInitialDeclarations \cup {[RelationOn("A") EXCEPT !.refers = {}]}
TextExistential  == {SomeP}
TextMaxSeen      == <<2, 2, 1>>
TextLabelsOf(fs, depth) ==
  IF fs = <<>> \/ (depth = 3 /\ fs \in {<<Pc>>, <<SomeP>>}) THEN {NoLabel, "1"} ELSE {"1"}
TextClaims(rule)         == IF rule = "Reiteration" THEN {SomeP} ELSE {Implies(SomeP, SomeP)}
TextCitedCounts(rule)    == IF rule = "Reiteration" THEN {1} ELSE {0}
MCDefinitions    == {[declares |-> <<>>, states |-> <<>>]}
=============================================================================
