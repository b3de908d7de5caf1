----------------------------- MODULE MCRepeated ------------------------------
(***************************************************************************)
(* Proofs about P, S and the constants a, b, c with WLOG and Mutatis       *)
(* mutandis lines, written in any order that the labels they cite allow.   *)
(***************************************************************************)
EXTENDS RepeatedArguments, ReplayRules

a == Const("a")
b == Const("b")
c == Const("c")
P(t) == Atom("P", <<t>>)
S(t) == Atom("S", <<t>>)
Q    == Atom("Q", <<>>)
SomeP == Exists("x", P(Var("x")))

Entry(label, tag, states, rule, refs, blocks) ==
  [label |-> label, tag |-> tag, states |-> states, rule |-> rule, refs |-> refs,
   names |-> {}, about |-> {}, blocks |-> blocks]
Given(l, fs)            == Entry(l, "premise", fs, "", <<>>, <<>>)
By(l, f, rule, refs)    == Entry(l, "rule", <<f>>, rule, refs, <<>>)
Assume(l, f)            == Entry(l, "assume", <<f>>, "", <<>>, <<>>)
Below(l, f, block)      == Entry(l, "below", <<f>>, "ConditionalIntroduction", <<>>, <<block>>)
Hybrid(l, f, ref, left, right) ==
  Entry(l, "hybrid", <<f>>, "DisjunctionElimination", <<ref>>, <<left, right>>)

AorB == Or(<<P(a), P(b)>>)
CorB == Or(<<P(c), P(b)>>)
PaSb == And(<<P(a), S(b)>>)
PbSa == And(<<P(b), S(a)>>)

MCPremise ==
  {Given("1", <<AorB>>), Given("1", <<Or(<<P(a), P(b), P(c)>>)>>),
   Given("1", <<Or(<<Equals(a, b), Equals(a, c)>>)>>), Given("1", <<Or(<<PaSb, PbSa>>)>>),
   Given("2", <<Implies(P(a), Q)>>), Given("2", <<Implies(P(a), Q), Implies(P(b), Q)>>), Given("3", <<Implies(P(b), Q)>>),
   Given("3", <<Implies(P(b), Q), Implies(P(c), Q)>>)}

(* A line that names a new object, and one that says something of it.      *)
MCDeclaration ==
  {[Entry("4", "declare", <<>>, "", <<>>, <<>>) EXCEPT !.names = {"d"}],
   [Entry("4", "declare", <<S(b)>>, "", <<>>, <<>>) EXCEPT !.about = {"b"}]}

MCCase == {By("5", f, "WLOG", <<"1">>) : f \in {P(a), Equals(a, b), PaSb}}

MCDerivation ==
  {By("6", Q, "ModusPonens", <<"5", "2">>), By("6", AorB, "DisjunctionIntroduction", <<"7">>),
   By("6", SomeP, "ExistentialIntroduction", <<"5">>),
   By("6", Exists("x", Equals(a, Var("x"))), "ExistentialIntroduction", <<"5">>),
   Below("6", Implies(P(b), P(a)), <<Assume("6.1", P(b)), By("6.2", P(a), "ConjunctionElimination", <<"5">>)>>),
   By("7", P(a), "ConjunctionElimination", <<"5">>),
   Below("7", Implies(P(a), P(a)), <<Assume("7.1", P(a))>>),
   Below("7", Implies(P(a), Q), <<Assume("7.1", P(a)), By("7.2", Q, "ModusPonens", <<"2", "7.1">>)>>),
   Below("7", Implies(P(a), S(a)), <<Assume("7.1", P(a)), Given("7.2", <<S(a)>>)>>),
   Below("7", Implies(AorB, SomeP),
         <<Assume("7.1", AorB), By("7.2", P(a), "WLOG", <<"7.1">>),
           By("7.3", SomeP, "ExistentialIntroduction", <<"7.2">>)>>),
   Hybrid("9", Q, "1",
          <<Assume("9.1", P(a)), By("9.2", Q, "ModusPonens", <<"9.1", "2">>)>>,
          <<Assume("9.1", P(b)), By("9.2", Implies(P(b), Q), "MutatisMutandis", <<"7">>),
            By("9.3", Q, "ModusPonens", <<"9.1", "9.2">>)>>),
   Hybrid("9", Q, "1",
          <<Assume("9.1", P(a)), By("9.2", Q, "ModusPonens", <<"9.1", "2">>)>>,
          <<Assume("9.1", P(b)), By("9.2", Q, "ModusPonens", <<"9.1", "8">>)>>)}

MCSubproof ==
  {Entry("10", "block", <<>>, "", <<>>,
         <<<<Assume("10.1", AorB), By("10.2", P(a), "WLOG", <<"10.1">>),
             By("10.3", SomeP, "ExistentialIntroduction", <<"10.2">>)>>>>)}

MCRepetition ==
  {By("8", f, "MutatisMutandis", <<"7">>) :
     f \in {Implies(P(b), P(a)), Implies(P(b), P(b)), Implies(P(b), Q), Implies(P(b), S(b)),
            Implies(S(a), S(a)), Implies(CorB, SomeP)}}
  \cup {By("8", Implies(P(b), Q), "MutatisMutandis", <<"2", "7">>),
        By("8", P(b), "MutatisMutandis", <<"5">>)}

(* The structures with two elements, by number (which bit says what), and  *)
(* in which of them each formula of these proofs, under any renaming of a, *)
(* b and c, is true.                                                       *)
Bit(n, k) == (n \div 2 ^ k) % 2
Extension(n, k) == {<<v>> : v \in {u \in 1 .. 2 : Bit(n, k + u) = 1}}
StructureOf(n) ==
  [domain |-> 1 .. 2,
   object |-> [name \in {"a", "b", "c"} |->
                 1 + Bit(n, CASE name = "a" -> 0 [] name = "b" -> 1 [] name = "c" -> 2)],
   holds  |-> [p \in {"P", "S", "Q"} |->
                 CASE p = "P" -> Extension(n, 2)
                   [] p = "S" -> Extension(n, 4)
                   [] p = "Q" -> IF Bit(n, 7) = 1 THEN {<<>>} ELSE {}]]
MCStructure == 0 .. 255
Written == MCPremise \cup MCCase \cup MCDerivation \cup MCRepetition \cup MCDeclaration
Renamings == [{ConstKey("a"), ConstKey("b"), ConstKey("c")} -> {a, b, c}]
Known == {Replace(r, f) : r \in Renamings, f \in UNION {ToSet(e.states) : e \in Written}}
           \cup {P(a), P(b), P(c), S(a), S(b), S(c)}
Truth == [f \in Known |-> {i \in MCStructure : HoldsIn(f, StructureOf(i))}]
MCModels(f) == Truth[f]
MCDeclared  == {"a", "b", "c", "P", "S", "Q"}

(* A case chosen, and a premise after it.                                  *)
UnsettledPremise == {Given("1", <<AorB>>), Given("2", <<Q>>)}
UnsettledDerivation == {By("6", SomeP, "ExistentialIntroduction", <<"5">>)}

(* The names replaced are read off the two statements so that the model    *)
(* line, rewritten, says what the claim says.                              *)
ReplacementGivesClaim ==
  \A i \in DOMAIN walk.labels, e \in Repetition :
    LET model == walk.labels[i].value
        claim == e.states[1]
    IN  ~ IsRecord(model) /\ DOMAIN Replacement(model, claim) # {}
          => AlphaEq(Replace(Replacement(model, claim), model), claim)
=============================================================================
