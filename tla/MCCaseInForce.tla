----------------------------- MODULE MCCaseInForce ---------------------------
(***************************************************************************)
(* A proof of unique existence below a WLOG line: that some B is is given, *)
(* and that everything is d or e; c is declared and nothing is said of it. *)
(***************************************************************************)
EXTENDS RepeatedArguments, ReplayRules

c == Const("c")
d == Const("d")
e == Const("e")
B(t) == Atom("B", <<t>>)
x == Var("x")
v == Var("v")
w == Var("w")

Entry(label, tag, states, rule, refs, blocks) ==
  [label |-> label, tag |-> tag, states |-> states, rule |-> rule, refs |-> refs,
   names |-> {}, about |-> {}, blocks |-> blocks]
By(l, f, rule, refs) == Entry(l, "rule", <<f>>, rule, refs, <<>>)

SomeB      == Exists("x", B(x))
AllDorE    == ForAll("x", Or(<<Equals(x, d), Equals(x, e)>>))
ThisDorE   == Or(<<Equals(c, d), Equals(c, e)>>)
OnlyD      == Implies(B(c), Equals(c, d))
ExactlyOne == Exists("w", And(<<B(w), ForAll("v", Implies(B(v), Equals(v, w)))>>))

MCPremise == {Entry("1", "premise", <<SomeB>>, "", <<>>, <<>>),
              Entry("2", "premise", <<AllDorE>>, "", <<>>, <<>>)}
MCDeclaration == {[Entry("3", "declare", <<>>, "", <<>>, <<>>) EXCEPT !.names = {"c"}]}
MCCase == {By("5", Equals(c, d), "WLOG", <<"4">>)}
MCDerivation ==
  {By("4", ThisDorE, "UniversalInstantiation", <<"2">>),
   Entry("6", "below", <<OnlyD>>, "ConditionalIntroduction", <<>>,
         <<<<Entry("6.1", "assume", <<B(c)>>, "", <<>>, <<>>),
             By("6.2", Equals(c, d), "Reiteration", <<"5">>)>>>>),
   By("7", ExactlyOne, "Uniqueness", <<"1", "6">>)}
MCDeclared == {"d", "e", "B"}

(* Two elements, which c, d and e name and of which any may be B.          *)
MCStructure == StructuresOf(2, {"c", "d", "e"}, [p \in {"B"} |-> 1])
MCModels(f) == {m \in MCStructure : HoldsIn(f, m)}
=============================================================================
