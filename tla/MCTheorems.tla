----------------------------- MODULE MCTheorems -----------------------------
(***************************************************************************)
(* Theorems about two objects and two relations, proved and cited in three *)
(* theories: one with an axiom, one with a rule of its own and one whose   *)
(* axiom lines may state anything.                                         *)
(***************************************************************************)
EXTENDS TheoremLibrary, TheoremRules

c == Const("c")
d == Const("d")
F(t) == Atom("F", <<t>>)
R(s, t) == Related("R", s, t)
S(s, t) == Related("S", s, t)

Plain(name, kind, arity) ==
  [name |-> name, kind |-> kind, arity |-> arity, refers |-> {}, properties |-> {}]
ObjectC == Plain("c", "object", 0)
RelationOnX(r, properties) ==
  [Plain(r, "predicate", 2) EXCEPT !.refers = {"X"}, !.properties = properties]

MCName == {"c", "d", "X", "F", "R", "S"}
MCStandard == {"Standard"}
MCReads == {"RelationSymmetry"}
Fixed == {Plain("d", "object", 0), Plain("X", "object", 0), Plain("F", "predicate", 1)}
TheoryOf(axioms, closed, rules) ==
  [axioms |-> axioms, closed |-> closed, rules |-> MCStandard \cup rules, declared |-> Fixed]

(* The axiom speaks of c, which a proof may declare itself; the rule of d. *)
WithAxiom == TheoryOf({F(c)}, TRUE, {"RelationSymmetry"})
WithRule  == TheoryOf({}, TRUE, {"SaysFd"})
Bare      == TheoryOf({}, FALSE, {"RelationSymmetry"})
MCTheory  == {WithAxiom, WithRule, Bare}

MCDeclaration ==
  {ObjectC, Plain("c", "witness", 0), RelationOnX("R", {"symmetric"}), RelationOnX("S", {})}

(* Structures with two elements, numbered by their digits; a relation has  *)
(* no pair, one or both of two converse ones.                              *)
MCStructure == 0 .. 143
Pairs == <<{}, {<<1, 2>>}, {<<1, 2>>, <<2, 1>>}>>
Unary == <<{}, {<<1>>}, {<<2>>}, {<<1>>, <<2>>}>>
Model(m) ==
  [domain |-> 1 .. 2,
   object |-> [o \in {"c", "d", "X"} |->
                 CASE o = "c" -> 1 + (m % 2) [] o = "d" -> 1 + ((m \div 2) % 2) [] o = "X" -> 1],
   holds  |-> [p \in {"F", "R", "S"} |->
                 CASE p = "F" -> Unary[1 + ((m \div 4) % 4)]
                   [] p = "R" -> Pairs[1 + ((m \div 16) % 3)]
                   [] p = "S" -> Pairs[1 + (m \div 48)]]]
Terms == {c, d}
MCFormula == {F(t) : t \in Terms} \cup {Related(r, t, u) : r \in {"R", "S"}, t \in Terms, u \in Terms}
MCDeclareLines == {F(c)}
MCPremiseLines == {F(c), R(c, d), S(c, d)}
MCAxiomLines   == {F(c)}
MCClaims       == {F(c), F(d), R(d, c), S(d, c)}

Truth == [f \in MCFormula |-> [m \in MCStructure |-> HoldsIn(f, Model(m))]]
MCTrueIn(f, m) == Truth[f][m]
MCTeaches(rule, m) == rule = "SaysFd" => MCTrueIn(F(d), m)
SymmetricIn ==
  [r \in {"R", "S"} |-> {m \in MCStructure : DeclaredTrue(RelationOnX(r, {"symmetric"}), Model(m))}]
MCMeans(D, m) == "symmetric" \in D.properties => m \in SymmetricIn[D.name]
MCRenamings(names) ==
  {g \in [names -> {c, d, Symbol("R"), Symbol("S")}] :
     \A n \in names : g[n] \in (IF n = "c" THEN {c, d} ELSE {Symbol("R"), Symbol("S")})}
=============================================================================
