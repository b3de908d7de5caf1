--------------------------- MODULE RewritingRules ---------------------------
(***************************************************************************)
(* The rules of source/ProofLogic.py that compare two formulas part by     *)
(* part: propositional equivalence, substitution of equals, and induction, *)
(* which builds the formulas it expects from the one claimed.              *)
(***************************************************************************)
EXTENDS InferenceRules, RelationRules

(* _match_double_negation, _match_demorgan, _match_material_implication,   *)
(* _match_distribution.  Mutant of DeMorgan: the connective stays.         *)
DoubleNegation(f, g) == g = Not(Not(f))

Dual == [op \in {"and", "or"} |-> IF op = "and" THEN "or" ELSE "and"]
Denied(f) == [f EXCEPT !.kids = [i \in DOMAIN f.kids |-> Not(f.kids[i])]]

NegatedInside(f, g) ==
  Is("not", f) /\ f.kids[1].op \in DOMAIN Dual /\ g = Denied(f.kids[1])
DeMorgan(f, g) ==
  Is("not", f) /\ f.kids[1].op \in DOMAIN Dual /\ g = [Denied(f.kids[1]) EXCEPT !.op = Dual[@]]

MaterialImplication(f, g) == Is("implies", f) /\ g = Or(<<Not(f.kids[1]), f.kids[2]>>)

Distribution(f, g) ==
  /\ f.op \in DOMAIN Dual /\ Len(f.kids) = 2
  /\ Is(Dual[f.op], g) /\ Len(g.kids) = 2
  /\ \E i \in 1 .. 2 :
       LET inner   == f.kids[3 - i]
           With(k) == Node(f.op, "", <<f.kids[i], inner.kids[k]>>)
       IN  /\ Is(Dual[f.op], inner) /\ Len(inner.kids) = 2
           /\ g.kids \in {<<With(1), With(2)>>, <<With(2), With(1)>>}

(* A law read in either direction.                                         *)
ByLaw(f, g) ==
  LET OneWay(a, b) ==
        DoubleNegation(a, b) \/ DeMorgan(a, b) \/ MaterialImplication(a, b) \/ Distribution(a, b)
  IN  OneWay(f, g) \/ OneWay(g, f)

(* _equivalent_by_substitution: by a law, or two formulas of one shape     *)
(* with a law wherever their parts differ, and somewhere they do.          *)
RECURSIVE Equivalent(_, _)
Equivalent(f, g) ==
  \/ ByLaw(f, g)
  \/ /\ f.op \notin {"atom", "equals"}
     /\ f.op = g.op /\ f.sym = g.sym
     /\ Len(f.kids) = Len(g.kids)
     /\ f # g
     /\ \A i \in DOMAIN f.kids : f.kids[i] = g.kids[i] \/ Equivalent(f.kids[i], g.kids[i])

PropositionalEquivalence(cs, phi) == ~ IsRecord(cs[1]) /\ Equivalent(cs[1], phi)

-----------------------------------------------------------------------------
(* _formula_obtainable_by_replacing: is g what f becomes when some         *)
(* occurrences of term s become t?  "no", or whether one did.              *)
RECURSIVE Replacing(_, _, _, _)
Replacing(f, s, t, g) ==
  IF f = s /\ g = t THEN "replaced"
  ELSE IF IsTerm(f) /\ f = g THEN "same"
  ELSE IF f.op # g.op \/ f.sym # g.sym \/ Len(f.kids) # Len(g.kids) \/ f.op \in {"const", "var"}
  THEN "no"
  ELSE LET parts == {Replacing(f.kids[i], s, t, g.kids[i]) : i \in DOMAIN f.kids}
       IN  IF "no" \in parts THEN "no" ELSE IF "replaced" \in parts THEN "replaced" ELSE "same"

(* LeibnizSubstitutionRule, in both directions of the equation.            *)
Substitution(cs, phi) ==
  LET equation == IF IsA("equals", cs[1]) THEN cs[1] ELSE cs[2]
      source   == IF IsA("equals", cs[1]) THEN cs[2] ELSE cs[1]
      s        == equation.kids[1]
      t        == equation.kids[2]
  IN  /\ IsA("equals", equation)
      /\ FreeVariables(s) = {} /\ FreeVariables(t) = {}
      /\ ~ IsRecord(source)
      /\ "replaced" \in {Replacing(source, s, t, phi), Replacing(source, t, s, phi)}

-----------------------------------------------------------------------------
(* InductionRule as NAT_TYPE configures it: T is the type generated from   *)
(* zero by the successor.  The claim is "for all x, T(x) -> Q"; what the   *)
(* two candidates have to be is built from Q, with the variable the second *)
(* one chose.                                                              *)
InductiveType == "Nat"
Zero    == Const("Zero")
Succ(t) == Fun("Succ", <<t>>)
T(t)    == Atom(InductiveType, <<t>>)

BoundNames(f) == {n.sym : n \in {m \in Nodes(f) : IsQuantifier(m)}}
Guarded(phi) ==
  Is("forall", phi) /\ Is("implies", phi.kids[1]) /\ phi.kids[1].kids[1] = T(Var(phi.sym))

StepOf(Q, x, n) ==
  ForAll(n, Implies(And(<<T(Var(n)), Substitute(Q, x, Var(n))>>), Substitute(Q, x, Succ(Var(n)))))

(* n is not a name that Q uses, unless it is x.  Mutant: any will do.      *)
AnyName(Q, x, n)  == TRUE
NewName(Q, x, n)  == n = x \/ n \notin BoundNames(Q) \cup FreeVariables(Q)

Induction(cs, phi) ==
  LET x == phi.sym
      Q == phi.kids[1].kids[2]
      n == IF IsA("forall", cs[2]) THEN cs[2].sym ELSE x
  IN  /\ Guarded(phi)
      /\ NewName(Q, x, n)
      /\ cs[1] = Substitute(Q, x, Zero)
      /\ cs[2] = StepOf(Q, x, n)

-----------------------------------------------------------------------------
RewritingRule == {"PropositionalEquivalence", "Substitution", "Induction"}
RewritingArity(rule) == IF rule = "PropositionalEquivalence" THEN 1 ELSE 2

AskArity(rule) == IF rule \in RewritingRule THEN RewritingArity(rule) ELSE DiscreteArity(rule)

AskAny(rule, cs, phi, ctx) ==
  IF rule \in RewritingRule
  THEN /\ Len(cs) = RewritingArity(rule)
       /\ CASE rule = "PropositionalEquivalence" -> PropositionalEquivalence(cs, phi)
            [] rule = "Substitution"             -> Substitution(cs, phi)
            [] rule = "Induction"                -> Induction(cs, phi)
  ELSE IF rule \in RelationRule THEN AskRelation(rule, cs, phi, ctx)
  ELSE AskRule(rule, cs, phi, ctx)

(* AlgebraRule asks for equations only, and hands their sides to the       *)
(* search of CongruenceClosure.                                            *)
IsEquational(cs, phi) == Is("equals", phi) /\ \A i \in DOMAIN cs : IsA("equals", cs[i])
(* register: of each equation's sides every subterm, each once.            *)
RECURSIVE AllSubterms(_)
AllSubterms(t) == <<t>> \o FlattenSeq([i \in DOMAIN t.kids |-> AllSubterms(t.kids[i])])
Once(ts) == FoldLeft(LAMBDA seen, t : IF t \in ToSet(seen) THEN seen ELSE Append(seen, t), <<>>, ts)
AlgebraProblem(cs, phi) ==
  LET equations == Append(cs, phi)
      sides     == FlattenSeq([i \in DOMAIN equations |-> equations[i].kids])
  IN  [cited   |-> [i \in DOMAIN cs |-> cs[i].kids],
       claimed |-> phi.kids,
       terms   |-> Once(FlattenSeq([i \in DOMAIN sides |-> AllSubterms(sides[i])]))]
=============================================================================
