---------------------------- MODULE RelationTruth ----------------------------
(***************************************************************************)
(* The walk with the rules of RelationRules too: what is assumed of atoms  *)
(* with two terms, and what it means that a relation has the properties    *)
(* that its declaration gives it.                                          *)
(***************************************************************************)
EXTENDS QuantifierTruth, RelationRules

CONSTANT Holds(_, _, _, _)   \* the relation holds of two objects in the structure

(* Truth of an atom with two terms, which stand for objects.  A constant   *)
(* has no parts.                                                           *)
ASSUME PairAssumption ==
  \A f \in Formula : IsPair(f) =>
    /\ \A i \in 1 .. 2 : Is("const", f.kids[i]) => f.kids[i] = Const(f.kids[i].sym)
    /\ f.kids = <<f.kids[1], f.kids[2]>>
    /\ \A m \in Structure :
         /\ \A i \in 1 .. 2 : Denotation(f.kids[i], m) \in Domain(m)
         /\ TrueIn(f, m) <=> Holds(f.sym, Denotation(f.kids[1], m), Denotation(f.kids[2], m), m)

(* The properties by name, for the relation of declaration d in structure  *)
(* m; those that start from membership hold on the carrier.                *)
OnCarrier(d, v, m) == \A X \in d.refers : Holds("In", v, Denotation(Const(X), m), m)

HasProperty(d, p, m) ==
  LET R(u, v) == Holds(d.name, u, v, m)
  IN  /\ p = "reflexive"     => \A u \in Domain(m) : OnCarrier(d, u, m) => R(u, u)
      /\ p = "irreflexive"   => \A u \in Domain(m) : OnCarrier(d, u, m) => ~ R(u, u)
      /\ p = "symmetric"     => \A u, v \in Domain(m) : R(u, v) => R(v, u)
      /\ p = "antisymmetric" => \A u, v \in Domain(m) : R(u, v) /\ R(v, u) => u = v
      /\ p = "asymmetric"    => \A u, v \in Domain(m) : R(u, v) => ~ R(v, u)
      /\ p = "transitive"    => \A u, v, w \in Domain(m) : R(u, v) /\ R(v, w) => R(u, w)
      /\ p = "total"         => \A u, v \in Domain(m) :
                                  OnCarrier(d, u, m) /\ OnCarrier(d, v, m) => R(u, v) \/ R(v, u)

(* What the declaration of a binary relation says is at least that it has  *)
(* its properties.                                                         *)
RelationsAreAsDeclared ==
  \A d \in Declaration, m \in Structure :
    d.kind = "predicate" /\ d.arity = 2 /\ Means(d, m) =>
      \A p \in d.properties : HasProperty(d, p, m)

(* The rule is one of RelationRules.                                       *)
RuleIsRelation(rule) ==
  \A cs \in Seq(Item), phi \in Formula, ctx \in RuleContext :
    Justifies(rule, cs, phi, ctx) => rule \in RelationRule /\ AskRelation(rule, cs, phi, ctx)
=============================================================================
