---------------------------- MODULE RelationRules ----------------------------
(***************************************************************************)
(* The rules of source/DiscreteMathCore.py about binary relations.  They   *)
(* read no formula about the relation: a property is what the declaration  *)
(* visible at the line says (RuleContext.declaration), so they are the     *)
(* rules for which it matters which declarations a line sees.              *)
(***************************************************************************)
EXTENDS GroundRules

RelationRule ==
  {"RelationReflexivity", "RelationIrreflexivity", "RelationSymmetry", "RelationAntisymmetry",
   "RelationAsymmetry", "RelationTransitivity", "RelationTotality"}

RelationArity(rule) ==
  IF rule \in {"RelationAntisymmetry", "RelationTransitivity", "RelationTotality"} THEN 2 ELSE 1

(* _relation_terms and _membership_terms.                                  *)
IsPair(c)       == IsA("atom", c) /\ Len(c.kids) = 2
IsMembership(c) == IsPair(c) /\ c.sym = "In" /\ Is("const", c.kids[2])
Related(r, s, t) == Atom(r, <<s, t>>)

(* _allowed: the declaration of relation r has the property; and, for a    *)
(* rule that starts from membership, the relation was declared on X.       *)
(* Mutant of On: it was declared on some set.                              *)
Has(ctx, r, property) ==
  \E d \in ctx.declared :
    d.name = r /\ d.kind = "predicate" /\ d.arity = 2 /\ property \in d.properties
Anywhere(ctx, r, X) == \E d \in ctx.declared : d.name = r
On(ctx, r, X) == \E d \in ctx.declared : d.name = r /\ d.refers = {X}

FromMember(cs, f, property, ctx) ==
  /\ IsMembership(cs[1])
  /\ IsPair(f)
  /\ Has(ctx, f.sym, property)
  /\ On(ctx, f.sym, cs[1].kids[2].sym)
  /\ f.kids = <<cs[1].kids[1], cs[1].kids[1]>>

Converse(cs, f, property, ctx) ==
  /\ IsPair(cs[1])
  /\ Has(ctx, cs[1].sym, property)
  /\ f = Related(cs[1].sym, cs[1].kids[2], cs[1].kids[1])

RelationReflexivity(cs, phi, ctx)   == FromMember(cs, phi, "reflexive", ctx)
RelationIrreflexivity(cs, phi, ctx) == Is("not", phi) /\ FromMember(cs, phi.kids[1], "irreflexive", ctx)
RelationSymmetry(cs, phi, ctx)      == Converse(cs, phi, "symmetric", ctx)
RelationAsymmetry(cs, phi, ctx)     == Is("not", phi) /\ Converse(cs, phi.kids[1], "asymmetric", ctx)

RelationAntisymmetry(cs, phi, ctx) ==
  /\ IsPair(cs[1])
  /\ Has(ctx, cs[1].sym, "antisymmetric")
  /\ cs[2] = Related(cs[1].sym, cs[1].kids[2], cs[1].kids[1])
  /\ phi = Equals(cs[1].kids[1], cs[1].kids[2])

RelationTransitivity(cs, phi, ctx) ==
  /\ IsPair(cs[1])
  /\ IsPair(cs[2])
  /\ Has(ctx, cs[1].sym, "transitive")
  /\ cs[1].sym = cs[2].sym
  /\ cs[1].kids[2] = cs[2].kids[1]
  /\ phi = Related(cs[1].sym, cs[1].kids[1], cs[2].kids[2])

RelationTotality(cs, phi, ctx) ==
  /\ \A i \in 1 .. 2 : IsMembership(cs[i])
  /\ Is("or", phi)
  /\ Len(phi.kids) = 2
  /\ IsPair(phi.kids[1])
  /\ LET r == phi.kids[1].sym
         s == phi.kids[1].kids[1]
         t == phi.kids[1].kids[2]
     IN  /\ phi.kids[2] = Related(r, t, s)
         /\ Has(ctx, r, "total")
         /\ cs[1].kids[2] = cs[2].kids[2]
         /\ On(ctx, r, cs[1].kids[2].sym)
         /\ <<s, t>> \in {<<cs[1].kids[1], cs[2].kids[1]>>, <<cs[2].kids[1], cs[1].kids[1]>>}

(* The rules of a proof in discrete mathematics: default_rules and these.  *)
DiscreteArity(rule) == IF rule \in RelationRule THEN RelationArity(rule) ELSE PremiseArity(rule)

(* ProofValidator._ask_rule for these.                                     *)
AskRelation(rule, cs, phi, ctx) ==
  /\ Len(cs) = RelationArity(rule)
  /\ CASE rule = "RelationReflexivity"   -> RelationReflexivity(cs, phi, ctx)
       [] rule = "RelationIrreflexivity" -> RelationIrreflexivity(cs, phi, ctx)
       [] rule = "RelationSymmetry"      -> RelationSymmetry(cs, phi, ctx)
       [] rule = "RelationAntisymmetry"  -> RelationAntisymmetry(cs, phi, ctx)
       [] rule = "RelationAsymmetry"     -> RelationAsymmetry(cs, phi, ctx)
       [] rule = "RelationTransitivity"  -> RelationTransitivity(cs, phi, ctx)
       [] rule = "RelationTotality"      -> RelationTotality(cs, phi, ctx)

(* What the declaration of a relation says is true in structure m.         *)
DeclaredTrue(d, m) ==
  LET R(u, v)   == <<u, v>> \in m.holds[d.name]
      members   == {v \in m.domain : \A X \in d.refers : <<v, m.object[X]>> \in m.holds["In"]}
      Says(p)   ==
        CASE p = "reflexive"     -> \A u \in members : R(u, u)
          [] p = "irreflexive"   -> \A u \in members : ~ R(u, u)
          [] p = "symmetric"     -> \A u, v \in m.domain : R(u, v) => R(v, u)
          [] p = "antisymmetric" -> \A u, v \in m.domain : R(u, v) /\ R(v, u) => u = v
          [] p = "asymmetric"    -> \A u, v \in m.domain : R(u, v) => ~ R(v, u)
          [] p = "transitive"    -> \A u, v, w \in m.domain : R(u, v) /\ R(v, w) => R(u, w)
          [] p = "total"         -> \A u, v \in members : R(u, v) \/ R(v, u)
          [] OTHER               -> TRUE
  IN  d.kind = "predicate" /\ d.arity = 2 => \A p \in d.properties : Says(p)
=============================================================================
