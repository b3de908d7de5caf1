--------------------------- MODULE QuantifierTruth ---------------------------
(***************************************************************************)
(* The walk with the rules of QuantifierRules too: what is assumed of      *)
(* quantifiers, of the matcher, and of the structures a constant is        *)
(* reinterpreted in.                                                       *)
(***************************************************************************)
EXTENDS GroundTruth, QuantifierRules

CONSTANTS
  Domain(_),              \* the objects of a structure
  BodyTrue(_, _, _),      \* the body of the quantified formula is true in the structure
                          \* when its variable stands for the object
  Reinterpreted(_, _, _)  \* the structure in which the constant stands for the object

(* Truth of a quantified formula in terms of its body.                     *)
ASSUME QuantifierAssumption ==
  \A q \in Formula, m \in Structure :
    /\ Is("forall", q) => (TrueIn(q, m) <=> \A v \in Domain(m) : BodyTrue(q, v, m))
    /\ Is("exists", q) => (TrueIn(q, m) <=> \E v \in Domain(m) : BodyTrue(q, v, m))

(* A formula that reads as the body says it of some object; if the         *)
(* variable does not occur, of any.  The matcher keeps to this as long as  *)
(* it does not confuse two quantifiers inside the body.                    *)
ASSUME MatchAssumption ==
  \A q \in Formula : IsQuantifier(q) =>
    /\ ~ BodyMatches(q, NoFormula)
    /\ \A f \in Formula : BodyMatches(q, f) =>
         /\ \A m \in Structure : \E v \in Domain(m) : BodyTrue(q, v, m) <=> TrueIn(f, m)
         /\ ReadsAs(q, f) = {} =>
              \A m \in Structure : \A v \in Domain(m) : BodyTrue(q, v, m) <=> TrueIn(f, m)
    /\ \A f, g \in Formula : BodyMatches(q, Implies(f, g)) =>
         \A m \in Structure :
           \E v \in Domain(m) : BodyTrue(q, v, m) <=> (TrueIn(f, m) => TrueIn(g, m))

(* Where the variable reads as a constant that the quantified formula does *)
(* not mention, the constant may stand for any object in its place.        *)
ASSUME ConstantAssumption ==
  \A q \in Formula, f \in Formula : IsQuantifier(q) /\ BodyMatches(q, f) =>
    /\ \A t \in ReadsAs(q, f) : ReadsAs(q, f) = {t}
    /\ \A t \in ReadsAs(q, f) : Is("const", t) =>
         /\ t.sym \in Name
         /\ \E u \in Uses(f) : u.name = t.sym /\ u.as = "object"
         /\ ~ Occurs(t.sym, q) =>
              \A m \in Structure : \A v \in Domain(m) :
                TrueIn(f, Reinterpreted(m, t.sym, v)) <=> BodyTrue(q, v, m)

(* No formula without the constant depends on what it stands for.          *)
ASSUME ReinterpretationAssumption ==
  \A c \in Name, m \in Structure : \A v \in Domain(m) :
    /\ Reinterpreted(m, c, v) \in Structure
    /\ \A f \in Formula : ~ Occurs(c, f) => (TrueIn(f, Reinterpreted(m, c, v)) <=> TrueIn(f, m))

(* A flag that is read as a body, or as the antecedent of one, is part of  *)
(* the quantified formula.                                                 *)
ASSUME FlagAssumption ==
  \A c \in Name :
    /\ Flag(c) = Atom(c, <<>>)
    /\ \A q \in Formula : IsQuantifier(q) =>
         /\ BodyMatches(q, Flag(c)) => ReadsAs(q, Flag(c)) = {}
         /\ \/ BodyMatches(q, Flag(c))
            \/ \E g \in Formula : BodyMatches(q, Implies(Flag(c), g))
            => \E u \in Uses(q) : u.name = c /\ u.as # "object"

(* And what a declaration says of an object, it says of one that its       *)
(* structure refers to: the rules read nothing else of a declaration than  *)
(* the properties of a relation and its carrier.                           *)
DeclarationsSayNoMore ==
  \A d \in Declaration, c \in Name, m \in Structure : \A v \in Domain(m) :
    c \notin d.refers /\ Means(d, m) => Means(d, Reinterpreted(m, c, v))

(* No occurrence of the generalized constant is left in the conclusion.    *)
(* UniversalGeneralizationRule does not ask this.                          *)
NothingIsLeft(cs, phi) == \A t \in ReadsAs(phi, cs[1].conclusion) : ~ Occurs(t.sym, phi)

(* The rule is one of QuantifierRules, and generalizes every occurrence.   *)
RuleIsQuantifier(rule) ==
  \A cs \in Seq(Item), phi \in Formula, ctx \in RuleContext :
    Justifies(rule, cs, phi, ctx) =>
      /\ rule \in QuantifierRule /\ AskQuantifier(rule, cs, phi, ctx)
      /\ rule = "UniversalGeneralization" => NothingIsLeft(cs, phi)
=============================================================================
