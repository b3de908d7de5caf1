--------------------------- MODULE QuantifierRules ---------------------------
(***************************************************************************)
(* The standard rules of source/ProofLogic.py (default_rules) that match a *)
(* formula with the body of a quantified one, and what they ask of the     *)
(* constant that stands for the variable.  A rule is a predicate on the    *)
(* cited candidates, the formula claimed and the RuleContext of the line.  *)
(*                                                                         *)
(* The matcher and the occurrence check are recursions over a formula and  *)
(* so parameters here: FormulaMatcher is in InferenceRules.                *)
(***************************************************************************)
EXTENDS GroundRules

CONSTANTS
  BodyMatches(_, _),   \* FormulaMatcher: the body of the first formula reads as the second
  ReadsAs(_, _),       \* what its variable then stands for: one term, or none if it does not occur
  Occurs(_, _)         \* _term_occurs_in_formula: the constant occurs in the formula

(***************************************************************************)
(* RuleContext: the formulas taken for granted and the open assumptions    *)
(* (hypotheses), the constants plain declarations introduced (arbitrary),  *)
(* the names some declaration's structure refers to (constrained).         *)
(***************************************************************************)
ArbitraryConstants(ctx) == ctx.arbitrary \ ctx.constrained

(* _hypothesis_reasons finds nothing against constant c.  Mutants: of the  *)
(* two questions only one is asked.                                        *)
SaidByNoHypothesis(c, ctx) == \A h \in ctx.hypotheses : ~ Occurs(c, h)
SaidByNoDeclaration(c, ctx) == c \notin ctx.constrained
SaidNothingAbout(c, ctx) ==
  /\ \A h \in ctx.hypotheses : ~ Occurs(c, h)
  /\ c \notin ctx.constrained

NotSeenBefore(c, record) == \A f \in record.outer : ~ Occurs(c, f)

-----------------------------------------------------------------------------
(* Rules that cite formulas only.                                          *)

UniversalInstantiation(cs, phi) == IsA("forall", cs[1]) /\ BodyMatches(cs[1], phi)

UniversalModusPonens(cs, phi) ==
  LET Detach(universal, minor) ==
        /\ IsA("forall", universal)
        /\ Is("implies", universal.kids[1])
        /\ ~ IsRecord(minor)
        /\ BodyMatches(universal, Implies(minor, phi))
  IN  InSomeOrder(cs, Detach)

ExistentialIntroduction(cs, phi) ==
  Is("exists", phi) /\ ~ IsRecord(cs[1]) /\ BodyMatches(phi, cs[1])

-----------------------------------------------------------------------------
(* Rules that consume the record of a closed subproof.                     *)

ExistentialElimination(cs, phi, ctx) ==
  LET Judge(exists, record) ==
        /\ IsA("exists", exists)
        /\ IsRecord(record)
        /\ record.conclusion = phi
        /\ BodyMatches(exists, record.assumption)
        /\ \A t \in ReadsAs(exists, record.assumption) :
             /\ Is("const", t)
             /\ ~ Occurs(t.sym, phi)
             /\ ~ Occurs(t.sym, exists)
             /\ NotSeenBefore(t.sym, record)
             /\ SaidNothingAbout(t.sym, ctx)
  IN  InSomeOrder(cs, Judge)

UniversalGeneralization(cs, phi, ctx) ==
  /\ IsRecord(cs[1])
  /\ Is("forall", phi)
  /\ BodyMatches(phi, cs[1].conclusion)
  /\ ReadsAs(phi, cs[1].conclusion) # {}
  /\ \A t \in ReadsAs(phi, cs[1].conclusion) :
       /\ Is("const", t)
       /\ cs[1].assumption = Atom(t.sym, <<>>)
       /\ NotSeenBefore(t.sym, cs[1])
       /\ SaidNothingAbout(t.sym, ctx)

-----------------------------------------------------------------------------
QuantifierRule ==
  {"UniversalInstantiation", "UniversalModusPonens", "ExistentialIntroduction",
   "ExistentialElimination", "UniversalGeneralization"}

(* ProofValidator._ask_rule for these.                                     *)
AskQuantifier(rule, cs, phi, ctx) ==
  /\ Len(cs) = PremiseArity(rule)
  /\ CASE rule = "UniversalInstantiation"  -> UniversalInstantiation(cs, phi)
       [] rule = "UniversalModusPonens"    -> UniversalModusPonens(cs, phi)
       [] rule = "ExistentialIntroduction" -> ExistentialIntroduction(cs, phi)
       [] rule = "ExistentialElimination"  -> ExistentialElimination(cs, phi, ctx)
       [] rule = "UniversalGeneralization" -> UniversalGeneralization(cs, phi, ctx)
=============================================================================
