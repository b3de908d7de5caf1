----------------------------- MODULE GroundRules -----------------------------
(***************************************************************************)
(* The standard rules of source/ProofLogic.py (default_rules) that compare *)
(* whole formulas: those for connectives, equality and the records of      *)
(* closed subproofs.  A rule is a predicate on the cited candidates, each  *)
(* a formula or the record of a closed subproof (SubproofRecord), and the  *)
(* formula claimed.  The rules that match or substitute terms are in       *)
(* QuantifierRules and InferenceRules.                                     *)
(***************************************************************************)
EXTENDS FormulaSyntax, Integers, SequencesExt

CONSTANT Contradictory(_)   \* _is_contradiction, a recursion over the formula:
                            \* IsContradiction of InferenceRules

(* A SubproofRecord has its opening line, its last line (some node that is *)
(* no formula when that is itself a subproof), the formulas derived inside *)
(* and the formulas the enclosing block had derived before it opened.      *)
NoConclusion == Node("none", "", <<>>)
IsRecord(c)  == "assumption" \in DOMAIN c
IsA(op, c)   == ~ IsRecord(c) /\ Is(op, c)

Connective == {"not", "and", "or", "implies", "iff"}

(* The two candidates of a two-premise rule, in either citation order.     *)
InSomeOrder(cs, P(_, _)) == Len(cs) = 2 /\ (P(cs[1], cs[2]) \/ P(cs[2], cs[1]))

-----------------------------------------------------------------------------
(* Rules that cite formulas only.                                          *)

ConjunctionElimination(cs, phi) ==
  IsA("and", cs[1]) /\ \E i \in DOMAIN cs[1].kids : cs[1].kids[i] = phi

ConjunctionIntroduction(cs, phi) == Is("and", phi) /\ phi.kids = cs

BiconditionalElimination(cs, phi) ==
  /\ IsA("iff", cs[1])
  /\ Is("implies", phi)
  /\ phi.kids \in {cs[1].kids, Reverse(cs[1].kids)}

Reiteration(cs, phi) == cs[1] = phi

ModusPonens(cs, phi) ==
  LET Detach(minor, major) == IsA("implies", major) /\ major.kids[1] = minor /\ major.kids[2] = phi
  IN  IF IsA("implies", cs[2]) /\ cs[2].kids[1] = cs[1]
      THEN Detach(cs[1], cs[2])
      ELSE Detach(cs[2], cs[1])

(* Mutant of ModusTollens: from P -> Q and not P, not Q.                   *)
DenyingTheAntecedent(cs, phi) ==
  LET Deny(major, minor) ==
        IsA("implies", major) /\ minor = Not(major.kids[1]) /\ phi = Not(major.kids[2])
  IN  InSomeOrder(cs, Deny)

ModusTollens(cs, phi) ==
  LET Deny(major, minor) ==
        /\ IsA("implies", major)
        /\ IsA("not", minor)
        /\ minor.kids[1] = major.kids[2]
        /\ phi = Not(major.kids[1])
  IN  InSomeOrder(cs, Deny)

DisjunctionIntroduction(cs, phi) ==
  Is("or", phi) /\ \E i \in DOMAIN phi.kids : phi.kids[i] = cs[1]

BiconditionalIntroduction(cs, phi) ==
  LET Both(f, g) == f = Implies(phi.kids[1], phi.kids[2]) /\ g = Implies(phi.kids[2], phi.kids[1])
  IN  Is("iff", phi) /\ InSomeOrder(cs, Both)

DisjunctiveSyllogism(cs, phi) ==
  LET Drop(disjunction, denied) ==
        /\ IsA("or", disjunction)
        /\ IsA("not", denied)
        /\ Len(disjunction.kids) = 2
        /\ LET d1 == disjunction.kids[1]
               d2 == disjunction.kids[2]
           IN  IF denied.kids[1] = d1 THEN phi = d2 ELSE denied.kids[1] = d2 /\ phi = d1
  IN  InSomeOrder(cs, Drop)

HypotheticalSyllogism(cs, phi) ==
  LET Chain(f, g) ==
        /\ IsA("implies", f)
        /\ IsA("implies", g)
        /\ f.kids[2] = g.kids[1]
        /\ phi.kids = <<f.kids[1], g.kids[2]>>
  IN  Is("implies", phi) /\ InSomeOrder(cs, Chain)

Explosion(cs, phi) ==
  LET Deny(f, g) == IsA("not", f) /\ f.kids[1] = g
  IN  InSomeOrder(cs, Deny)

Reflexivity(cs, phi) == Is("equals", phi) /\ phi.kids[1] = phi.kids[2]

Symmetry(cs, phi) ==
  IsA("equals", cs[1]) /\ Is("equals", phi) /\ phi.kids = Reverse(cs[1].kids)

Transitivity(cs, phi) ==
  LET Chain(f, g) ==
        /\ IsA("equals", f)
        /\ IsA("equals", g)
        /\ f.kids[2] = g.kids[1]
        /\ phi.kids = <<f.kids[1], g.kids[2]>>
  IN  Is("equals", phi) /\ InSomeOrder(cs, Chain)

-----------------------------------------------------------------------------
(* Rules that consume the record of a closed subproof.                     *)

ConditionalIntroduction(cs, phi) ==
  IsRecord(cs[1]) /\ phi = Implies(cs[1].assumption, cs[1].conclusion)

ProofByContradiction(cs, phi) ==
  /\ IsRecord(cs[1])
  /\ Contradictory(cs[1].conclusion)
  /\ IF Is("not", cs[1].assumption)
     THEN phi = cs[1].assumption.kids[1]
     ELSE phi = Not(cs[1].assumption)

(* Of the three candidates, two are the cases and one the disjunction.     *)
AreCases(cs, i, j, phi) ==
  i < j /\ \A n \in {i, j} : IsRecord(cs[n]) /\ cs[n].conclusion = phi

(* Mutant of DisjunctionElimination: one case may stand for both.          *)
CasesWithoutCover(cs, phi) ==
  \E i, j, k \in DOMAIN cs :
    /\ AreCases(cs, i, j, phi)
    /\ IsA("or", cs[k])
    /\ {cs[i].assumption, cs[j].assumption} \subseteq ToSet(cs[k].kids)

DisjunctionElimination(cs, phi) ==
  \E i, j, k \in DOMAIN cs :
    /\ AreCases(cs, i, j, phi)
    /\ IsA("or", cs[k])
    /\ <<cs[i].assumption, cs[j].assumption>> \in {cs[k].kids, Reverse(cs[k].kids)}

-----------------------------------------------------------------------------
(* default_rules, and the number of candidates each takes (premise_arity). *)

OnePremise ==
  {"ConjunctionElimination", "BiconditionalElimination", "Reiteration",
   "DisjunctionIntroduction", "Symmetry", "UniversalInstantiation",
   "ExistentialIntroduction", "ConditionalIntroduction", "ProofByContradiction",
   "UniversalGeneralization"}

TwoPremises ==
  {"ConjunctionIntroduction", "ModusPonens", "ModusTollens", "BiconditionalIntroduction",
   "DisjunctiveSyllogism", "HypotheticalSyllogism", "Explosion", "Transitivity",
   "UniversalModusPonens", "ExistentialElimination", "Uniqueness"}

DefaultRules == {"Reflexivity", "DisjunctionElimination"} \cup OnePremise \cup TwoPremises

PremiseArity(rule) ==
  IF rule = "Reflexivity" THEN 0
  ELSE IF rule \in OnePremise THEN 1
  ELSE IF rule \in TwoPremises THEN 2
  ELSE 3

(* Those that neither match nor substitute.                                *)
GroundRule ==
  {"ConjunctionElimination", "ConjunctionIntroduction", "BiconditionalElimination",
   "Reiteration", "ModusPonens", "ModusTollens", "DisjunctionIntroduction",
   "DisjunctionElimination", "BiconditionalIntroduction", "DisjunctiveSyllogism",
   "HypotheticalSyllogism", "Explosion", "Reflexivity", "Symmetry", "Transitivity",
   "ConditionalIntroduction", "ProofByContradiction"}

(* ProofValidator._ask_rule for these.                                     *)
AskGround(rule, cs, phi) ==
  /\ Len(cs) = PremiseArity(rule)
  /\ CASE rule = "ConjunctionElimination"      -> ConjunctionElimination(cs, phi)
       [] rule = "ConjunctionIntroduction"     -> ConjunctionIntroduction(cs, phi)
       [] rule = "BiconditionalElimination"    -> BiconditionalElimination(cs, phi)
       [] rule = "Reiteration"                 -> Reiteration(cs, phi)
       [] rule = "ModusPonens"                 -> ModusPonens(cs, phi)
       [] rule = "ModusTollens"                -> ModusTollens(cs, phi)
       [] rule = "DisjunctionIntroduction"     -> DisjunctionIntroduction(cs, phi)
       [] rule = "DisjunctionElimination"      -> DisjunctionElimination(cs, phi)
       [] rule = "BiconditionalIntroduction"   -> BiconditionalIntroduction(cs, phi)
       [] rule = "DisjunctiveSyllogism"        -> DisjunctiveSyllogism(cs, phi)
       [] rule = "HypotheticalSyllogism"       -> HypotheticalSyllogism(cs, phi)
       [] rule = "Explosion"                   -> Explosion(cs, phi)
       [] rule = "Reflexivity"                 -> Reflexivity(cs, phi)
       [] rule = "Symmetry"                    -> Symmetry(cs, phi)
       [] rule = "Transitivity"                -> Transitivity(cs, phi)
       [] rule = "ConditionalIntroduction"     -> ConditionalIntroduction(cs, phi)
       [] rule = "ProofByContradiction"        -> ProofByContradiction(cs, phi)
=============================================================================
