--------------------------- MODULE InferenceRules ---------------------------
(***************************************************************************)
(* The standard inference rules of source/ProofLogic.py (default_rules):   *)
(* those of GroundRules and QuantifierRules with the matcher and the       *)
(* recursions that they ask for, and the one for unique existence.         *)
(*                                                                         *)
(* PropositionalEquivalence, Substitution and Induction are in             *)
(* RewritingRules, the search of Algebra is CongruenceClosure, promoted    *)
(* theorems are TheoremRules.                                              *)
(***************************************************************************)
EXTENDS FormulaLogic, QuantifierRules

(***************************************************************************)
(* FormulaMatcher: what variable x must stand for in the pattern to give   *)
(* the target.  The matcher walks both formulas together and collects the  *)
(* terms met where the pattern has x; NoMatch marks a mismatch.  bound is  *)
(* the list of names the target's quantifiers bind on the way down: a term *)
(* with one of them free would be captured.  As in match_formula, a        *)
(* quantifier that binds x stops the match, and the two bound names met at *)
(* an inner quantifier are not compared with each other.                   *)
(***************************************************************************)
NoMatch == Node("no match", "", <<>>)

RECURSIVE Readings(_, _, _, _)
Readings(x, pattern, target, bound) ==
  IF pattern = Var(x)
  THEN IF IsTerm(target) /\ FreeVariables(target) \cap bound = {} THEN {target} ELSE {NoMatch}
  ELSE IF pattern.op # target.op \/ Len(pattern.kids) # Len(target.kids) THEN {NoMatch}
  ELSE IF IsQuantifier(pattern)
  THEN IF x \in {pattern.sym, target.sym}
       THEN {NoMatch}
       ELSE Readings(x, pattern.kids[1], target.kids[1], bound \cup {target.sym})
  ELSE IF pattern.sym # target.sym THEN {NoMatch}
  ELSE UNION {Readings(x, pattern.kids[i], target.kids[i], bound) : i \in DOMAIN pattern.kids}

(* match_formula succeeds when every occurrence of x reads as one and the  *)
(* same term; Instance is then that set (empty when x does not occur).     *)
(* Mutant: two occurrences may read as two terms.                          *)
Instance(q, target) == Readings(q.sym, q.kids[1], target, {})
MatchesLoosely(q, target) == NoMatch \notin Instance(q, target)
MatchesBody(q, target) == LET r == Instance(q, target) IN NoMatch \notin r /\ Cardinality(r) <= 1

-----------------------------------------------------------------------------
(* _is_contradiction: X and Y, the same formula under an odd and an even   *)
(* number of negations.                                                    *)
RECURSIVE Unnegate(_)
Unnegate(f) ==
  IF Is("not", f)
  THEN LET u == Unnegate(f.kids[1]) IN [core |-> u.core, odd |-> ~ u.odd]
  ELSE [core |-> f, odd |-> FALSE]

IsContradiction(f) ==
  /\ Is("and", f)
  /\ Len(f.kids) = 2
  /\ LET left  == Unnegate(f.kids[1])
         right == Unnegate(f.kids[2])
     IN  left.core = right.core /\ left.odd # right.odd

(* exists Y, B(Y) and B(c) -> c = d, with c arbitrary, give                *)
(* exists W, (B(W) and forall V, (B(V) -> V = W)).                         *)
Uniqueness(cs, phi, ctx) ==
  LET parts  == phi.kids[1].kids
      unique == Last(parts)
      held   == IF Len(parts) = 2 THEN parts[1] ELSE And(Front(parts))
      Shape  ==
        /\ Is("exists", phi)
        /\ Is("and", phi.kids[1])
        /\ Len(parts) >= 2
        /\ Is("forall", unique)
        /\ Is("implies", unique.kids[1])
        /\ unique.sym # phi.sym
        /\ unique.kids[1].kids[2] \in {Equals(Var(unique.sym), Var(phi.sym)),
                                       Equals(Var(phi.sym), Var(unique.sym))}
        /\ AlphaEq(ForAll(unique.sym, unique.kids[1].kids[1]), ForAll(phi.sym, held))
      Pinned(existence, step, c, d) ==
        /\ AlphaEq(step.kids[1], Substitute(existence.kids[1], existence.sym, c))
        /\ Is("const", c)
        /\ Is("const", d)
        /\ c # d
        /\ ~ ConstantOccurs(c.sym, existence)
        /\ c.sym \in ArbitraryConstants(ctx)
        /\ \A h \in ctx.hypotheses : ~ ConstantOccurs(c.sym, h)
      Judge(existence, step) ==
        /\ IsA("exists", existence)
        /\ IsA("implies", step)
        /\ AlphaEq(Exists(phi.sym, held), existence)
        /\ Is("equals", step.kids[2])
        /\ LET sides == step.kids[2].kids
           IN  Pinned(existence, step, sides[1], sides[2]) \/ Pinned(existence, step, sides[2], sides[1])
  IN  Shape /\ InSomeOrder(cs, Judge)

-----------------------------------------------------------------------------
(* ProofValidator._ask_rule: does the rule justify phi from cs?            *)
AskRule(rule, cs, phi, ctx) ==
  \/ rule \in GroundRule /\ AskGround(rule, cs, phi)
  \/ rule \in QuantifierRule /\ AskQuantifier(rule, cs, phi, ctx)
  \/ rule = "Uniqueness" /\ Len(cs) = PremiseArity(rule) /\ Uniqueness(cs, phi, ctx)
=============================================================================
