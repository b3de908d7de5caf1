--------------------------- MODULE ProofSoundness ---------------------------
(***************************************************************************)
(* What the kernel promises about truth: a line it accepted holds wherever *)
(* everything it rests on holds.  What a line rests on is what the proof   *)
(* took for granted so far, at any depth, the assumptions of the subproofs *)
(* around it, and what the declarations say about the symbols they declare *)
(* (Means: a relation declared symmetric is symmetric).                    *)
(*                                                                         *)
(* A structure interprets every name once.  When a name is declared again  *)
(* after the subproof that declared it closed, a hypothesis about the      *)
(* first still counts as one about the second: the promise is then weaker  *)
(* than a reader would want, never stronger.                               *)
(***************************************************************************)
EXTENDS ProofValidator

CONSTANTS
  Structure,      \* the structures in which formulas are true or false
  TrueIn(_, _),   \* the formula is true in the structure
  Means(_, _)     \* what the declaration says is true in the structure

(* f holds in every structure in which all of H holds and that is as the   *)
(* declarations D say.                                                     *)
Entails(D, H, f) ==
  \A m \in Structure :
    (\A d \in D : Means(d, m)) /\ (\A h \in H : TrueIn(h, m)) => TrueIn(f, m)

(* The assumptions of the open subproofs up to the i-th block.             *)
AssumptionsAround(i) == {blocks[j].opener : j \in {k \in 2 .. i : ~ blocks[k].fresh}}

Assumption(record) == IF record.fresh THEN {} ELSE {record.assumption}

(* The flag that opens a "Fresh Variable" subproof states nothing.         *)
IsFlag(f) == \E c \in Name : f = Flag(c)

(* The i-th block, and what its lines may rest on beside declarations.     *)
Hypotheses(i) == givenLines \cup AssumptionsAround(i)

(* What a closed subproof concludes follows from its own assumption        *)
(* besides.                                                                *)
RecordHolds(r, D, H) ==
  \/ r.conclusion = NoFormula
  \/ r.fresh /\ r.conclusion = r.assumption /\ IsFlag(r.assumption)
  \/ Entails(D, H \cup Assumption(r), r.conclusion)

(* The lines of the i-th open block follow from what they rest on, and so  *)
(* do the conclusions of the subproofs closed in it.                       *)
LinesFollow(i, D) ==
  \A f \in blocks[i].seen \cap Formula :
    \/ blocks[i].fresh /\ f = blocks[i].opener /\ IsFlag(f)
    \/ Entails(D, Hypotheses(i), f)

RecordsFollow(i, D) ==
  \A r \in blocks[i].seen \ Formula : RecordHolds(r, D, Hypotheses(i))

(* What a proof established rests on every declaration it made, at any     *)
(* depth, in closed subproofs too: these, with own_givens and the axioms   *)
(* cited, are what promote_theorem lets a theorem owe.                     *)
Made == InitialDeclarations \cup ownDeclarations
Sound == \A i \in DOMAIN blocks : LinesFollow(i, Made) /\ RecordsFollow(i, Made)

(* The same of the lines outside every subproof alone: what the proof      *)
(* shows when it is finished.                                              *)
TopLevelIsSound == LinesFollow(1, Made)

(* RuleContext: "a declaration made in a subproof is visible in that       *)
(* subproof and in the subproofs nested in it, and nowhere else, so two    *)
(* sibling subproofs can each declare their own R and neither lends its    *)
(* properties to the other".  The lines of the open blocks then rest on    *)
(* the declarations still visible.                                         *)
SoundInScope == \A i \in DOMAIN blocks : LinesFollow(i, VisibleDeclarations)
-----------------------------------------------------------------------------
(* What the promise rests on: that each rule is sound by itself, wherever  *)
(* a proof can ask it.                                                     *)

RuleContext ==
  [hypotheses : SUBSET Formula, arbitrary : SUBSET Name,
   constrained : SUBSET Name, declared : SUBSET Declaration]

(* A declaration without structure metadata.                               *)
SaysNothing(d) == d.refers = {} /\ d.properties = {}

(* The context of a line of a proof whose declarations are D: of what is   *)
(* visible, no two declarations are of one name and those that say         *)
(* something are among D; what is arbitrary is an object of which nothing  *)
(* is said.                                                                *)
ContextFits(ctx, D) ==
  /\ ctx.constrained = Refers(D)
  /\ \A d, e \in ctx.declared : d.name = e.name => d = e
  /\ \A d \in ctx.declared : d \in D \/ SaysNothing(d)
  /\ \A c \in ctx.arbitrary :
       \E d \in ctx.declared : d.name = c /\ d.kind = "object" /\ SaysNothing(d)

(* The two formulas use no name in two ways that exclude each other.       *)
ReadTogether(f, g) ==
  \A u \in Uses(f), v \in Uses(g) :
    u.name = v.name => KindsFor(u.as) \cap KindsFor(v.as) # {}

(* The names that the flags among fs declare are used as objects in f.     *)
FlagsAreObjectsIn(f, flags) ==
  \A u \in Uses(f) : Flag(u.name) \in flags => u.as = "object"

(* A candidate that a proof established from H: a formula, or a record     *)
(* whose assumption and conclusion were read in one scope.                 *)
Established(c, D, H) ==
  IF c \in Formula THEN Entails(D, H, c)
  ELSE /\ RecordHolds(c, D, H)
       /\ c.fresh \/ c.conclusion = NoFormula \/ ReadTogether(c.assumption, c.conclusion)

(* A rule that says yes to established candidates claims what follows.  A  *)
(* line that opens a "Fresh Variable" subproof may be among the            *)
(* candidates, and then establishes nothing: its name is an object.        *)
RuleIsSound(rule) ==
  \A cs \in Seq(Item), phi \in Formula, ctx \in RuleContext,
     D \in SUBSET Declaration, flags \in SUBSET FreshLines :
    /\ ContextFits(ctx, D)
    /\ \A c \in ToSet(cs) : c \in flags \/ Established(c, D, ctx.hypotheses)
    /\ \A f \in {phi} \cup ((ToSet(cs) \cap Formula) \ flags) : FlagsAreObjectsIn(f, flags)
    /\ Justifies(rule, cs, phi, ctx)
    => Entails(D, ctx.hypotheses, phi)

RulesAreSound == \A rule \in Registered : RuleIsSound(rule)

(* Every "(Fresh Variable)" line is a flag.                                *)
FreshLinesAreFlags == \A phi \in FreshLines : IsFlag(phi)
=============================================================================
