----------------------------- MODULE GroundTruth -----------------------------
(***************************************************************************)
(* The walk with rules that compare whole formulas (GroundRules): what is  *)
(* assumed of formulas and of their truth.  It is what evaluate_formula    *)
(* says of a connective or an equation, at the top of a formula; what it   *)
(* says of atoms, terms and quantifiers is left open.                      *)
(***************************************************************************)
EXTENDS ProofSoundness, GroundRules

CONSTANT Denotation(_, _)   \* what a term stands for in a structure

(* Formulas are nodes, and the parts of a connective are formulas.         *)
ASSUME ShapeAssumption ==
  \A f \in Formula :
    /\ f = Node(f.op, f.sym, f.kids)
    /\ f.op \in Connective => f.kids \in Seq(Formula)
    /\ Is("not", f) => Len(f.kids) = 1
    /\ f.op \in {"implies", "iff"} => Len(f.kids) = 2
    /\ Is("equals", f) => f.kids = <<f.kids[1], f.kids[2]>>

(* A flag is an atom that uses its name, and not as an object; a connective*)
(* uses what its parts use.                                                *)
ASSUME UsesAssumption ==
  /\ \A c \in Name : Is("atom", Flag(c)) /\ \E u \in Uses(Flag(c)) : u.name = c /\ u.as # "object"
  /\ \A f \in Formula :
       f.op \in Connective => \A i \in DOMAIN f.kids : Uses(f.kids[i]) \subseteq Uses(f)

(* Truth of a formula in terms of its parts.                               *)
ASSUME TruthAssumption ==
  \A f \in Formula, m \in Structure :
    LET Part(i) == TrueIn(f.kids[i], m)
    IN  /\ Is("not", f)     => (TrueIn(f, m) <=> ~ Part(1))
        /\ Is("and", f)     => (TrueIn(f, m) <=> \A i \in DOMAIN f.kids : Part(i))
        /\ Is("or", f)      => (TrueIn(f, m) <=> \E i \in DOMAIN f.kids : Part(i))
        /\ Is("implies", f) => (TrueIn(f, m) <=> (Part(1) => Part(2)))
        /\ Is("iff", f)     => (TrueIn(f, m) <=> (Part(1) <=> Part(2)))
        /\ Is("equals", f)  =>
             (TrueIn(f, m) <=> Denotation(f.kids[1], m) = Denotation(f.kids[2], m))

(* A contradiction is nowhere true.                                        *)
ASSUME ContradictionAssumption ==
  /\ ~ Contradictory(NoFormula)
  /\ \A f \in Formula, m \in Structure : Contradictory(f) => ~ TrueIn(f, m)

(* The rule is one of GroundRules.                                         *)
RuleIsGround(rule) ==
  \A cs \in Seq(Item), phi \in Formula, ctx \in RuleContext :
    Justifies(rule, cs, phi, ctx) => rule \in GroundRule /\ AskGround(rule, cs, phi)
=============================================================================
