---------------------------- MODULE GroundVerdicts ----------------------------
(***************************************************************************)
(* The seventeen rules of GroundRules in one structure: candidates that    *)
(* hold there make the claim hold there.  Whatever a proof is (a walk with *)
(* declarations and flags, or one with repeated arguments), its rules are  *)
(* judged by these lemmas.                                                 *)
(*                                                                         *)
(* They are about sets: Formula, the formulas; Statement, those that state *)
(* something (a flag does not); True, those true in the structure.         *)
(***************************************************************************)
EXTENDS GroundRules, TLAPS

-----------------------------------------------------------------------------
(* What is asked of the sets.                                              *)

(* The parts of a connective are formulas, those of an equation two terms. *)
AreBuiltUp(Formula) ==
  \A f \in Formula :
    /\ f.op \in Connective => f.kids \in Seq(Formula)
    /\ Is("not", f) => Len(f.kids) = 1
    /\ f.op \in {"implies", "iff"} => Len(f.kids) = 2
    /\ Is("equals", f) => f.kids = <<f.kids[1], f.kids[2]>>

(* True is the truth in some structure: connectives are tables, equality   *)
(* is an equivalence, and contradictions are false (evaluate_formula).     *)
IsTruth(True, Formula) ==
  /\ \A f \in Formula :
       LET Part(i) == f.kids[i] \in True
       IN  /\ Is("not", f)     => (f \in True <=> ~ Part(1))
           /\ Is("and", f)     => (f \in True <=> \A i \in DOMAIN f.kids : Part(i))
           /\ Is("or", f)      => (f \in True <=> \E i \in DOMAIN f.kids : Part(i))
           /\ Is("implies", f) => (f \in True <=> (Part(1) => Part(2)))
           /\ Is("iff", f)     => (f \in True <=> (Part(1) <=> Part(2)))
           /\ Is("equals", f) /\ f.kids[1] = f.kids[2] => f \in True
           /\ Contradictory(f) => f \notin True
  /\ \A f, g \in {e \in Formula : Is("equals", e)} :
       f \in True /\ g.kids[1] = f.kids[2] /\ g.kids[2] = f.kids[1] => g \in True
  /\ \A f, g, h \in {e \in Formula : Is("equals", e)} :
       /\ f \in True /\ g \in True /\ f.kids[2] = g.kids[1]
       /\ h.kids[1] = f.kids[1] /\ h.kids[2] = g.kids[2]
       => h \in True

(* The formula states something, and so do its parts if it is a connective.*)
SaysSomething(f, Statement) ==
  /\ f \in Statement
  /\ f.op \in Connective => \A i \in DOMAIN f.kids : f.kids[i] \in Statement

(* A candidate that holds: a formula that is true if it states something,  *)
(* or a record whose conclusion is true if its assumption is.              *)
CandidateHolds(c, Formula, Statement, True) ==
  /\ ~ IsRecord(c) =>
       /\ c \in Formula
       /\ c.op \in Connective \cup {"equals"} => SaysSomething(c, Statement)
       /\ c \in Statement => c \in True
  /\ IsRecord(c) =>
       /\ c.assumption \in Formula
       /\ Contradictory(c.conclusion) => c.conclusion \in Formula
       /\ c.conclusion \in Formula /\ c.assumption \in True => c.conclusion \in True

(* A rule is asked for phi in a structure in which its candidates hold.    *)
Asked(cs, phi, Formula, Statement, True) ==
  /\ AreBuiltUp(Formula) /\ IsTruth(True, Formula) /\ Statement \subseteq Formula
  /\ Len(cs) \in Nat /\ DOMAIN cs = 1 .. Len(cs)
  /\ \A i \in DOMAIN cs : CandidateHolds(cs[i], Formula, Statement, True)
  /\ \A f \in Formula : ~ IsRecord(f)
  /\ SaysSomething(phi, Statement)

-----------------------------------------------------------------------------
(* What a candidate that is a connective or an equation comes to, and what *)
(* the claim does.                                                         *)

LEMMA CompoundsAreTrue ==
  ASSUME NEW F, NEW S, NEW T, NEW cs, NEW phi, Asked(cs, phi, F, S, T),
         NEW i \in DOMAIN cs, NEW op \in Connective \cup {"equals"}, IsA(op, cs[i])
  PROVE  /\ cs[i] \in F /\ cs[i].op = op /\ Is(op, cs[i]) /\ cs[i] \in T
         /\ op # "equals" => cs[i].kids \in Seq(F) /\ \A k \in DOMAIN cs[i].kids : cs[i].kids[k] \in S
         /\ op = "not" => Len(cs[i].kids) = 1
         /\ op \in {"implies", "iff"} => Len(cs[i].kids) = 2
         /\ op = "equals" => cs[i].kids = <<cs[i].kids[1], cs[i].kids[2]>>
<1>1. ~ IsRecord(cs[i]) /\ cs[i].op = op /\ CandidateHolds(cs[i], F, S, T)
  BY DEF Asked, IsA, Is
<1>2. cs[i] \in F /\ SaysSomething(cs[i], S) /\ cs[i] \in T
  BY <1>1 DEF CandidateHolds, SaysSomething
<1>3. AreBuiltUp(F)
  BY DEF Asked
<1> QED BY <1>1, <1>2, <1>3 DEF AreBuiltUp, SaysSomething, Is, Connective

LEMMA StatementsAreTrue ==
  ASSUME NEW F, NEW S, NEW T, NEW cs, NEW phi, Asked(cs, phi, F, S, T),
         NEW i \in DOMAIN cs, cs[i] \in S
  PROVE  cs[i] \in T
BY DEF Asked, CandidateHolds

LEMMA ClaimStates ==
  ASSUME NEW F, NEW S, NEW T, NEW cs, NEW phi, Asked(cs, phi, F, S, T)
  PROVE  /\ AreBuiltUp(F) /\ IsTruth(T, F)
         /\ Len(cs) \in Nat /\ DOMAIN cs = 1 .. Len(cs)
         /\ phi \in F /\ phi \in S
         /\ phi.op \in Connective =>
              phi.kids \in Seq(F) /\ \A i \in DOMAIN phi.kids : phi.kids[i] \in S
BY DEF Asked, SaysSomething, AreBuiltUp

LEMMA RecordsConclude ==
  ASSUME NEW F, NEW S, NEW T, NEW cs, NEW phi, Asked(cs, phi, F, S, T),
         NEW i \in DOMAIN cs, IsRecord(cs[i])
  PROVE  /\ cs[i].assumption \in F
         /\ Contradictory(cs[i].conclusion) => cs[i].conclusion \in F
         /\ cs[i].conclusion \in F /\ cs[i].assumption \in T => cs[i].conclusion \in T
BY DEF Asked, CandidateHolds

(* The truth of formulas by their connective.                              *)
LEMMA TruthTables ==
  ASSUME NEW F, NEW T, IsTruth(T, F), NEW f \in F
  PROVE  /\ Is("not", f)     => (f \in T <=> f.kids[1] \notin T)
         /\ Is("and", f)     => (f \in T <=> \A i \in DOMAIN f.kids : f.kids[i] \in T)
         /\ Is("or", f)      => (f \in T <=> \E i \in DOMAIN f.kids : f.kids[i] \in T)
         /\ Is("implies", f) => (f \in T <=> (f.kids[1] \in T => f.kids[2] \in T))
         /\ Is("iff", f)     => (f \in T <=> (f.kids[1] \in T <=> f.kids[2] \in T))
         /\ Is("equals", f) /\ f.kids[1] = f.kids[2] => f \in T
         /\ Contradictory(f) => f \notin T
BY Zenon DEF IsTruth

(* The parts of a formula by its connective.                               *)
LEMMA PartsAreFormulas ==
  ASSUME NEW F, AreBuiltUp(F), NEW f \in F
  PROVE  /\ \A op \in Connective : Is(op, f) => f.kids \in Seq(F)
         /\ Is("not", f) => f.kids \in Seq(F) /\ Len(f.kids) = 1
         /\ Is("or", f) => f.kids \in Seq(F)
         /\ Is("implies", f) \/ Is("iff", f) => f.kids \in Seq(F) /\ Len(f.kids) = 2
         /\ Is("equals", f) => f.kids = <<f.kids[1], f.kids[2]>>
BY DEF AreBuiltUp, Is, Connective

LEMMA EquationsReverse ==
  ASSUME NEW F, NEW T, IsTruth(T, F), NEW f \in F, NEW g \in F,
         Is("equals", f), Is("equals", g), f \in T,
         g.kids[1] = f.kids[2], g.kids[2] = f.kids[1]
  PROVE  g \in T
BY DEF IsTruth

LEMMA EquationsChain ==
  ASSUME NEW F, NEW T, IsTruth(T, F), NEW f \in F, NEW g \in F, NEW h \in F,
         Is("equals", f), Is("equals", g), Is("equals", h), f \in T, g \in T,
         f.kids[2] = g.kids[1], h.kids[1] = f.kids[1], h.kids[2] = g.kids[2]
  PROVE  h \in T
BY DEF IsTruth

-----------------------------------------------------------------------------
(* Each rule on its own.                                                   *)

LEMMA ConjunctionEliminationIsSound ==
  ASSUME NEW F, NEW S, NEW T, NEW cs, NEW phi, Asked(cs, phi, F, S, T),
         Len(cs) = 1,
         ConjunctionElimination(cs, phi)
  PROVE  phi \in T
<1>1. 1 \in DOMAIN cs /\ cs[1] \in F /\ Is("and", cs[1]) /\ cs[1] \in T
  BY CompoundsAreTrue, ClaimStates DEF ConjunctionElimination, Connective, Is
<1> QED BY <1>1, TruthTables, ClaimStates DEF ConjunctionElimination

LEMMA ConjunctionIntroductionIsSound ==
  ASSUME NEW F, NEW S, NEW T, NEW cs, NEW phi, Asked(cs, phi, F, S, T),
         ConjunctionIntroduction(cs, phi)
  PROVE  phi \in T
<1>1. Is("and", phi) /\ phi.kids = cs
  BY DEF ConjunctionIntroduction
<1>2. \A i \in DOMAIN cs : cs[i] \in F /\ cs[i] \in S
  BY <1>1, ClaimStates DEF Is, Connective
<1>3. \A i \in DOMAIN cs : cs[i] \in T
  BY <1>2, StatementsAreTrue
<1> QED BY <1>1, <1>3, ClaimStates, TruthTables

LEMMA BiconditionalEliminationIsSound ==
  ASSUME NEW F, NEW S, NEW T, NEW cs, NEW phi, Asked(cs, phi, F, S, T),
         Len(cs) = 1,
         BiconditionalElimination(cs, phi)
  PROVE  phi \in T
<1>1. 1 \in DOMAIN cs /\ cs[1] \in F /\ Is("iff", cs[1]) /\ cs[1] \in T
  BY CompoundsAreTrue, ClaimStates DEF BiconditionalElimination, Connective, Is
<1>2. cs[1].kids \in Seq(F) /\ Len(cs[1].kids) = 2
  BY <1>1, ClaimStates, PartsAreFormulas
<1>3. Is("implies", phi) /\ phi \in F /\ phi.kids \in {cs[1].kids, Reverse(cs[1].kids)}
  BY ClaimStates DEF BiconditionalElimination
<1>4. \/ phi.kids[1] = cs[1].kids[1] /\ phi.kids[2] = cs[1].kids[2]
      \/ phi.kids[1] = cs[1].kids[2] /\ phi.kids[2] = cs[1].kids[1]
  BY <1>2, <1>3 DEF Reverse
<1>5. cs[1].kids[1] \in T <=> cs[1].kids[2] \in T
  BY <1>1, ClaimStates, TruthTables
<1> QED BY <1>3, <1>4, <1>5, ClaimStates, TruthTables

LEMMA ReiterationIsSound ==
  ASSUME NEW F, NEW S, NEW T, NEW cs, NEW phi, Asked(cs, phi, F, S, T),
         Len(cs) = 1,
         Reiteration(cs, phi)
  PROVE  phi \in T
BY ClaimStates, StatementsAreTrue DEF Reiteration

LEMMA DetachedIsTrue ==
  ASSUME NEW F, NEW S, NEW T, NEW cs, NEW phi, Asked(cs, phi, F, S, T),
         NEW i \in DOMAIN cs, NEW j \in DOMAIN cs,
         IsA("implies", cs[i]),
         cs[i].kids[1] = cs[j],
         cs[i].kids[2] = phi
  PROVE  phi \in T
<1>1. cs[i] \in F /\ Is("implies", cs[i]) /\ cs[i] \in T
  BY CompoundsAreTrue DEF Connective, Is
<1>2. Len(cs[i].kids) = 2 /\ cs[i].kids \in Seq(F)
  BY <1>1, ClaimStates, PartsAreFormulas
<1>3. cs[j] \in F /\ cs[j] \in S
  BY <1>2, CompoundsAreTrue DEF Connective
<1>4. cs[j] \in T
  BY <1>3, StatementsAreTrue
<1> QED BY <1>1, <1>4, ClaimStates, TruthTables

LEMMA ModusPonensIsSound ==
  ASSUME NEW F, NEW S, NEW T, NEW cs, NEW phi, Asked(cs, phi, F, S, T),
         Len(cs) = 2,
         ModusPonens(cs, phi)
  PROVE  phi \in T
<1>1. 1 \in DOMAIN cs /\ 2 \in DOMAIN cs
  BY ClaimStates
<1> QED BY <1>1, DetachedIsTrue DEF ModusPonens

LEMMA DeniedIsFalse ==
  ASSUME NEW F, NEW S, NEW T, NEW cs, NEW phi, Asked(cs, phi, F, S, T),
         NEW i \in DOMAIN cs, NEW j \in DOMAIN cs,
         IsA("implies", cs[i]),
         IsA("not", cs[j]),
         cs[j].kids[1] = cs[i].kids[2],
         phi = Not(cs[i].kids[1])
  PROVE  phi \in T
<1>1. cs[i] \in F /\ Is("implies", cs[i]) /\ cs[i] \in T
  BY CompoundsAreTrue DEF Connective, Is
<1>2. cs[j] \in F /\ Is("not", cs[j]) /\ cs[j] \in T
  BY CompoundsAreTrue DEF Connective, Is
<1>3. cs[i].kids[2] \notin T
  BY <1>2, ClaimStates, TruthTables
<1>4. cs[i].kids[1] \notin T
  BY <1>1, <1>3, ClaimStates, TruthTables
<1>5. phi \in F /\ Is("not", phi) /\ phi.kids[1] = cs[i].kids[1]
  BY ClaimStates DEF Not, Node, Is
<1> QED BY <1>4, <1>5, ClaimStates, TruthTables

LEMMA ModusTollensIsSound ==
  ASSUME NEW F, NEW S, NEW T, NEW cs, NEW phi, Asked(cs, phi, F, S, T),
         ModusTollens(cs, phi)
  PROVE  phi \in T
<1>1. 1 \in DOMAIN cs /\ 2 \in DOMAIN cs
  BY ClaimStates DEF ModusTollens, InSomeOrder
<1> QED BY <1>1, DeniedIsFalse DEF ModusTollens, InSomeOrder

LEMMA DisjunctionIntroductionIsSound ==
  ASSUME NEW F, NEW S, NEW T, NEW cs, NEW phi, Asked(cs, phi, F, S, T),
         Len(cs) = 1,
         DisjunctionIntroduction(cs, phi)
  PROVE  phi \in T
<1>1. PICK k \in DOMAIN phi.kids : phi.kids[k] = cs[1]
  BY DEF DisjunctionIntroduction
<1>2. phi \in F /\ Is("or", phi) /\ 1 \in DOMAIN cs
  BY ClaimStates DEF DisjunctionIntroduction
<1>3. cs[1] \in F /\ cs[1] \in S
  BY <1>1, <1>2, ClaimStates DEF Is, Connective
<1>4. phi.kids[k] \in T
  BY <1>1, <1>2, <1>3, StatementsAreTrue
<1> QED BY <1>2, <1>4, ClaimStates, TruthTables

LEMMA BothWaysIsTrue ==
  ASSUME NEW F, NEW S, NEW T, NEW cs, NEW phi, Asked(cs, phi, F, S, T),
         NEW i \in DOMAIN cs, NEW j \in DOMAIN cs,
         Is("iff", phi),
         cs[i] = Implies(phi.kids[1], phi.kids[2]),
         cs[j] = Implies(phi.kids[2], phi.kids[1])
  PROVE  phi \in T
<1>1. /\ IsA("implies", cs[i]) /\ cs[i].kids[1] = phi.kids[1] /\ cs[i].kids[2] = phi.kids[2]
      /\ IsA("implies", cs[j]) /\ cs[j].kids[1] = phi.kids[2] /\ cs[j].kids[2] = phi.kids[1]
  <2>1. \A f, g : IsA("implies", Implies(f, g)) /\ Implies(f, g).kids[1] = f /\ Implies(f, g).kids[2] = g
    BY DEF Implies, Node, IsA, IsRecord, Is
  <2> QED BY <2>1
<1>2. /\ cs[i] \in F /\ Is("implies", cs[i]) /\ cs[i] \in T
      /\ cs[j] \in F /\ Is("implies", cs[j]) /\ cs[j] \in T
  BY <1>1, CompoundsAreTrue DEF Connective, Is
<1>3. phi.kids[1] \in T <=> phi.kids[2] \in T
  BY <1>1, <1>2, ClaimStates, TruthTables
<1> QED BY <1>3, ClaimStates, TruthTables

LEMMA BiconditionalIntroductionIsSound ==
  ASSUME NEW F, NEW S, NEW T, NEW cs, NEW phi, Asked(cs, phi, F, S, T),
         BiconditionalIntroduction(cs, phi)
  PROVE  phi \in T
<1>1. 1 \in DOMAIN cs /\ 2 \in DOMAIN cs
  BY ClaimStates DEF BiconditionalIntroduction, InSomeOrder
<1> QED BY <1>1, BothWaysIsTrue DEF BiconditionalIntroduction, InSomeOrder

LEMMA OtherDisjunctIsTrue ==
  ASSUME NEW F, NEW S, NEW T, NEW cs, NEW phi, Asked(cs, phi, F, S, T),
         NEW i \in DOMAIN cs, NEW j \in DOMAIN cs,
         IsA("or", cs[i]),
         IsA("not", cs[j]),
         Len(cs[i].kids) = 2,
         NEW k \in {1, 2},
         cs[j].kids[1] = cs[i].kids[k],
         phi = cs[i].kids[3 - k]
  PROVE  phi \in T
<1>1. cs[i] \in F /\ Is("or", cs[i]) /\ cs[i] \in T
  BY CompoundsAreTrue DEF Connective, Is
<1>2. cs[j] \in F /\ Is("not", cs[j]) /\ cs[j] \in T
  BY CompoundsAreTrue DEF Connective, Is
<1>3. cs[i].kids[k] \notin T
  BY <1>2, ClaimStates, TruthTables
<1>4. cs[i].kids \in Seq(F)
  BY <1>1, ClaimStates, PartsAreFormulas
<1>5. PICK l \in DOMAIN cs[i].kids : cs[i].kids[l] \in T
  BY <1>1, ClaimStates, TruthTables
<1>6. l = 3 - k
  BY <1>3, <1>4, <1>5
<1> QED BY <1>5, <1>6

LEMMA DisjunctiveSyllogismIsSound ==
  ASSUME NEW F, NEW S, NEW T, NEW cs, NEW phi, Asked(cs, phi, F, S, T),
         DisjunctiveSyllogism(cs, phi)
  PROVE  phi \in T
<1>1. 1 \in DOMAIN cs /\ 2 \in DOMAIN cs
  BY ClaimStates DEF DisjunctiveSyllogism, InSomeOrder
<1>2. 1 \in {1, 2} /\ 2 \in {1, 2} /\ 3 - 1 = 2 /\ 3 - 2 = 1
  OBVIOUS
<1>3. \E i, j \in {1, 2} :
        /\ IsA("or", cs[i]) /\ IsA("not", cs[j]) /\ Len(cs[i].kids) = 2
        /\ \E k \in {1, 2} : cs[j].kids[1] = cs[i].kids[k] /\ phi = cs[i].kids[3 - k]
  BY <1>2 DEF DisjunctiveSyllogism, InSomeOrder
<1> QED BY <1>1, <1>3, OtherDisjunctIsTrue

LEMMA ChainIsTrue ==
  ASSUME NEW F, NEW S, NEW T, NEW cs, NEW phi, Asked(cs, phi, F, S, T),
         NEW i \in DOMAIN cs, NEW j \in DOMAIN cs,
         Is("implies", phi),
         IsA("implies", cs[i]),
         IsA("implies", cs[j]),
         cs[i].kids[2] = cs[j].kids[1],
         phi.kids = <<cs[i].kids[1], cs[j].kids[2]>>
  PROVE  phi \in T
<1>1. /\ cs[i] \in F /\ Is("implies", cs[i]) /\ cs[i] \in T
      /\ cs[j] \in F /\ Is("implies", cs[j]) /\ cs[j] \in T
  BY CompoundsAreTrue DEF Connective, Is
<1>2. cs[i].kids[1] \in T => cs[j].kids[2] \in T
  BY <1>1, ClaimStates, TruthTables
<1>3. phi.kids[1] = cs[i].kids[1] /\ phi.kids[2] = cs[j].kids[2]
  OBVIOUS
<1> QED BY <1>2, <1>3, ClaimStates, TruthTables

LEMMA HypotheticalSyllogismIsSound ==
  ASSUME NEW F, NEW S, NEW T, NEW cs, NEW phi, Asked(cs, phi, F, S, T),
         HypotheticalSyllogism(cs, phi)
  PROVE  phi \in T
<1>1. 1 \in DOMAIN cs /\ 2 \in DOMAIN cs
  BY ClaimStates DEF HypotheticalSyllogism, InSomeOrder
<1> QED BY <1>1, ChainIsTrue DEF HypotheticalSyllogism, InSomeOrder

LEMMA DenialsConflict ==
  ASSUME NEW F, NEW S, NEW T, NEW cs, NEW phi, Asked(cs, phi, F, S, T),
         NEW i \in DOMAIN cs, NEW j \in DOMAIN cs,
         IsA("not", cs[i]),
         cs[i].kids[1] = cs[j]
  PROVE  FALSE
<1>1. cs[i] \in F /\ Is("not", cs[i]) /\ cs[i] \in T
  BY CompoundsAreTrue DEF Connective, Is
<1>2. cs[i].kids \in Seq(F) /\ Len(cs[i].kids) = 1
  BY <1>1, ClaimStates, PartsAreFormulas
<1>3. cs[j] \in F /\ cs[j] \in S
  BY <1>2, CompoundsAreTrue DEF Connective
<1>4. cs[j] \in T
  BY <1>3, StatementsAreTrue
<1> QED BY <1>1, <1>4, ClaimStates, TruthTables

LEMMA ExplosionIsSound ==
  ASSUME NEW F, NEW S, NEW T, NEW cs, NEW phi, Asked(cs, phi, F, S, T),
         Explosion(cs, phi)
  PROVE  phi \in T
<1>1. 1 \in DOMAIN cs /\ 2 \in DOMAIN cs
  BY ClaimStates DEF Explosion, InSomeOrder
<1> QED BY <1>1, DenialsConflict DEF Explosion, InSomeOrder

LEMMA ReflexivityIsSound ==
  ASSUME NEW F, NEW S, NEW T, NEW cs, NEW phi, Asked(cs, phi, F, S, T),
         Reflexivity(cs, phi)
  PROVE  phi \in T
BY ClaimStates, TruthTables DEF Reflexivity

LEMMA SymmetryIsSound ==
  ASSUME NEW F, NEW S, NEW T, NEW cs, NEW phi, Asked(cs, phi, F, S, T),
         Len(cs) = 1,
         Symmetry(cs, phi)
  PROVE  phi \in T
<1>1. 1 \in DOMAIN cs /\ cs[1] \in F /\ Is("equals", cs[1]) /\ cs[1] \in T
  BY CompoundsAreTrue, ClaimStates DEF Symmetry, Is
<1>2. cs[1].kids = <<cs[1].kids[1], cs[1].kids[2]>>
  BY <1>1, ClaimStates, PartsAreFormulas
<1>3. Is("equals", phi) /\ phi.kids = Reverse(cs[1].kids)
  BY DEF Symmetry
<1>4. phi.kids[1] = cs[1].kids[2] /\ phi.kids[2] = cs[1].kids[1]
  BY <1>2, <1>3 DEF Reverse
<1> QED BY <1>1, <1>3, <1>4, ClaimStates, EquationsReverse

LEMMA EqualsOfEqualsAreEqual ==
  ASSUME NEW F, NEW S, NEW T, NEW cs, NEW phi, Asked(cs, phi, F, S, T),
         NEW i \in DOMAIN cs, NEW j \in DOMAIN cs,
         Is("equals", phi),
         IsA("equals", cs[i]),
         IsA("equals", cs[j]),
         cs[i].kids[2] = cs[j].kids[1],
         phi.kids = <<cs[i].kids[1], cs[j].kids[2]>>
  PROVE  phi \in T
<1>1. /\ cs[i] \in F /\ Is("equals", cs[i]) /\ cs[i] \in T
      /\ cs[j] \in F /\ Is("equals", cs[j]) /\ cs[j] \in T
  BY CompoundsAreTrue DEF Is
<1>2. phi.kids[1] = cs[i].kids[1] /\ phi.kids[2] = cs[j].kids[2]
  OBVIOUS
<1> QED BY <1>1, <1>2, ClaimStates, EquationsChain

LEMMA TransitivityIsSound ==
  ASSUME NEW F, NEW S, NEW T, NEW cs, NEW phi, Asked(cs, phi, F, S, T),
         Transitivity(cs, phi)
  PROVE  phi \in T
<1>1. 1 \in DOMAIN cs /\ 2 \in DOMAIN cs
  BY ClaimStates DEF Transitivity, InSomeOrder
<1> QED BY <1>1, EqualsOfEqualsAreEqual DEF Transitivity, InSomeOrder

LEMMA ConditionalIntroductionIsSound ==
  ASSUME NEW F, NEW S, NEW T, NEW cs, NEW phi, Asked(cs, phi, F, S, T),
         Len(cs) = 1,
         ConditionalIntroduction(cs, phi)
  PROVE  phi \in T
<1>1. 1 \in DOMAIN cs /\ IsRecord(cs[1])
  BY ClaimStates DEF ConditionalIntroduction
<1>2. phi \in F /\ Is("implies", phi)
      /\ phi.kids[1] = cs[1].assumption /\ phi.kids[2] = cs[1].conclusion
  BY ClaimStates DEF ConditionalIntroduction, Implies, Node, Is
<1>3. phi.kids \in Seq(F) /\ Len(phi.kids) = 2
  BY <1>2, ClaimStates, PartsAreFormulas
<1>4. cs[1].conclusion \in F
  BY <1>2, <1>3
<1>5. cs[1].assumption \in T => cs[1].conclusion \in T
  BY <1>1, <1>4, RecordsConclude
<1> QED BY <1>2, <1>5, ClaimStates, TruthTables

LEMMA ProofByContradictionIsSound ==
  ASSUME NEW F, NEW S, NEW T, NEW cs, NEW phi, Asked(cs, phi, F, S, T),
         Len(cs) = 1,
         ProofByContradiction(cs, phi)
  PROVE  phi \in T
<1>1. 1 \in DOMAIN cs /\ IsRecord(cs[1]) /\ Contradictory(cs[1].conclusion)
  BY ClaimStates DEF ProofByContradiction
<1>2. cs[1].assumption \in F /\ cs[1].conclusion \in F
  BY <1>1, RecordsConclude
<1>3. cs[1].assumption \notin T
  BY <1>1, <1>2, RecordsConclude, ClaimStates, TruthTables
<1>4. CASE Is("not", cs[1].assumption)
  <2>1. phi = cs[1].assumption.kids[1]
    BY <1>4 DEF ProofByContradiction
  <2> QED BY <1>2, <1>3, <1>4, <2>1, ClaimStates, TruthTables
<1>5. CASE ~ Is("not", cs[1].assumption)
  <2>1. phi = Not(cs[1].assumption)
    BY <1>5 DEF ProofByContradiction
  <2>2. Is("not", phi) /\ phi.kids[1] = cs[1].assumption
    BY <2>1 DEF Not, Node, Is
  <2> QED BY <1>3, <2>2, ClaimStates, TruthTables
<1> QED BY <1>4, <1>5

LEMMA DisjunctionEliminationIsSound ==
  ASSUME NEW F, NEW S, NEW T, NEW cs, NEW phi, Asked(cs, phi, F, S, T),
         Len(cs) = 3,
         DisjunctionElimination(cs, phi)
  PROVE  phi \in T
<1>1. PICK i, j, k \in DOMAIN cs :
        /\ AreCases(cs, i, j, phi)
        /\ IsA("or", cs[k])
        /\ <<cs[i].assumption, cs[j].assumption>> \in {cs[k].kids, Reverse(cs[k].kids)}
  BY DEF DisjunctionElimination
<1>2. cs[k] \in F /\ Is("or", cs[k]) /\ cs[k] \in T
  BY <1>1, CompoundsAreTrue DEF Connective, Is
<1>3. cs[k].kids \in Seq(F)
  BY <1>2, ClaimStates, PartsAreFormulas
<1>4. \A n \in DOMAIN cs[k].kids : cs[k].kids[n] \in {cs[i].assumption, cs[j].assumption}
  <2>1. CASE cs[k].kids = <<cs[i].assumption, cs[j].assumption>>
    BY <2>1
  <2>2. CASE Reverse(cs[k].kids) = <<cs[i].assumption, cs[j].assumption>>
    <3>1. DOMAIN Reverse(cs[k].kids) = 1 .. Len(cs[k].kids) /\ Len(cs[k].kids) \in Nat
      BY <1>3 DEF Reverse
    <3>2. DOMAIN Reverse(cs[k].kids) = 1 .. 2
      BY <2>2
    <3>3. Len(cs[k].kids) = 2
      BY <3>1, <3>2
    <3> QED BY <1>3, <2>2, <3>3 DEF Reverse
  <2> QED BY <1>1, <2>1, <2>2
<1>5. \A n \in {i, j} : IsRecord(cs[n]) /\ cs[n].conclusion = phi
  BY <1>1 DEF AreCases
<1>6. \A n \in {i, j} : cs[n].assumption \in T => phi \in T
  BY <1>5, RecordsConclude, ClaimStates
<1>7. \E n \in DOMAIN cs[k].kids : cs[k].kids[n] \in T
  BY <1>2, ClaimStates, TruthTables
<1> QED BY <1>4, <1>6, <1>7

-----------------------------------------------------------------------------
(* Each of the seventeen standard rules that compare whole formulas claims *)
(* what is true wherever its candidates hold (default_rules, _ask_rule).   *)
THEOREM GroundVerdictsAreTrue ==
  ASSUME NEW F, NEW S, NEW T, NEW cs, NEW phi, Asked(cs, phi, F, S, T),
         NEW rule \in GroundRule, AskGround(rule, cs, phi)
  PROVE  phi \in T
<1>1. CASE rule = "ConjunctionElimination"
  BY <1>1, ConjunctionEliminationIsSound DEF AskGround, PremiseArity, OnePremise
<1>2. CASE rule = "ConjunctionIntroduction"
  BY <1>2, ConjunctionIntroductionIsSound DEF AskGround
<1>3. CASE rule = "BiconditionalElimination"
  BY <1>3, BiconditionalEliminationIsSound DEF AskGround, PremiseArity, OnePremise
<1>4. CASE rule = "Reiteration"
  BY <1>4, ReiterationIsSound DEF AskGround, PremiseArity, OnePremise
<1>5. CASE rule = "ModusPonens"
  BY <1>5, ModusPonensIsSound DEF AskGround, PremiseArity, OnePremise, TwoPremises
<1>6. CASE rule = "ModusTollens"
  BY <1>6, ModusTollensIsSound DEF AskGround
<1>7. CASE rule = "DisjunctionIntroduction"
  BY <1>7, DisjunctionIntroductionIsSound DEF AskGround, PremiseArity, OnePremise
<1>8. CASE rule = "DisjunctionElimination"
  BY <1>8, DisjunctionEliminationIsSound DEF AskGround, PremiseArity, OnePremise, TwoPremises
<1>9. CASE rule = "BiconditionalIntroduction"
  BY <1>9, BiconditionalIntroductionIsSound DEF AskGround
<1>10. CASE rule = "DisjunctiveSyllogism"
  BY <1>10, DisjunctiveSyllogismIsSound DEF AskGround
<1>11. CASE rule = "HypotheticalSyllogism"
  BY <1>11, HypotheticalSyllogismIsSound DEF AskGround
<1>12. CASE rule = "Explosion"
  BY <1>12, ExplosionIsSound DEF AskGround
<1>13. CASE rule = "Reflexivity"
  BY <1>13, ReflexivityIsSound DEF AskGround
<1>14. CASE rule = "Symmetry"
  BY <1>14, SymmetryIsSound DEF AskGround, PremiseArity, OnePremise
<1>15. CASE rule = "Transitivity"
  BY <1>15, TransitivityIsSound DEF AskGround
<1>16. CASE rule = "ConditionalIntroduction"
  BY <1>16, ConditionalIntroductionIsSound DEF AskGround, PremiseArity, OnePremise
<1>17. CASE rule = "ProofByContradiction"
  BY <1>17, ProofByContradictionIsSound DEF AskGround, PremiseArity, OnePremise
<1> QED BY <1>1, <1>2, <1>3, <1>4, <1>5, <1>6, <1>7, <1>8, <1>9, <1>10, <1>11, <1>12, <1>13,
           <1>14, <1>15, <1>16, <1>17 DEF GroundRule
=============================================================================
