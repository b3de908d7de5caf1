------------------------ MODULE TheoremLibraryProofs ------------------------
(***************************************************************************)
(* Every promoted theorem holds wherever it can be cited, for any theories,*)
(* formulas and structures and with no bound on lines or theorems.         *)
(*                                                                         *)
(* The invariant is about the proof being written: its lines are true in   *)
(* every structure that satisfies what its theorem would require, which is *)
(* less than what stands in the proof.  A citation keeps it because the    *)
(* requirements of the cited theorem are added to those of the proof; the  *)
(* promotion turns it into the theorem, in the structure in which the      *)
(* generalized names stand for what they are renamed to.                   *)
(***************************************************************************)
EXTENDS TheoremLibrary, FiniteSetTheorems, WellFoundedInduction, TLAPS

(* What the theorem of the proof would require is so in the structure.     *)
Required(m) ==
  /\ \A axiom \in RequiredAxioms : TrueIn(axiom, m)
  /\ \A rule \in RequiredRules : Teaches(rule, m)
  /\ \A r \in RelationRequirements : Means(r, m)
  /\ \A i \in DOMAIN ownGivens : TrueIn(ownGivens[i], m)

ProofHolds == \A m \in Structure : Required(m) => \A f \in lines : TrueIn(f, m)

(* The books of the proof.                                                 *)
LinesOK ==
  /\ theory \in Theory \cup {NoTheory}
  /\ lines \subseteq Formula
  /\ derived \subseteq lines
  /\ ownGivens \in Seq(Formula)
  /\ granted \subseteq usedAxioms \cup {ownGivens[i] : i \in DOMAIN ownGivens}
UsedOK ==
  /\ usedAxioms \subseteq theory.axioms
  /\ usedRules \subseteq theory.rules
  /\ usedTheorems \subseteq library
  /\ \A t \in usedTheorems : Available(t, theory)
DeclaredOK ==
  /\ ownDeclarations \subseteq Declaration
  /\ theory.declared \subseteq declared
  /\ declared \subseteq theory.declared \cup ownDeclarations
  /\ \A d \in declared \ theory.declared : IsRelation(d) => d.name \in objects
  /\ objects \subseteq AnyOf(Declaration)
  /\ objects \cap Names(theory.declared) = {}

(* The theorems of the library are made of what proofs are made of.        *)
WellFormed(t) ==
  /\ t.conclusion \in Formula
  /\ \A i \in DOMAIN t.premises : t.premises[i] \in Formula
  /\ t.generalized \subseteq AnyOf(Declaration)
  /\ t.relations \subseteq {d \in Declaration : IsRelation(d)}
  /\ t.rules \cap Standard = {}
LibraryOK == \A t \in library : WellFormed(t)

Books     == LinesOK /\ UsedOK /\ DeclaredOK /\ LibraryOK
Invariant == Books /\ ProofHolds /\ LinesFollow /\ TheoremsHold

-----------------------------------------------------------------------------
(* Places in a sequence.                                                   *)

(* Every set of natural numbers has a least one: of the intervals 1 .. x   *)
(* within 1 .. n there is one that contains no other.                      *)
LEMMA LeastNatural ==
  ASSUME NEW S \in SUBSET Nat, S # {}
  PROVE  \E x \in S : \A y \in S : x <= y
<1>1. PICK n \in S : TRUE
  OBVIOUS
<1> DEFINE B == 1 .. n
           R == StrictSubsetOrdering(B)
           T == {1 .. x : x \in {k \in S : k <= n}}
<1>2. IsFiniteSet(B)
  BY FS_Interval
<1>3. IsWellFoundedOn(R, SUBSET B)
  BY <1>2, FS_StrictSubsetOrderingWellFounded, FS_FiniteSubsetsOfFinite
<1>4. T \subseteq SUBSET B /\ T # {}
  BY <1>1
<1>5. PICK X \in T : \A Y \in T : ~ (<<Y, X>> \in R)
  BY <1>3, <1>4, WFMin
<1>6. PICK x \in S : x <= n /\ X = 1 .. x
  BY <1>5
<1>7. ASSUME NEW y \in S, y < x
      PROVE FALSE
  <2>1. 1 .. y \in T
    BY <1>6, <1>7
  <2>2. x \in 1 .. x /\ x \notin 1 .. y
    BY <1>7
  <2>3. 1 .. y \subseteq 1 .. x /\ 1 .. y # 1 .. x
    BY <1>7, <2>2
  <2>4. 1 .. x \in SUBSET B /\ 1 .. y \in SUBSET B
    BY <1>6, <1>7
  <2>5. <<1 .. y, 1 .. x>> \in R
    BY <2>3, <2>4 DEF StrictSubsetOrdering
  <2> QED BY <2>1, <2>5, <1>5, <1>6
<1> QED BY <1>7

(* The premises of a theorem are the givens of its proof, all of them.     *)
LEMMA EachOnceKeepsAll ==
  ASSUME NEW s \in Seq(Formula), NEW i \in DOMAIN s
  PROVE  \E j \in DOMAIN EachOnce(s) : EachOnce(s)[j] = s[i]
<1> DEFINE Places == {j \in DOMAIN s : s[j] = s[i]}
<1>1. Places \in SUBSET Nat /\ Places # {}
  OBVIOUS
<1>2. PICK j \in Places : \A k \in Places : j <= k
  BY <1>1, LeastNatural
<1>3. j \in FirstPlaces(s)
  <2> SUFFICES ASSUME NEW k \in DOMAIN s, k < j, s[k] = s[j]
               PROVE  FALSE
    BY DEF FirstPlaces
  <2>1. k \in Places
    OBVIOUS
  <2> QED BY <1>2, <2>1
<1> QED BY <1>3 DEF EachOnce

LEMMA EachOnceKeepsOnly ==
  ASSUME NEW s \in Seq(Formula), NEW j \in DOMAIN EachOnce(s)
  PROVE  j \in DOMAIN s /\ EachOnce(s)[j] = s[j]
BY DEF EachOnce, FirstPlaces

-----------------------------------------------------------------------------
(* What the requirements of a proof say of it.                             *)

(* The axioms and rules a proof requires are its theory's, and its rules   *)
(* are none of the standard ones.                                          *)
LEMMA RequiredIsOfTheTheory ==
  ASSUME Books
  PROVE  /\ RequiredAxioms \subseteq theory.axioms
         /\ RequiredRules \subseteq theory.rules \ Standard
BY DEF Books, UsedOK, LibraryOK, WellFormed, Available, RequiredAxioms, RequiredRules, OwnRules

LEMMA AxiomsAreFormulas ==
  ASSUME Books
  PROVE  theory.axioms \subseteq Formula
BY TheoryAssumption DEF Books, LinesOK, NoTheory

(* What stands declared is known: a relation of the proof's own is         *)
(* required, and the theory's declarations say nothing.                    *)
LEMMA DeclaredIsRequired ==
  ASSUME Books, NEW m \in Structure, Required(m), NEW d \in declared
  PROVE  Means(d, m)
<1>1. CASE d \in theory.declared
  <2>1. theory \in Theory
    BY <1>1 DEF Books, LinesOK, NoTheory
  <2> QED BY <1>1, <2>1, DeclarationAssumption
<1>2. CASE d \notin theory.declared
  <2>1. d \in ownDeclarations /\ d \in AllDeclarations
    BY <1>2 DEF Books, DeclaredOK, AllDeclarations
  <2>2. CASE ~ IsRelation(d)
    BY <2>1, <2>2, DeclarationAssumption
  <2>3. CASE IsRelation(d)
    <3>1. d \in RelationRequirements
      BY <1>2, <2>1, <2>3 DEF Books, DeclaredOK, RelationRequirements
    <3> QED BY <3>1 DEF Required
  <2> QED BY <2>2, <2>3
<1> QED BY <1>1, <1>2

(* So is all that is taken for granted.                                    *)
LEMMA GrantedIsRequired ==
  ASSUME Books, NEW m \in Structure, Required(m), NEW f \in granted
  PROVE  TrueIn(f, m)
<1>1. CASE f \in usedAxioms
  BY <1>1 DEF Required, RequiredAxioms
<1>2. CASE \E i \in DOMAIN ownGivens : f = ownGivens[i]
  BY <1>2 DEF Required
<1> QED BY <1>1, <1>2 DEF Books, LinesOK

(* A citation of a theorem that holds: where its axioms and rules are so,  *)
(* where what is declared is so and what is cited is true, so is the line. *)
LEMMA CitationIsSound ==
  ASSUME Books, TheoremsHold,
         NEW t \in library, NEW cited, NEW phi \in Claims, NEW m \in Structure,
         TheoremApplies(t, cited, phi, theory, declared),
         \A axiom \in t.axioms : TrueIn(axiom, m),
         \A rule \in t.rules : Teaches(rule, m),
         \A d \in declared : Means(d, m),
         \A i \in DOMAIN cited : TrueIn(cited[i], m)
  PROVE  TrueIn(phi, m)
<1>1. WellFormed(t)
  BY DEF Books, LibraryOK
<1>2. PICK match \in Matches(t.conclusion, t.generalized, phi) :
        /\ DOMAIN cited = DOMAIN t.premises
        /\ \A i \in DOMAIN cited : cited[i] = Rename(match, t.premises[i])
        /\ RelationRequirementsHold(t, match, declared)
  BY DEF TheoremApplies
<1>3. t.generalized \in SUBSET AnyOf(Declaration) /\ t.conclusion \in Formula
  BY <1>1 DEF WellFormed
<1>4. /\ Rename(match, t.conclusion) = phi
      /\ \E renaming \in Renamings(t.generalized) :
           /\ \A f \in Formula : Rename(renaming, f) = Rename(match, f)
           /\ \A r \in Declaration : IsRelation(r) =>
                RenamedRequirement(renaming, r) = RenamedRequirement(match, r)
  BY <1>3, MatchAssumption, ZenonT(30)
<1>5. PICK renaming \in Renamings(t.generalized) :
        /\ \A f \in Formula : Rename(renaming, f) = Rename(match, f)
        /\ \A r \in Declaration : IsRelation(r) =>
             RenamedRequirement(renaming, r) = RenamedRequirement(match, r)
  BY <1>4
<1>6. \A i \in DOMAIN t.premises : TrueIn(Rename(renaming, t.premises[i]), m)
  BY <1>1, <1>2, <1>5 DEF WellFormed
<1>7. \A r \in t.relations : Means(RenamedRequirement(renaming, r), m)
  <2> TAKE r \in t.relations
  <2>1. r \in Declaration /\ IsRelation(r)
    BY <1>1 DEF WellFormed
  <2> DEFINE asked == RenamedRequirement(match, r)
  <2>2. PICK d \in declared : /\ d.name = asked.name /\ IsRelation(d) /\ d.refers = asked.refers
                              /\ asked.properties \subseteq d.properties
    BY <1>2 DEF RelationRequirementsHold
  <2>3. r \in AllDeclarations /\ d \in AllDeclarations
    BY <2>1 DEF Books, LinesOK, DeclaredOK, AllDeclarations, NoTheory
  <2>4. asked = [d EXCEPT !.properties = r.properties] /\ r.properties \in SUBSET d.properties
    BY <2>1, <2>2, <2>3, DeclarationAssumption DEF RenamedRequirement, IsRelation
  <2>5. Means(asked, m)
    BY <2>3, <2>4, DeclarationAssumption
  <2> QED BY <1>5, <2>1, <2>5
<1>8. TrueIn(Rename(renaming, t.conclusion), m)
  BY <1>6, <1>7 DEF TheoremsHold, Holds
<1> QED BY <1>3, <1>4, <1>5, <1>8

-----------------------------------------------------------------------------
(* Promotion.                                                              *)

(* The theorem of a proof holds for whatever its generalized names are     *)
(* renamed to: the structure in which they stand for that satisfies what   *)
(* the proof requires, as no required axiom and no rule beyond the         *)
(* standard ones knows them, and so makes the conclusion true.             *)
LEMMA PromotedTheoremHolds ==
  ASSUME Books, ProofHolds, Writing,
         NEW conclusion \in derived, NEW generalized \in SUBSET objects,
         NotEntangled(generalized)
  PROVE  /\ WellFormed(Theorem(conclusion, generalized))
         /\ \A renaming \in Renamings(generalized) :
              Holds(Theorem(conclusion, generalized), renaming)
<1> DEFINE t == Theorem(conclusion, generalized)
<1>1. /\ conclusion \in lines /\ conclusion \in Formula
      /\ ownGivens \in Seq(Formula)
      /\ theory \in Theory
  BY DEF Books, LinesOK, Writing
<1>2. /\ generalized \in SUBSET AnyOf(Declaration)
      /\ generalized \cap Names(theory.declared) = {}
  BY DEF Books, DeclaredOK
<1>3. RelationRequirements \subseteq {d \in Declaration : IsRelation(d)}
  BY DEF Books, DeclaredOK, RelationRequirements
<1>4. RequiredAxioms \subseteq Formula /\ RequiredRules \subseteq theory.rules \ Standard
  BY RequiredIsOfTheTheory, AxiomsAreFormulas
<1>5. /\ t.conclusion = conclusion /\ t.generalized = generalized
      /\ t.axioms = RequiredAxioms /\ t.rules = RequiredRules
      /\ t.relations = RelationRequirements /\ t.premises = EachOnce(ownGivens)
  BY DEF Theorem, PremisesOwed
<1>6. WellFormed(t)
  <2>1. \A i \in DOMAIN t.premises : t.premises[i] \in Formula
    BY <1>1, <1>5, EachOnceKeepsOnly
  <2> QED BY <1>1, <1>2, <1>3, <1>4, <1>5, <2>1 DEF WellFormed
<1>7. ASSUME NEW renaming \in Renamings(generalized), NEW m \in Structure,
             \A axiom \in t.axioms : TrueIn(axiom, m),
             \A rule \in t.rules : Teaches(rule, m),
             \A r \in t.relations : Means(RenamedRequirement(renaming, r), m),
             \A i \in DOMAIN t.premises : TrueIn(Rename(renaming, t.premises[i]), m)
      PROVE  TrueIn(Rename(renaming, t.conclusion), m)
  <2>1. PICK n \in Structure :
          /\ \A f \in Formula : TrueIn(f, n) <=> TrueIn(Rename(renaming, f), m)
          /\ \A r \in Declaration :
               IsRelation(r) /\ Means(RenamedRequirement(renaming, r), m) => Means(r, n)
          /\ \A T \in Theory : generalized \cap Names(T.declared) = {} =>
               \A rule \in T.rules \ Standard : Teaches(rule, m) => Teaches(rule, n)
    BY <1>2, RenamingAssumption
  <2>2. ASSUME NEW axiom \in RequiredAxioms
        PROVE  TrueIn(axiom, n)
    <3>1. axiom \in Formula /\ Symbols(axiom) \cap generalized = {}
      BY <1>4 DEF NotEntangled
    <3>2. Rename(renaming, axiom) = axiom
      BY <1>2, <3>1, RenamingAssumption
    <3> QED BY <1>5, <1>7, <2>1, <3>1, <3>2
  <2>3. \A rule \in RequiredRules : Teaches(rule, n)
    BY <1>1, <1>2, <1>4, <1>5, <1>7, <2>1
  <2>4. \A r \in RelationRequirements : Means(r, n)
    BY <1>3, <1>5, <1>7, <2>1
  <2>5. ASSUME NEW i \in DOMAIN ownGivens
        PROVE  TrueIn(ownGivens[i], n)
    <3>1. PICK j \in DOMAIN t.premises : t.premises[j] = ownGivens[i]
      BY <1>1, <1>5, EachOnceKeepsAll
    <3>2. ownGivens[i] \in Formula /\ TrueIn(Rename(renaming, ownGivens[i]), m)
      BY <1>1, <1>7, <3>1
    <3> QED BY <2>1, <3>2
  <2>6. TrueIn(conclusion, n)
    BY <1>1, <2>2, <2>3, <2>4, <2>5 DEF Required, ProofHolds
  <2> QED BY <1>1, <1>5, <2>1, <2>6
<1> QED BY <1>5, <1>6, <1>7 DEF Holds

-----------------------------------------------------------------------------
(* The steps of a proof.                                                   *)

(* As a proof is written, its theorem only requires more.                  *)
LEMMA RequiredGrows ==
  ASSUME usedAxioms \subseteq usedAxioms', usedRules \subseteq usedRules',
         usedTheorems \subseteq usedTheorems', ownDeclarations \subseteq ownDeclarations',
         objects \subseteq objects',
         \A i \in DOMAIN ownGivens : i \in DOMAIN ownGivens' /\ ownGivens'[i] = ownGivens[i],
         NEW m \in Structure, Required(m)'
  PROVE  Required(m)
<1>1. RequiredAxioms \subseteq RequiredAxioms' /\ RequiredRules \subseteq RequiredRules'
  BY DEF RequiredAxioms, RequiredRules, OwnRules
<1>2. RelationRequirements \subseteq RelationRequirements'
  BY DEF RelationRequirements
<1> QED BY <1>1, <1>2 DEF Required

(* What is taken for granted is required from then on.                     *)
LEMMA TakenForGranted ==
  ASSUME LinesOK, NEW f \in Formula, NEW theoryAxiom \in BOOLEAN,
         TakeForGranted(f, theoryAxiom)
  PROVE  /\ ownGivens' \in Seq(Formula)
         /\ granted' \subseteq usedAxioms' \cup {ownGivens'[i] : i \in DOMAIN ownGivens'}
         /\ usedAxioms \subseteq usedAxioms'
         /\ \A i \in DOMAIN ownGivens : i \in DOMAIN ownGivens' /\ ownGivens'[i] = ownGivens[i]
         /\ f \in granted' /\ granted \subseteq granted'
<1>1. CASE theoryAxiom
  BY <1>1 DEF TakeForGranted, LinesOK
<1>2. CASE ~ theoryAxiom
  <2>1. ownGivens' = Append(ownGivens, f) /\ usedAxioms' = usedAxioms /\ granted' = granted \cup {f}
    BY <1>2 DEF TakeForGranted
  <2>2. /\ ownGivens' \in Seq(Formula)
        /\ \A i \in DOMAIN ownGivens : i \in DOMAIN ownGivens' /\ ownGivens'[i] = ownGivens[i]
        /\ Len(ownGivens) + 1 \in DOMAIN ownGivens' /\ ownGivens'[Len(ownGivens) + 1] = f
    BY <2>1 DEF LinesOK
  <2> QED BY <2>1, <2>2 DEF LinesOK
<1> QED BY <1>1, <1>2

(* A declaration is new, and what may be generalized is remembered.        *)
LEMMA Registered ==
  ASSUME Books, NEW d \in Declaration, NEW inside \in BOOLEAN, Register(d, inside),
         UNCHANGED theory
  PROVE  /\ DeclaredOK'
         /\ ownDeclarations \subseteq ownDeclarations' /\ objects \subseteq objects'
         /\ declared \subseteq declared'
<1>1. CASE inside
  BY <1>1 DEF Register, Books, DeclaredOK
<1>2. CASE ~ inside
  <2>1. /\ ownDeclarations' = ownDeclarations \cup {d}
        /\ declared' = declared \cup {d}
        /\ objects' = objects \cup (IF Generalizable(d) THEN {d.name} ELSE {})
        /\ d.name \notin Names(declared)
    BY <1>2 DEF Register
  <2>2. d.name \notin Names(theory.declared)
    BY <2>1 DEF Books, DeclaredOK, Names
  <2>3. objects' \subseteq AnyOf(Declaration)
    BY <2>1 DEF Books, DeclaredOK, AnyOf
  <2>4. objects' \cap Names(theory'.declared) = {}
    BY <2>1, <2>2 DEF Books, DeclaredOK
  <2>5. \A e \in declared' \ theory'.declared : IsRelation(e) => e.name \in objects'
    BY <2>1 DEF Books, DeclaredOK, Generalizable
  <2> QED BY <2>1, <2>3, <2>4, <2>5 DEF Books, DeclaredOK
<1> QED BY <1>1, <1>2

(* A step that states a line keeps the lines true where the requirements   *)
(* are met, if it makes the requirements no weaker and the new line true   *)
(* where they are met.                                                     *)
LEMMA LineKeepsTruth ==
  ASSUME ProofHolds, NEW phi, lines' \subseteq lines \cup {phi},
         usedAxioms \subseteq usedAxioms', usedRules \subseteq usedRules',
         usedTheorems \subseteq usedTheorems', ownDeclarations \subseteq ownDeclarations',
         objects \subseteq objects',
         \A i \in DOMAIN ownGivens : i \in DOMAIN ownGivens' /\ ownGivens'[i] = ownGivens[i],
         \A m \in Structure :
           Required(m)' /\ Required(m) /\ (\A f \in lines : TrueIn(f, m)) => TrueIn(phi, m)
  PROVE  ProofHolds'
<1> SUFFICES ASSUME NEW m \in Structure, Required(m)', NEW f \in lines'
             PROVE  TrueIn(f, m)
  BY DEF ProofHolds
<1>1. Required(m)
  BY RequiredGrows
<1>2. \A g \in lines : TrueIn(g, m)
  BY <1>1 DEF ProofHolds
<1> QED BY <1>1, <1>2

(* The same of what stands in the proof.                                   *)
Standing(m) ==
  /\ \A axiom \in theory.axioms : TrueIn(axiom, m)
  /\ \A rule \in theory.rules \ Standard : Teaches(rule, m)
  /\ \A d \in declared : Means(d, m)
  /\ \A f \in granted : TrueIn(f, m)

LEMMA LineKeepsFollowing ==
  ASSUME LinesFollow, NEW phi, lines' \subseteq lines \cup {phi},
         UNCHANGED theory, declared \subseteq declared', granted \subseteq granted',
         \A m \in Structure :
           Standing(m)' /\ Standing(m) /\ (\A f \in lines : TrueIn(f, m)) => TrueIn(phi, m)
  PROVE  LinesFollow'
<1> SUFFICES ASSUME NEW m \in Structure, Standing(m)', NEW f \in lines'
             PROVE  TrueIn(f, m)
  BY DEF LinesFollow, Standing
<1>1. Standing(m)
  BY DEF Standing
<1>2. \A g \in lines : TrueIn(g, m)
  BY <1>1 DEF LinesFollow, Standing
<1> QED BY <1>1, <1>2

-----------------------------------------------------------------------------
(* Each action keeps the invariant.                                        *)

LEMMA OpenKeepsInvariant ==
  ASSUME LibraryOK', TheoremsHold', NEW T \in Theory \cup {NoTheory}, Open(T)
  PROVE  Invariant'
<1>1. /\ theory' = T /\ declared' = T.declared /\ lines' = {} /\ granted' = {} /\ derived' = {}
      /\ objects' = {} /\ ownGivens' = <<>> /\ ownDeclarations' = {} /\ usedAxioms' = {}
      /\ usedRules' = {} /\ usedTheorems' = {}
  BY DEF Open
<1>2. LinesOK' /\ UsedOK' /\ DeclaredOK'
  BY <1>1 DEF LinesOK, UsedOK, DeclaredOK
<1>3. ProofHolds' /\ LinesFollow'
  BY <1>1 DEF ProofHolds, LinesFollow
<1> QED BY <1>2, <1>3 DEF Invariant, Books

LEMMA BeginKeepsInvariant ==
  ASSUME Invariant, NEW T \in Theory, Begin(T)
  PROVE  Invariant'
<1>1. LibraryOK' /\ TheoremsHold'
  BY DEF Begin, Invariant, Books, LibraryOK, TheoremsHold
<1> QED BY <1>1, OpenKeepsInvariant DEF Begin

LEMMA AbandonKeepsInvariant ==
  ASSUME Invariant, Abandon
  PROVE  Invariant'
<1>1. LibraryOK' /\ TheoremsHold'
  BY DEF Abandon, Invariant, Books, LibraryOK, TheoremsHold
<1> QED BY <1>1, OpenKeepsInvariant DEF Abandon

LEMMA PromoteKeepsInvariant ==
  ASSUME Invariant, NEW conclusion \in derived, NEW generalized \in SUBSET objects,
         Promote(conclusion, generalized)
  PROVE  Invariant'
<1> DEFINE t == Theorem(conclusion, generalized)
<1>1. /\ WellFormed(t)
      /\ \A renaming \in Renamings(generalized) : Holds(t, renaming)
  BY PromotedTheoremHolds DEF Promote, Invariant
<1>2. library' = library \cup {t} /\ t.generalized = generalized
  BY DEF Promote, Theorem
<1>3. LibraryOK'
  BY <1>1, <1>2 DEF Invariant, Books, LibraryOK
<1>4. TheoremsHold'
  BY <1>1, <1>2 DEF Invariant, TheoremsHold
<1> QED BY <1>3, <1>4, OpenKeepsInvariant DEF Promote

LEMMA DeclareKeepsInvariant ==
  ASSUME Invariant, NEW d \in Declaration, NEW inside \in BOOLEAN, Declare(d, inside)
  PROVE  Invariant'
<1>1. /\ Register(d, inside)
      /\ UNCHANGED <<library, theory, lines, granted, derived, ownGivens, usedAxioms, usedRules,
                     usedTheorems>>
  BY DEF Declare
<1>2. /\ DeclaredOK' /\ ownDeclarations \subseteq ownDeclarations' /\ objects \subseteq objects'
      /\ declared \subseteq declared'
  BY <1>1, Registered DEF Invariant
<1>3. LinesOK' /\ UsedOK' /\ LibraryOK' /\ TheoremsHold'
  BY <1>1 DEF Invariant, Books, LinesOK, UsedOK, LibraryOK, TheoremsHold, Available
<1>4. ProofHolds'
  BY <1>1, <1>2, RequiredGrows DEF Invariant, ProofHolds
<1>5. LinesFollow'
  BY <1>1, <1>2 DEF Invariant, LinesFollow
<1> QED BY <1>2, <1>3, <1>4, <1>5 DEF Invariant, Books

(* A line that states what is taken for granted: a premise, an axiom or    *)
(* what a declaration says.                                                *)
LEMMA GrantedLineKeepsInvariant ==
  ASSUME Invariant, NEW f \in Formula, NEW theoryAxiom \in BOOLEAN, NEW inside \in BOOLEAN,
         TakeForGranted(f, theoryAxiom), theoryAxiom => f \in theory.axioms,
         Stated(f, inside),
         UNCHANGED <<library, theory, derived, usedRules, usedTheorems>>,
         DeclaredOK', ownDeclarations \subseteq ownDeclarations', objects \subseteq objects',
         declared \subseteq declared'
  PROVE  Invariant'
<1>1. lines' \subseteq lines \cup {f} /\ lines \subseteq lines'
  BY DEF Stated
<1>2. /\ ownGivens' \in Seq(Formula)
      /\ granted' \subseteq usedAxioms' \cup {ownGivens'[i] : i \in DOMAIN ownGivens'}
      /\ usedAxioms \subseteq usedAxioms'
      /\ \A i \in DOMAIN ownGivens : i \in DOMAIN ownGivens' /\ ownGivens'[i] = ownGivens[i]
      /\ f \in granted' /\ granted \subseteq granted'
  BY TakenForGranted DEF Invariant, Books
<1>3. LinesOK'
  BY <1>1, <1>2 DEF Invariant, Books, LinesOK
<1>4. usedAxioms' \subseteq theory.axioms
  BY DEF TakeForGranted, Invariant, Books, UsedOK
<1>5. UsedOK' /\ LibraryOK' /\ TheoremsHold'
  BY <1>4 DEF Invariant, Books, UsedOK, LibraryOK, TheoremsHold, Available
<1>6. Books'
  BY <1>3, <1>5 DEF Books
<1>7. ProofHolds'
  <2>1. ASSUME NEW m \in Structure, Required(m)'
        PROVE  TrueIn(f, m)
    <3>1. CASE f \in usedAxioms'
      BY <2>1, <3>1 DEF Required, RequiredAxioms
    <3>2. CASE \E i \in DOMAIN ownGivens' : f = ownGivens'[i]
      BY <2>1, <3>2 DEF Required
    <3> QED BY <1>2, <3>1, <3>2
  <2> QED BY <1>1, <1>2, <2>1, LineKeepsTruth DEF Invariant
<1>8. LinesFollow'
  <2>1. ASSUME NEW m \in Structure, Standing(m)'
        PROVE  TrueIn(f, m)
    BY <1>2, <2>1 DEF Standing
  <2> QED BY <1>1, <1>2, <2>1, LineKeepsFollowing DEF Invariant
<1> QED BY <1>5, <1>6, <1>7, <1>8 DEF Invariant

LEMMA DeclareFormulaKeepsInvariant ==
  ASSUME Invariant, NEW d \in Declaration, NEW f \in DeclareLines, NEW inside \in BOOLEAN,
         DeclareFormula(d, f, inside)
  PROVE  Invariant'
<1>1. f \in Formula
  BY LineAssumption
<1>2. /\ Register(d, inside) /\ TakeForGranted(f, FALSE) /\ Stated(f, inside)
      /\ UNCHANGED <<library, theory, derived, usedRules, usedTheorems>>
  BY DEF DeclareFormula
<1>3. /\ DeclaredOK' /\ ownDeclarations \subseteq ownDeclarations' /\ objects \subseteq objects'
      /\ declared \subseteq declared'
  BY <1>2, Registered DEF Invariant
<1> QED BY <1>1, <1>2, <1>3, GrantedLineKeepsInvariant

LEMMA PremiseLineKeepsInvariant ==
  ASSUME Invariant, NEW f \in PremiseLines, NEW inside \in BOOLEAN, PremiseLine(f, inside)
  PROVE  Invariant'
<1>1. f \in Formula
  BY LineAssumption
<1>2. /\ TakeForGranted(f, FALSE) /\ Stated(f, inside)
      /\ UNCHANGED <<library, theory, derived, declared, objects, ownDeclarations, usedRules,
                     usedTheorems>>
  BY DEF PremiseLine
<1>3. DeclaredOK'
  BY <1>2 DEF Invariant, Books, DeclaredOK
<1> QED BY <1>1, <1>2, <1>3, GrantedLineKeepsInvariant

LEMMA AxiomLineKeepsInvariant ==
  ASSUME Invariant, NEW f \in AxiomLines, NEW inside \in BOOLEAN, AxiomLine(f, inside)
  PROVE  Invariant'
<1>1. f \in Formula
  BY LineAssumption
<1>2. /\ TakeForGranted(f, theory.closed) /\ Stated(f, inside)
      /\ theory.closed => f \in theory.axioms
      /\ UNCHANGED <<library, theory, derived, declared, objects, ownDeclarations, usedRules,
                     usedTheorems>>
  BY DEF AxiomLine
<1>3. DeclaredOK'
  BY <1>2 DEF Invariant, Books, DeclaredOK
<1>4. theory.closed \in BOOLEAN
  <2>1. theory \in Theory \/ theory.closed = FALSE
    BY DEF Invariant, Books, LinesOK, NoTheory
  <2> QED BY <2>1, TheoryAssumption, Zenon
<1> QED BY <1>1, <1>2, <1>3, <1>4, GrantedLineKeepsInvariant

(* A line that follows by a rule, or by a theorem.                         *)
LEMMA RuleLineKeepsInvariant ==
  ASSUME Invariant, NEW phi \in Claims, NEW rules \in SUBSET theory.rules, RuleLine(rules, phi)
  PROVE  Invariant'
<1>1. /\ Follows(rules, phi)
      /\ usedRules' = usedRules \cup rules
      /\ lines' = lines \cup {phi} /\ derived' = derived \cup {phi}
      /\ UNCHANGED <<library, theory, granted, declared, objects, ownGivens, ownDeclarations,
                     usedAxioms, usedTheorems>>
  BY DEF RuleLine
<1>2. LinesOK'
  BY <1>1, LineAssumption DEF Invariant, Books, LinesOK
<1>3. UsedOK' /\ DeclaredOK' /\ LibraryOK' /\ TheoremsHold'
  BY <1>1 DEF Invariant, Books, UsedOK, DeclaredOK, LibraryOK, TheoremsHold, Available
<1>4. ProofHolds'
  <2>1. ASSUME NEW m \in Structure, Required(m)', Required(m), \A f \in lines : TrueIn(f, m)
        PROVE  TrueIn(phi, m)
    <3>1. \A rule \in rules \ Standard : Teaches(rule, m)
      BY <1>1, <2>1 DEF Required, RequiredRules, OwnRules
    <3>2. \A d \in declared : Means(d, m)
      BY <2>1, DeclaredIsRequired DEF Invariant
    <3>3. \A f \in granted : TrueIn(f, m)
      BY <2>1, GrantedIsRequired DEF Invariant
    <3> QED BY <1>1, <2>1, <3>1, <3>2, <3>3 DEF Follows, Rests
  <2> QED BY <1>1, <2>1, LineKeepsTruth DEF Invariant
<1>5. LinesFollow'
  <2>1. ASSUME NEW m \in Structure, Standing(m), \A f \in lines : TrueIn(f, m)
        PROVE  TrueIn(phi, m)
    BY <1>1, <2>1 DEF Standing, Follows, Rests
  <2> QED BY <1>1, <2>1, LineKeepsFollowing DEF Invariant
<1> QED BY <1>2, <1>3, <1>4, <1>5 DEF Invariant, Books

LEMMA TheoremLineKeepsInvariant ==
  ASSUME Invariant, NEW phi \in Claims, NEW t \in library,
         NEW cited \in [DOMAIN t.premises -> lines], TheoremLine(t, cited, phi)
  PROVE  Invariant'
<1>1. /\ TheoremApplies(t, cited, phi, theory, declared)
      /\ usedTheorems' = usedTheorems \cup {t}
      /\ lines' = lines \cup {phi} /\ derived' = derived \cup {phi}
      /\ UNCHANGED <<library, theory, granted, declared, objects, ownGivens, ownDeclarations,
                     usedAxioms, usedRules>>
  BY DEF TheoremLine
<1>2. Available(t, theory)
  BY <1>1 DEF TheoremApplies
<1>3. LinesOK'
  BY <1>1, LineAssumption DEF Invariant, Books, LinesOK
<1>4. UsedOK' /\ DeclaredOK' /\ LibraryOK' /\ TheoremsHold'
  BY <1>1, <1>2 DEF Invariant, Books, UsedOK, DeclaredOK, LibraryOK, TheoremsHold, Available
<1>5. ProofHolds'
  <2>1. ASSUME NEW m \in Structure, Required(m)', Required(m), \A f \in lines : TrueIn(f, m)
        PROVE  TrueIn(phi, m)
    <3>1. (\A axiom \in t.axioms : TrueIn(axiom, m)) /\ (\A rule \in t.rules : Teaches(rule, m))
      BY <1>1, <2>1 DEF Required, RequiredAxioms, RequiredRules
    <3>2. \A d \in declared : Means(d, m)
      BY <2>1, DeclaredIsRequired DEF Invariant
    <3> QED BY <1>1, <2>1, <3>1, <3>2, CitationIsSound DEF Invariant
  <2> QED BY <1>1, <2>1, LineKeepsTruth DEF Invariant
<1>6. LinesFollow'
  <2>1. ASSUME NEW m \in Structure, Standing(m), \A f \in lines : TrueIn(f, m)
        PROVE  TrueIn(phi, m)
    <3>1. t.rules \cap Standard = {}
      BY DEF Invariant, Books, LibraryOK, WellFormed
    <3>2. (\A axiom \in t.axioms : TrueIn(axiom, m)) /\ (\A rule \in t.rules : Teaches(rule, m))
      BY <1>2, <2>1, <3>1 DEF Standing, Available
    <3> QED BY <1>1, <2>1, <3>2, CitationIsSound DEF Invariant, Standing
  <2> QED BY <1>1, <2>1, LineKeepsFollowing DEF Invariant
<1> QED BY <1>3, <1>4, <1>5, <1>6 DEF Invariant, Books

-----------------------------------------------------------------------------
(* The theorems.                                                           *)

LEMMA InitInvariant == Init => Invariant
<1> SUFFICES ASSUME Init PROVE Invariant
  OBVIOUS
<1>1. LinesOK /\ UsedOK /\ DeclaredOK /\ LibraryOK
  BY DEF Init, NoTheory, LinesOK, UsedOK, DeclaredOK, LibraryOK, Names
<1>2. ProofHolds /\ LinesFollow /\ TheoremsHold
  BY DEF Init, ProofHolds, LinesFollow, TheoremsHold
<1> QED BY <1>1, <1>2 DEF Invariant, Books

LEMMA NextInvariant == Invariant /\ [Next]_vars => Invariant'
<1> SUFFICES ASSUME Invariant, [Next]_vars PROVE Invariant'
  OBVIOUS
<1>1. ASSUME NEW T \in Theory, Begin(T)
      PROVE  Invariant'
  BY <1>1, BeginKeepsInvariant
<1>2. ASSUME NEW d \in Declaration, NEW inside \in BOOLEAN, Declare(d, inside)
      PROVE  Invariant'
  BY <1>2, DeclareKeepsInvariant
<1>3. ASSUME NEW d \in Declaration, NEW inside \in BOOLEAN, NEW f \in DeclareLines,
             DeclareFormula(d, f, inside)
      PROVE  Invariant'
  BY <1>3, DeclareFormulaKeepsInvariant
<1>4. ASSUME NEW inside \in BOOLEAN, NEW f \in PremiseLines, PremiseLine(f, inside)
      PROVE  Invariant'
  BY <1>4, PremiseLineKeepsInvariant
<1>5. ASSUME NEW inside \in BOOLEAN, NEW f \in AxiomLines, AxiomLine(f, inside)
      PROVE  Invariant'
  BY <1>5, AxiomLineKeepsInvariant
<1>6. ASSUME NEW phi \in Claims, NEW rules \in SUBSET theory.rules \ {{}}, RuleLine(rules, phi)
      PROVE  Invariant'
  <2>1. rules \in SUBSET theory.rules
    BY <1>6
  <2> QED BY <1>6, <2>1, RuleLineKeepsInvariant
<1>7. ASSUME NEW phi \in Claims, NEW t \in library, NEW cited \in [DOMAIN t.premises -> lines],
             TheoremLine(t, cited, phi)
      PROVE  Invariant'
  BY <1>7, TheoremLineKeepsInvariant
<1>8. ASSUME NEW conclusion \in derived, NEW generalized \in SUBSET objects,
             Promote(conclusion, generalized)
      PROVE  Invariant'
  BY <1>8, PromoteKeepsInvariant
<1>9. CASE Abandon
  BY <1>9, AbandonKeepsInvariant
<1>10. CASE UNCHANGED vars
  BY <1>10 DEF vars, Invariant, Books, LinesOK, UsedOK, DeclaredOK, LibraryOK, ProofHolds, Required,
              RequiredAxioms, RequiredRules, OwnRules, RelationRequirements, LinesFollow, TheoremsHold
<1> QED BY <1>1, <1>2, <1>3, <1>4, <1>5, <1>6, <1>7, <1>8, <1>9, <1>10 DEF Next

(* A promoted theorem is a theorem of every theory that has the axioms and *)
(* rules its proof used (promote_theorem, TheoremRule): it holds there     *)
(* whatever its generalized names stand for.                               *)
THEOREM PromotedTheoremsHold == Spec => []TheoremsHold
<1>1. Invariant => TheoremsHold
  BY DEF Invariant
<1> QED BY <1>1, InitInvariant, NextInvariant, PTL DEF Spec

(* The lines of a proof that cites theorems follow from what it takes for  *)
(* granted, what it declares and its theory: TheoremRule lets nothing else *)
(* in.                                                                     *)
THEOREM CitingProofsFollow == Spec => []LinesFollow
<1>1. Invariant => LinesFollow
  BY DEF Invariant
<1> QED BY <1>1, InitInvariant, NextInvariant, PTL DEF Spec

(* What is promoted is what was proved: the lines hold already where the   *)
(* requirements of the theorem are met, whatever else the proof's theory   *)
(* has.                                                                    *)
THEOREM RequirementsSuffice == Spec => []ProofHolds
<1>1. Invariant => ProofHolds
  BY DEF Invariant
<1> QED BY <1>1, InitInvariant, NextInvariant, PTL DEF Spec
=============================================================================
