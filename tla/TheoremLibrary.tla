--------------------------- MODULE TheoremLibrary ---------------------------
(***************************************************************************)
(* Proved theorems as rules of later proofs: promote_theorem and           *)
(* TheoremRule of source/ProofLogic.py, and the loop of                    *)
(* run_multi_proof_file (source/validate_all_proofs.py) that promotes each *)
(* proof and offers the theorem to the next ones.                          *)
(*                                                                         *)
(* A proof is written here as the list of its lines at the top level, with *)
(* what its subproofs leave behind: what they take for granted and what    *)
(* they declare.  How the kernel checks the lines is the subject of        *)
(* ProofValidator; a line justified by a rule is one that follows from the *)
(* lines before it and from what that rule rests on (Follows), which is    *)
(* what ProofSoundness shows of the kernel's rules.  A line justified by a *)
(* theorem is checked as TheoremRule checks it.                            *)
(*                                                                         *)
(* Formulas, structures, and the matching and renaming of formulas are     *)
(* parameters, given by TheoremRules for the formulas of FormulaLogic.     *)
(***************************************************************************)
EXTENDS Integers, FiniteSets, Sequences

CONSTANTS
  Name,               \* constants, predicates and functions
  Declaration,        \* what a proof may declare; an object whose type name is
                      \* "existential witness" or "definition" has kind "witness"
  Formula,
  Symbols(_),         \* the names a formula mentions
  Standard,           \* the rules of default_rules
  Theory,             \* the theories proofs are written in: see TheoryAssumption
  DeclareLines,       \* formulas that may be stated by a declaration line,
  PremiseLines,       \* by a premise line,
  AxiomLines,         \* by an axiom line
  Claims,             \* and by a line justified by a rule or a theorem
  Structure,          \* the structures in which formulas are true or false
  TrueIn(_, _),       \* the formula is true in the structure
  Means(_, _),        \* what the declaration says is true in the structure
  Teaches(_, _),      \* what the rule beyond the standard ones rests on is true there
  ReadsDeclarations,  \* the rules that read the properties of relations
  Matches(_, _, _),   \* the renamings of these names that make the first formula
                      \* the second: at most one
  Renamings(_),       \* all the renamings of these names
  Rename(_, _),       \* the formula renamed
  Renamed(_, _),      \* the name, renamed, or NoName if it becomes a compound term
  NoName,
  MaxLines, MaxGivens, MaxDeclared,   \* bounds: lines, hypotheses and declarations
  MaxTheorems                         \* of a proof, promoted theorems

(* A theory is the lists a Proof is built with.  An environment's rules    *)
(* speak only of symbols that it declares itself.                          *)
ASSUME TheoryAssumption ==
  /\ \A T \in Theory :
       /\ T.axioms \subseteq Formula
       /\ T.closed \in BOOLEAN
       /\ T.axioms # {} => T.closed
       /\ Standard \subseteq T.rules
       /\ \A d \in T.declared : d.name \in Name
  /\ \A d \in Declaration : d.name \in Name
  /\ NoName \notin Name

(* The lines of a proof are formulas.                                      *)
ASSUME LineAssumption == DeclareLines \cup PremiseLines \cup AxiomLines \cup Claims \subseteq Formula

ASSUME BoundAssumption == {MaxLines, MaxGivens, MaxDeclared, MaxTheorems} \subseteq Nat

VARIABLES
  library,           \* the promoted theorems, rules of every later proof
  theory,            \* the theory of the proof being written, or NoTheory
  lines,             \* the formulas its lines may cite
  granted,           \* _given_lines: all it takes for granted, at any depth
  derived,           \* its top-level lines justified by a rule
  declared,          \* the declarations visible at its top level
  objects,           \* the names a theorem may be generalized over
  ownGivens,         \* the validator's own_givens,
  ownDeclarations,   \* own_declarations,
  usedAxioms,        \* used_axioms
  usedRules,         \* and used_rules, without the theorems among them,
  usedTheorems       \* which are here
proof == <<theory, lines, granted, derived, declared, objects, ownGivens, ownDeclarations,
           usedAxioms, usedRules, usedTheorems>>
vars == <<library, theory, lines, granted, derived, declared, objects, ownGivens,
          ownDeclarations, usedAxioms, usedRules, usedTheorems>>

NoTheory == [axioms |-> {}, closed |-> FALSE, rules |-> {}, declared |-> {}]

Writing == theory # NoTheory
Names(D) == {d.name : d \in D}

(* _validate_formula_symbols: every symbol is declared.                    *)
Declared(f) == Symbols(f) \subseteq Names(declared)

-----------------------------------------------------------------------------
(* Theorems.                                                               *)

(* A relation declared on a set; the kernel reads its properties.          *)
IsRelation(d) == d.kind = "predicate" /\ d.arity = 2 /\ d.refers # {}

(* The objects and the relations with a carrier may be generalized,        *)
(* witnesses and definitions excepted (_top_level_promotion_inputs).       *)
Generalizable(d) == d.kind = "object" \/ IsRelation(d)
AnyOf(D) == {d.name : d \in {e \in D : Generalizable(e)}}

(* What the requirement r asks of the relation a citation uses: to have,   *)
(* where it is cited, the carrier and the properties of the theorem's own. *)
RenamedRequirement(renaming, r) ==
  [r EXCEPT !.name = Renamed(renaming, r.name),
            !.refers = {Renamed(renaming, X) : X \in r.refers}]

RelationRequirementsHold(t, renaming, D) ==
  \A r \in t.relations :
    LET asked == RenamedRequirement(renaming, r)
    IN  \E d \in D : /\ d.name = asked.name /\ IsRelation(d) /\ d.refers = asked.refers
                     /\ asked.properties \subseteq d.properties

(* _unavailable: the axioms and rules the theorem's proof used.            *)
Available(t, T) == t.axioms \subseteq T.axioms /\ t.rules \subseteq T.rules

(* applies_in_context.                                                     *)
TheoremApplies(t, cited, phi, T, D) ==
  /\ Available(t, T)
  /\ \E renaming \in Matches(t.conclusion, t.generalized, phi) :
       /\ DOMAIN cited = DOMAIN t.premises
       /\ \A i \in DOMAIN cited : cited[i] = Rename(renaming, t.premises[i])
       /\ RelationRequirementsHold(t, renaming, D)

-----------------------------------------------------------------------------
(* What the parameters are taken to mean.                                  *)

(* Only relations have properties.  Fewer properties say less.  What a     *)
(* theory declares itself says nothing: promotion requires the properties  *)
(* of the proof's own relations only, so those of a theory's relations     *)
(* would be known in that theory alone.                                    *)
AllDeclarations == Declaration \cup UNION {T.declared : T \in Theory}

ASSUME DeclarationAssumption ==
  /\ AllDeclarations \subseteq [name : Name, kind : STRING, arity : Nat, refers : SUBSET Name,
                                properties : SUBSET STRING]
  /\ \A d \in AllDeclarations, m \in Structure :
       /\ Means(d, m) => \A P \in SUBSET d.properties : Means([d EXCEPT !.properties = P], m)
       /\ ~ IsRelation(d) => Means(d, m)
  /\ \A T \in Theory : \A d \in T.declared : \A m \in Structure : Means(d, m)

(* Renaming is substitution.  It leaves alone a formula without the        *)
(* renamed names.  Of every structure there is another in which each       *)
(* generalized name stands for what it is renamed to, and which differs in *)
(* nothing else: not in what a rule says that does not know those names.   *)
ASSUME RenamingAssumption ==
  \A names \in SUBSET AnyOf(Declaration) : \A renaming \in Renamings(names) :
    /\ \A f \in Formula : Symbols(f) \cap names = {} => Rename(renaming, f) = f
    /\ \A m \in Structure : \E n \in Structure :
         /\ \A f \in Formula : TrueIn(f, n) <=> TrueIn(Rename(renaming, f), m)
         /\ \A r \in Declaration :
              IsRelation(r) /\ Means(RenamedRequirement(renaming, r), m) => Means(r, n)
         /\ \A T \in Theory : names \cap Names(T.declared) = {} =>
              \A rule \in T.rules \ Standard : Teaches(rule, m) => Teaches(rule, n)

(* A match renames the conclusion to the line; the names that it does not  *)
(* meet stand for themselves.                                              *)
ASSUME MatchAssumption ==
  \A names \in SUBSET AnyOf(Declaration), conclusion \in Formula, phi \in Claims :
    \A match \in Matches(conclusion, names, phi) :
      /\ Rename(match, conclusion) = phi
      /\ \E renaming \in Renamings(names) :
           /\ \A f \in Formula : Rename(renaming, f) = Rename(match, f)
           /\ \A r \in Declaration : IsRelation(r) =>
                RenamedRequirement(renaming, r) = RenamedRequirement(match, r)

-----------------------------------------------------------------------------
(* Writing a proof.                                                        *)

Room == Writing /\ Cardinality(lines) < MaxLines

(* Proof(...) and validate: the lists of the theory, and empty books.      *)
Open(T) ==
  /\ theory' = T
  /\ declared' = T.declared
  /\ lines' = {} /\ granted' = {} /\ derived' = {} /\ objects' = {}
  /\ ownGivens' = <<>> /\ ownDeclarations' = {} /\ usedAxioms' = {}
  /\ usedRules' = {} /\ usedTheorems' = {}

Begin(T) ==
  /\ ~ Writing
  /\ Cardinality(library) < MaxTheorems
  /\ Open(T)
  /\ UNCHANGED library

(* _take_for_granted.                                                      *)
TakeForGranted(f, theoryAxiom) ==
  /\ granted' = granted \cup {f}
  /\ IF theoryAxiom
     THEN usedAxioms' = usedAxioms \cup {f} /\ UNCHANGED ownGivens
     ELSE /\ Len(ownGivens) < MaxGivens
          /\ ownGivens' = Append(ownGivens, f)
          /\ UNCHANGED usedAxioms

(* What a line states is citable if it stands outside every subproof.      *)
Stated(f, inside) == IF inside THEN UNCHANGED lines ELSE lines' = lines \cup {f}

(* _register_declarations.  Only a declaration at the top level stays in   *)
(* scope and may be generalized.                                           *)
Register(d, inside) ==
  /\ d.name \notin Names(declared)
  /\ Cardinality(ownDeclarations) < MaxDeclared
  /\ ownDeclarations' = ownDeclarations \cup {d}
  /\ IF inside
     THEN UNCHANGED <<declared, objects>>
     ELSE /\ declared' = declared \cup {d}
          /\ objects' = objects \cup (IF Generalizable(d) THEN {d.name} ELSE {})

(* "Let X be any set."                                                     *)
Declare(d, inside) ==
  /\ Writing
  /\ d.kind # "witness"
  /\ d.refers \subseteq Names(declared)
  /\ Register(d, inside)
  /\ UNCHANGED <<library, theory, lines, granted, derived, ownGivens, usedAxioms, usedRules,
                 usedTheorems>>

(* A declaration line that states a formula: "Let w be such a set."        *)
DeclareFormula(d, f, inside) ==
  /\ Room
  /\ Register(d, inside)
  /\ Symbols(f) \subseteq Names(declared) \cup {d.name}
  /\ TakeForGranted(f, FALSE)
  /\ Stated(f, inside)
  /\ UNCHANGED <<library, theory, derived, usedRules, usedTheorems>>

PremiseLine(f, inside) ==
  /\ Room
  /\ Declared(f)
  /\ TakeForGranted(f, FALSE)
  /\ Stated(f, inside)
  /\ UNCHANGED <<library, theory, derived, declared, objects, ownDeclarations, usedRules,
                 usedTheorems>>

(* An axiom line states a listed axiom; an open list takes any formula.    *)
AxiomLine(f, inside) ==
  /\ Room
  /\ Declared(f)
  /\ theory.closed => f \in theory.axioms
  /\ TakeForGranted(f, theory.closed)
  /\ Stated(f, inside)
  /\ UNCHANGED <<library, theory, derived, declared, objects, ownDeclarations, usedRules,
                 usedTheorems>>

(* phi follows from what stands and from what the rules rest on: the rule  *)
(* of the line and, with a proof below it, those of that proof.            *)
Rests(rules, D, m) ==
  /\ \A rule \in rules \ Standard : Teaches(rule, m)
  /\ rules \cap ReadsDeclarations # {} => \A d \in D : Means(d, m)

Follows(rules, phi) ==
  \A m \in Structure :
    Rests(rules, declared, m) /\ (\A f \in lines \cup granted : TrueIn(f, m)) => TrueIn(phi, m)

RuleLine(rules, phi) ==
  /\ Room
  /\ Declared(phi)
  /\ Follows(rules, phi)
  /\ usedRules' = usedRules \cup rules
  /\ lines' = lines \cup {phi}
  /\ derived' = derived \cup {phi}
  /\ UNCHANGED <<library, theory, granted, declared, objects, ownGivens, ownDeclarations,
                 usedAxioms, usedTheorems>>

TheoremLine(t, cited, phi) ==
  /\ Room
  /\ Declared(phi)
  /\ TheoremApplies(t, cited, phi, theory, declared)
  /\ usedTheorems' = usedTheorems \cup {t}
  /\ lines' = lines \cup {phi}
  /\ derived' = derived \cup {phi}
  /\ UNCHANGED <<library, theory, granted, declared, objects, ownGivens, ownDeclarations,
                 usedAxioms, usedRules>>

-----------------------------------------------------------------------------
(* Promotion.                                                              *)

(* The premises of the theorem: own_givens, each once, at the place where  *)
(* it was first taken.  Mutant: only those its lines could cite.           *)
FirstPlaces(s) == {i \in DOMAIN s : \A j \in DOMAIN s : j < i => s[j] # s[i]}
EachOnce(s)    == [i \in FirstPlaces(s) |-> s[i]]
VisibleGivens  == EachOnce(SelectSeq(ownGivens, LAMBDA f : f \in lines))
PremisesOwed   == EachOnce(ownGivens)

(* _promotion_requirements: what the proof used, and what the theorems it  *)
(* cited required.  Mutants: the requirements of cited theorems are        *)
(* forgotten.                                                              *)
OwnRules       == usedRules \ Standard
RequiredAxioms == usedAxioms \cup UNION {t.axioms : t \in usedTheorems}
RequiredRules  == OwnRules \cup UNION {t.rules : t \in usedTheorems}

(* The relations the proof declared, those of its top level only: another  *)
(* proof sees no other.  Mutant: none of them.                             *)
NoRequirements == {}
RelationRequirements == {d \in ownDeclarations : IsRelation(d) /\ d.name \in objects}

(* No name a required axiom mentions is arbitrary.  Mutant: not asked.     *)
AnyNames(generalized) == TRUE
NotEntangled(generalized) == \A axiom \in RequiredAxioms : Symbols(axiom) \cap generalized = {}

Theorem(conclusion, generalized) ==
  [premises |-> PremisesOwed, conclusion |-> conclusion, generalized |-> generalized,
   axioms |-> RequiredAxioms, rules |-> RequiredRules, relations |-> RelationRequirements]

(* promote_theorem: any derived line may be named as the conclusion and    *)
(* any of the objects generalized; run_multi_proof_file takes the last     *)
(* line and all the objects.                                               *)
Promote(conclusion, generalized) ==
  /\ Writing
  /\ conclusion \in derived
  /\ generalized \subseteq objects
  /\ NotEntangled(generalized)
  /\ library' = library \cup {Theorem(conclusion, generalized)}
  /\ Open(NoTheory)

(* A proof that is not promoted leaves nothing.                            *)
Abandon == Writing /\ Open(NoTheory) /\ UNCHANGED library

Init ==
  /\ library = {} /\ theory = NoTheory /\ declared = {}
  /\ lines = {} /\ granted = {} /\ derived = {} /\ objects = {}
  /\ ownGivens = <<>> /\ ownDeclarations = {} /\ usedAxioms = {}
  /\ usedRules = {} /\ usedTheorems = {}

Next ==
  \/ \E T \in Theory : Begin(T)
  \/ \E d \in Declaration, inside \in BOOLEAN :
       \/ Declare(d, inside)
       \/ \E f \in DeclareLines : DeclareFormula(d, f, inside)
  \/ \E inside \in BOOLEAN :
       \/ \E f \in PremiseLines : PremiseLine(f, inside)
       \/ \E f \in AxiomLines : AxiomLine(f, inside)
  \/ \E phi \in Claims : \E rules \in SUBSET theory.rules \ {{}} : RuleLine(rules, phi)
  \/ \E phi \in Claims : \E t \in library :
       \E cited \in [DOMAIN t.premises -> lines] : TheoremLine(t, cited, phi)
  \/ \E conclusion \in derived : \E generalized \in SUBSET objects : Promote(conclusion, generalized)
  \/ Abandon

Spec == Init /\ [][Next]_vars

-----------------------------------------------------------------------------
(* Every theorem is citable wherever its axioms and rules are: whatever    *)
(* its generalized names stand for, in every structure of such a theory    *)
(* that makes the premises true, with relations declared as required, the  *)
(* conclusion is true.  "A theorem is a theorem of the theory its proof    *)
(* was written in."                                                        *)
Holds(t, renaming) ==
  \A m \in Structure :
    (/\ \A axiom \in t.axioms : TrueIn(axiom, m)
     /\ \A rule \in t.rules : Teaches(rule, m)
     /\ \A r \in t.relations : Means(RenamedRequirement(renaming, r), m)
     /\ \A i \in DOMAIN t.premises : TrueIn(Rename(renaming, t.premises[i]), m))
    => TrueIn(Rename(renaming, t.conclusion), m)

TheoremsHold == \A t \in library : \A renaming \in Renamings(t.generalized) : Holds(t, renaming)

(* The lines of a proof that cites theorems follow from what it takes for  *)
(* granted, what it and its theory declare of relations, and the theory's  *)
(* own axioms and rules: a theorem brings no axiom, no rule and no         *)
(* property of a relation along from the proof it was proved in.           *)
LinesFollow ==
  \A m \in Structure :
    (/\ \A axiom \in theory.axioms : TrueIn(axiom, m)
     /\ \A rule \in theory.rules \ Standard : Teaches(rule, m)
     /\ \A d \in declared : Means(d, m)
     /\ \A f \in granted : TrueIn(f, m))
    => \A f \in lines : TrueIn(f, m)
=============================================================================
