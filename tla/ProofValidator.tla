--------------------------- MODULE ProofValidator ---------------------------
(***************************************************************************)
(* The kernel's walk over a proof (source/ProofLogic.py, ProofValidator):  *)
(* one action for each kind of line, for the opening and closing of a      *)
(* subproof, and for the judgement of a line whose subproofs stand below   *)
(* it.  The proof being checked is the environment: it chooses the next    *)
(* line, and every choice the syntax allows is a behaviour.                *)
(*                                                                         *)
(* The validator does not know what formulas say or what rules do; both    *)
(* are parameters, as they are in the code (Formula objects and            *)
(* InferenceRule objects).  Lines that have others read again (WLOG,       *)
(* Mutatis mutandis) are in RepeatedArguments.                             *)
(***************************************************************************)
EXTENDS Integers, FiniteSets, SequencesExt, LexicalScope

CONSTANTS
  Formula,              \* the formulas a line may state
  NoFormula,            \* the "conclusion" of a block that ends with a subproof
  Label, NoLabel,       \* labels a line may carry; a line without one
  Stray,                \* labels a line may cite even when they name nothing
  Name,                 \* names a declaration may introduce
  InitialDeclarations,  \* those the theory makes before the first line
  DeclarationLists,     \* the sequences of declarations one line may make
  PremiseLists,         \* the sequences of formulas one premise line may state
  DeclareLines,         \* the formulas a "(Declare)" line may state,
  AssumeLines,          \* a line that assumes,
  FreshLines,           \* a "(Fresh Variable)" line
  Premises, Axioms,     \* the listed premises and axioms of the proof
  AxiomsClosed,         \* the theory says that Axioms is the whole list
  Rule, Registered,     \* the rules a line may cite; those this proof allows
  BelowRule,            \* those a line with subproofs below it may cite
  Flag(_),              \* the nullary atom that stands for "let c be in the domain"
  Uses(_),              \* the symbols a formula uses, and how
  Closed(_),            \* the formula has no free variable
  Arity(_),             \* the number of candidates a rule takes
  Justifies(_, _, _, _),\* the rule says yes to candidates, formula and context
  Claims(_),            \* the formulas a line may claim by a rule
  CitedCounts(_),       \* how many labels a line may cite for a rule
  LabelsOf(_, _),       \* labels for a statement (a sequence of formulas) at a depth
  MaxDepth, MaxSeen, MaxDeclared   \* bounds: open blocks, lines of a block at each
                        \* depth, declarations the proof makes

Kind == {"object", "predicate", "closed_formula", "function"}
AnyArity == -1

(* A declaration; refers is the set of names its structure metadata        *)
(* mentions outside DESCRIPTIVE_METADATA_KEYS, properties what stands      *)
(* under those keys.  There is no metadata when both are empty.            *)
Declaration ==
  [name : Name, kind : Kind, arity : Int, refers : SUBSET Name, properties : SUBSET STRING]

ASSUME DeclarationAssumption ==
  /\ InitialDeclarations \subseteq Declaration
  /\ \A d, e \in InitialDeclarations : d.name = e.name => d = e
  /\ \A ds \in DeclarationLists : ds \in Seq(Declaration)

ASSUME FormulaAssumption ==
  /\ NoFormula \notin Formula
  /\ \A fs \in PremiseLists : fs \in Seq(Formula) /\ fs # <<>>
  /\ DeclareLines \cup AssumeLines \cup FreshLines \cup Premises \cup Axioms \subseteq Formula
  /\ \A f \in Formula : \A u \in Uses(f) :
       /\ u.name \in Name
       /\ u.arity \in Nat
       /\ u.as \in {"object", "function", "predicate", "proposition"}

ASSUME LabelAssumption ==
  /\ NoLabel \notin Label
  /\ Stray \subseteq Label
  /\ \A fs \in PremiseLists \cup {<<f>> : f \in Formula} \cup {<<>>} : \A n \in 1 .. MaxDepth :
       LabelsOf(fs, n) \subseteq Label \cup {NoLabel}

ASSUME RuleAssumption ==
  /\ Registered \subseteq Rule /\ BelowRule \subseteq Rule
  /\ "none" \notin Rule
  /\ \A r \in Rule : Arity(r) \in Nat /\ CitedCounts(r) \subseteq Nat /\ Claims(r) \subseteq Formula

ASSUME BoundAssumption ==
  /\ MaxDepth \in Nat \ {0}
  /\ MaxSeen \in [1 .. MaxDepth -> Nat]
  /\ MaxDeclared \in Nat

(* The categories a refusal may carry.                                     *)
Refusals ==
  {"not_closed", "bad_opening", "wrong_position", "empty_subproof", "unregistered_formula",
   "missing_subproof", "unrecognized_rule", "arity_mismatch", "bad_reference",
   "label_shadowing", "rule_mismatch", "undeclared_symbol", "declaration_conflict",
   "declaration_kind_mismatch", "declaration_arity_mismatch"}

(* What a closed subproof leaves behind.  Beside its first and last line a *)
(* SubproofRecord keeps the formulas derived inside (inner) and those the  *)
(* enclosing block had when it opened (outer).  fresh is a history field:  *)
(* the block was opened by a "(Fresh Variable)" line, not an assumption.   *)
SubproofRecord ==
  [assumption : Formula, conclusion : Formula \cup {NoFormula}, fresh : BOOLEAN,
   inner : SUBSET Formula, outer : SUBSET Formula]

IsSubproof(x) == x \notin Formula
Item == Formula \cup SubproofRecord

(* isinstance tells a record from a formula.                               *)
ASSUME RecordAssumption == Formula \cap SubproofRecord = {}

(* An open block.  The code's list seen is read for its first element      *)
(* (opener), its last (last) and what is in it (seen), never otherwise.    *)
(* pending is the line that waits for the subproofs below it, or the       *)
(* standalone subproof whose body is being read.                           *)
Pending ==
  [tag : {"none", "subproof", "rule_below", "rule_hybrid"}, label : Label \cup {NoLabel},
   phi : Formula \cup {NoFormula}, rule : Rule \cup {"none"}, cites : Seq(Label),
   awaits : Nat, records : Seq(SubproofRecord)]

Block ==
  [opener : Formula \cup {NoFormula}, fresh : BOOLEAN, seen : SUBSET Item,
   last : Formula \cup {NoFormula}, pending : Pending,
   assumptionsInForce : Nat, arbitraryInForce : Nat]

Entry(tag, l, phi, rule, cites, count) ==
  [tag |-> tag, label |-> l, phi |-> phi, rule |-> rule, cites |-> cites,
   awaits |-> count, records |-> <<>>]
NothingPending == Entry("none", NoLabel, NoFormula, "none", <<>>, 0)

VARIABLES
  status,            \* "checking", "accepted", or the category of the refusal
  blocks,            \* the open blocks, the proof's top level first
  labels,            \* the LabelScope of each open block
  declarations,      \* the DeclarationScope of each open block
  givenLines,        \* _given_lines
  assumptionStack,   \* _assumption_stack
  arbitraryNames,    \* _arbitrary_names, the names of one line together
  constrainedNames,  \* _constrained_names
  ownGivens,         \* own_givens
  ownDeclarations,   \* own_declarations
  usedAxioms,        \* used_axioms
  usedRules          \* used_rules

granted   == <<givenLines, ownGivens, usedAxioms>>
declared  == <<declarations, constrainedNames, ownDeclarations>>
inForce   == <<assumptionStack, arbitraryNames>>
vars      == <<status, blocks, labels, declared, granted, inForce, usedRules>>

-----------------------------------------------------------------------------
(* The current block and what is visible from it.                          *)

Depth == Len(blocks)
Top   == blocks[Depth]

(* The formulas of a block, a record counting for every formula inside it: *)
(* what _term_occurs_in_formula searches.                                  *)
Flatten(items) ==
  UNION {IF IsSubproof(x) THEN x.inner ELSE {x} : x \in items}

VisibleLabels       == UNION {DOMAIN labels[i] : i \in DOMAIN labels}
VisibleDeclarations ==
  UNION {{declarations[i][n] : n \in DOMAIN declarations[i]} : i \in DOMAIN declarations}

Refers(D) == UNION {d.refers : d \in D}

(* ProofValidator._context: the RuleContext of the line being justified.   *)
ContextIn(D) ==
  [hypotheses  |-> givenLines \cup ToSet(assumptionStack),
   arbitrary   |-> UNION ToSet(arbitraryNames),
   constrained |-> constrainedNames,
   declared    |-> D]
Context == ContextIn(VisibleDeclarations)

-----------------------------------------------------------------------------
(* Checks.  A check gives the set of categories it may refuse with; e ?? f *)
(* is the check e and, if it finds nothing, the check f.                   *)

e ?? f == IF e # {} THEN e ELSE f

Check(ok, category) == IF ok THEN {} ELSE {category}

(* _register_declarations: the names of ds, in order, are new.             *)
ConflictErrors(chain, ds) ==
  Check(/\ \A i \in DOMAIN ds : ~ IsBound(chain, ds[i].name)
        /\ \A i, j \in DOMAIN ds : ds[i].name = ds[j].name => i = j,
        "declaration_conflict")

TableOf(D) == [n \in {d.name : d \in D} |-> CHOOSE d \in D : d.name = n]
Declare(chain, D) == BindAll(chain, TableOf(D))

(* _infer_missing_declarations: what the formulas' own shape declares.     *)
Inferred(chain, fs) ==
  {[name |-> u.name,
    kind |-> IF u.as = "proposition" THEN "closed_formula" ELSE u.as,
    arity |-> IF u.as \in {"function", "predicate"} THEN u.arity ELSE AnyArity,
    refers |-> {}, properties |-> {}] :
     u \in {v \in UNION {Uses(f) : f \in fs} : ~ IsBound(chain, v.name)}}

InferenceErrors(D) ==
  Check(\A d, c \in D : d.name = c.name => d = c, "declaration_conflict")

(* _validate_formula_symbols.  Which of several offending symbols is met   *)
(* first depends on the shape of the formula: any of them here.            *)
KindsFor(as) == IF as = "proposition" THEN {"closed_formula", "predicate"} ELSE {as}

UseErrors(chain, u) ==
  IF ~ IsBound(chain, u.name) THEN {"undeclared_symbol"}
  ELSE LET d == Lookup(chain, u.name)
       IN  Check(d.kind \in KindsFor(u.as), "declaration_kind_mismatch")
           ?? Check(u.as \in {"function", "predicate"} => d.arity \in {AnyArity, u.arity},
                    "declaration_arity_mismatch")

SymbolErrors(chain, f) == UNION {UseErrors(chain, u) : u \in Uses(f)}

(* Every line that states a formula starts with these two checks.  Mutant: *)
(* the symbols are not looked up.                                          *)
UnreadStatement(chain, f) == Check(Closed(f), "not_closed")
StatementErrors(chain, f) == SymbolErrors(chain, f) ?? Check(Closed(f), "not_closed")

(* _validate_membership: an empty list allows everything unless closed.    *)
MembershipErrors(f, allowed, closed) ==
  Check(f \in allowed \/ (allowed = {} /\ ~ closed), "unregistered_formula")

(* The loop over a bundle stops at its first formula with an error.        *)
FirstErrors(fs, Errors(_)) ==
  LET bad == {i \in DOMAIN fs : Errors(fs[i]) # {}}
  IN  IF bad = {} THEN {} ELSE Errors(fs[CHOOSE i \in bad : \A j \in bad : i <= j])

RegisteredErrors(rule)  == Check(rule \in Registered, "unrecognized_rule")
ReferenceErrors(cites)  == Check(\A i \in DOMAIN cites : IsBound(labels, cites[i]), "bad_reference")

(* _bind_label: the label names nothing yet.  Mutant: it is not asked.     *)
AnyLabel(l)             == {}
LabelErrors(l)          == Check(l = NoLabel \/ ~ IsBound(labels, l), "label_shadowing")

(* The candidates a citation stands for: a label may name a bundle.        *)
Candidates(cites) == FlattenSeq([i \in DOMAIN cites |-> Lookup(labels, cites[i])])

(* itertools.combinations: n of the candidates, in their order.            *)
Combinations(available, n) ==
  {[k \in 1 .. n |-> available[c[k]]] :
     c \in {d \in [1 .. n -> DOMAIN available] : \A j, k \in 1 .. n : j < k => d[j] < d[k]}}

MatchErrors(rule, groups, phi, ctx) ==
  Check(\E cs \in groups : Justifies(rule, cs, phi, ctx), "rule_mismatch")

-----------------------------------------------------------------------------
(* Effects shared by the lines.                                            *)

(* The validator is at the next entry of the innermost block; or it has    *)
(* read the subproofs an entry awaits; or it is about to read one of them. *)
Checking == status = "checking"
Reading  == Checking /\ Top.pending.tag = "none"
Awaiting == Checking /\ Depth < MaxDepth /\ Len(Top.pending.records) < Top.pending.awaits
Judging(tag) == Checking /\ Top.pending.tag = tag /\ Len(Top.pending.records) = Top.pending.awaits

(* The bounds of the model.                                                *)
RoomFor(items)  == Cardinality(Top.seen \cup items) <= MaxSeen[Depth]
RoomForBlocks   == Depth < MaxDepth /\ Cardinality(Top.seen) < MaxSeen[Depth]
Declarable(ds)  == Cardinality(ownDeclarations \cup ToSet(ds)) <= MaxDeclared

Cites(rule) == UNION {[1 .. n -> VisibleLabels \cup Stray] : n \in CitedCounts(rule)}

(* The validator returns (False, error, None): nobody reads the rest.      *)
Refuse(errors) ==
  /\ status' \in errors
  /\ UNCHANGED <<blocks, labels, declared, granted, inForce, usedRules>>

(* The statement fs joins the block and label l names it.                  *)
Derive(l, fs) ==
  /\ blocks' = [blocks EXCEPT ![Depth].seen    = @ \cup ToSet(fs),
                              ![Depth].last    = fs[Len(fs)],
                              ![Depth].pending = NothingPending]
  /\ labels' = IF l = NoLabel THEN labels ELSE BindAll(labels, Single(l, fs))

(* _take_for_granted.                                                      *)
TakeForGranted(fs, theoryAxiom) ==
  /\ givenLines' = givenLines \cup ToSet(fs)
  /\ usedAxioms' = IF theoryAxiom THEN usedAxioms \cup ToSet(fs) ELSE usedAxioms
  /\ ownGivens' = IF theoryAxiom THEN ownGivens ELSE ownGivens \cup ToSet(fs)

(* The explicit declarations of a line; chain is the scope that results.   *)
(* Mutant: what their structure refers to is forgotten.                    *)
RegisterOnly(ds, chain) ==
  /\ declarations' = chain
  /\ ownDeclarations' = ownDeclarations \cup ToSet(ds)
  /\ UNCHANGED constrainedNames

Register(ds, chain) ==
  /\ declarations' = chain
  /\ constrainedNames' = constrainedNames \cup Refers(ToSet(ds))
  /\ ownDeclarations' = ownDeclarations \cup ToSet(ds)

-----------------------------------------------------------------------------
(* Lines that take something for granted.                                  *)

(* The objects ds declares with no structure metadata.  Mutant: with or    *)
(* without.                                                                *)
Objects(ds)      == {d.name : d \in {c \in ToSet(ds) : c.kind = "object"}}
PlainObjects(ds) ==
  {d.name : d \in {c \in ToSet(ds) : c.kind = "object" /\ c.refers = {} /\ c.properties = {}}}

(* "Let c be any set." with tag declare, or a declaration made on a        *)
(* premise line that states nothing.  Only the first makes its objects     *)
(* arbitrary, and only those without structure metadata.                   *)
DeclareOnly(tag, ds) ==
  LET errors == ConflictErrors(declarations, ds)
  IN  /\ Reading
      /\ ds # <<>>
      /\ Declarable(ds)
      /\ \/ Refuse(errors)
         \/ /\ errors = {}
            /\ Register(ds, Declare(declarations, ToSet(ds)))
            /\ arbitraryNames' = IF tag = "declare" THEN Append(arbitraryNames, PlainObjects(ds))
                                                    ELSE arbitraryNames
            /\ UNCHANGED <<status, blocks, labels, granted, assumptionStack, usedRules>>

(* A "(Declare)" line that states phi: symbols nobody declared are         *)
(* declared by the way phi uses them.                                      *)
DeclareFormula(l, phi, ds) ==
  LET explicit == Declare(declarations, ToSet(ds))
      inferred == Inferred(explicit, {phi})
      chain    == Declare(explicit, inferred)
      errors   == ConflictErrors(declarations, ds)
                  ?? (InferenceErrors(inferred)
                  ?? (StatementErrors(chain, phi)
                  ?? LabelErrors(l)))
  IN  /\ Reading
      /\ RoomFor({phi})
      /\ Declarable(ds)
      /\ \/ Refuse(errors)
         \/ /\ errors = {}
            /\ Register(ds, chain)
            /\ TakeForGranted(<<phi>>, FALSE)
            /\ Derive(l, <<phi>>)
            /\ UNCHANGED <<status, inForce, usedRules>>

(* A premise line, of one formula or of a bundle; it infers declarations   *)
(* only when it makes some explicitly.                                     *)
PremiseLine(l, fs, ds) ==
  LET explicit  == Declare(declarations, ToSet(ds))
      inferred  == IF ds = <<>> THEN {} ELSE Inferred(explicit, ToSet(fs))
      chain     == Declare(explicit, inferred)
      Errors(f) == StatementErrors(chain, f) ?? MembershipErrors(f, Premises, FALSE)
      errors    == ConflictErrors(declarations, ds)
                   ?? (InferenceErrors(inferred)
                   ?? (FirstErrors(fs, Errors)
                   ?? LabelErrors(l)))
  IN  /\ Reading
      /\ RoomFor(ToSet(fs))
      /\ Declarable(ds)
      /\ \/ Refuse(errors)
         \/ /\ errors = {}
            /\ Register(ds, chain)
            /\ TakeForGranted(fs, FALSE)
            /\ Derive(l, fs)
            /\ UNCHANGED <<status, inForce, usedRules>>

(* axioms_closed: a proof that was given axioms, or whose theory says so,  *)
(* takes nothing else as an axiom.                                         *)
ListClosed == Axioms # {} \/ AxiomsClosed

AxiomLine(l, phi) ==
  LET errors == StatementErrors(declarations, phi)
                ?? (MembershipErrors(phi, Axioms, ListClosed)
                ?? LabelErrors(l))
  IN  /\ Reading
      /\ RoomFor({phi})
      /\ \/ Refuse(errors)
         \/ /\ errors = {}
            /\ TakeForGranted(<<phi>>, ListClosed)
            /\ Derive(l, <<phi>>)
            /\ UNCHANGED <<status, declared, inForce, usedRules>>

-----------------------------------------------------------------------------
(* Lines justified by a rule.                                              *)

(* _validate_rule, from cited labels only.  A rule may declare constants   *)
(* with its line: what the line states of them is then taken for granted.  *)
RuleLineErrors(l, phi, rule, cites, ds) ==
  LET ctx       == [ContextIn(VisibleDeclarations \cup ToSet(ds)) EXCEPT
                      !.constrained = @ \cup Refers(ToSet(ds))]
      available == Candidates(cites)
  IN  ConflictErrors(declarations, ds)
      ?? (StatementErrors(Declare(declarations, ToSet(ds)), phi)
      ?? (RegisteredErrors(rule)
      ?? (ReferenceErrors(cites)
      ?? (Check(Len(cites) <= Arity(rule) /\ Len(available) >= Arity(rule), "arity_mismatch")
      ?? (MatchErrors(rule, Combinations(available, Arity(rule)), phi, ctx)
      ?? LabelErrors(l))))))

RuleLine(l, phi, rule, cites, ds) ==
  LET errors == RuleLineErrors(l, phi, rule, cites, ds)
  IN  /\ Reading
      /\ RoomFor({phi})
      /\ Declarable(ds)
      /\ \/ Refuse(errors)
         \/ /\ errors = {}
            /\ Register(ds, Declare(declarations, ToSet(ds)))
            /\ IF ds = <<>> THEN UNCHANGED granted ELSE TakeForGranted(<<phi>>, FALSE)
            /\ Derive(l, <<phi>>)
            /\ usedRules' = usedRules \cup {rule}
            /\ UNCHANGED <<status, inForce>>

(* A line whose subproofs stand below it: the line waits for them.  count  *)
(* is the number of subproofs written there.                               *)
Await(entry) ==
  /\ blocks' = [blocks EXCEPT ![Depth].pending = entry]
  /\ UNCHANGED <<status, labels, declared, granted, inForce, usedRules>>

BeginSubproof(l) ==
  /\ Reading
  /\ RoomForBlocks
  /\ Await(Entry("subproof", l, NoFormula, "none", <<>>, 1))

BeginBelow(l, phi, rule, count) ==
  LET errors == StatementErrors(declarations, phi) ?? Check(count = 1, "missing_subproof")
  IN  /\ Reading
      /\ RoomFor({phi})
      /\ RoomForBlocks
      /\ \/ Refuse(errors)
         \/ /\ errors = {}
            /\ Await(Entry("rule_below", l, phi, rule, <<>>, 1))

(* _validate_rule_hybrid up to its subproofs.                              *)
BeginHybrid(l, phi, rule, cites, count) ==
  LET errors == StatementErrors(declarations, phi)
                ?? (Check(count > 0, "missing_subproof")
                ?? (RegisteredErrors(rule)
                ?? (Check(count = Arity(rule) - Len(cites), "arity_mismatch")
                ?? ReferenceErrors(cites))))
  IN  /\ Reading
      /\ RoomFor({phi})
      /\ RoomForBlocks
      /\ \/ Refuse(errors)
         \/ /\ errors = {}
            /\ Await(Entry("rule_hybrid", l, phi, rule, cites, count))

(* The line's subproofs are read: _validate_rule_below asks first now      *)
(* whether the rule is registered.                                         *)
JudgeBelow ==
  LET p      == Top.pending
      errors == RegisteredErrors(p.rule)
                ?? (MatchErrors(p.rule, {p.records}, p.phi, Context)
                ?? LabelErrors(p.label))
  IN  /\ Judging("rule_below")
      /\ \/ Refuse(errors)
         \/ /\ errors = {}
            /\ Derive(p.label, <<p.phi>>)
            /\ usedRules' = usedRules \cup {p.rule}
            /\ UNCHANGED <<status, declared, granted, inForce>>

JudgeHybrid ==
  LET p         == Top.pending
      available == Candidates(p.cites) \o p.records
      errors    == MatchErrors(p.rule, Combinations(available, Arity(p.rule)), p.phi, Context)
                   ?? LabelErrors(p.label)
  IN  /\ Judging("rule_hybrid")
      /\ \/ Refuse(errors)
         \/ /\ errors = {}
            /\ Derive(p.label, <<p.phi>>)
            /\ usedRules' = usedRules \cup {p.rule}
            /\ UNCHANGED <<status, declared, granted, inForce>>

-----------------------------------------------------------------------------
(* Subproofs.                                                              *)

(* len(self._assumption_stack) as a block opens.  Mutant: one assumption   *)
(* is counted for each subproof around it.                                 *)
SubproofsAround == Depth - 1
AssumptionsNow    == Len(assumptionStack)

(* A new block whose first line, labelled l, states phi; chain is the      *)
(* scope of the declarations inside it.                                    *)
Open(l, phi, fresh, chain) ==
  /\ blocks' = Append(blocks,
       [opener |-> phi, fresh |-> fresh, seen |-> {phi}, last |-> phi,
        pending |-> NothingPending,
        assumptionsInForce |-> AssumptionsNow,
        arbitraryInForce |-> Len(arbitraryNames)])
  /\ labels' = Append(labels, IF l = NoLabel THEN EmptyTable ELSE Single(l, <<phi>>))
  /\ declarations' = chain
  /\ UNCHANGED <<status, constrainedNames, ownDeclarations, granted, usedRules>>

OpenAssuming(l, phi) ==
  LET errors == StatementErrors(declarations, phi) ?? LabelErrors(l)
  IN  /\ Awaiting
      /\ \/ Refuse(errors)
         \/ /\ errors = {}
            /\ Open(l, phi, FALSE, Child(declarations))
            /\ assumptionStack' = Append(assumptionStack, phi)
            /\ UNCHANGED arbitraryNames

(* A "(Fresh Variable)" line.  Only the nullary atom is read as "let c be  *)
(* in the domain", and declares c.  The line's symbols are not checked.    *)
FlagNames(phi) == {c \in Name : phi = Flag(c)}
FlagDeclaration(c) ==
  [name |-> c, kind |-> "object", arity |-> AnyArity, refers |-> {}, properties |-> {}]

FreshErrors(phi) ==
  Check(\A c \in FlagNames(phi) : ~ IsBound(declarations, c), "declaration_conflict")
  ?? Check(Closed(phi), "not_closed")

OpenFresh(l, phi) ==
  LET errors == FreshErrors(phi) ?? LabelErrors(l)
      flags  == {FlagDeclaration(c) : c \in FlagNames(phi)}
  IN  /\ Awaiting
      /\ \/ Refuse(errors)
         \/ /\ errors = {}
            /\ Open(l, phi, TRUE, Declare(Child(declarations), flags))
            /\ arbitraryNames' = IF flags = {} THEN arbitraryNames
                                 ELSE Append(arbitraryNames, FlagNames(phi))
            /\ UNCHANGED assumptionStack

(* A subproof with no line, or whose first line is none of the two.        *)
OpenBadly ==
  /\ Awaiting
  /\ Refuse({"empty_subproof", "bad_opening"})

(* _validate_assume_or_arbitrary: such a line anywhere else.               *)
MisplacedOpening(phi) ==
  /\ Reading
  /\ \/ phi \in AssumeLines /\ Refuse(StatementErrors(declarations, phi) ?? {"wrong_position"})
     \/ phi \in FreshLines /\ Refuse(FreshErrors(phi) ?? {"wrong_position"})

(* del stack[in_force:]: what a stack held when the block opened.  Mutant: *)
(* the last entry is popped, whoever pushed it.                            *)
PoppedOnce(stack, n) == IF stack = <<>> THEN stack ELSE Front(stack)
StruckOff(stack, n)  == SubSeq(stack, 1, n)

(* The innermost block has no further line.  Its scopes are dropped, the   *)
(* assumptions and arbitrary constants it introduced are struck off, and   *)
(* its record goes to the line that awaits it; a standalone subproof's     *)
(* record becomes a line of the enclosing block.                           *)
CloseBlock ==
  LET n      == Depth - 1
      p      == blocks[n].pending
      record == [assumption |-> Top.opener, conclusion |-> Top.last, fresh |-> Top.fresh,
                 inner |-> Flatten(Top.seen), outer |-> Flatten(blocks[n].seen)]
      shut   == SubSeq(blocks, 1, n)
      alone  == p.tag = "subproof"
      errors == Check(~ alone \/ p.label = NoLabel \/ ~ IsBound(Parent(labels), p.label),
                      "label_shadowing")
  IN  /\ Reading
      /\ Depth > 1
      /\ \/ Refuse(errors)
         \/ /\ errors = {}
            /\ blocks' = IF alone
                         THEN [shut EXCEPT ![n].seen    = @ \cup {record},
                                           ![n].last    = NoFormula,
                                           ![n].pending = NothingPending]
                         ELSE [shut EXCEPT ![n].pending.records = Append(@, record)]
            /\ labels' = IF alone /\ p.label # NoLabel
                         THEN BindAll(Parent(labels), Single(p.label, <<record>>))
                         ELSE Parent(labels)
            /\ declarations' = Parent(declarations)
            /\ assumptionStack' = StruckOff(assumptionStack, Top.assumptionsInForce)
            /\ arbitraryNames' = StruckOff(arbitraryNames, Top.arbitraryInForce)
            /\ UNCHANGED <<status, constrainedNames, ownDeclarations, granted, usedRules>>

-----------------------------------------------------------------------------
(* The end of the proof.  A proof with no line is refused.                 *)
Finish ==
  /\ Reading
  /\ Depth = 1
  /\ status' = IF Top.seen = {} /\ ownDeclarations = {} THEN "empty_subproof" ELSE "accepted"
  /\ UNCHANGED <<blocks, labels, declared, granted, inForce, usedRules>>

Done == ~ Checking /\ UNCHANGED vars

Root ==
  [opener |-> NoFormula, fresh |-> FALSE, seen |-> {}, last |-> NoFormula,
   pending |-> NothingPending, assumptionsInForce |-> 0, arbitraryInForce |-> 0]

Init ==
  /\ status = "checking"
  /\ blocks = <<Root>>
  /\ labels = <<EmptyTable>>
  /\ declarations = <<TableOf(InitialDeclarations)>>
  /\ constrainedNames = Refers(InitialDeclarations)
  /\ givenLines = {} /\ ownGivens = {} /\ usedAxioms = {}
  /\ assumptionStack = <<>> /\ arbitraryNames = <<>>
  /\ ownDeclarations = {}
  /\ usedRules = {}

GivenStep ==
  \E ds \in DeclarationLists \cup {<<>>} :
    \/ \E tag \in {"declare", "premise"} : DeclareOnly(tag, ds)
    \/ \E phi \in DeclareLines : \E l \in LabelsOf(<<phi>>, Depth) : DeclareFormula(l, phi, ds)
    \/ \E fs \in PremiseLists : \E l \in LabelsOf(fs, Depth) : PremiseLine(l, fs, ds)

RuleStep ==
  \E rule \in Rule : \E phi \in Claims(rule) : \E l \in LabelsOf(<<phi>>, Depth) :
    \E cites \in Cites(rule) :
      \/ \E ds \in DeclarationLists \cup {<<>>} : RuleLine(l, phi, rule, cites, ds)
      \/ /\ rule \in BelowRule
         /\ \E count \in 0 .. Arity(rule) : BeginHybrid(l, phi, rule, cites, count)

BelowStep ==
  \E rule \in BelowRule : \E phi \in Claims(rule) : \E l \in LabelsOf(<<phi>>, Depth) :
    \E count \in 0 .. 1 : BeginBelow(l, phi, rule, count)

SubproofStep ==
  \/ \E l \in LabelsOf(<<>>, Depth) : BeginSubproof(l)
  \/ \E phi \in AssumeLines : \E l \in LabelsOf(<<phi>>, Depth + 1) : OpenAssuming(l, phi)
  \/ \E phi \in FreshLines : \E l \in LabelsOf(<<phi>>, Depth + 1) : OpenFresh(l, phi)
  \/ OpenBadly
  \/ \E phi \in AssumeLines \cup FreshLines : MisplacedOpening(phi)
  \/ CloseBlock

Next ==
  \/ GivenStep
  \/ \E phi \in Formula : \E l \in LabelsOf(<<phi>>, Depth) : AxiomLine(l, phi)
  \/ RuleStep
  \/ BelowStep
  \/ JudgeBelow
  \/ JudgeHybrid
  \/ SubproofStep
  \/ Finish
  \/ Done

Spec == Init /\ [][Next]_vars

-----------------------------------------------------------------------------
(* Properties.                                                             *)

IsTable(t, K, V) == \E D \in SUBSET K : t \in [D -> V]
IsScope(chain, K, V) ==
  /\ chain \in Seq(ToSet(chain))
  /\ \A i \in DOMAIN chain : IsTable(chain[i], K, V)

(* The types; that the two scopes have a table for each open block; and    *)
(* that a line awaiting its subproofs has a formula, one with citations    *)
(* besides a rule that the proof allows.                                   *)
TypeOK ==
  /\ status \in {"checking", "accepted"} \cup Refusals
  /\ blocks \in Seq(Block) /\ Len(blocks) \in 1 .. MaxDepth
  /\ \A i \in DOMAIN blocks :
       /\ i > 1 => blocks[i].opener \in Formula
       /\ blocks[i].pending.tag \in {"rule_below", "rule_hybrid"} => blocks[i].pending.phi \in Formula
       /\ blocks[i].pending.tag = "rule_hybrid" => blocks[i].pending.rule \in Registered
  /\ IsScope(labels, Label, Seq(Item)) /\ Len(labels) = Len(blocks)
  /\ IsScope(declarations, Name, Declaration) /\ Len(declarations) = Len(blocks)
  /\ givenLines \subseteq Formula /\ ownGivens \subseteq Formula /\ usedAxioms \subseteq Formula
  /\ assumptionStack \in Seq(Formula) /\ arbitraryNames \in Seq(SUBSET Name)
  /\ constrainedNames \subseteq Name
  /\ ownDeclarations \subseteq Declaration
  /\ usedRules \subseteq Registered

(* LabelScope and DeclarationScope are lexical environments; a label may   *)
(* outlive a subproof only as the name of its record, a declaration never. *)
NamesRecord(value) == Len(value) = 1 /\ IsSubproof(value[1])
NamesNothing(value) == FALSE
LabelNames  == INSTANCE LexicalEnvironment WITH scopes <- labels, IsResult <- NamesRecord
SymbolNames == INSTANCE LexicalEnvironment WITH scopes <- declarations, IsResult <- NamesNothing
ScopesAreLexical == LabelNames!Spec /\ SymbolNames!Spec

(* LabelScope and DeclarationScope: a label or a declared name never hides *)
(* one of an enclosing block.                                              *)
NamesAreUnique == NoShadowing(labels) /\ NoShadowing(declarations)

(* "Nothing it defines locally should be visible again once that subproof  *)
(* closes": whatever a label names is a line of a block still open, the    *)
(* block the label belongs to.                                             *)
CitableLinesAreOpen ==
  \A i \in DOMAIN labels : \A l \in DOMAIN labels[i] :
    ToSet(labels[i][l]) \subseteq blocks[i].seen

(* _validate_formula_symbols, for good: a formula derived in a block uses  *)
(* only symbols declared in that block or around it, as what they were     *)
(* declared.  The line that opens a "Fresh Variable" subproof is not read  *)
(* as a formula.                                                           *)
SymbolsAreDeclared ==
  \A i \in DOMAIN blocks : \A f \in blocks[i].seen \cap Formula :
    \/ blocks[i].fresh /\ f = blocks[i].opener
    \/ SymbolErrors(SubSeq(declarations, 1, i), f) = {}

(* _assumption_stack holds exactly the assumptions of the open subproofs,  *)
(* outermost first: no closed subproof's assumption is still in force, and *)
(* none is struck off while its subproof is open.                          *)
InForceAfter(i) ==
  blocks[i].assumptionsInForce + IF i = 1 \/ blocks[i].fresh THEN 0 ELSE 1

AssumptionsAreInForce ==
  /\ blocks[1].assumptionsInForce = 0
  /\ \A i \in 1 .. Depth :
       /\ InForceAfter(i) = IF i = Depth THEN Len(assumptionStack)
                                        ELSE blocks[i + 1].assumptionsInForce
       /\ InForceAfter(i) > blocks[i].assumptionsInForce =>
            assumptionStack[InForceAfter(i)] = blocks[i].opener

(* The two lengths a block noted when it opened are still reached by the   *)
(* stacks, and grow inwards: del stack[in_force:] strikes off what the     *)
(* block and the blocks inside it pushed, and nothing of those around it.  *)
StacksReachBack ==
  \A i \in DOMAIN blocks :
    /\ blocks[i].assumptionsInForce <= Len(assumptionStack)
    /\ blocks[i].arbitraryInForce <= Len(arbitraryNames)
    /\ \A j \in DOMAIN blocks : i <= j =>
         /\ blocks[i].assumptionsInForce <= blocks[j].assumptionsInForce
         /\ blocks[i].arbitraryInForce <= blocks[j].arbitraryInForce

(* RuleContext: the arbitrary constants are "still in scope", declared     *)
(* objects about which their declaration says nothing; those that came in  *)
(* before a subproof opened are declared outside it.                       *)
ArbitraryAreInScope ==
  \A i \in DOMAIN blocks :
    LET from  == blocks[i].arbitraryInForce + 1
        until == IF i = Depth THEN Len(arbitraryNames) ELSE blocks[i + 1].arbitraryInForce
    IN  \A k \in from .. until : \A c \in arbitraryNames[k] :
          /\ c \in DOMAIN declarations[i]
          /\ declarations[i][c].kind = "object"
          /\ Refers({declarations[i][c]}) = {} /\ declarations[i][c].properties = {}

(* The books promote_theorem reads: what was taken for granted anywhere is *)
(* something the theorem owes, as a premise of this proof or as an axiom   *)
(* the theory lists; and every name a declaration ever referred to counts  *)
(* as constrained, in a closed subproof too.                               *)
BooksBalance ==
  /\ givenLines = ownGivens \cup usedAxioms
  /\ usedAxioms \subseteq Axioms
  /\ constrainedNames = Refers(InitialDeclarations \cup ownDeclarations)

(* What is visible stays what it was: as long as a block is open its lines *)
(* stand, and its labels and names mean what they first meant.             *)
Kept(old, new) == DOMAIN old \subseteq DOMAIN new /\ \A k \in DOMAIN old : new[k] = old[k]

LinesStand ==
  [][\A i \in DOMAIN blocks \cap DOMAIN blocks' :
       /\ blocks[i].seen \subseteq blocks'[i].seen
       /\ Kept(labels[i], labels'[i])
       /\ Kept(declarations[i], declarations'[i])]_vars
=============================================================================
