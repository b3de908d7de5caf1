# SyLoPy in TLA+

SyLoPy checks proofs that people write in structured English.  A proof file is
text; the text is parsed into lines, the lines are elaborated into formulas,
declarations and justifications, and a small kernel says of every line whether
it is justified.  A proof the kernel accepted can be promoted to a theorem that
later proofs cite.  Whoever relies on a file relies on the kernel saying yes only
to lines that follow from what the proof took for granted, whatever subproofs,
declarations, labels and rules the proof mixes.  This project models that kernel,
its rules, the scope its elaborator keeps beside it and the theorems it leaves
behind, and says what they preserve.

Paths below are relative to the repository (`source/ProofLogic.py` is
`src/source/ProofLogic.py` in PROJECT.json).

## 1. Inventory

The program is one process and one thread; nothing is persisted, nothing is
retried, no call has a timeout, and a proof is validated from its first line to
its last.  What is hard is not interleaving in time but *nesting*: state that is
pushed when a subproof opens has to be struck off when it closes, while records,
labels and books made inside outlive it; and every rule reads this state at the
line it is asked about.

| Component | State it keeps | Operations | Correct when |
|---|---|---|---|
| Formulas and terms (`FormulaLogic.py`, `TermLogic.py`) | none | shape, free variables, substitution, evaluation in a finite structure | evaluation gives the truth value; substitution captures nothing where it is used |
| Scopes (`LabelScope`, `DeclarationScope`) | a dictionary for each open block, chained | look up, bind, open a child | a name is never bound twice along the chain; what a closed block bound is gone |
| Kernel walk (`ProofValidator`) | `seen` of each open block, the two scopes, `_given_lines`, `_assumption_stack`, `_arbitrary_names`, `_constrained_names`, `own_givens`, `own_declarations`, `used_axioms`, `used_rules` | one handler for each kind of line; opening and closing of a subproof; refusals | every line it accepted follows from what it rests on; the stacks hold what is in force and nothing else; the books list all that was taken for granted |
| Standard rules (`default_rules`) | none (they read candidates and a `RuleContext`) | `applies` / `applies_in_context` | a rule that says yes to established candidates claims something true |
| Relation rules (`DiscreteMathCore.py`) | none (they read declarations) | as above | as above, given what the visible declaration says |
| WLOG replay (`_validate_wlog_replays`) | a snapshot of the walk at the WLOG line | replays the rest of the block for the other cases | every case of the cited disjunction reaches the same conclusion |
| Mutatis mutandis (`_expand_mutatis_mutandis`) | the source entry of each label | rewrites a proved line's argument | the repeated argument is checked as if written out |
| Promotion (`promote_theorem`, `TheoremRule`) | the theorem's premises, conclusion, needs | build a rule from a validated proof; match an instance | a citation gives nothing the original proof would not give in the citing proof |
| Equality reasoning (`AlgebraRule`, Leibniz, substitution) | a union-find for each question | congruence closure, replacement | the search ends; it calls equal what follows from the cited equations and nothing else |
| Set theory, order (`SetTheory.py`, `OrderTheory.py`) | none in the rules; declarations and phrase parsers of the environment | rules for the axioms by name, membership, finite sets and cardinals | what is cited as an axiom is that axiom; the other rules claim something true |
| Axiom schemas, induction, types (`NumberTheory.py`, `NatThry.py`, `DiscreteMath.py`) | rule configurations, declarations of each `Type` | induction, schemas, recipes | each rule follows from the theory |
| Elaboration (`ProofContext.py`, `ProofParser.py`) | the elaborator's own chain of names, assumptions, arbitrary names and labels | resolve a line's names and citation, open and close its scope with each subproof | agrees with the kernel's scopes; nothing of a closed subproof stays |
| Parser (`ProofParser.py`, `ProofParserPolicy.py`, `LineBreakSyntax.py`) | position, indentation of subproofs | text to lines | the formula read is the one written |
| File runner (`validate_all_proofs.py`) | the theorems promoted so far | validate each block, promote the titled ones | the stated conclusion was derived; numbering warnings |

How they interact: the parser hands *entries* to `Proof`, which builds one
`ProofValidator`; the validator calls `rule.applies_in_context(candidates, phi,
context)` and receives a verdict; a closed subproof goes to the rule as a
`SubproofRecord`; after validation `promote_theorem` reads the validator's books;
the runner appends the resulting `TheoremRule` to the rules of the next proof.
Before all this `_ElaborationContext` has read the whole text with a scope of its
own, and two kinds of line make the kernel call itself on entries it has
rewritten: a WLOG line, whose block is read again for each other case, and a
Mutatis mutandis line, read as the argument it repeats.

The hazards of this code are listed in PROJECT.json, each at its line.  They are
of five sorts: scope that outlives its block or dies too early; *freshness* that
is judged against less than everything said about a constant; books that
under-report what a theorem owes; data that reaches a rule in a form no test
wrote (binder names, a formula on a line meant for a flag, a record standing
beside formulas, a label naming several formulas); and loops without a bound (the
walk of `find`, the passes of the congruence closure).

## 2. Modules

Read them in this order.

| Module | Models | Correspondence |
|---|---|---|
| `FormulaSyntax` | the classes of `FormulaLogic.py` and `TermLogic.py` | a formula is a node `[op, sym, kids]`: class, name, parts.  Structural equality of the code is equality of nodes |
| `FormulaLogic` | what is recursive there: free variables, substitution, `_alpha_eq`, the occurrence checks, evaluation | `Evaluate` is `evaluate_formula` |
| `LexicalScope` | `LabelScope`, `DeclarationScope`, the chains of a `ProofContext` | a chain of dictionaries is a sequence of functions, innermost last |
| `LexicalEnvironment` | what such a chain promises | the abstract specification that the kernel's two scopes and the elaborator's implement |
| `GroundRules` | the rules of `default_rules` that compare whole formulas: connectives, equality, conditional and contradiction from a subproof, proof by cases | one predicate for each rule class, with the conditions in its `applies` |
| `QuantifierRules` | the rules that match a formula with the body of a quantified one; what they ask of `RuleContext` | the same |
| `InferenceRules` | `FormulaMatcher`, `_is_contradiction`, `UniquenessRule` | the recursions that those two modules take as parameters, the rule for unique existence; `AskRule` is `_ask_rule` |
| `RewritingRules` | the other standard rules: propositional equivalence, Leibniz substitution, induction as `NAT_TYPE` configures it, and what `AlgebraRule` asks before it searches | the same |
| `CongruenceClosure` | `_congruence_closure_equates`, `_UnionFind` | one action for the union of a cited equation, for the start of a pass, for a comparison and for the answer; terms, symbols and arguments are CONSTANTS |
| `RelationRules` | the seven rules of `DiscreteMathCore.py` | they read the declarations visible at the line; `DeclaredTrue` is what such a declaration says of a structure |
| `TheoryRules` | the rules of `SET_THEORY_ENVIRONMENT`, the witness form of pairing, the three order rules | one predicate for each rule class |
| `RuleVerdicts` | one citation put to one rule | `Ask` is `_ask_rule` with any candidates a proof may have established; for an algebra line the search of `CongruenceClosure` runs until it answers |
| `ProofValidator` | the class of that name | one action for each kind of line (below); formulas, rules and verdicts are CONSTANTS |
| `ProofSoundness` | what the walk promises about truth, and what of its rules that rests on | no code of its own: `Sound`, `SoundInScope`, `TopLevelIsSound`; `RuleIsSound` |
| `GroundTruth`, `QuantifierTruth`, `RelationTruth` | what formulas mean, as far as the rules of `GroundRules`, `QuantifierRules` and `RelationRules` depend on it | no code of their own: named assumptions about truth, the matcher and declarations |
| `Elaboration` | `ProofContext`, `_ElaborationContext` | beside every action of `ProofValidator`, what the elaborator does with the same line |
| `LabelledLines` | the labels a WLOG or Mutatis mutandis line sees, the entries they stand for, `_wlog_exchange` | shared by the next two |
| `ReplayRules` | `_wlog_formula_matches`, `_substitute_wlog_value`, `_mm_align`, `_transform_wlog_entry`: a replacement is read off two statements and applied to lines | operators; replaces constants, functions and predicates |
| `RepeatedArguments` | WLOG and Mutatis mutandis in the walk | see below |
| `TheoremRules` | `ConstantGeneralizingMatcher`, `_substitute_constants_in_formula` | `MatchesConclusion` is the matcher's result, `Put` the substitution |
| `TheoremLibrary` | `promote_theorem`, `_promotion_requirements`, `TheoremRule`, the loop of `run_multi_proof_file` | one action for each kind of line a proof may have and `Promote`; see below |
| `ProofValidatorProofs`, `ElaborationProofs`, `ProofSoundnessProofs`, `GroundVerdicts`, `TheoremLibraryProofs`, `CongruenceClosureProofs`, `RepeatedArgumentsProofs`, `FoldTraces` | theorems | see section 5 |
| `MCScope`, `MCElaboration`, `MCFreshness`, `MCDivergences`, `MCTheories`, `MCRules`, `MCRepeated`, `MCCaseInForce`, `MCTheorems` | values of the constants | see section 3 |

How they compose: `Elaboration` EXTENDS `ProofValidator` and moves both at a line;
`ProofSoundness` EXTENDS `ProofValidator` and gives its lines a meaning, with the
rule modules for verdicts; `GroundTruth`, `QuantifierTruth` and `RelationTruth`
each add a rule module to it and say what its formulas mean; `RuleVerdicts`
EXTENDS `TheoryRules` (and with it `RewritingRules`, `RelationRules`,
`InferenceRules`) and `CongruenceClosure`; `RepeatedArguments` EXTENDS
`LabelledLines` and takes the rules and the rewriting as parameters, which
`MCRepeated` gives it from `InferenceRules` and `ReplayRules`.

`ProofValidator` knows nothing of what a formula says, nor what a rule does: the
code does not either, it handles `Formula` and `InferenceRule` objects.  So the
scope runs can use opaque formulas, the soundness runs plug in `FormulaLogic` and
`InferenceRules`, and the proofs hold for all of them.

The same division is made for repeated arguments: `RepeatedArguments` has what the
kernel does with the lines, `ReplayRules` the recursions over formulas and entries
that it calls (`Reread`, `StandIn`, `SaysSame` and the others).  And it is made
once more among the rules.  A rule is a few comparisons
and conditions, around a recursion over the formula: `FormulaMatcher`,
`_term_occurs_in_formula`, `_is_contradiction`.  `GroundRules` and
`QuantifierRules` take the recursions as CONSTANT operators (`BodyMatches`,
`ReadsAs`, `Occurs`, `Contradictory`), so that the rules can be proved about for
every recursion with the assumed properties; every run that asks a rule gives them
the code's own (`MatchesBody`, `Instance`, `ConstantOccurs`, `IsContradiction`).

### The walk

The code recurses: `_validate_block` calls `_validate_line`, which calls
`_validate_block` for the subproofs of a line.  The model keeps that call stack
as the variable `blocks`, whose elements are the open blocks with the line that
awaits their records (`pending`); one step handles one line or one end of a block.

| Variable | Code |
|---|---|
| `status` | still walking, accepted, or the category of the `ValidationError` |
| `blocks[i].seen`, `.last`, `.opener` | the list `seen` of that block: the set of its elements, its last, its first.  Nothing in the kernel looks at the order otherwise |
| `blocks[i].pending` | the `rule_below` / `rule_hybrid` / standalone entry whose subproofs are being read |
| `blocks[i].assumptionsInForce`, `.arbitraryInForce` | the two local variables of `_validate_block` |
| `labels`, `declarations` | the scopes along the open blocks |
| `givenLines`, `assumptionStack`, `arbitraryNames`, `constrainedNames`, `ownGivens`, `ownDeclarations`, `usedAxioms`, `usedRules` | the attributes of the same name; `arbitraryNames` keeps the names of one line together |

| Action | Handler |
|---|---|
| `DeclareOnly`, `DeclareFormula` | `(Declare)` lines without and with a formula, and a premise line that only declares |
| `PremiseLine` | a premise, or a bundle of premises under one label |
| `AxiomLine` | `(Axiom)`, with the list open or closed |
| `RuleLine` | a rule applied to cited labels, with the declarations it may make (direct witnesses) |
| `BeginBelow`, `JudgeBelow` | `_validate_rule_below` before and after its subproof |
| `BeginHybrid`, `JudgeHybrid` | `_validate_rule_hybrid` before and after its subproofs |
| `BeginSubproof`, `OpenAssuming`, `OpenFresh`, `OpenBadly`, `MisplacedOpening`, `CloseBlock` | subproofs: the first line, a wrong first line, an opening line elsewhere, the end |
| `Finish`, `Done` | the end of the proof; nothing happens after a refusal |

A handler's checks are made in the order of the code (`e ?? f`: the second check
counts if the first finds nothing); where the code meets several offending
symbols in an order that depends on the formula's layout, any of their
categories may be the one reported.  After a refusal the state is left as it was:
the code may have changed some of it by then, but returns at once and nobody
reads it.  `SubproofRecord.inner` and `get_outer_context` are kept flattened to
the formulas in them, the only thing `_term_occurs_in_formula` finds there.

Abstractions: messages, locations and explanations (`_why_not`,
`_cited_by_name`) are left out.  Entries are well formed: the categories
`malformed_entry`, `malformed_justification`, `unknown_tag` and `rule_raised` are
not reached.  Structure metadata is the set of names it refers to and the set of
its `properties`.  The special treatment of a function as an argument of
`Bijection`, and schematic rules that read `RuleContext.axioms`, are not here; a
rule of variable arity (`AlgebraRule`) is in `RuleVerdicts`.
The bounds `MaxDepth`, `MaxSeen` and `MaxDeclared` stand as guards.

### The library of theorems

`TheoremLibrary` is about what happens between proofs, so it writes a proof more
coarsely than `ProofValidator` does: the lines its top level states, and what its
subproofs leave behind (hypotheses, declarations, rules).  A line justified by a
rule is one that follows in every structure from what stands and from what the
rules rest on (`Follows`); that the kernel's rules keep to this is what the
soundness runs are about.  A theorem cited inside a subproof counts as cited at
the top level.  From there on the code is followed: the validator's books,
`_top_level_promotion_inputs`, the requirements, the entanglement of axioms with
generalized names, and `TheoremRule.applies_in_context` as the guard of
`TheoremLine`.

| Variable | Code |
|---|---|
| `library` | `promoted` in `run_multi_proof_file`; a theorem is the record of `TheoremRule.__init__` |
| `theory` | the lists the current `Proof` was built with |
| `lines`, `declared` | what a line of the top level may cite and sees declared |
| `derived`, `objects` | the two results of `_top_level_promotion_inputs` |
| `granted`, `ownGivens`, `ownDeclarations`, `usedAxioms`, `usedRules`, `usedTheorems` | the books; `usedRules` and `usedTheorems` are one list in the code |

Which rules are beyond the standard ones, and what they say (`Teaches`), is given
by the theory; rules that read declarations rest on what these say (`Means`).

### Repeated arguments

A WLOG line asserts one case of a cited disjunction.  The kernel goes on with it
and, when the block ends, goes back to the state before the line and reads the
rest of the block again for each other case, with the names of the two cases
exchanged; every case must end with the same line.  A Mutatis mutandis line is
read as the argument stored for the label it cites, with the names its claim has
in the place of the other's.  Both transform entries and call `_validate_block`
or `_validate_line` on the result, so `RepeatedArguments` makes one action of a
line of the top level and reads what stands below it by functions named for the
handlers (`Validated`, `RuleLine`, `NestedBlock`, `Settled`).  Its `walk` holds the
part of the validator's state these lines can disturb: what is derived, the labels
with the entries they stand for, the names declared, the books, and the state
saved at the WLOG line.

The kernel's recursion goes through `_validate_block`: a line with subproofs reads
blocks, and a block reads lines.  Loops are left folds (`Read` over the entries,
`ReadBelow` over the subproofs of a line, `Replay` over the cases), and the one
recursive call is the parameter `ReadBlock`, which the runs give the value
`NestedBlock`, the definition that calls it.  So the module has no recursive
operator and can be proved about.

### The elaborator beside the kernel

`_ElaborationContext` reads the whole text before the kernel sees any of it and
keeps the same scopes in its own words.  In `Elaboration` both move together, a
line at a time, so that their scopes at the same line can be compared: every
action of `ProofValidator` has a counterpart with the prefix `Text` that says what
the elaborator binds, refuses or hands on for that line.  `unreadable` is an
`ElaborationError`; the kernel then never runs.  `RestoredContext` is the
elaborator's way of leaving a subproof: it swaps its scope for a child and has to
put the parent back.

Three places where the two scopes do differ are part of the model, and the
properties are stated so that they hold in spite of them: the elaborator binds the
label of a line that only declares, the kernel does not; the kernel binds the
label of a standalone subproof, the elaborator does not (the docstring at
`source/ProofParser.py:1752-1757` says the two agree exactly); and a line without
a label is not recorded by the elaborator at all.  None of them lets a label mean
one line here and another there, which is what `ReferencesAgree` says.

### The search of the algebra rule

`CongruenceClosure` has one action for each iteration of the loops of
`_congruence_closure_equates`.  The inner loop of `find` is not a step: `Walks`
gives the set of terms met, `Found` says that the loop ends at a root, and every
action that calls `find` is guarded by it; `WalksEnd` is the claim that the guard
never blocks.  Terms are registered with their arguments (`AllSubterms`, a
recursion over data, is in `RewritingRules` where questions are put), so that this
module has no recursive operator and can be proved about.

### The axioms of set theory

The rules for the axioms take no premises: they read off the formula whether it
is the axiom, in full or at a set, under whatever bound names the proof chose.
`TheoryRules` describes for each the shape and the conditions on names as one
formula with existentially quantified names and terms.  Two of the conditions are
operators (`AllDiffer`, `NotCaptured`) because they are what a rule of this kind
stands or falls with.  Cardinals are constants that carry their number.

## 3. Runs

The proof being checked is the environment: `Next` lets it write any line over
the formulas, labels, names and rules of the run.  A run therefore checks all
proofs up to the bounds, the wrong ones included.

### Structure of the walk

| Run | Bounds | Shows |
|---|---|---|
| `flat` (`MCFlat.cfg`) | depth 2, two lines a block, one declaration, four formulas, three names | types; `NamesAreUnique`, `SymbolsAreDeclared`, `ArbitraryAreInScope`, `BooksBalance`; `LinesStand`; `ScopesAreLexical`.  All kinds of lines that take something for granted, bundles, explicit and inferred declarations, metadata that refers to a constant or to a proposition, listed premises and axioms |
| `nested` (`MCElaboration.cfg`) | depth 3, two lines a block (one in the innermost), two labels, one declaration | the elaborator and the kernel on one text: `ReferencesAgree`, `VocabularyAgrees`, `ContextIsLexical`; and of the kernel `CitableLinesAreOpen`, `AssumptionsAreInForce`, `StacksReachBack`: subproofs in subproofs, of both kinds, standalone and below a line, one after the other; existence lines, which name a witness |

Depth 3 is the least at which a block that closes has a parent that is itself a
subproof, so that striking off too much or too little shows; two lines a block
are enough for a line after a closed subproof, and one label for every way of
reusing it (the second is for lines that name a witness).  The open axiom list is
in `nested`, the closed one in `flat`.

### Truth

| Run | Bounds | Shows |
|---|---|---|
| `freshness` (`MCFreshness.cfg`) | depth 3, generalization, elimination of an existential and instantiation over one predicate, conditional introduction, every structure with two elements | `Sound` through lines with a subproof below them, and cited labels before it, where a constant is declared, fixed by a premise or a declaration line, or assumed about before it is generalized or serves as a witness.  The assumptions of `GroundTruth`, `QuantifierTruth` and `RelationTruth` hold of `evaluate_formula`, `FormulaMatcher` and the occurrence check |
| `repeated` (`MCRepeated.cfg`) | five lines at the top level, subproofs two deep, three constants, two predicates, a proposition; every structure with two elements | `LinesFollow`, `ConclusionFollows`, `ReplacementGivesClaim`, `RepeatsAddNoHypothesis`: WLOG over two and three cases, over an equation and over conjunctions, in subproofs and around them, with premises, declarations and repeated arguments before and after it |
| `rules` (`MCRules.cfg`) | every question over a small set of formulas and records for each family of rules (up to two equations for an algebra line, cardinals up to 2) | `VerdictsAreSound`: no rule says yes to candidates that can have been established and claims something false.  `AxiomLinesAreAxioms`: a line accepted as an axiom of set theory is that axiom, up to bound names, except for the two captures described below.  `LinksAreEquations`, `WalksEnd`, `ClosedWhenDone`, `CallsReturn`: the search of the algebra rule |

`freshness` has formulas that no line states (`Unwritten`), for the assumptions
only: they are about every connective, equations, conditional and constant bodies
and atoms with two terms too.  Five lines in `repeated` are a disjunction, a line
it is combined with, the WLOG line, an argument and its repetition.

Truth is `evaluate_formula` itself, over all structures with two elements (every
interpretation of the function symbols, where formulas have functions): enough to
tell apart "some" from "all" and a constant from another, the confusions a wrong
rule would make. Induction is judged in finite structures where zero and successor
reach everything. Every rule asked has questions among these that it accepts.

Sets are judged in two kinds of structure. For rules about membership, the objects
are the hereditarily finite sets of rank below one, two or three; Extensionality,
Foundation, Separation, Union and Choice hold there, so lines cited for these are
judged by truth as well. Pairing, Power set, Infinity and Replacement have no
finite structure: what is accepted in their name is compared with the axiom
written in names no line uses (`AxiomLinesAreAxioms`, alpha equality). For rules
about finite sets and cardinals, the objects are sets of numbers, one with 0 in it
standing for an infinite one, and the functions the operations on them. Order is
judged with all objects integers, as the theory intends: `OrderTransitivityRule`
and `OrderLessEqualRule` do not ask for an `Int` premise.

### Theorems

| Run | Bounds | Shows |
|---|---|---|
| `theorems` (`MCTheorems.cfg`) | two theorems one after the other, two lines, two declarations and one hypothesis a proof; three theories; every structure with two elements for two objects, a property and two relations | `TheoremsHold`: whatever its generalized names stand for, a theorem holds wherever its axioms, rules and relation requirements do.  `LinesFollow`: a proof that cites theorems claims nothing that does not follow from what it takes for granted, what is declared and its own theory |

Two theorems are the least for a chain (the second cites the first and has to pass
its requirements on); two lines hold a premise and what is concluded from it.  The
theories differ in what makes requirements necessary: an axiom about a name that
another proof may generalize, a rule of the theory's own, an open list of axioms.
The assumptions on renaming and matching are evaluated with renaming as
substitution in these formulas.  The run may stop when the library is full, so
deadlock is not checked in it.

### Where code and documentation disagree

Each of these runs checks one property and finds it violated.  The behaviours are
proofs the program accepts.

| Run | What happens |
|---|---|
| `capture` | `UniversalGeneralizationRule` does not ask whether the generalized constant is gone from its conclusion: from R(c,c) it concludes "for all x, R(x,c)" |
| `leak` | a relation declared symmetric inside a subproof: the conclusion that used the symmetry is brought out with the subproof's record, and is then read as about a relation of the same name declared afterwards |
| `formula_line` | a "(Fresh Variable)" line that states a formula instead of naming a constant opens a subproof; the formula is neither a hypothesis nor an assumption on the stack, and its symbols are not looked up |
| `matcher` | `FormulaMatcher` compares inner quantifiers without their names, so instantiation turns "for all z there is y with R(x,y)" into "for all y there is z with R(a,y)" |
| `case_in_force` | the case a WLOG line chose is in force but no hypothesis that a rule's context lists: with "c = d or c = e" and nothing else known of c, WLOG c = d makes "B(c) implies c = d", proved for this c, pass for uniqueness: "there is exactly one B" follows from "there is some B", and the replay with e agrees |
| `wlog_promotion` | the assertion of a WLOG line counts as derived at the top level: if it is the last line justified by a rule, the proof is promoted as a theorem with this one case for its conclusion |

Two more behaviours of this sort were met.  The model has them, the questions of
`rules` include such lines, and `AxiomLinesAreAxioms` names them as its exceptions.

* `ReplacementSchemaRule.applies` (`source/SetTheory.py:2462`) builds the B(x,z) of
  the uniqueness clause by substituting z for y in B without asking whether B binds
  z.  With B(x,y) = "there is z in y" the clause becomes "for all z, if there is z
  in z then z = y", and the line that claims the set of all nonempty sets in A's
  place is accepted; the class says that the clause "must be exactly B(x,y) with y
  replaced by z" and that there is "no more capture risk than `InductionRule`
  already carries", which refuses names its claim binds.
* `PairingAxiomRule._check_witness_form` (`source/SetTheory.py:1848`) asks that the
  paired terms do not mention the witness, not that they are free of the quantified
  u: "There is a set Y such that forall u, (In(u, Y) iff (u = u or u = a))" is
  accepted, and Y has everything for a member.  The form with a quantified Y does
  ask ("The paired terms must be genuinely outside the quantifiers").

`NothingIsCaptured` (`RuleVerdicts`) says when neither happened: y written for z
again in the uniqueness clause gives B, and no paired term mentions u.  The property
says that an accepted line is an axiom exactly then.  Without either half of the
exception TLC finds an accepted line that is no axiom, and what the exception takes
out are only such lines.

Deadlock is checked in every run but `theorems`; the walk stops only in `Done`.

### Fairness

Nothing in the program waits for anything else, and validation walks a finite list
of entries; there is nothing to schedule.  The one part that might not come to an
end is the search of the algebra rule, two nested loops without a bound.
`RuleVerdicts` assumes weak fairness of `SearchOn \/ Conclude`: a loop that was
entered runs on until it returns.  Under it `CallsReturn` says that every call
answers.  No fairness is assumed of asking.

## 4. Properties

`TypeOK` apart, each property relates state written at different times.

* `NamesAreUnique`: no label and no name is bound in two open blocks.
* `SymbolsAreDeclared`: what was checked when a line was accepted stays true as
  long as the line is visible: its symbols are declared at its block or around
  it, as what it uses them for.
* `ArbitraryAreInScope`: the constants a rule may generalize are declared where
  they count as arbitrary, as objects, with nothing said about them.
* `BooksBalance`: `_given_lines` is what the proof assumed plus axioms the theory
  lists; every name referred to by any declaration, at any depth, is constrained.
* `LinesStand`: no step takes a line, a label or a name away from a block that
  stays open, or changes what it means.
* `ScopesAreLexical`, `ContextIsLexical`: the kernel's two scopes, and the
  elaborator's, implement `LexicalEnvironment`: a block that closes takes its
  bindings along, all but a name for its result, and no step changes what is bound
  or binds it again.  (A `LexicalEnvironment` for each scope, its variable mapped
  to the chain; the steps that do not touch it are stutters.)
* `CitableLinesAreOpen`: a visible label names lines of the block it belongs to.
* `AssumptionsAreInForce`: `_assumption_stack` is the assumptions of the open
  subproofs, outermost first.
* `StacksReachBack`: the two lengths noted by each open block are reached by
  the stacks and grow inwards.
* `ReferencesAgree`: what the elaborator finds at a label is what the kernel's
  label names.  `VocabularyAgrees`: what the elaborator takes for declared, or for
  arbitrary, the kernel has declared in the same block (it may know more, by
  inference).
* `TheoremsHold`, `LinesFollow` (of `TheoremLibrary`): what promotion and citation
  promise.
* `LinesFollow` (of `RepeatedArguments`): under the case chosen every line follows
  from what the proof took for granted, the repeated arguments among them.
  `ConclusionFollows`: after the replays the conclusion follows in all cases.
  `ReplacementGivesClaim`: the names read off two statements, put into the one,
  give the other.  `RepeatsAddNoHypothesis`: a repeated argument takes nothing
  for granted.  `TheoremFollows` (violated, run `wlog_promotion`): what promotion
  takes for the conclusion follows as well.
* `Sound`, `TopLevelIsSound`, `SoundInScope`, `VerdictsAreSound`: see above.
* `AxiomLinesAreAxioms`: what is accepted under the name of an axiom is an
  instance of it, whatever names and terms it is written with, provided that a
  Replacement line's B does not bind the z it is read with, where y stood, and a
  pairing witness line's terms do not mention its u; and it is not one otherwise.
  The code does not check these two provisos (section 3).
* `LinksAreEquations`, `ClosedWhenDone`, `WalksEnd`, `CallsReturn`: the algebra
  rule is sound and complete, its union-find has no cycle but at roots, its loops
  end.

Each is paired with a mutant of the code that breaks it (PROJECT.json,
`mutants`); the mutated forms stand beside the definitions they replace and
nothing else uses them.

## 5. Proofs

Eight modules hold the proofs. Two are about the walk by itself and the elaborator
beside it, two about truth (the rules that compare whole formulas, by themselves;
the walk and all its rules), two about repeated arguments (one of them about folds
of any operator), one each about promoted theorems and about the algebra rule;
together they state every invariant and action property of the runs `flat`,
`nested`, `freshness` and `theorems`, of `repeated` all but
`ReplacementGivesClaim`, and of `rules` those about the algebra rule.

### Types, stacks and scopes

`ProofValidatorProofs` proves, for all formulas, labels, names, declarations,
rules, verdicts and bounds that satisfy the named assumptions of
`ProofValidator`:

* `TypesHold`: `Spec => []TypeOK`
* `StacksNeverOvershoot`: `Spec => []StacksReachBack`
* `OpenAssumptionsAreInForce`: `Spec => []AssumptionsAreInForce`

`TypeOK` alone is not inductive.  When a block closes, `SubSeq(assumptionStack,
1, n)` is a sequence of formulas only if `n` does not exceed the length of the
stack; so `StacksReachBack` is needed, and it is kept by a closing block only
because the noted lengths grow inwards.  That a closing block leaves exactly the
assumptions of the blocks around it needs `AssumptionsAreInForce` for the block
above it.  The inductive invariant is their conjunction:

    Invariant == TypeOK /\ StacksReachBack /\ AssumptionsAreInForce

The argument has three layers.  First, lemmas about what the model is built from:
scopes (`BindAllKeepsScope`, `ParentKeepsScope`), checks (a combination of checks
refuses only with known categories), and the effects lines share (`Derive`,
`TakeForGranted`, `Register`, `Open`, `Await`).  Second, one lemma for each action
that says that it keeps the types, and for the stacks one for the steps that leave
the frames of the open blocks alone, one for the openings and one for
`CloseBlock`.  Third, `NextKeepsTypes` and `NextKeepsStacks` split on the disjuncts
of `Next`, and `InvariantHolds` closes with temporal reasoning.

The assumptions are: declarations, lines and lists are of their types; initial
declarations do not conflict; labels offered for a line are labels or none; rules
take and claim what rules do; bounds are natural numbers; no formula is a record
of a subproof.  TLC evaluates them in every run of the module.

The second part of the module builds on that invariant and proves, from the same
assumptions, all that the structure runs check of scopes:

* `WalkRefinesLexicalEnvironment`: `Spec => ScopesAreLexical`, the refinement: the
  initial tables map to the abstract initial state, and every step to a bind, an
  entry, an exit or a stutter of each scope
* `NamesStayUnique`: `Spec => []NamesAreUnique`
* `OpenLinesStand`: `Spec => LinesStand`
* `ClosedLinesAreOutOfReach`: `Spec => []CitableLinesAreOpen`
* `DerivedSymbolsAreDeclared`: `Spec => []SymbolsAreDeclared`
* `ArbitraryStayInScope`: `Spec => []ArbitraryAreInScope`
* `BooksAlwaysBalance`: `Spec => []BooksBalance`

The argument: every step has one of six effects (`StepsHaveEffects`, from one lemma
for each action): nothing changes, a line waits, names are declared, something is
stated, a block opens, a block closes.  In each case both chains are extended by
names that are bound nowhere, enter a block, or leave one (`LabelsDoChange`,
`DeclarationsDoChange`), and from that alone follow the refinement, the uniqueness
of names and that lines stand.

`SymbolsAreDeclared` needs three things more.  A line with subproofs below it is read
when it begins and derived when it is judged, with whole subproofs between, so the
inductive invariant also says that the lines that wait are still read without error
(`WaitingLinesAreRead`).  A name keeps its declaration because lines stand.  And the
lookup in a larger scope finds the same declaration because names are unique
(`OnlyMeaning`, `ReadingIsInherited`): were shadowing possible, a line accepted once
could come to use its symbols as something else.  `ArbitraryAreInScope` needs
`StacksReachBack`, since what closes is struck off by length, and that the
declarations of one line have different names, since a name that is plain in the
list must be so in the table.

### The elaborator beside the kernel

`ElaborationProofs` proves about `TextSpec`, for all formulas, labels, names,
definitions and bounds:

* `ContextRefinesLexicalEnvironment`: `TextSpec => ContextIsLexical`
* `LabelsNameTheSame`: `TextSpec => []ReferencesAgree`
* `NamesMeanTheSame`: `TextSpec => []VocabularyAgrees`
* `ScopesHoldUnderTheElaborator`: the kernel's `NamesAreUnique` and
  `CitableLinesAreOpen` still hold when the text decides which lines it sees

The last is not a consequence of the earlier theorems: an existence line hands the
kernel a formula and declarations that the walk by itself would not enumerate
(`WitnessLine`), so `Spec` is not implied.  `TextWalks` shows that every other step
is one of the walk, and `TextKeepsInvariant` that the kernel's invariant survives
these too.

The argument has two halves.  What a line does to the context is one of three
things, whatever the kernel says of it (`ContextStep`): it writes into the
innermost tables, enters a child, or returns to the parent; `ContextIsLexical`
follows from this alone.  And as long as both accept, the kernel's scopes take the
same step (`Together`, from one lemma for each kind of line): both pass by, both
read a line, both open a block, or both close one.  The inductive invariant is
`Invariant /\ ContextOK` (the context has a table of each kind for each open block)
with `AgreeOn` table by table for the labels and `VocabularyOK` for the names.
`ReferencesAgree` merges the chains on both sides, so it needs that no label is
bound twice, which is where the scopes being lexical is used.  Assumed besides what
the walk assumes: a witness of an existential formula is a formula, and definitions
declare and state lists (`ExistenceAssumption`).

### Truth: the walk

`ProofSoundnessProofs` is about the promise the kernel makes.  For all formulas,
rules, structures and bounds, from two hypotheses,

* `RulesAreSound`: each registered rule that says yes to candidates a proof
  established, in a context that fits, claims what follows;
* `FreshLinesAreFlags`: a "(Fresh Variable)" line names its constant and states
  nothing;

it proves

* `WalkIsSound`: `Spec => []Sound`
* `FinishedProofsFollow`: `Spec => []TopLevelFollows`: what stands outside every
  subproof follows from what the proof took for granted, and no assumption of a
  closed subproof is behind it.

The hypotheses are of the code, not of the model: the first is about one citation
(`RuleIsSound`), and the modules below discharge it for the rules they are about;
the second is what the elaborator hands on, and without it `Sound` is false: that
is the run `formula_line`.  `RuleIsSound` asks no more of a rule than the walk
provides.  `Established` says what a candidate is: a formula that follows from the
hypotheses, or the record of a subproof whose conclusion follows from its
assumption besides, both read in one scope.  `ContextFits` says what `RuleContext`
is: `constrained` is every name any declaration ever referred to, the visible
declarations have different names and, if they say anything, are among those made,
what is arbitrary is an object of which nothing is said.  The line that opened a
fresh subproof may be cited too; then it establishes nothing, and its name is an
object wherever it is used.

The inductive invariant is

    Grounded == BlocksHold /\ OpenersAreLines /\ FlagsAreDeclared
                /\ VisibleAreMade /\ CitesStayInReach /\ RootIsBare

over the invariants of the scopes.  `BlocksHold` is `Sound` and more: the records
kept for a line that awaits its subproofs hold too.  `CitesStayInReach` is needed
because a hybrid line cites when it begins and is judged when whole subproofs have
been read: what it cited then must still be the same, and derived under no more
hypotheses.  `FlagsAreDeclared` and `SymbolsAreDeclared` together give that a
flag's name is only used as an object in its scope, `VisibleAreMade` and
`ArbitraryAreInScope` that the context fits.  A block that closes hands its last
line to its parent with its assumption moved into the record
(`AssumptionsAreInForce`).

Truth is judged with every name interpreted once.  A name declared again after the
subproof that declared it closed is one name with two declarations, and a promise
about both at once; `leak` shows the promise that is not kept (`SoundInScope`), and
no theorem states it.

### Truth: the rules

The second half of `ProofSoundnessProofs` discharges the first hypothesis, for the
rules a project's proofs mostly use.  It proves that the seventeen rules of
`GroundRules` are sound (`GroundRulesAreSound`), so that proofs that use them, and
others that are, are: `GroundProofsAreSound` (`Spec => []Sound`) and
`GroundProofsFollow`.  It adds the five quantifier rules
(`QuantifierRulesAreSound`) and the seven relation rules (`RelationRulesAreSound`)
and concludes `StandardProofsAreSound` and `StandardProofsFollow`.

The seventeen rules are judged in one structure, by `GroundVerdicts`
(`GroundVerdictsAreTrue`): candidates that hold there make the claim hold there.
It has one lemma for each rule and speaks of three sets only, the formulas, those
that state something and those that are true; so it serves the walk and, below,
repeated arguments, whose contexts and records are others.  A flag is a formula
that states nothing, and each lemma shows that the rule reads no flag: it compares
candidates with parts of formulas that state something.  That the walk is such a
case is `CandidatesHold`: a flag's name is an object in all formulas of its scope,
so no part of one is the flag's atom; this is what `FlagsAreObjectsIn` in
`RuleIsSound` is for.

Existential elimination and universal generalization consume a record, and are
judged in the structures in which the record's constant stands for another object
(`Reinterpreted`).  The hypotheses stay true there, since the rule asks that the
constant occurs in none, and so do the declarations, since it is not constrained
(`EstablishedHoldsElsewhere`).  Two things came out of these proofs.

* Universal generalization needs a condition the code does not have: that no
  occurrence of the constant is left in the claim (`NothingIsLeft`).  It is part
  of `RuleIsQuantifier`, the hypothesis under which the theorems speak of the rule;
  what happens without it is the run `capture`.
* The code's check that the constant was not seen outside (`NotSeenBefore`) is not
  needed for soundness; the proofs do not use it.

What is assumed, and evaluated by TLC in `freshness`:

| Assumption | Says |
|---|---|
| `ShapeAssumption`, `UsesAssumption` | formulas are nodes; a connective uses what its parts use |
| `TruthAssumption`, `QuantifierAssumption`, `PairAssumption`, `ContradictionAssumption` | what `evaluate_formula` says of the outermost connective, quantifier, equation or atom with two terms; that `_is_contradiction` accepts nothing true |
| `MatchAssumption`, `ConstantAssumption` | a formula that the matcher accepts says of some object what the body says; if the variable reads as a constant that occurs nowhere else, of whatever the constant stands for |
| `ReinterpretationAssumption`, `FlagAssumption` | a formula without the constant does not depend on it; a flag that is read as a body is a part of it |

`MatchAssumption` is false of the matcher where it confuses two inner quantifiers:
the run `matcher`.  So it is an assumption on the formulas a proof uses, and holds
of all in which no body has one quantifier inside another.

Two hypotheses are about declarations: `RelationsAreAsDeclared`, that what a
declaration says of a relation is at least that it has its properties, and
`DeclarationsSayNoMore`, that what it says does not depend on objects it does not
refer to.  Both are true of `DeclaredTrue` and of a declaration that says nothing.
The rules read nothing else of a declaration.

### Promoted theorems

`TheoremLibraryProofs` proves, for any theories, any number of theorems, lines and
names:

* `PromotedTheoremsHold`: `Spec => []TheoremsHold`
* `CitingProofsFollow`: `Spec => []LinesFollow`
* `RequirementsSuffice`: `Spec => []ProofHolds`

`TheoremsHold` is not inductive: at `Promote` the theorem is made from a proof, so
the proof must already hold where only its *requirements* do, which is less than
what stands in it.  `ProofHolds` says this, and the inductive invariant is

    Invariant == Books /\ ProofHolds /\ LinesFollow /\ TheoremsHold

where `Books` says that the validator's books are of its theory.  A citation keeps
`ProofHolds` because the requirements of the cited theorem are added to those of
the proof; promotion turns it into the theorem in the structure in which each
generalized name stands for what it is renamed to.  That the premises of the
theorem are all the givens, although each is kept once, rests on a lemma of its own
(`EachOnceKeepsAll`, by a least place).

Assumed: renaming is substitution, and there is a structure for it
(`RenamingAssumption`); a match renames the conclusion to the line
(`MatchAssumption`); fewer properties say less, and what a theory declares itself
says nothing (`DeclarationAssumption`).  The last is so of every theory in the
repository: none declares a property of a relation.  It is needed because
`promote_theorem` collects relation requirements from the proof's own declarations;
from one of the theory's a promoted theorem would owe a property to nobody.

### The algebra rule

`CongruenceClosureProofs` proves about `ClosureSpec`, for all terms, problems and
meanings of "equal" that satisfy the assumptions of `CongruenceClosure`:

* `FindReturns`: `ClosureSpec => []WalksEnd`
* `AlgebraIsSound`: `ClosureSpec => []LinksAreEquations`
* `AlgebraIsComplete`: `ClosureSpec => []ClosedWhenDone`

The run `rules` checks the same three formulas where the search is called by the
rule (`RuleVerdicts`).  The inductive invariant is

    ClosureInv == TypeInv /\ WalksEnd /\ LinksAreEquations /\ DealtWith

`LinksAreEquations` is not inductive alone: that a link of the new union-find is an
equation needs that roots are reached (`WalksEnd`) and that they are equal to where
the walk began.  `DealtWith` says what has been done so far: the cited equations up
to `next` are in one class each, and in a pass without a change every pair no
longer waiting is closed; when the pass is over and nothing changed this is
`ClosedWhenDone`.

The lemmas come in layers: walks as least sets (`WalkIsClosed`, `WalkIsLeast`,
`WalkOfWalk`), roots (`RootIsFound`, `RootIsUnique`, `RootOfWalk`), path
compression (`CompressedKeepsRoots`: it changes no class), union
(`LinkedMergesClasses`: it merges two classes and changes no other), and equations
along links; then one lemma for each action, and `ClosureInvariant` puts them
together.  The assumptions: arguments of a term are terms; what an equation
mentions is registered with its arguments; the meanings of "equal" are congruences.
TLC evaluates them in `rules`, where the meanings are the kernels of all
interpretations over two elements.

### Repeated arguments

`RepeatedArgumentsProofs` is about proofs with WLOG and Mutatis mutandis lines, at
the top level and in subproofs, for any entries, formulas, structures and bounds:

* `EveryLineFollows`: `Spec => []LinesFollow`
* `NoGeneralityIsLost`: `Spec => []ConclusionFollows`
* `RepetitionsAddNothing`: `Spec => RepeatsAddNoHypothesis`
* `SubproofsFollow`: what `_validate_block` returns for a subproof, at any depth,
  follows under the subproof's assumption
* `GroundRulesHoldInEachCase`, `QuantifierRulesHoldInEachCase`: which rules may be
  used in such a proof
* `StandardProofsLoseNoGenerality`: with these rules,
  `Spec => [](LinesFollow /\ ConclusionFollows)`

Three things made the kernel hard to prove about: its loops are folds, its
recursion goes through blocks of blocks, and the lines that a replay reads are
rewritten while it runs, so that they may be repetitions and cases themselves.

*Folds.*  `FoldTraces` has one constant, the operator folded, and proves
`FoldLeftIsTrace`: a fold is the last of a trace of states, each the operator of the
one before and the next element.  The library defines `FoldLeft` by a recursive
function over sets of places; that this function exists is proved first
(`IterateExists`, by well-founded induction on places).  `RepeatedArgumentsProofs`
instantiates the module for each of the kernel's four loops: the entries of a block
(`Reads`), the subproofs below a line (`Belows`), the cases (`Replays`) and the
candidates that cited labels offer (`Offers`).  A property of the last state is then
proved of every state of the trace, in order.

*Recursion.*  `BlocksAreRead` says that the parameter `ReadBlock` is the definition
that calls it.  One function does this, since a subproof is read one level deeper
and refused below `MaxNesting`: it is what the runs assign.  `SubproofsFollow` is an
induction on how many levels are left.

*What reading does.*  `Follows(w, v, S)` relates the state before and after some
lines: the open block keeps its depth and its assumptions, hypotheses are only
added, none at all if no line of `S` adds one, and if every line held in the case
chosen then it still does.  One lemma for each kind of line proves it
(`ValidatedFollows` splits on the kinds), and it composes (along a trace it is
proved of the first and every later state).  That a repeated argument takes nothing
for granted is a part of `Follows` and not of the line alone: what is repeated may
be a whole subproof.

*Cases.*  A state after a WLOG line holds a smaller one, from before the line, and
`IsState` says that this one is a state without a case, in which every line
holds under the hypotheses of the block.  A replay starts from there with another
case, so it reads its lines soundly under that case (`ReplayFollows`), and since
entries after the WLOG line contain no second one, it is not replayed again.  At
the end of the block all cases agree on the last line (`SaysSame`), and the
disjunction is a line of the earlier state, so it holds in one of the cases
(`SettledFollows`).  The inductive invariant is

    WalkInvariant /\ ConclusionInvariant

that the walk is a state, at the top level with no assumption open, in which every
line holds in the case chosen; and that after acceptance the conclusion does in all.

The hypotheses are about single entries, values and rules (`Assumed`,
`BlocksAreRead`, `LinesAreEntries`), none of them about proofs:

| Hypothesis | Says | Why the code justifies it |
|---|---|---|
| `ValuesAreTyped`, `EntriesAreTyped`, `LinesAreEntries` | what lines and records are | what the parser hands on; a flag says nothing, it is true in every structure |
| `AddsLooksBelow` | `_mm_blocked_line` looks at a line and at the subproofs below it | `Blocked` is this recursion |
| `RewritingKeepsEntries`, `RepeatingKeepsEntries` | an entry rewritten has the same tag and the same rule and adds no hypothesis if it did not | `Rewritten` changes what is stated, named and cited and nothing else |
| `SameIsTrueAlike` | two values that count as the same are true in the same structures | `Orders` permutes the parts of commutative connectives only |
| `DisjunctionsSplit` | a true disjunction has a true part | `evaluate_formula` |
| `RulesAreSound` | a rule that says yes to candidates that hold claims what follows, *whatever cases were chosen around the line* | see below |

Nothing is assumed of what rewriting does to a formula: the lines it gives are read
again by the kernel, and that they follow is checked there and not inherited.  This
is why the theorems hold although the replacement itself (`_mm_align`) stays with
TLC: a wrong one would be refused, not believed.

`RulesAreSound` asks more than `RuleIsSound` of the walk without cases.  A chosen
case is in force but no context lists it, so a rule that asks whether a name is
fresh is sound in this sense only as far as the cases do not mention that name;
`CaseFormula`, the formulas WLOG lines choose between, is the parameter that says
which these are.  Of the rule of a line that names objects nothing is asked: what
such a line states is taken for granted.

*Which rules satisfy it.*  The seventeen rules of `GroundRules` do
(`GroundRulesHoldInEachCase`), since they do not ask what is assumed around the
line: `GroundVerdictsAreTrue` holds in every structure, so in those of any case.  Of
formulas this takes only `FormulasHaveTruth`, the truth tables.  The quantifier
rules do (`QuantifierRulesHoldInEachCase`) under two conditions that the kernel does
not check, both part of `RuleIsQuantifier`:

* the constant that existential elimination or universal generalization takes for
  arbitrary is in no case (`InNoCase`).  Without it no theorem holds: that is the
  run `case_in_force`, where the conclusion of such a proof is false;
* universal generalization leaves none of it in the claim: the run `capture`.

They rest on `QuantifiersHaveTruth` (what a quantified formula says in terms of its
body, and that what the matcher reads as the body says it of some object) and
`ConstantsHaveObjects` (a constant may stand for any object), which are the
assumptions of the walk's theorems restated for these formulas.  What the context
lists is then true of every object the constant could stand for, the cases are, and
so is the record (`InForceElsewhere`).
`StandardProofsLoseNoGenerality` puts the parts together: each entry that asks a rule
asks one of these, or another that is sound in this sense.

### What stays with TLC

* `ReplacementGivesClaim`: the replacement is read off two formulas by a recursion
  over both, and put back by another; what a recursive operator computes for every
  input is out of reach, since an induction over formulas takes an operator as a
  parameter, which no installed prover can instantiate.  That `ReplayRules` has the
  properties assumed of rewriting and comparing is checked on the entries of
  `repeated` for the same reason.
* `VerdictsAreSound` of the rules not named above: unique existence, propositional
  equivalence, Leibniz substitution, induction, set theory, order.  They substitute
  into formulas, or count elements, by recursion.  That the matcher, the occurrence
  check and `_is_contradiction` have the properties assumed of them is, for the same
  reason, checked on the formulas of the runs and not proved.
* `AxiomLinesAreAxioms`: alpha equality is a recursion over two formulas.
* `CallsReturn`: liveness.

## 6. Not modelled

* Text: the grammar of formulas, phrases and declarations (`ProofParser`,
  `ProofParserPolicy`, `LineBreakSyntax`, `try_parse_set_expression`,
  `parse_set_formula`, the parsers of `NumberTheory.py`).  It is string processing
  without state; the models start from every sequence of lines it can hand on.
* Declaration recipes (`SetTheory.py`, `DiscreteMath.py`, `OrderTheory.py`): they
  turn phrases into the declarations and formulas of one line.  What they produce
  are lines `ProofValidator` reads.
* `elaborate_subset_proof` and `elaborate_pairing_witness`: rewritings of one line
  as written into lines or a declaration with a formula; the rule the second hands
  to the kernel is `PairingWitness`.
* The schemas of `NumberTheory.py` beyond `InductionRule` as `NAT_TYPE` configures
  it.
* Rules that raise, unknown tags, malformed entries: refusals of ill-formed input.
* Messages, locations and explanations; numbering warnings, the stated-conclusion
  check and reports of `validate_all_proofs.py`; citation by title; the test and
  mutation tools under `tools/`.

What would be worth proving next: unique existence, Leibniz substitution and
propositional equivalence, from the assumption that substitution preserves truth;
the relation rules in proofs with repeated arguments, whose entries carry no
declarations of relations.
