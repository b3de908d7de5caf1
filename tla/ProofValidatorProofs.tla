------------------------ MODULE ProofValidatorProofs ------------------------
(***************************************************************************)
(* What the kernel's walk preserves for all formulas, labels, names, rules *)
(* and bounds.  First its type invariant, and that the stack of            *)
(* assumptions is the assumptions of the open subproofs.  Then what it     *)
(* promises about scopes: a name has one meaning wherever it is visible;   *)
(* the two chains of scopes implement LexicalEnvironment; the lines of an  *)
(* open block stand, and those of a closed one are out of reach; what was  *)
(* derived uses declared symbols; what is arbitrary is in scope; and the   *)
(* books that promotion reads balance.                                     *)
(*                                                                         *)
(* Every step has one of six effects on the open blocks (Rests, Waits,     *)
(* Declares, States, Opens, Closes).  That, one lemma for each action, is  *)
(* what the theorems about lines and names need to know of the actions.    *)
(***************************************************************************)
EXTENDS ProofValidator, SequenceTheorems, WellFoundedInduction, TLAPS

-----------------------------------------------------------------------------
(* Scopes.                                                                 *)

(* The tables a block may have, as a set.                                  *)
Tables(K, V) == UNION {[D -> V] : D \in SUBSET K}

(* A scope is a sequence of such tables.                                   *)
LEMMA ScopeIsSequence ==
  ASSUME NEW K, NEW V, NEW chain
  PROVE  IsScope(chain, K, V) <=> chain \in Seq(Tables(K, V))
<1>1. ASSUME IsScope(chain, K, V) PROVE chain \in Seq(Tables(K, V))
  <2>1. \A i \in 1 .. Len(chain) : chain[i] \in Tables(K, V)
    BY <1>1 DEF IsScope, IsTable, Tables
  <2> QED BY <1>1, <2>1 DEF IsScope
<1>2. ASSUME chain \in Seq(Tables(K, V)) PROVE IsScope(chain, K, V)
  <2>1. \A i \in 1 .. Len(chain) : chain[i] \in ToSet(chain)
    BY <1>2 DEF ToSet
  <2>2. chain \in Seq(ToSet(chain))
    BY <1>2, <2>1
  <2> QED BY <1>2, <2>2 DEF IsScope, IsTable, Tables
<1> QED BY <1>1, <1>2

(* Adding a table of the right type to the innermost block keeps a scope.  *)
LEMMA BindAllKeepsScope ==
  ASSUME NEW K, NEW V, NEW chain \in Seq(Tables(K, V)), Len(chain) > 0,
         NEW table \in Tables(K, V)
  PROVE  /\ BindAll(chain, table) \in Seq(Tables(K, V))
         /\ Len(BindAll(chain, table)) = Len(chain)
<1> DEFINE n   == Len(chain)
           old == chain[n]
           new == [k \in DOMAIN old \cup DOMAIN table |->
                     IF k \in DOMAIN table THEN table[k] ELSE old[k]]
<1>1. old \in Tables(K, V)
  OBVIOUS
<1>2. PICK D \in SUBSET K : old \in [D -> V]
  BY <1>1 DEF Tables
<1>3. PICK E \in SUBSET K : table \in [E -> V]
  BY DEF Tables
<1>4. new \in [D \cup E -> V]
  BY <1>2, <1>3
<1>5. D \cup E \in SUBSET K
  OBVIOUS
<1>6. new \in Tables(K, V)
  BY <1>4, <1>5 DEF Tables
<1>7. BindAll(chain, table) = [chain EXCEPT ![n] = new]
  BY DEF BindAll
<1> HIDE DEF new
<1> QED BY <1>6, <1>7

(* The empty table, a table of one entry, and the parent's scope.          *)
LEMMA SmallTables ==
  ASSUME NEW K, NEW V
  PROVE  /\ EmptyTable \in Tables(K, V)
         /\ \A k \in K, v \in V : Single(k, v) \in Tables(K, V)
<1>1. EmptyTable \in [{} -> V]
  BY DEF EmptyTable
<1>2. ASSUME NEW k \in K, NEW v \in V PROVE Single(k, v) \in [{k} -> V]
  BY DEF Single
<1>3. EmptyTable \in Tables(K, V)
  BY <1>1 DEF Tables
<1>4. ASSUME NEW k \in K, NEW v \in V PROVE Single(k, v) \in Tables(K, V)
  <2>1. {k} \in SUBSET K
    OBVIOUS
  <2> QED BY <1>2, <2>1 DEF Tables
<1> QED BY <1>3, <1>4

(* The enclosing scope is a scope, one table shorter.                      *)
LEMMA ParentKeepsScope ==
  ASSUME NEW T, NEW chain \in Seq(T), Len(chain) > 1
  PROVE  Parent(chain) \in Seq(T) /\ Len(Parent(chain)) = Len(chain) - 1
BY DEF Parent

(* The table of a set of declarations holds them under their names.        *)
LEMMA TableOfDeclarations ==
  ASSUME NEW D \in SUBSET Declaration
  PROVE  TableOf(D) \in Tables(Name, Declaration)
<1> DEFINE names == {d.name : d \in D}
<1>1. names \in SUBSET Name
  BY DEF Declaration
<1>2. \A n \in names : (CHOOSE d \in D : d.name = n) \in Declaration
  OBVIOUS
<1>3. TableOf(D) \in [names -> Declaration]
  BY <1>2 DEF TableOf
<1> QED BY <1>1, <1>3 DEF Tables

-----------------------------------------------------------------------------
(* Every check refuses with a category of the code.                        *)

LEMMA OrElseRefuses ==
  ASSUME NEW e, NEW f, e \subseteq Refusals, f \subseteq Refusals
  PROVE  (e ?? f) \subseteq Refusals
BY DEF ??

(* So does a single check.                                                 *)
LEMMA CheckRefuses ==
  ASSUME NEW ok, NEW category \in Refusals
  PROVE  Check(ok, category) \subseteq Refusals
BY DEF Check

(* So do the checks of a stated formula against the declarations.          *)
LEMMA StatementRefuses ==
  ASSUME NEW chain, NEW f
  PROVE  StatementErrors(chain, f) \subseteq Refusals
<1>1. ASSUME NEW u PROVE UseErrors(chain, u) \subseteq Refusals
  <2>1. CASE ~ IsBound(chain, u.name)
    BY <2>1 DEF UseErrors, Refusals
  <2>2. CASE IsBound(chain, u.name)
    BY <2>2 DEF UseErrors, Refusals, Check, ??
  <2> QED BY <2>1, <2>2
<1>2. SymbolErrors(chain, f) \subseteq Refusals
  BY <1>1 DEF SymbolErrors
<1>3. Check(Closed(f), "not_closed") \subseteq Refusals
  BY DEF Check, Refusals
<1> QED BY <1>2, <1>3, OrElseRefuses DEF StatementErrors

(* And so do the other checks a line runs through.                         *)
LEMMA ChecksRefuse ==
  /\ \A chain, ds : ConflictErrors(chain, ds) \subseteq Refusals
  /\ \A D : InferenceErrors(D) \subseteq Refusals
  /\ \A f, allowed, closed : MembershipErrors(f, allowed, closed) \subseteq Refusals
  /\ \A rule : RegisteredErrors(rule) \subseteq Refusals
  /\ \A cites : ReferenceErrors(cites) \subseteq Refusals
  /\ \A l : LabelErrors(l) \subseteq Refusals
  /\ \A rule, groups, phi, ctx : MatchErrors(rule, groups, phi, ctx) \subseteq Refusals
<1>1. \A chain, ds : ConflictErrors(chain, ds) \subseteq Refusals
  BY DEF ConflictErrors, Check, Refusals
<1>2. \A D : InferenceErrors(D) \subseteq Refusals
  BY DEF InferenceErrors, Check, Refusals
<1>3. \A f, allowed, closed : MembershipErrors(f, allowed, closed) \subseteq Refusals
  BY DEF MembershipErrors, Check, Refusals
<1>4. \A rule : RegisteredErrors(rule) \subseteq Refusals
  BY DEF RegisteredErrors, Check, Refusals
<1>5. \A cites : ReferenceErrors(cites) \subseteq Refusals
  BY DEF ReferenceErrors, Check, Refusals
<1>6. \A l : LabelErrors(l) \subseteq Refusals
  BY DEF LabelErrors, Check, Refusals
<1>7. \A rule, groups, phi, ctx : MatchErrors(rule, groups, phi, ctx) \subseteq Refusals
  BY DEF MatchErrors, Check, Refusals
<1> QED BY <1>1, <1>2, <1>3, <1>4, <1>5, <1>6, <1>7

(* A refusal changes the status and nothing else.                          *)
LEMMA RefuseKeepsTypes ==
  ASSUME TypeOK, NEW errors, errors \subseteq Refusals, Refuse(errors)
  PROVE  TypeOK'
BY DEF TypeOK, Refuse, declared, granted, inForce, IsScope, IsTable

-----------------------------------------------------------------------------
(* The effects a line may have, one by one.                                *)

(* The part of TypeOK about the blocks, and that about the rest.           *)
BlocksOK ==
  /\ blocks \in Seq(Block)
  /\ Len(blocks) \in 1 .. MaxDepth
  /\ \A i \in DOMAIN blocks :
       /\ i > 1 => blocks[i].opener \in Formula
       /\ blocks[i].pending.tag \in {"rule_below", "rule_hybrid"} => blocks[i].pending.phi \in Formula
       /\ blocks[i].pending.tag = "rule_hybrid" => blocks[i].pending.rule \in Registered

LabelsOK       == labels \in Seq(Tables(Label, Seq(Item)))
DeclarationsOK == declarations \in Seq(Tables(Name, Declaration))

BooksOK ==
  /\ givenLines \subseteq Formula /\ ownGivens \subseteq Formula /\ usedAxioms \subseteq Formula
  /\ constrainedNames \subseteq Name
  /\ ownDeclarations \subseteq Declaration
  /\ usedRules \subseteq Registered

StacksOK == assumptionStack \in Seq(Formula) /\ arbitraryNames \in Seq(SUBSET Name)

LEMMA TypeParts ==
  TypeOK <=> /\ status \in {"checking", "accepted"} \cup Refusals
             /\ BlocksOK
             /\ LabelsOK /\ Len(labels) = Len(blocks)
             /\ DeclarationsOK /\ Len(declarations) = Len(blocks)
             /\ BooksOK
             /\ StacksOK
BY ScopeIsSequence DEF TypeOK, BlocksOK, LabelsOK, DeclarationsOK, BooksOK, StacksOK

(* The same of the next state.                                             *)
LEMMA TypeOKNext ==
  ASSUME status' \in {"checking", "accepted"} \cup Refusals,
         BlocksOK', LabelsOK', Len(labels') = Len(blocks'),
         DeclarationsOK', Len(declarations') = Len(blocks'), BooksOK', StacksOK'
  PROVE  TypeOK'
BY ScopeIsSequence DEF TypeOK, BlocksOK, LabelsOK, DeclarationsOK, BooksOK, StacksOK

(* What a line leaves behind as it waits is of the type of pending lines.  *)
LEMMA EntryType ==
  ASSUME NEW tag \in {"none", "subproof", "rule_below", "rule_hybrid"},
         NEW l \in Label \cup {NoLabel}, NEW phi \in Formula \cup {NoFormula},
         NEW rule \in Rule \cup {"none"}, NEW cites \in Seq(Label), NEW count \in Nat
  PROVE  /\ Entry(tag, l, phi, rule, cites, count) \in Pending
         /\ Entry(tag, l, phi, rule, cites, count).tag = tag
         /\ Entry(tag, l, phi, rule, cites, count).phi = phi
         /\ Entry(tag, l, phi, rule, cites, count).rule = rule
BY DEF Entry, Pending

(* So is the mark that no line waits.                                      *)
LEMMA NothingPendingType == NothingPending \in Pending /\ NothingPending.tag = "none"
BY DEF NothingPending, Pending, Entry

(* A statement joins the innermost block.                                  *)
LEMMA DeriveKeepsTypes ==
  ASSUME BlocksOK, LabelsOK, Len(labels) = Len(blocks),
         NEW l \in Label \cup {NoLabel}, NEW fs \in Seq(Formula), fs # <<>>, Derive(l, fs)
  PROVE  BlocksOK' /\ LabelsOK' /\ Len(labels') = Len(blocks') /\ Len(blocks') = Len(blocks)
<1>1. Len(fs) \in 1 .. Len(fs) /\ fs[Len(fs)] \in Formula
  OBVIOUS
<1>2. ToSet(fs) \subseteq Item
  BY DEF ToSet, Item
<1>3. Depth \in 1 .. Len(blocks) /\ blocks[Depth] \in Block
  BY DEF BlocksOK, Depth
<1> DEFINE b == [blocks[Depth] EXCEPT !.seen = @ \cup ToSet(fs), !.last = fs[Len(fs)],
                                      !.pending = NothingPending]
<1>4. b \in Block
  BY <1>1, <1>2, <1>3, NothingPendingType DEF Block
<1>5. b.opener = blocks[Depth].opener /\ b.pending.tag = "none"
  BY <1>3, NothingPendingType DEF Block
<1>6. blocks' = [blocks EXCEPT ![Depth] = b]
  BY <1>3 DEF Derive, Block
<1> HIDE DEF b
<1>7. BlocksOK' /\ Len(blocks') = Len(blocks)
  BY <1>3, <1>4, <1>5, <1>6 DEF BlocksOK, Depth
<1>8. LabelsOK' /\ Len(labels') = Len(labels)
  <2>1. CASE l = NoLabel
    BY <2>1 DEF Derive, LabelsOK
  <2>2. CASE l # NoLabel
    <3>1. fs \in Seq(Item)
      BY DEF Item
    <3>2. Single(l, fs) \in Tables(Label, Seq(Item))
      BY <2>2, <3>1, SmallTables
    <3>3. labels' = BindAll(labels, Single(l, fs))
      BY <2>2 DEF Derive
    <3>4. Len(labels) > 0
      BY DEF BlocksOK
    <3> QED BY <3>2, <3>3, <3>4, BindAllKeepsScope DEF LabelsOK
  <2> QED BY <2>1, <2>2
<1> QED BY <1>7, <1>8

(* What is taken for granted is a formula.                                 *)
LEMMA TakeForGrantedKeepsTypes ==
  ASSUME BooksOK, NEW fs \in Seq(Formula), NEW theoryAxiom, TakeForGranted(fs, theoryAxiom)
  PROVE  givenLines' \subseteq Formula /\ ownGivens' \subseteq Formula /\ usedAxioms' \subseteq Formula
<1>1. ToSet(fs) \subseteq Formula
  BY DEF ToSet
<1>2. givenLines' \subseteq Formula
  BY <1>1 DEF BooksOK, TakeForGranted
<1>3. ownGivens' \subseteq Formula /\ usedAxioms' \subseteq Formula
  <2>1. CASE theoryAxiom
    BY <1>1, <2>1 DEF BooksOK, TakeForGranted
  <2>2. CASE ~ theoryAxiom
    BY <1>1, <2>2 DEF BooksOK, TakeForGranted
  <2> QED BY <2>1, <2>2
<1> QED BY <1>2, <1>3

(* Declarations made by the writer of the proof, then perhaps inferred.    *)
LEMMA InferredAreDeclarations ==
  ASSUME NEW chain, NEW fs \in SUBSET Formula
  PROVE  Inferred(chain, fs) \subseteq Declaration
<1> SUFFICES ASSUME NEW f \in fs, NEW u \in Uses(f)
             PROVE  [name |-> u.name,
                     kind |-> IF u.as = "proposition" THEN "closed_formula" ELSE u.as,
                     arity |-> IF u.as \in {"function", "predicate"} THEN u.arity ELSE AnyArity,
                     refers |-> {}, properties |-> {}] \in Declaration
  BY DEF Inferred
<1>1. u.name \in Name /\ u.arity \in Int
      /\ u.as \in {"object", "function", "predicate", "proposition"}
  BY FormulaAssumption
<1>2. AnyArity \in Int
  BY DEF AnyArity
<1>3. (IF u.as = "proposition" THEN "closed_formula" ELSE u.as) \in Kind
  BY <1>1 DEF Kind
<1>4. (IF u.as \in {"function", "predicate"} THEN u.arity ELSE AnyArity) \in Int
  BY <1>1, <1>2
<1> QED BY <1>1, <1>3, <1>4 DEF Declaration

(* Declaring names keeps the scope of declarations and its depth.          *)
LEMMA DeclareKeepsScope ==
  ASSUME NEW chain \in Seq(Tables(Name, Declaration)), Len(chain) > 0,
         NEW D \in SUBSET Declaration
  PROVE  /\ Declare(chain, D) \in Seq(Tables(Name, Declaration))
         /\ Len(Declare(chain, D)) = Len(chain)
<1>1. TableOf(D) \in Tables(Name, Declaration)
  BY TableOfDeclarations
<1>2. /\ BindAll(chain, TableOf(D)) \in Seq(Tables(Name, Declaration))
      /\ Len(BindAll(chain, TableOf(D))) = Len(chain)
  BY <1>1, BindAllKeepsScope
<1> QED BY <1>2 DEF Declare

(* Registering what a line declares keeps the books of names typed.        *)
LEMMA RegisterKeepsTypes ==
  ASSUME BooksOK, NEW ds \in Seq(Declaration),
         NEW chain \in Seq(Tables(Name, Declaration)), Register(ds, chain)
  PROVE  /\ DeclarationsOK' /\ Len(declarations') = Len(chain)
         /\ constrainedNames' \subseteq Name /\ ownDeclarations' \subseteq Declaration
<1>1. ToSet(ds) \subseteq Declaration
  BY DEF ToSet
<1>2. \A d \in Declaration : d.refers \subseteq Name
  BY DEF Declaration
<1>3. Refers(ToSet(ds)) \subseteq Name
  BY <1>1, <1>2 DEF Refers
<1> QED BY <1>1, <1>3 DEF Register, DeclarationsOK, BooksOK

(* A new block.                                                            *)
LEMMA OpenKeepsTypes ==
  ASSUME BlocksOK, LabelsOK, Len(labels) = Len(blocks), StacksOK, Depth < MaxDepth,
         NEW l \in Label \cup {NoLabel}, NEW phi \in Formula, NEW fresh \in BOOLEAN, NEW chain,
         Open(l, phi, fresh, chain)
  PROVE  BlocksOK' /\ LabelsOK' /\ Len(labels') = Len(blocks') /\ Len(blocks') = Len(blocks) + 1
<1> DEFINE b == [opener |-> phi, fresh |-> fresh, seen |-> {phi}, last |-> phi,
                 pending |-> NothingPending,
                 assumptionsInForce |-> Len(assumptionStack),
                 arbitraryInForce |-> Len(arbitraryNames)]
<1>1. Len(assumptionStack) \in Nat /\ Len(arbitraryNames) \in Nat
  BY DEF StacksOK
<1>2. {phi} \subseteq Item
  BY DEF Item
<1>3. b \in Block
  BY <1>1, <1>2, NothingPendingType DEF Block
<1>4. b.opener = phi /\ b.pending.tag = "none"
  BY NothingPendingType
<1>5. blocks' = Append(blocks, b)
  BY DEF Open, AssumptionsNow
<1> HIDE DEF b
<1>6. BlocksOK' /\ Len(blocks') = Len(blocks) + 1
  <2>1. MaxDepth \in Nat /\ Len(blocks) + 1 <= MaxDepth
    BY BoundAssumption DEF Depth, BlocksOK
  <2>2. blocks' \in Seq(Block) /\ Len(blocks') = Len(blocks) + 1
    BY <1>3, <1>5 DEF BlocksOK
  <2>3. \A i \in DOMAIN blocks' : blocks'[i] = IF i \in DOMAIN blocks THEN blocks[i] ELSE b
    BY <1>5 DEF BlocksOK
  <2> QED BY <1>4, <2>1, <2>2, <2>3 DEF BlocksOK
<1>7. LabelsOK' /\ Len(labels') = Len(labels) + 1
  <2>1. <<phi>> \in Seq(Item)
    BY DEF Item
  <2>2. (IF l = NoLabel THEN EmptyTable ELSE Single(l, <<phi>>)) \in Tables(Label, Seq(Item))
    BY <2>1, SmallTables
  <2> QED BY <2>2 DEF Open, AssumptionsNow, LabelsOK
<1> QED BY <1>6, <1>7

(* A line waits for the subproofs below it.                                *)
LEMMA AwaitKeepsTypes ==
  ASSUME TypeOK, NEW entry \in Pending, Await(entry),
         entry.tag \in {"rule_below", "rule_hybrid"} => entry.phi \in Formula,
         entry.tag = "rule_hybrid" => entry.rule \in Registered
  PROVE  TypeOK'
<1> USE TypeParts
<1> DEFINE b == [blocks[Depth] EXCEPT !.pending = entry]
<1>1. Depth \in 1 .. Len(blocks) /\ blocks[Depth] \in Block
  BY DEF BlocksOK, Depth
<1>2. b \in Block /\ b.opener = blocks[Depth].opener /\ b.pending = entry
  BY <1>1 DEF Block
<1>3. blocks' = [blocks EXCEPT ![Depth] = b]
  BY <1>1 DEF Await, Block
<1> HIDE DEF b
<1>4. BlocksOK' /\ Len(blocks') = Len(blocks)
  BY <1>1, <1>2, <1>3 DEF BlocksOK, Depth
<1>5. /\ status' \in {"checking", "accepted"} \cup Refusals
      /\ LabelsOK' /\ Len(labels') = Len(labels)
      /\ DeclarationsOK' /\ Len(declarations') = Len(declarations)
      /\ BooksOK' /\ StacksOK'
  BY DEF Await, declared, granted, inForce, LabelsOK, DeclarationsOK, BooksOK, StacksOK
<1>6. Len(labels') = Len(blocks') /\ Len(declarations') = Len(blocks')
  BY <1>4, <1>5
<1>7. /\ status' \in {"checking", "accepted"} \cup Refusals
      /\ BlocksOK'
      /\ LabelsOK' /\ Len(labels)' = Len(blocks)'
      /\ DeclarationsOK' /\ Len(declarations)' = Len(blocks)'
      /\ BooksOK'
      /\ StacksOK'
  BY <1>4, <1>5, <1>6
<1> QED BY <1>7, TypeOKNext

-----------------------------------------------------------------------------
(* Every action keeps the types.  In each proof the checks of the line are *)
(* first reduced to what they amount to: it is refused, or has its effect. *)

LEMMA Inputs ==
  ASSUME TypeOK
  PROVE  /\ Depth \in 1 .. MaxDepth
         /\ \A f \in Formula : LabelsOf(<<f>>, Depth) \subseteq Label \cup {NoLabel}
         /\ \A fs \in PremiseLists : LabelsOf(fs, Depth) \subseteq Label \cup {NoLabel}
         /\ LabelsOf(<<>>, Depth) \subseteq Label \cup {NoLabel}
         /\ Depth < MaxDepth =>
              \A f \in Formula : LabelsOf(<<f>>, Depth + 1) \subseteq Label \cup {NoLabel}
         /\ \A ds \in DeclarationLists \cup {<<>>} : ds \in Seq(Declaration)
<1>1. Depth \in 1 .. MaxDepth
  BY DEF TypeOK, Depth
<1>2. MaxDepth \in Nat
  BY BoundAssumption
<1>3. \A fs \in PremiseLists \cup {<<f>> : f \in Formula} \cup {<<>>} : \A n \in 1 .. MaxDepth :
        LabelsOf(fs, n) \subseteq Label \cup {NoLabel}
  BY LabelAssumption
<1>4. \A f \in Formula : <<f>> \in {<<g>> : g \in Formula}
  OBVIOUS
<1>5. \A f \in Formula, n \in 1 .. MaxDepth : LabelsOf(<<f>>, n) \subseteq Label \cup {NoLabel}
  BY <1>3, <1>4
<1>6. Depth < MaxDepth => Depth + 1 \in 1 .. MaxDepth
  BY <1>1, <1>2
<1>7. ASSUME NEW ds \in DeclarationLists \cup {<<>>} PROVE ds \in Seq(Declaration)
  <2>1. CASE ds \in DeclarationLists
    BY <2>1, DeclarationAssumption
  <2>2. CASE ds = <<>>
    BY <2>2
  <2> QED BY <2>1, <2>2
<1> QED BY <1>1, <1>3, <1>5, <1>6, <1>7

(* The plain objects of a list of declarations are names.                  *)
LEMMA PlainObjectsAreNames ==
  ASSUME NEW ds \in Seq(Declaration)
  PROVE  PlainObjects(ds) \in SUBSET Name
<1>1. ToSet(ds) \subseteq Declaration
  BY DEF ToSet
<1> QED BY <1>1 DEF PlainObjects, Declaration

(* A line that only declares keeps the types.                              *)
LEMMA DeclareOnlyKeepsTypes ==
  ASSUME TypeOK, NEW tag, NEW ds \in Seq(Declaration), DeclareOnly(tag, ds)
  PROVE  TypeOK'
<1> USE TypeParts
<1>1. PICK errors \in SUBSET Refusals :
        \/ Refuse(errors)
        \/ /\ Register(ds, Declare(declarations, ToSet(ds)))
           /\ arbitraryNames' = IF tag = "declare" THEN Append(arbitraryNames, PlainObjects(ds))
                                                   ELSE arbitraryNames
           /\ UNCHANGED <<status, blocks, labels, granted, assumptionStack, usedRules>>
  BY ChecksRefuse DEF DeclareOnly
<1>2. CASE Refuse(errors)
  BY <1>2, RefuseKeepsTypes
<1>3. CASE /\ Register(ds, Declare(declarations, ToSet(ds)))
           /\ arbitraryNames' = IF tag = "declare" THEN Append(arbitraryNames, PlainObjects(ds))
                                                   ELSE arbitraryNames
           /\ UNCHANGED <<status, blocks, labels, granted, assumptionStack, usedRules>>
  <2>1. ToSet(ds) \in SUBSET Declaration
    BY DEF ToSet
  <2>2. /\ Declare(declarations, ToSet(ds)) \in Seq(Tables(Name, Declaration))
        /\ Len(Declare(declarations, ToSet(ds))) = Len(blocks)
    BY <2>1, DeclareKeepsScope DEF BlocksOK, DeclarationsOK
  <2>3. /\ DeclarationsOK' /\ Len(declarations') = Len(blocks)
        /\ constrainedNames' \subseteq Name /\ ownDeclarations' \subseteq Declaration
    BY <1>3, <2>2, RegisterKeepsTypes
  <2>4. StacksOK'
    BY <1>3, PlainObjectsAreNames DEF StacksOK
  <2>5. BlocksOK' /\ LabelsOK' /\ Len(labels') = Len(blocks')
    BY <1>3 DEF BlocksOK, LabelsOK
  <2>6. BooksOK'
    BY <1>3, <2>3 DEF BooksOK, granted
  <2>7. status' \in {"checking", "accepted"} \cup Refusals /\ Len(declarations') = Len(blocks')
    BY <1>3, <2>3
  <2> QED BY <2>3, <2>4, <2>5, <2>6, <2>7, TypeOKNext
<1> QED BY <1>1, <1>2, <1>3

(* The effect the lines of GivenStep that state something have in common.  *)
LEMMA GivenKeepsTypes ==
  ASSUME TypeOK, NEW l \in Label \cup {NoLabel}, NEW fs \in Seq(Formula), fs # <<>>,
         NEW theoryAxiom, TakeForGranted(fs, theoryAxiom), Derive(l, fs),
         DeclarationsOK', Len(declarations') = Len(blocks),
         constrainedNames' \subseteq Name, ownDeclarations' \subseteq Declaration,
         UNCHANGED <<status, inForce, usedRules>>
  PROVE  TypeOK'
<1> USE TypeParts
<1>1. BlocksOK' /\ LabelsOK' /\ Len(labels') = Len(blocks') /\ Len(blocks') = Len(blocks)
  BY DeriveKeepsTypes
<1>2. givenLines' \subseteq Formula /\ ownGivens' \subseteq Formula /\ usedAxioms' \subseteq Formula
  BY TakeForGrantedKeepsTypes
<1>3. BooksOK' /\ StacksOK'
  BY <1>2 DEF BooksOK, StacksOK, inForce
<1>4. status' \in {"checking", "accepted"} \cup Refusals /\ Len(declarations') = Len(blocks')
  BY <1>1
<1> QED BY <1>1, <1>3, <1>4, TypeOKNext

(* A declare line with a constraint keeps the types.                       *)
LEMMA DeclareFormulaKeepsTypes ==
  ASSUME TypeOK, NEW l \in Label \cup {NoLabel}, NEW phi \in Formula, NEW ds \in Seq(Declaration),
         DeclareFormula(l, phi, ds)
  PROVE  TypeOK'
<1> USE TypeParts
<1> DEFINE explicit == Declare(declarations, ToSet(ds))
           chain    == Declare(explicit, Inferred(explicit, {phi}))
<1>1. PICK errors \in SUBSET Refusals :
        \/ Refuse(errors)
        \/ /\ Register(ds, chain)
           /\ TakeForGranted(<<phi>>, FALSE)
           /\ Derive(l, <<phi>>)
           /\ UNCHANGED <<status, inForce, usedRules>>
  BY ChecksRefuse, StatementRefuses, OrElseRefuses DEF DeclareFormula
<1>2. CASE Refuse(errors)
  BY <1>2, RefuseKeepsTypes
<1>3. CASE /\ Register(ds, chain)
           /\ TakeForGranted(<<phi>>, FALSE)
           /\ Derive(l, <<phi>>)
           /\ UNCHANGED <<status, inForce, usedRules>>
  <2>1. ToSet(ds) \in SUBSET Declaration /\ Inferred(explicit, {phi}) \in SUBSET Declaration
    BY InferredAreDeclarations DEF ToSet
  <2>2. explicit \in Seq(Tables(Name, Declaration)) /\ Len(explicit) = Len(blocks)
    BY <2>1, DeclareKeepsScope DEF BlocksOK, DeclarationsOK
  <2> HIDE DEF explicit
  <2>3. chain \in Seq(Tables(Name, Declaration)) /\ Len(chain) = Len(blocks)
    <3>1. Len(explicit) > 0
      BY <2>2 DEF BlocksOK
    <3>2. /\ Declare(explicit, Inferred(explicit, {phi})) \in Seq(Tables(Name, Declaration))
          /\ Len(Declare(explicit, Inferred(explicit, {phi}))) = Len(explicit)
      BY <2>1, <2>2, <3>1, DeclareKeepsScope
    <3> QED BY <2>2, <3>2
  <2> HIDE DEF chain
  <2>4. /\ DeclarationsOK' /\ Len(declarations') = Len(blocks)
        /\ constrainedNames' \subseteq Name /\ ownDeclarations' \subseteq Declaration
    BY <1>3, <2>3, RegisterKeepsTypes
  <2>5. <<phi>> \in Seq(Formula) /\ <<phi>> # <<>>
    OBVIOUS
  <2> QED BY <1>3, <2>4, <2>5, GivenKeepsTypes
<1> QED BY <1>1, <1>2, <1>3

(* A premise line keeps the types.                                         *)
LEMMA PremiseLineKeepsTypes ==
  ASSUME TypeOK, NEW l \in Label \cup {NoLabel}, NEW fs \in Seq(Formula), fs # <<>>,
         NEW ds \in Seq(Declaration), PremiseLine(l, fs, ds)
  PROVE  TypeOK'
<1> USE TypeParts
<1> DEFINE explicit == Declare(declarations, ToSet(ds))
           inferred == IF ds = <<>> THEN {} ELSE Inferred(explicit, ToSet(fs))
           chain    == Declare(explicit, inferred)
<1>1. PICK errors \in SUBSET Refusals :
        \/ Refuse(errors)
        \/ /\ Register(ds, chain)
           /\ TakeForGranted(fs, FALSE)
           /\ Derive(l, fs)
           /\ UNCHANGED <<status, inForce, usedRules>>
  BY ChecksRefuse, StatementRefuses, OrElseRefuses DEF PremiseLine, FirstErrors
<1>2. CASE Refuse(errors)
  BY <1>2, RefuseKeepsTypes
<1>3. CASE /\ Register(ds, chain)
           /\ TakeForGranted(fs, FALSE)
           /\ Derive(l, fs)
           /\ UNCHANGED <<status, inForce, usedRules>>
  <2>1. ToSet(ds) \in SUBSET Declaration /\ ToSet(fs) \in SUBSET Formula
    BY DEF ToSet
  <2>2. explicit \in Seq(Tables(Name, Declaration)) /\ Len(explicit) = Len(blocks)
    BY <2>1, DeclareKeepsScope DEF BlocksOK, DeclarationsOK
  <2>3. Inferred(explicit, ToSet(fs)) \in SUBSET Declaration
    BY <2>1, InferredAreDeclarations
  <2>4. inferred \in SUBSET Declaration
    BY <2>3
  <2> HIDE DEF explicit, inferred
  <2>5. chain \in Seq(Tables(Name, Declaration)) /\ Len(chain) = Len(blocks)
    <3>1. Len(explicit) > 0
      BY <2>2 DEF BlocksOK
    <3>2. /\ Declare(explicit, inferred) \in Seq(Tables(Name, Declaration))
          /\ Len(Declare(explicit, inferred)) = Len(explicit)
      BY <2>2, <2>4, <3>1, DeclareKeepsScope
    <3> QED BY <2>2, <3>2
  <2> HIDE DEF chain
  <2>6. /\ DeclarationsOK' /\ Len(declarations') = Len(blocks)
        /\ constrainedNames' \subseteq Name /\ ownDeclarations' \subseteq Declaration
    BY <1>3, <2>5, RegisterKeepsTypes
  <2> QED BY <1>3, <2>6, GivenKeepsTypes
<1> QED BY <1>1, <1>2, <1>3

(* An axiom line keeps the types.                                          *)
LEMMA AxiomLineKeepsTypes ==
  ASSUME TypeOK, NEW l \in Label \cup {NoLabel}, NEW phi \in Formula, AxiomLine(l, phi)
  PROVE  TypeOK'
<1> USE TypeParts
<1>1. PICK errors \in SUBSET Refusals :
        \/ Refuse(errors)
        \/ /\ TakeForGranted(<<phi>>, ListClosed)
           /\ Derive(l, <<phi>>)
           /\ UNCHANGED <<status, declared, inForce, usedRules>>
  BY ChecksRefuse, StatementRefuses, OrElseRefuses DEF AxiomLine
<1>2. CASE Refuse(errors)
  BY <1>2, RefuseKeepsTypes
<1>3. CASE /\ TakeForGranted(<<phi>>, ListClosed)
           /\ Derive(l, <<phi>>)
           /\ UNCHANGED <<status, declared, inForce, usedRules>>
  <2>1. /\ DeclarationsOK' /\ Len(declarations') = Len(blocks)
        /\ constrainedNames' \subseteq Name /\ ownDeclarations' \subseteq Declaration
    BY <1>3 DEF declared, DeclarationsOK, BooksOK
  <2>2. <<phi>> \in Seq(Formula) /\ <<phi>> # <<>>
    OBVIOUS
  <2> QED BY <1>3, <2>1, <2>2, GivenKeepsTypes
<1> QED BY <1>1, <1>2, <1>3

LEMMA RuleLineRefuses ==
  ASSUME NEW l, NEW phi, NEW rule, NEW cites, NEW ds
  PROVE  /\ RuleLineErrors(l, phi, rule, cites, ds) \subseteq Refusals
         /\ RuleLineErrors(l, phi, rule, cites, ds) = {} => rule \in Registered
<1>1. \A f, r : (f ?? r) = {} => f = {} /\ r = {}
  BY DEF ??
<1>2. RegisteredErrors(rule) = {} => rule \in Registered
  BY DEF RegisteredErrors, Check
<1>3. \A ok : Check(ok, "arity_mismatch") \subseteq Refusals
  BY CheckRefuses DEF Refusals
<1> QED BY <1>1, <1>2, <1>3, ChecksRefuse, StatementRefuses, OrElseRefuses DEF RuleLineErrors

(* A line justified by a rule keeps the types.                             *)
LEMMA RuleLineKeepsTypes ==
  ASSUME TypeOK, NEW l \in Label \cup {NoLabel}, NEW phi \in Formula, NEW rule, NEW cites,
         NEW ds \in Seq(Declaration), RuleLine(l, phi, rule, cites, ds)
  PROVE  TypeOK'
<1> USE TypeParts
<1> DEFINE chain == Declare(declarations, ToSet(ds))
<1>1. PICK errors \in SUBSET Refusals :
        \/ Refuse(errors)
        \/ /\ rule \in Registered
           /\ Register(ds, chain)
           /\ IF ds = <<>> THEN UNCHANGED granted ELSE TakeForGranted(<<phi>>, FALSE)
           /\ Derive(l, <<phi>>)
           /\ usedRules' = usedRules \cup {rule}
           /\ UNCHANGED <<status, inForce>>
  BY RuleLineRefuses DEF RuleLine
<1>2. CASE Refuse(errors)
  BY <1>2, RefuseKeepsTypes
<1>3. CASE /\ rule \in Registered
           /\ Register(ds, chain)
           /\ IF ds = <<>> THEN UNCHANGED granted ELSE TakeForGranted(<<phi>>, FALSE)
           /\ Derive(l, <<phi>>)
           /\ usedRules' = usedRules \cup {rule}
           /\ UNCHANGED <<status, inForce>>
  <2>1. ToSet(ds) \in SUBSET Declaration
    BY DEF ToSet
  <2>2. chain \in Seq(Tables(Name, Declaration)) /\ Len(chain) = Len(blocks)
    BY <2>1, DeclareKeepsScope DEF BlocksOK, DeclarationsOK
  <2> HIDE DEF chain
  <2>3. /\ DeclarationsOK' /\ Len(declarations') = Len(blocks)
        /\ constrainedNames' \subseteq Name /\ ownDeclarations' \subseteq Declaration
    BY <1>3, <2>2, RegisterKeepsTypes
  <2>4. <<phi>> \in Seq(Formula) /\ <<phi>> # <<>>
    OBVIOUS
  <2>5. BlocksOK' /\ LabelsOK' /\ Len(labels') = Len(blocks') /\ Len(blocks') = Len(blocks)
    BY <1>3, <2>4, DeriveKeepsTypes
  <2>6. givenLines' \subseteq Formula /\ ownGivens' \subseteq Formula /\ usedAxioms' \subseteq Formula
    <3>1. CASE ds = <<>>
      BY <1>3, <3>1 DEF granted, BooksOK
    <3>2. CASE ds # <<>>
      BY <1>3, <2>4, <3>2, TakeForGrantedKeepsTypes
    <3> QED BY <3>1, <3>2
  <2>7. BooksOK' /\ StacksOK'
    BY <1>3, <2>3, <2>6 DEF BooksOK, StacksOK, inForce
  <2>8. status' \in {"checking", "accepted"} \cup Refusals /\ Len(declarations') = Len(blocks')
    BY <1>3, <2>3, <2>5
  <2> QED BY <2>3, <2>5, <2>7, <2>8, TypeOKNext
<1> QED BY <1>1, <1>2, <1>3

(* A line with subproofs below it: it waits for them.                      *)
LEMMA BeginSubproofKeepsTypes ==
  ASSUME TypeOK, NEW l \in Label \cup {NoLabel}, BeginSubproof(l)
  PROVE  TypeOK'
<1> DEFINE entry == Entry("subproof", l, NoFormula, "none", <<>>, 1)
<1>1. entry \in Pending /\ entry.tag = "subproof"
  BY DEF Entry, Pending
<1>2. Await(entry)
  BY DEF BeginSubproof
<1> HIDE DEF entry
<1> QED BY <1>1, <1>2, AwaitKeepsTypes

(* A line judged on the subproofs below it keeps the types as it waits.    *)
LEMMA BeginBelowKeepsTypes ==
  ASSUME TypeOK, NEW l \in Label \cup {NoLabel}, NEW phi \in Formula, NEW rule \in Rule, NEW count,
         BeginBelow(l, phi, rule, count)
  PROVE  TypeOK'
<1> DEFINE entry == Entry("rule_below", l, phi, rule, <<>>, 1)
<1>1. PICK errors \in SUBSET Refusals : Refuse(errors) \/ Await(entry)
  <2>1. \A ok : Check(ok, "missing_subproof") \subseteq Refusals
    BY CheckRefuses DEF Refusals
  <2> QED BY <2>1, StatementRefuses, OrElseRefuses DEF BeginBelow
<1>2. entry \in Pending /\ entry.tag = "rule_below" /\ entry.phi = phi
  BY DEF Entry, Pending
<1> HIDE DEF entry
<1> QED BY <1>1, <1>2, RefuseKeepsTypes, AwaitKeepsTypes

(* So does one that cites lines besides.                                   *)
LEMMA BeginHybridKeepsTypes ==
  ASSUME TypeOK, NEW l \in Label \cup {NoLabel}, NEW phi \in Formula, NEW rule \in Rule,
         NEW cites \in Seq(Label), NEW count \in Nat, BeginHybrid(l, phi, rule, cites, count)
  PROVE  TypeOK'
<1> DEFINE entry == Entry("rule_hybrid", l, phi, rule, cites, count)
<1>1. PICK errors \in SUBSET Refusals : Refuse(errors) \/ (rule \in Registered /\ Await(entry))
  <2>1. \A f, r : (f ?? r) = {} => f = {} /\ r = {}
    BY DEF ??
  <2>2. RegisteredErrors(rule) = {} => rule \in Registered
    BY DEF RegisteredErrors, Check
  <2>3. \A ok : /\ Check(ok, "missing_subproof") \subseteq Refusals
                /\ Check(ok, "arity_mismatch") \subseteq Refusals
    BY CheckRefuses DEF Refusals
  <2> QED BY <2>1, <2>2, <2>3, ChecksRefuse, StatementRefuses, OrElseRefuses DEF BeginHybrid
<1>2. entry \in Pending /\ entry.tag = "rule_hybrid" /\ entry.phi = phi /\ entry.rule = rule
  BY EntryType
<1> HIDE DEF entry
<1> QED BY <1>1, <1>2, RefuseKeepsTypes, AwaitKeepsTypes

(* Its subproofs read, the line is judged.                                 *)
LEMMA JudgedKeepsTypes ==
  ASSUME TypeOK, NEW l \in Label \cup {NoLabel}, NEW phi \in Formula, NEW rule \in Registered,
         Derive(l, <<phi>>), usedRules' = usedRules \cup {rule},
         UNCHANGED <<status, declared, granted, inForce>>
  PROVE  TypeOK'
<1> USE TypeParts
<1>1. <<phi>> \in Seq(Formula) /\ <<phi>> # <<>>
  OBVIOUS
<1>2. BlocksOK' /\ LabelsOK' /\ Len(labels') = Len(blocks') /\ Len(blocks') = Len(blocks)
  BY <1>1, DeriveKeepsTypes
<1>3. DeclarationsOK' /\ BooksOK' /\ StacksOK'
  BY DEF declared, granted, inForce, DeclarationsOK, BooksOK, StacksOK
<1>4. status' \in {"checking", "accepted"} \cup Refusals /\ Len(declarations') = Len(blocks')
  BY <1>2 DEF declared
<1> QED BY <1>2, <1>3, <1>4, TypeOKNext

(* The line that waits has a label, a formula and a rule of the right type. *)
LEMMA PendingLine ==
  ASSUME TypeOK
  PROVE  /\ Top.pending.label \in Label \cup {NoLabel}
         /\ Top.pending.tag \in {"rule_below", "rule_hybrid"} => Top.pending.phi \in Formula
         /\ Top.pending.tag = "rule_hybrid" => Top.pending.rule \in Registered
<1>1. BlocksOK
  BY TypeParts
<1>2. Depth \in DOMAIN blocks /\ blocks[Depth] \in Block
  BY <1>1 DEF BlocksOK, Depth
<1>3. blocks[Depth].pending \in Pending
  BY <1>2 DEF Block
<1>4. blocks[Depth].pending.label \in Label \cup {NoLabel}
  BY <1>3 DEF Pending
<1> QED BY <1>1, <1>2, <1>4 DEF BlocksOK, Top

(* Judging it on the subproofs below keeps the types.                      *)
LEMMA JudgeBelowKeepsTypes ==
  ASSUME TypeOK, JudgeBelow
  PROVE  TypeOK'
<1> DEFINE p == Top.pending
<1>1. PICK errors \in SUBSET Refusals :
        \/ Refuse(errors)
        \/ /\ p.rule \in Registered
           /\ Derive(p.label, <<p.phi>>)
           /\ usedRules' = usedRules \cup {p.rule}
           /\ UNCHANGED <<status, declared, granted, inForce>>
  <2>1. \A f, r : (f ?? r) = {} => f = {} /\ r = {}
    BY DEF ??
  <2>2. RegisteredErrors(p.rule) = {} => p.rule \in Registered
    BY DEF RegisteredErrors, Check
  <2> QED BY <2>1, <2>2, ChecksRefuse, OrElseRefuses DEF JudgeBelow
<1>2. p.label \in Label \cup {NoLabel} /\ p.phi \in Formula
  BY PendingLine DEF JudgeBelow, Judging
<1> HIDE DEF p
<1> QED BY <1>1, <1>2, RefuseKeepsTypes, JudgedKeepsTypes

LEMMA JudgeHybridKeepsTypes ==
  ASSUME TypeOK, JudgeHybrid
  PROVE  TypeOK'
<1> DEFINE p == Top.pending
<1>1. PICK errors \in SUBSET Refusals :
        \/ Refuse(errors)
        \/ /\ Derive(p.label, <<p.phi>>)
           /\ usedRules' = usedRules \cup {p.rule}
           /\ UNCHANGED <<status, declared, granted, inForce>>
  BY ChecksRefuse, OrElseRefuses DEF JudgeHybrid
<1>2. p.label \in Label \cup {NoLabel} /\ p.phi \in Formula /\ p.rule \in Registered
  BY PendingLine DEF JudgeHybrid, Judging
<1> HIDE DEF p
<1> QED BY <1>1, <1>2, RefuseKeepsTypes, JudgedKeepsTypes

(* A subproof opens.                                                       *)
LEMMA OpenAssumingKeepsTypes ==
  ASSUME TypeOK, NEW l \in Label \cup {NoLabel}, NEW phi \in Formula, OpenAssuming(l, phi)
  PROVE  TypeOK'
<1> USE TypeParts
<1>1. PICK errors \in SUBSET Refusals :
        \/ Refuse(errors)
        \/ /\ Open(l, phi, FALSE, Child(declarations))
           /\ assumptionStack' = Append(assumptionStack, phi)
           /\ UNCHANGED arbitraryNames
  BY ChecksRefuse, StatementRefuses, OrElseRefuses DEF OpenAssuming
<1>2. CASE Refuse(errors)
  BY <1>2, RefuseKeepsTypes
<1>3. CASE /\ Open(l, phi, FALSE, Child(declarations))
           /\ assumptionStack' = Append(assumptionStack, phi)
           /\ UNCHANGED arbitraryNames
  <2>1. Depth < MaxDepth
    BY DEF OpenAssuming, Awaiting
  <2>2. BlocksOK' /\ LabelsOK' /\ Len(labels') = Len(blocks') /\ Len(blocks') = Len(blocks) + 1
    BY <1>3, <2>1, OpenKeepsTypes
  <2>3. DeclarationsOK' /\ Len(declarations') = Len(blocks')
    BY <1>3, <2>2, SmallTables DEF Open, AssumptionsNow, Child, DeclarationsOK
  <2>4. BooksOK' /\ StacksOK' /\ status' \in {"checking", "accepted"} \cup Refusals
    BY <1>3 DEF Open, AssumptionsNow, BooksOK, StacksOK, granted
  <2> QED BY <2>2, <2>3, <2>4, TypeOKNext
<1> QED BY <1>1, <1>2, <1>3

(* The checks of a fresh opening report refusals and nothing else.         *)
LEMMA FreshRefuses ==
  ASSUME NEW phi
  PROVE  FreshErrors(phi) \subseteq Refusals
<1>1. \A ok : /\ Check(ok, "declaration_conflict") \subseteq Refusals
              /\ Check(ok, "not_closed") \subseteq Refusals
  BY CheckRefuses DEF Refusals
<1> QED BY <1>1, OrElseRefuses DEF FreshErrors

(* A fresh subproof opens with its types kept.                             *)
LEMMA OpenFreshKeepsTypes ==
  ASSUME TypeOK, NEW l \in Label \cup {NoLabel}, NEW phi \in Formula, OpenFresh(l, phi)
  PROVE  TypeOK'
<1> USE TypeParts
<1> DEFINE flags == {FlagDeclaration(c) : c \in FlagNames(phi)}
           chain == Declare(Child(declarations), flags)
<1>1. PICK errors \in SUBSET Refusals :
        \/ Refuse(errors)
        \/ /\ Open(l, phi, TRUE, chain)
           /\ arbitraryNames' = IF flags = {} THEN arbitraryNames
                                ELSE Append(arbitraryNames, FlagNames(phi))
           /\ UNCHANGED assumptionStack
  BY ChecksRefuse, FreshRefuses, OrElseRefuses DEF OpenFresh
<1>2. CASE Refuse(errors)
  BY <1>2, RefuseKeepsTypes
<1>3. CASE /\ Open(l, phi, TRUE, chain)
           /\ arbitraryNames' = IF flags = {} THEN arbitraryNames
                                ELSE Append(arbitraryNames, FlagNames(phi))
           /\ UNCHANGED assumptionStack
  <2>1. Depth < MaxDepth
    BY DEF OpenFresh, Awaiting
  <2>2. BlocksOK' /\ LabelsOK' /\ Len(labels') = Len(blocks') /\ Len(blocks') = Len(blocks) + 1
    BY <1>3, <2>1, OpenKeepsTypes
  <2>3. flags \in SUBSET Declaration
    <3>1. ASSUME NEW c \in Name PROVE FlagDeclaration(c) \in Declaration
      BY DEF FlagDeclaration, Declaration, Kind, AnyArity
    <3> QED BY <3>1 DEF FlagNames
  <2>4. /\ Child(declarations) \in Seq(Tables(Name, Declaration))
        /\ Len(Child(declarations)) = Len(blocks) + 1
    BY SmallTables DEF Child, DeclarationsOK
  <2>5. chain \in Seq(Tables(Name, Declaration)) /\ Len(chain) = Len(blocks) + 1
    <3>1. Len(Child(declarations)) > 0
      BY <2>4 DEF BlocksOK
    <3> HIDE DEF flags
    <3> QED BY <2>3, <2>4, <3>1, DeclareKeepsScope
  <2>6. DeclarationsOK' /\ Len(declarations') = Len(blocks')
    BY <1>3, <2>2, <2>5 DEF Open, AssumptionsNow, DeclarationsOK
  <2>7. BooksOK' /\ status' \in {"checking", "accepted"} \cup Refusals
    BY <1>3 DEF Open, AssumptionsNow, BooksOK, granted
  <2>8. StacksOK'
    BY <1>3 DEF StacksOK, FlagNames
  <2> QED BY <2>2, <2>6, <2>7, <2>8, TypeOKNext
<1> QED BY <1>1, <1>2, <1>3

LEMMA BadOpeningKeepsTypes ==
  ASSUME TypeOK
  PROVE  /\ OpenBadly => TypeOK'
         /\ \A phi : MisplacedOpening(phi) => TypeOK'
<1>1. {"empty_subproof", "bad_opening"} \subseteq Refusals /\ {"wrong_position"} \subseteq Refusals
  BY DEF Refusals
<1>2. ASSUME NEW phi
      PROVE  /\ (StatementErrors(declarations, phi) ?? {"wrong_position"}) \subseteq Refusals
             /\ (FreshErrors(phi) ?? {"wrong_position"}) \subseteq Refusals
  BY <1>1, StatementRefuses, FreshRefuses, OrElseRefuses
<1> QED BY <1>1, <1>2, RefuseKeepsTypes DEF OpenBadly, MisplacedOpening

(* A subproof closes: its record is well-formed, and the enclosing block   *)
(* takes it.                                                               *)
LEMMA FlattenedAreFormulas ==
  ASSUME NEW items \in SUBSET Item
  PROVE  Flatten(items) \subseteq Formula
<1>1. ASSUME NEW x \in items
      PROVE  (IF IsSubproof(x) THEN x.inner ELSE {x}) \subseteq Formula
  <2>1. CASE x \in Formula
    BY <2>1 DEF IsSubproof
  <2>2. CASE x \notin Formula
    <3>1. x \in SubproofRecord
      BY <2>2 DEF Item
    <3> QED BY <2>2, <3>1 DEF IsSubproof, SubproofRecord
  <2> QED BY <2>1, <2>2
<1> QED BY <1>1 DEF Flatten

LEMMA RecordReceived ==
  ASSUME NEW p \in Pending, NEW record \in SubproofRecord
  PROVE  LET q == [p EXCEPT !.records = Append(@, record)]
         IN  q \in Pending /\ q.tag = p.tag /\ q.phi = p.phi /\ q.rule = p.rule
<1>1. p.records \in Seq(SubproofRecord)
  BY DEF Pending
<1>2. Append(p.records, record) \in Seq(SubproofRecord)
  BY <1>1
<1> DEFINE longer == Append(p.records, record)
<1> HIDE DEF longer
<1>3. [p EXCEPT !.records = longer] \in Pending
  BY <1>2 DEF Pending, longer
<1>4. /\ [p EXCEPT !.records = longer].tag = p.tag
      /\ [p EXCEPT !.records = longer].phi = p.phi
      /\ [p EXCEPT !.records = longer].rule = p.rule
  BY DEF Pending
<1> QED BY <1>3, <1>4 DEF longer

LEMMA CloseBlockKeepsTypes ==
  ASSUME TypeOK, StacksReachBack, CloseBlock
  PROVE  TypeOK'
<1> USE TypeParts
<1> DEFINE n      == Depth - 1
           p      == blocks[n].pending
           record == [assumption |-> Top.opener, conclusion |-> Top.last, fresh |-> Top.fresh,
                      inner |-> Flatten(Top.seen), outer |-> Flatten(blocks[n].seen)]
           shut   == SubSeq(blocks, 1, n)
           alone  == p.tag = "subproof"
           Effect ==
             /\ blocks' = IF alone
                          THEN [shut EXCEPT ![n].seen    = @ \cup {record},
                                            ![n].last    = NoFormula,
                                            ![n].pending = NothingPending]
                          ELSE [shut EXCEPT ![n].pending.records = Append(@, record)]
             /\ labels' = IF alone /\ p.label # NoLabel
                          THEN BindAll(Parent(labels), Single(p.label, <<record>>))
                          ELSE Parent(labels)
             /\ declarations' = Parent(declarations)
             /\ assumptionStack' = StruckOff(assumptionStack, Top.assumptionsInForce)
             /\ arbitraryNames' = StruckOff(arbitraryNames, Top.arbitraryInForce)
             /\ UNCHANGED <<status, constrainedNames, ownDeclarations, granted, usedRules>>
<1>1. PICK errors \in SUBSET Refusals : Refuse(errors) \/ Effect
  <2>1. \A ok : Check(ok, "label_shadowing") \subseteq Refusals
    BY CheckRefuses DEF Refusals
  <2> QED BY <2>1 DEF CloseBlock
<1>2. CASE Refuse(errors)
  BY <1>2, RefuseKeepsTypes
<1>3. CASE Effect
  <2>1. Len(blocks) \in Nat /\ Len(blocks) > 1 /\ n \in 1 .. MaxDepth /\ n + 1 = Len(blocks)
    BY BoundAssumption DEF CloseBlock, Depth, BlocksOK
  <2>2. blocks[n] \in Block /\ Top \in Block /\ Top.opener \in Formula
    BY <2>1 DEF BlocksOK, Top, Depth
  <2>3. record \in SubproofRecord
    <3>1. Top.seen \in SUBSET Item /\ blocks[n].seen \in SUBSET Item
      BY <2>2 DEF Block
    <3>2. Flatten(Top.seen) \subseteq Formula /\ Flatten(blocks[n].seen) \subseteq Formula
      BY <3>1, FlattenedAreFormulas
    <3>3. Top.last \in Formula \cup {NoFormula} /\ Top.fresh \in BOOLEAN
      BY <2>2 DEF Block
    <3> QED BY <2>2, <3>2, <3>3 DEF SubproofRecord
  <2> HIDE DEF record
  <2>4. shut \in Seq(Block) /\ Len(shut) = n /\ \A i \in 1 .. n : shut[i] = blocks[i]
    BY <2>1 DEF BlocksOK
  <2> HIDE DEF shut
  <2>12. n \in 1 .. Len(shut) /\ shut[n] = blocks[n]
    BY <2>1, <2>4
  <2>5. PICK b \in Block : /\ blocks' = [shut EXCEPT ![n] = b]
                           /\ b.opener = blocks[n].opener
                           /\ b.pending.tag = "none" \/ b.pending.tag = p.tag
                           /\ b.pending.tag # "none" => b.pending.phi = p.phi /\ b.pending.rule = p.rule
    <3>1. CASE alone
      <4> DEFINE b == [shut[n] EXCEPT !.seen = @ \cup {record}, !.last = NoFormula,
                                        !.pending = NothingPending]
      <4>1. blocks' = [shut EXCEPT ![n] = b]
        BY <1>3, <2>2, <2>4, <2>12, <3>1 DEF Block
      <4>2. b \in Block
        BY <2>2, <2>3, <2>12, NothingPendingType DEF Block, Item
      <4>3. b.opener = blocks[n].opener /\ b.pending.tag = "none"
        BY <2>2, <2>12, NothingPendingType DEF Block
      <4> HIDE DEF b
      <4> QED BY <4>1, <4>2, <4>3
    <3>2. CASE ~ alone
      <4> DEFINE q == [p EXCEPT !.records = Append(@, record)]
                 b == [shut[n] EXCEPT !.pending = q]
      <4>1. p \in Pending
        BY <2>2 DEF Block
      <4>2. q \in Pending /\ q.tag = p.tag /\ q.phi = p.phi /\ q.rule = p.rule
        BY <2>3, <4>1, RecordReceived
      <4>3. blocks' = [shut EXCEPT ![n] = b]
        BY <1>3, <2>2, <2>4, <2>12, <3>2 DEF Block
      <4> HIDE DEF q
      <4>4. b \in Block /\ b.opener = blocks[n].opener /\ b.pending = q
        BY <2>2, <2>12, <4>2 DEF Block
      <4> HIDE DEF b
      <4> QED BY <4>2, <4>3, <4>4
    <3> QED BY <3>1, <3>2
  <2> HIDE DEF n
  <2>6. BlocksOK' /\ Len(blocks') = n
    <3>1. blocks' \in Seq(Block) /\ Len(blocks') = n
      <4>1. /\ [shut EXCEPT ![n] = b] \in Seq(Block)
            /\ Len([shut EXCEPT ![n] = b]) = Len(shut)
        BY <2>4, <2>12
      <4> QED BY <2>4, <2>5, <4>1
    <3>2. \A i \in DOMAIN blocks' : i \in DOMAIN blocks /\ blocks'[i] = IF i = n THEN b ELSE blocks[i]
      <4>1. blocks \in Seq(Block)
        BY DEF BlocksOK
      <4> QED BY <2>1, <2>4, <2>5, <4>1
    <3>3. n \in DOMAIN blocks
      BY <2>1
    <3> QED BY <2>1, <2>5, <3>1, <3>2, <3>3 DEF BlocksOK
  <2>7. Parent(labels) \in Seq(Tables(Label, Seq(Item))) /\ Len(Parent(labels)) = n
    BY <2>1, ParentKeepsScope DEF LabelsOK
  <2>8. LabelsOK' /\ Len(labels') = n
    <3>1. CASE alone /\ p.label # NoLabel
      <4>1. p.label \in Label
        BY <2>2, <3>1 DEF Block, Pending
      <4>2. <<record>> \in Seq(Item)
        BY <2>3 DEF Item
      <4>3. Single(p.label, <<record>>) \in Tables(Label, Seq(Item))
        BY <4>1, <4>2, SmallTables
      <4>4. labels' = BindAll(Parent(labels), Single(p.label, <<record>>))
        BY <1>3, <3>1
      <4>5. Len(Parent(labels)) > 0
        BY <2>1, <2>7
      <4> QED BY <2>7, <4>3, <4>4, <4>5, BindAllKeepsScope DEF LabelsOK
    <3>2. CASE ~ (alone /\ p.label # NoLabel)
      BY <1>3, <2>7, <3>2 DEF LabelsOK
    <3> QED BY <3>1, <3>2
  <2>9. DeclarationsOK' /\ Len(declarations') = n
    BY <1>3, <2>1, ParentKeepsScope DEF DeclarationsOK
  <2>10. BooksOK' /\ status' \in {"checking", "accepted"} \cup Refusals
    BY <1>3 DEF BooksOK, granted
  <2>11. StacksOK'
    <3>1. /\ Top.assumptionsInForce \in 0 .. Len(assumptionStack)
          /\ Top.arbitraryInForce \in 0 .. Len(arbitraryNames)
      BY <2>1, <2>2 DEF StacksReachBack, Top, Depth, Block, StacksOK
    <3> QED BY <1>3, <3>1 DEF StacksOK, StruckOff
  <2> QED BY <2>6, <2>8, <2>9, <2>10, <2>11, TypeOKNext
<1> QED BY <1>1, <1>2, <1>3

-----------------------------------------------------------------------------
(* The stacks.  A frame is what a block remembers of its opening: its      *)
(* first line and how long the stacks were.                                *)

SameFrames ==
  /\ Len(blocks') = Len(blocks)
  /\ \A i \in DOMAIN blocks :
       /\ blocks'[i].opener = blocks[i].opener
       /\ blocks'[i].fresh = blocks[i].fresh
       /\ blocks'[i].assumptionsInForce = blocks[i].assumptionsInForce
       /\ blocks'[i].arbitraryInForce = blocks[i].arbitraryInForce

InForce == StacksReachBack /\ AssumptionsAreInForce

LEMMA SequencesAreTyped ==
  ASSUME TypeOK
  PROVE  /\ blocks \in Seq(Block) /\ Len(blocks) \in Nat \ {0}
         /\ DOMAIN blocks = 1 .. Len(blocks)
         /\ assumptionStack \in Seq(Formula) /\ arbitraryNames \in Seq(SUBSET Name)
         /\ \A i \in DOMAIN blocks :
              blocks[i].assumptionsInForce \in Nat /\ blocks[i].arbitraryInForce \in Nat
<1>1. blocks \in Seq(Block) /\ Len(blocks) \in Nat \ {0} /\ DOMAIN blocks = 1 .. Len(blocks)
  BY BoundAssumption DEF TypeOK
<1>2. \A i \in DOMAIN blocks : blocks[i] \in Block
  BY <1>1
<1>3. \A b \in Block : b.assumptionsInForce \in Nat /\ b.arbitraryInForce \in Nat
  BY DEF Block
<1> QED BY <1>1, <1>2, <1>3 DEF TypeOK

(* Nothing that leaves the frames and the assumptions alone, and only adds *)
(* arbitrary names, disturbs the stacks.                                   *)
LEMMA QuietStepsKeepStacks ==
  ASSUME TypeOK, TypeOK', InForce, SameFrames, UNCHANGED assumptionStack,
         Len(arbitraryNames') >= Len(arbitraryNames)
  PROVE  InForce'
<1>1. /\ Len(blocks) \in Nat /\ DOMAIN blocks = 1 .. Len(blocks) /\ DOMAIN blocks' = 1 .. Len(blocks)
      /\ Len(arbitraryNames) \in Nat /\ Len(arbitraryNames') \in Nat
      /\ \A i \in DOMAIN blocks :
           blocks[i].assumptionsInForce \in Nat /\ blocks[i].arbitraryInForce \in Nat
  BY SequencesAreTyped DEF SameFrames, TypeOK
<1>2. StacksReachBack'
  BY <1>1 DEF InForce, StacksReachBack, SameFrames
<1>3. AssumptionsAreInForce'
  <2>1. Len(blocks) > 0
    BY SequencesAreTyped
  <2>2. blocks'[1].assumptionsInForce = 0
    BY <1>1, <2>1 DEF InForce, AssumptionsAreInForce, SameFrames
  <2>3. ASSUME NEW i \in 1 .. Len(blocks)
        PROVE  /\ InForceAfter(i)' = InForceAfter(i)
               /\ i # Len(blocks) => blocks'[i + 1].assumptionsInForce = blocks[i + 1].assumptionsInForce
    <3>1. i \in DOMAIN blocks /\ (i # Len(blocks) => i + 1 \in DOMAIN blocks)
      <4>1. Len(blocks) \in Nat /\ DOMAIN blocks = 1 .. Len(blocks)
        BY <1>1
      <4>2. i \in Nat /\ i <= Len(blocks) /\ 1 <= i
        BY <4>1
      <4>3. ASSUME i # Len(blocks) PROVE i + 1 \in 1 .. Len(blocks)
        <5>1. \A m, n \in Nat : 1 <= m /\ m <= n /\ m # n => m + 1 \in 1 .. n
          OBVIOUS
        <5> QED BY <4>1, <4>2, <4>3, <5>1
      <4> QED BY <4>1, <4>3
    <3>2. /\ blocks'[i].fresh = blocks[i].fresh
          /\ blocks'[i].assumptionsInForce = blocks[i].assumptionsInForce
      BY <3>1 DEF SameFrames
    <3>3. InForceAfter(i)' = InForceAfter(i)
      BY <3>2, Zenon DEF InForceAfter
    <3> QED BY <3>1, <3>3 DEF SameFrames
  <2>4. ASSUME NEW i \in 1 .. Len(blocks)
        PROVE  /\ InForceAfter(i)' = IF i = Len(blocks) THEN Len(assumptionStack)
                                                       ELSE blocks'[i + 1].assumptionsInForce
               /\ InForceAfter(i)' > blocks'[i].assumptionsInForce =>
                    assumptionStack[InForceAfter(i)'] = blocks'[i].opener
    BY <1>1, <2>3 DEF InForce, AssumptionsAreInForce, SameFrames, Depth
  <2> QED BY <1>1, <2>2, <2>4 DEF AssumptionsAreInForce, SameFrames, Depth
<1> QED BY <1>2, <1>3 DEF InForce

(* Lines that state something, lines that wait and refusals are such.      *)
LEMMA LinesKeepFrames ==
  ASSUME TypeOK
  PROVE  /\ \A l, fs : Derive(l, fs) => SameFrames
         /\ \A entry : Await(entry) => SameFrames
         /\ \A errors : Refuse(errors) => SameFrames /\ UNCHANGED inForce
<1>1. Depth \in DOMAIN blocks /\ Depth = Len(blocks) /\ blocks \in Seq(Block) /\ blocks[Depth] \in Block
  BY SequencesAreTyped DEF Depth
<1>2. ASSUME NEW l, NEW fs, Derive(l, fs) PROVE SameFrames
  <2> DEFINE b == [blocks[Depth] EXCEPT !.seen = @ \cup ToSet(fs), !.last = fs[Len(fs)],
                                        !.pending = NothingPending]
  <2>1. /\ b.opener = blocks[Depth].opener /\ b.fresh = blocks[Depth].fresh
        /\ b.assumptionsInForce = blocks[Depth].assumptionsInForce
        /\ b.arbitraryInForce = blocks[Depth].arbitraryInForce
    BY <1>1 DEF Block
  <2>2. blocks' = [blocks EXCEPT ![Depth] = b]
    BY <1>1, <1>2 DEF Derive, Block
  <2> HIDE DEF b
  <2> QED BY <1>1, <2>1, <2>2 DEF SameFrames
<1>3. ASSUME NEW entry, Await(entry) PROVE SameFrames
  <2> DEFINE b == [blocks[Depth] EXCEPT !.pending = entry]
  <2>1. /\ b.opener = blocks[Depth].opener /\ b.fresh = blocks[Depth].fresh
        /\ b.assumptionsInForce = blocks[Depth].assumptionsInForce
        /\ b.arbitraryInForce = blocks[Depth].arbitraryInForce
    BY <1>1 DEF Block
  <2>2. blocks' = [blocks EXCEPT ![Depth] = b]
    BY <1>1, <1>3 DEF Await, Block
  <2> HIDE DEF b
  <2> QED BY <1>1, <2>1, <2>2 DEF SameFrames
<1>4. ASSUME NEW errors, Refuse(errors) PROVE SameFrames /\ UNCHANGED inForce
  BY <1>4 DEF Refuse, SameFrames
<1> QED BY <1>2, <1>3, <1>4

(* A line that only declares leaves the stacks in force.                   *)
LEMMA DeclareOnlyKeepsStacks ==
  ASSUME TypeOK, TypeOK', InForce, NEW tag, NEW ds, DeclareOnly(tag, ds)
  PROVE  InForce'
<1>1. SameFrames /\ UNCHANGED assumptionStack
  BY LinesKeepFrames DEF DeclareOnly, SameFrames, inForce
<1>2. Len(arbitraryNames') >= Len(arbitraryNames)
  <2>1. \/ arbitraryNames' = arbitraryNames
        \/ arbitraryNames' = Append(arbitraryNames, PlainObjects(ds))
    BY LinesKeepFrames DEF DeclareOnly, inForce
  <2>2. arbitraryNames \in Seq(SUBSET Name)
    BY SequencesAreTyped
  <2> QED BY <2>1, <2>2
<1> QED BY <1>1, <1>2, QuietStepsKeepStacks

(* Lines that state something, lines that wait and refusals leave both     *)
(* alone.                                                                  *)
LEMMA LinesAreQuiet ==
  ASSUME TypeOK,
         \/ \E l, phi, ds : DeclareFormula(l, phi, ds)
         \/ \E l, fs, ds : PremiseLine(l, fs, ds)
         \/ \E l, phi : AxiomLine(l, phi)
         \/ \E l, phi, rule, cites, ds : RuleLine(l, phi, rule, cites, ds)
         \/ \E l : BeginSubproof(l)
         \/ \E l, phi, rule, count : BeginBelow(l, phi, rule, count)
         \/ \E l, phi, rule, cites, count : BeginHybrid(l, phi, rule, cites, count)
         \/ JudgeBelow \/ JudgeHybrid
         \/ OpenBadly \/ \E phi : MisplacedOpening(phi)
         \/ Finish \/ Done \/ UNCHANGED vars
  PROVE  SameFrames /\ UNCHANGED inForce
<1>1. CASE \E l, phi, ds : DeclareFormula(l, phi, ds)
  BY <1>1, LinesKeepFrames DEF DeclareFormula
<1>2. CASE \E l, fs, ds : PremiseLine(l, fs, ds)
  BY <1>2, LinesKeepFrames DEF PremiseLine
<1>3. CASE \E l, phi : AxiomLine(l, phi)
  BY <1>3, LinesKeepFrames DEF AxiomLine
<1>4. CASE \E l, phi, rule, cites, ds : RuleLine(l, phi, rule, cites, ds)
  BY <1>4, LinesKeepFrames DEF RuleLine
<1>5. CASE \E l : BeginSubproof(l)
  BY <1>5, LinesKeepFrames DEF BeginSubproof, Await
<1>6. CASE \E l, phi, rule, count : BeginBelow(l, phi, rule, count)
  BY <1>6, LinesKeepFrames DEF BeginBelow, Await
<1>7. CASE \E l, phi, rule, cites, count : BeginHybrid(l, phi, rule, cites, count)
  BY <1>7, LinesKeepFrames DEF BeginHybrid, Await
<1>8. CASE JudgeBelow \/ JudgeHybrid
  BY <1>8, LinesKeepFrames DEF JudgeBelow, JudgeHybrid
<1>9. CASE OpenBadly \/ \E phi : MisplacedOpening(phi)
  BY <1>9, LinesKeepFrames DEF OpenBadly, MisplacedOpening
<1>10. CASE Finish \/ Done \/ UNCHANGED vars
  BY <1>10 DEF Finish, Done, vars, SameFrames
<1> QED BY <1>1, <1>2, <1>3, <1>4, <1>5, <1>6, <1>7, <1>8, <1>9, <1>10

(* So they leave the stacks in force.                                      *)
LEMMA LinesKeepStacks ==
  ASSUME TypeOK, TypeOK', InForce,
         \/ \E l, phi, ds : DeclareFormula(l, phi, ds)
         \/ \E l, fs, ds : PremiseLine(l, fs, ds)
         \/ \E l, phi : AxiomLine(l, phi)
         \/ \E l, phi, rule, cites, ds : RuleLine(l, phi, rule, cites, ds)
         \/ \E l : BeginSubproof(l)
         \/ \E l, phi, rule, count : BeginBelow(l, phi, rule, count)
         \/ \E l, phi, rule, cites, count : BeginHybrid(l, phi, rule, cites, count)
         \/ JudgeBelow \/ JudgeHybrid
         \/ OpenBadly \/ \E phi : MisplacedOpening(phi)
         \/ Finish \/ Done \/ UNCHANGED vars
  PROVE  InForce'
<1>1. SameFrames /\ UNCHANGED inForce
  BY LinesAreQuiet
<1>2. Len(arbitraryNames') >= Len(arbitraryNames)
  BY <1>1, SequencesAreTyped DEF inForce
<1> QED BY <1>1, <1>2, QuietStepsKeepStacks DEF inForce

(* A block that opens finds the stacks as long as they are, and pushes its *)
(* assumption if it has one.                                               *)
LEMMA OpenKeepsStacks ==
  ASSUME TypeOK, TypeOK', InForce, NEW l, NEW phi, NEW fresh \in BOOLEAN, NEW chain,
         Open(l, phi, fresh, chain),
         fresh => assumptionStack' = assumptionStack,
         ~ fresh => assumptionStack' = Append(assumptionStack, phi),
         Len(arbitraryNames') >= Len(arbitraryNames)
  PROVE  InForce'
<1> DEFINE b == [opener |-> phi, fresh |-> fresh, seen |-> {phi}, last |-> phi,
                 pending |-> NothingPending,
                 assumptionsInForce |-> Len(assumptionStack),
                 arbitraryInForce |-> Len(arbitraryNames)]
<1>1. /\ blocks \in Seq(Block) /\ Len(blocks) \in Nat \ {0} /\ DOMAIN blocks = 1 .. Len(blocks)
      /\ Len(assumptionStack) \in Nat /\ Len(arbitraryNames) \in Nat
      /\ \A i \in 1 .. Len(blocks) :
           blocks[i].assumptionsInForce \in Nat /\ blocks[i].arbitraryInForce \in Nat
  BY SequencesAreTyped
<1>2. blocks' = Append(blocks, b)
  BY DEF Open, AssumptionsNow
<1>3. /\ b.opener = phi /\ b.fresh = fresh
      /\ b.assumptionsInForce = Len(assumptionStack) /\ b.arbitraryInForce = Len(arbitraryNames)
  OBVIOUS
<1> HIDE DEF b
<1>m. PICK m \in Nat : m = Len(blocks) + 1
  BY <1>1
<1>4. /\ Len(blocks') = m /\ DOMAIN blocks' = 1 .. m /\ blocks'[m] = b
      /\ \A i \in 1 .. Len(blocks) : blocks'[i] = blocks[i]
  BY <1>1, <1>2, <1>m
<1>5. /\ Len(assumptionStack') \in Nat /\ Len(assumptionStack') >= Len(assumptionStack)
      /\ \A k \in 1 .. Len(assumptionStack) : assumptionStack'[k] = assumptionStack[k]
      /\ Len(arbitraryNames') \in Nat
  <2>1. assumptionStack \in Seq(Formula)
    BY SequencesAreTyped
  <2>2. arbitraryNames' \in Seq(SUBSET Name)
    BY DEF TypeOK
  <2>3. CASE fresh
    BY <1>1, <2>2, <2>3
  <2>4. CASE ~ fresh
    BY <1>1, <2>1, <2>2, <2>4
  <2> QED BY <2>3, <2>4
<1>6. \A i \in 1 .. m : i = m \/ i \in 1 .. Len(blocks)
  BY <1>1, <1>m
<1>7. StacksReachBack'
  <2>1. ASSUME NEW i \in 1 .. m
        PROVE  /\ blocks'[i].assumptionsInForce \in Nat /\ blocks'[i].arbitraryInForce \in Nat
               /\ blocks'[i].assumptionsInForce <= Len(assumptionStack)
               /\ blocks'[i].arbitraryInForce <= Len(arbitraryNames)
    BY <1>1, <1>3, <1>4, <1>6 DEF InForce, StacksReachBack
  <2>2. ASSUME NEW i \in 1 .. m, NEW j \in 1 .. m, i <= j
        PROVE  /\ blocks'[i].assumptionsInForce <= blocks'[j].assumptionsInForce
               /\ blocks'[i].arbitraryInForce <= blocks'[j].arbitraryInForce
    <3>1. CASE j = m
      BY <1>3, <1>4, <2>1, <3>1
    <3>2. CASE j # m
      <4>1. i \in 1 .. Len(blocks) /\ j \in 1 .. Len(blocks)
        BY <1>1, <1>6, <2>2, <3>2
      <4> QED BY <1>1, <1>4, <2>2, <4>1 DEF InForce, StacksReachBack
    <3> QED BY <3>1, <3>2
  <2>3. ASSUME NEW i \in 1 .. m
        PROVE  /\ blocks'[i].assumptionsInForce <= Len(assumptionStack')
               /\ blocks'[i].arbitraryInForce <= Len(arbitraryNames')
    BY <1>1, <1>5, <2>1
  <2> QED BY <1>4, <2>2, <2>3 DEF StacksReachBack
<1>8. ASSUME NEW i \in 1 .. Len(blocks)
      PROVE  /\ InForceAfter(i)' = blocks'[i + 1].assumptionsInForce
             /\ InForceAfter(i)' > blocks'[i].assumptionsInForce =>
                  assumptionStack'[InForceAfter(i)'] = blocks'[i].opener
  <2>1. blocks'[i] = blocks[i]
    BY <1>4
  <2>2. InForceAfter(i)' = InForceAfter(i)
    BY <2>1, Zenon DEF InForceAfter
  <2>3. Depth = Len(blocks) /\ AssumptionsAreInForce
    BY DEF Depth, InForce
  <2>4. /\ i = Len(blocks) => InForceAfter(i) = Len(assumptionStack)
        /\ i # Len(blocks) => InForceAfter(i) = blocks[i + 1].assumptionsInForce
        /\ InForceAfter(i) > blocks[i].assumptionsInForce =>
             assumptionStack[InForceAfter(i)] = blocks[i].opener
    <3> HIDE DEF InForceAfter
    <3> QED BY <2>3 DEF AssumptionsAreInForce
  <2>5. i # Len(blocks) => i + 1 \in 1 .. Len(blocks)
    <3>1. \A j, k \in Nat : 1 <= j /\ j <= k /\ j # k => j + 1 \in 1 .. k
      OBVIOUS
    <3>2. i \in Nat /\ 1 <= i /\ i <= Len(blocks) /\ Len(blocks) \in Nat
      BY <1>1
    <3> QED BY <3>1, <3>2
  <2>6. InForceAfter(i) \in Nat /\ InForceAfter(i) <= Len(assumptionStack)
    <3>1. \A j \in 1 .. Len(blocks) : blocks[j].assumptionsInForce <= Len(assumptionStack)
      BY <1>1 DEF InForce, StacksReachBack
    <3>2. CASE i = Len(blocks)
      BY <1>1, <2>4, <3>2
    <3>3. CASE i # Len(blocks)
      <4>1. InForceAfter(i) = blocks[i + 1].assumptionsInForce /\ i + 1 \in 1 .. Len(blocks)
        BY <2>4, <2>5, <3>3
      <4> QED BY <1>1, <3>1, <4>1
    <3> QED BY <3>2, <3>3
  <2>7. InForceAfter(i) = blocks'[i + 1].assumptionsInForce
    <3>1. CASE i = Len(blocks)
      BY <1>3, <1>4, <1>m, <2>4, <3>1
    <3>2. CASE i # Len(blocks)
      BY <1>4, <2>4, <2>5, <3>2
    <3> QED BY <3>1, <3>2
  <2>8. blocks[i].assumptionsInForce \in Nat
    BY <1>1
  <2>9. InForceAfter(i) > blocks[i].assumptionsInForce => InForceAfter(i) \in 1 .. Len(assumptionStack)
    BY <1>1, <2>6, <2>8
  <2> QED BY <1>5, <2>1, <2>2, <2>4, <2>7, <2>9
<1>9. /\ InForceAfter(m)' = Len(assumptionStack')
      /\ InForceAfter(m)' > blocks'[m].assumptionsInForce =>
           assumptionStack'[InForceAfter(m)'] = blocks'[m].opener
  <2>1. m # 1
    BY <1>1, <1>m
  <2>4. blocks'[m].fresh = fresh /\ blocks'[m].assumptionsInForce = Len(assumptionStack)
    BY <1>3, <1>4
  <2>2. CASE fresh
    <3>1. InForceAfter(m)' = Len(assumptionStack) + 0
      BY <2>2, <2>4, Zenon DEF InForceAfter
    <3>2. InForceAfter(m)' = Len(assumptionStack)
      BY <1>1, <3>1
    <3>3. blocks'[m].assumptionsInForce = Len(assumptionStack)
      BY <1>3, <1>4
    <3>4. assumptionStack' = assumptionStack
      BY <2>2
    <3> QED BY <1>1, <3>2, <3>3, <3>4
  <2>3. CASE ~ fresh
    <3>1. InForceAfter(m)' = Len(assumptionStack) + 1
      BY <2>1, <2>3, <2>4, Zenon DEF InForceAfter
    <3>2. assumptionStack \in Seq(Formula) /\ assumptionStack' = Append(assumptionStack, phi)
      BY <2>3, SequencesAreTyped
    <3>3. /\ Len(assumptionStack') = Len(assumptionStack) + 1
          /\ assumptionStack'[Len(assumptionStack) + 1] = phi
      BY <3>2
    <3> QED BY <1>3, <1>4, <3>1, <3>3
  <2> QED BY <2>2, <2>3
<1>10. blocks'[1].assumptionsInForce = 0
  BY <1>1, <1>4 DEF InForce, AssumptionsAreInForce
<1>11. ASSUME NEW i \in 1 .. m
       PROVE  /\ InForceAfter(i)' = IF i = m THEN Len(assumptionStack')
                                             ELSE blocks'[i + 1].assumptionsInForce
              /\ InForceAfter(i)' > blocks'[i].assumptionsInForce =>
                   assumptionStack'[InForceAfter(i)'] = blocks'[i].opener
  <2>1. CASE i = m
    BY <1>9, <2>1
  <2>2. CASE i # m
    BY <1>6, <1>8, <2>2
  <2> QED BY <2>1, <2>2
<1>12. Depth' = m
  BY <1>4 DEF Depth
<1> QED BY <1>7, <1>10, <1>11, <1>12 DEF InForce, AssumptionsAreInForce

LEMMA OpeningsKeepStacks ==
  ASSUME TypeOK, TypeOK', InForce, NEW l, NEW phi
  PROVE  /\ OpenAssuming(l, phi) => InForce'
         /\ OpenFresh(l, phi) => InForce'
<1>1. Len(arbitraryNames) \in Nat /\ arbitraryNames \in Seq(SUBSET Name)
  BY SequencesAreTyped
<1>2. \A errors : Refuse(errors) => InForce'
  <2>1. SUFFICES ASSUME NEW errors, Refuse(errors) PROVE InForce'
    OBVIOUS
  <2>2. SameFrames /\ UNCHANGED inForce
    BY <2>1, LinesKeepFrames
  <2> QED BY <1>1, <2>2, QuietStepsKeepStacks DEF inForce
<1>3. ASSUME OpenAssuming(l, phi) PROVE InForce'
  <2>1. CASE /\ Open(l, phi, FALSE, Child(declarations))
             /\ assumptionStack' = Append(assumptionStack, phi)
             /\ UNCHANGED arbitraryNames
    <3>1. Len(arbitraryNames') >= Len(arbitraryNames)
      BY <1>1, <2>1
    <3> QED BY <2>1, <3>1, OpenKeepsStacks
  <2> QED BY <1>2, <1>3, <2>1 DEF OpenAssuming
<1>4. ASSUME OpenFresh(l, phi) PROVE InForce'
  <2> DEFINE flags == {FlagDeclaration(c) : c \in FlagNames(phi)}
  <2>1. CASE /\ Open(l, phi, TRUE, Declare(Child(declarations), flags))
             /\ arbitraryNames' = IF flags = {} THEN arbitraryNames
                                  ELSE Append(arbitraryNames, FlagNames(phi))
             /\ UNCHANGED assumptionStack
    <3>1. Len(arbitraryNames') >= Len(arbitraryNames)
      BY <1>1, <2>1
    <3> QED BY <2>1, <3>1, OpenKeepsStacks
  <2> QED BY <1>2, <1>4, <2>1 DEF OpenFresh
<1> QED BY <1>3, <1>4

(* When a block closes, the blocks around it keep their frames.            *)
LEMMA ClosingKeepsFrames ==
  ASSUME TypeOK, NEW n \in Nat \ {0}, n + 1 = Len(blocks), NEW record,
         blocks' = IF blocks[n].pending.tag = "subproof"
                   THEN [SubSeq(blocks, 1, n) EXCEPT ![n].seen    = @ \cup {record},
                                                     ![n].last    = NoFormula,
                                                     ![n].pending = NothingPending]
                   ELSE [SubSeq(blocks, 1, n) EXCEPT ![n].pending.records = Append(@, record)]
  PROVE  /\ Len(blocks') = n /\ DOMAIN blocks' = 1 .. n
         /\ \A i \in 1 .. n : /\ blocks'[i].opener = blocks[i].opener
                              /\ blocks'[i].fresh = blocks[i].fresh
                              /\ blocks'[i].assumptionsInForce = blocks[i].assumptionsInForce
                              /\ blocks'[i].arbitraryInForce = blocks[i].arbitraryInForce
<1> DEFINE shut == SubSeq(blocks, 1, n)
<1>1. shut \in Seq(Block) /\ Len(shut) = n /\ \A i \in 1 .. n : shut[i] = blocks[i]
  BY SequencesAreTyped
<1>2. n \in 1 .. n /\ shut[n] \in Block
  BY <1>1
<1>3. blocks' = IF blocks[n].pending.tag = "subproof"
                THEN [shut EXCEPT ![n].seen    = @ \cup {record},
                                  ![n].last    = NoFormula,
                                  ![n].pending = NothingPending]
                ELSE [shut EXCEPT ![n].pending.records = Append(@, record)]
  OBVIOUS
<1> HIDE DEF shut
<1>4. CASE blocks[n].pending.tag = "subproof"
  BY <1>1, <1>2, <1>3, <1>4 DEF Block
<1>5. CASE blocks[n].pending.tag # "subproof"
  BY <1>1, <1>2, <1>3, <1>5 DEF Block
<1> QED BY <1>4, <1>5

(* A block that closes leaves the stacks at the lengths it noted.          *)
LEMMA CloseBlockKeepsStacks ==
  ASSUME TypeOK, TypeOK', InForce, CloseBlock
  PROVE  InForce'
<1>1. /\ blocks \in Seq(Block) /\ Len(blocks) \in Nat \ {0} /\ DOMAIN blocks = 1 .. Len(blocks)
      /\ assumptionStack \in Seq(Formula) /\ arbitraryNames \in Seq(SUBSET Name)
      /\ \A i \in 1 .. Len(blocks) :
           blocks[i].assumptionsInForce \in Nat /\ blocks[i].arbitraryInForce \in Nat
  BY SequencesAreTyped
<1>2. PICK n \in Nat \ {0} : n + 1 = Len(blocks) /\ Depth - 1 = n /\ Depth = n + 1
  <2>1. Len(blocks) - 1 \in Nat \ {0}
    BY <1>1 DEF CloseBlock, Depth
  <2>2. /\ (Len(blocks) - 1) + 1 = Len(blocks) /\ Depth - 1 = Len(blocks) - 1
        /\ Depth = (Len(blocks) - 1) + 1
    BY <1>1 DEF Depth
  <2> QED BY <2>1, <2>2
<1> DEFINE a == Top.assumptionsInForce
           c == Top.arbitraryInForce
<1>3. /\ a \in Nat /\ a <= Len(assumptionStack) /\ c \in Nat /\ c <= Len(arbitraryNames)
      /\ Top = blocks[n + 1]
  <2>1. Depth \in 1 .. Len(blocks)
    BY <1>1, <1>2
  <2> QED BY <1>1, <1>2, <2>1 DEF InForce, StacksReachBack, Top
<1>4. \/ \E errors : Refuse(errors)
      \/ /\ \E record :
              blocks' = IF blocks[n].pending.tag = "subproof"
                        THEN [SubSeq(blocks, 1, n) EXCEPT ![n].seen    = @ \cup {record},
                                                          ![n].last    = NoFormula,
                                                          ![n].pending = NothingPending]
                        ELSE [SubSeq(blocks, 1, n) EXCEPT ![n].pending.records = Append(@, record)]
         /\ assumptionStack' = SubSeq(assumptionStack, 1, a)
         /\ arbitraryNames' = SubSeq(arbitraryNames, 1, c)
  BY <1>2, Zenon DEF CloseBlock, StruckOff
<1>5. CASE \E errors : Refuse(errors)
  <2>1. SameFrames /\ UNCHANGED inForce
    BY <1>5, LinesKeepFrames
  <2> QED BY <1>1, <2>1, QuietStepsKeepStacks DEF inForce
<1>6. CASE /\ \E record :
                blocks' = IF blocks[n].pending.tag = "subproof"
                          THEN [SubSeq(blocks, 1, n) EXCEPT ![n].seen    = @ \cup {record},
                                                            ![n].last    = NoFormula,
                                                            ![n].pending = NothingPending]
                          ELSE [SubSeq(blocks, 1, n) EXCEPT ![n].pending.records = Append(@, record)]
           /\ assumptionStack' = SubSeq(assumptionStack, 1, a)
           /\ arbitraryNames' = SubSeq(arbitraryNames, 1, c)
  <2>1. /\ Len(blocks') = n /\ DOMAIN blocks' = 1 .. n
        /\ \A i \in 1 .. n : /\ blocks'[i].opener = blocks[i].opener
                             /\ blocks'[i].fresh = blocks[i].fresh
                             /\ blocks'[i].assumptionsInForce = blocks[i].assumptionsInForce
                             /\ blocks'[i].arbitraryInForce = blocks[i].arbitraryInForce
    BY <1>2, <1>6, ClosingKeepsFrames
  <2>2. /\ Len(assumptionStack') = a /\ Len(arbitraryNames') = c
        /\ \A k \in 1 .. a : assumptionStack'[k] = assumptionStack[k]
    <3> HIDE DEF a, c
    <3>1. assumptionStack' = SubSeq(assumptionStack, 1, a) /\ arbitraryNames' = SubSeq(arbitraryNames, 1, c)
      BY <1>6
    <3> QED BY <1>1, <1>3, <3>1
  <2>3. \A i \in 1 .. n : i \in 1 .. Len(blocks) /\ i + 1 \in 1 .. Len(blocks)
    BY <1>2
  <2>4. \A i \in 1 .. Len(blocks) :
          blocks[i].assumptionsInForce <= a /\ blocks[i].arbitraryInForce <= c
    <3>1. n + 1 \in 1 .. Len(blocks) /\ \A i \in 1 .. Len(blocks) : i <= n + 1
      BY <1>2
    <3> QED BY <1>1, <1>3, <3>1 DEF InForce, StacksReachBack
  <2>5. StacksReachBack'
    BY <1>1, <1>2, <2>1, <2>2, <2>3, <2>4 DEF InForce, StacksReachBack
  <2>6. ASSUME NEW i \in 1 .. n
        PROVE  /\ InForceAfter(i)' = IF i = n THEN a ELSE blocks'[i + 1].assumptionsInForce
               /\ InForceAfter(i)' > blocks'[i].assumptionsInForce =>
                    assumptionStack'[InForceAfter(i)'] = blocks'[i].opener
    <3>1. InForceAfter(i)' = InForceAfter(i)
      BY <2>1, Zenon DEF InForceAfter
    <3>2. i \in 1 .. Depth /\ i # Depth
      BY <1>2
    <3>3. /\ InForceAfter(i) = blocks[i + 1].assumptionsInForce
          /\ InForceAfter(i) > blocks[i].assumptionsInForce =>
               assumptionStack[InForceAfter(i)] = blocks[i].opener
      BY <3>2 DEF InForce, AssumptionsAreInForce
    <3>4. i # n => i + 1 \in 1 .. n
      <4>1. \A j, k \in Nat : 1 <= j /\ j <= k /\ j # k => j + 1 \in 1 .. k
        OBVIOUS
      <4>2. i \in Nat /\ 1 <= i /\ i <= n
        OBVIOUS
      <4> QED BY <4>1, <4>2
    <3>5. InForceAfter(i) = IF i = n THEN a ELSE blocks'[i + 1].assumptionsInForce
      BY <1>3, <2>1, <3>3, <3>4
    <3>6. InForceAfter(i) \in Nat /\ InForceAfter(i) <= a /\ blocks[i].assumptionsInForce \in Nat
      BY <1>1, <2>3, <2>4, <3>3
    <3>7. InForceAfter(i) > blocks[i].assumptionsInForce => InForceAfter(i) \in 1 .. a
      BY <1>3, <3>6
    <3> QED BY <2>1, <2>2, <3>1, <3>3, <3>5, <3>7
  <2>7. blocks'[1].assumptionsInForce = 0
    <3>1. 1 \in 1 .. n
      BY <1>2
    <3> QED BY <2>1, <3>1 DEF InForce, AssumptionsAreInForce
  <2>8. Depth' = n
    BY <2>1 DEF Depth
  <2> QED BY <2>2, <2>5, <2>6, <2>7, <2>8 DEF InForce, AssumptionsAreInForce
<1> QED BY <1>4, <1>5, <1>6

-----------------------------------------------------------------------------
(* The invariant, and the theorems.                                        *)

Invariant == TypeOK /\ InForce

(* What a line cites is a sequence of labels.                              *)
LEMMA CitesAreLabels ==
  ASSUME TypeOK, NEW rule \in Rule
  PROVE  \A cites \in Cites(rule) : cites \in Seq(Label)
<1>1. VisibleLabels \subseteq Label
  <2>1. labels \in Seq(Tables(Label, Seq(Item)))
    BY TypeParts DEF LabelsOK
  <2>2. ASSUME NEW i \in DOMAIN labels PROVE DOMAIN labels[i] \subseteq Label
    <3>1. labels[i] \in Tables(Label, Seq(Item))
      BY <2>1
    <3> QED BY <3>1 DEF Tables
  <2> QED BY <2>2 DEF VisibleLabels
<1>2. VisibleLabels \cup Stray \subseteq Label
  BY <1>1, LabelAssumption
<1>3. CitedCounts(rule) \subseteq Nat
  BY RuleAssumption
<1>4. ASSUME NEW n \in Nat, NEW cites \in [1 .. n -> VisibleLabels \cup Stray] PROVE cites \in Seq(Label)
  BY <1>2, <1>4
<1> QED BY <1>3, <1>4 DEF Cites

(* The root block, before any line, has the invariant.                     *)
LEMMA InitHasInvariant == Init => Invariant
<1> SUFFICES ASSUME Init PROVE Invariant
  OBVIOUS
<1>1. Root \in Block /\ Root.pending.tag = "none"
  BY NothingPendingType DEF Root, Block
<1>2. blocks = <<Root>> /\ Len(blocks) = 1 /\ blocks[1] = Root /\ DOMAIN blocks = {1}
  BY DEF Init
<1>3. BlocksOK
  BY <1>1, <1>2, BoundAssumption DEF BlocksOK
<1>4. LabelsOK /\ Len(labels) = 1
  BY SmallTables DEF Init, LabelsOK
<1>5. InitialDeclarations \in SUBSET Declaration
  BY DeclarationAssumption
<1>6. DeclarationsOK /\ Len(declarations) = 1
  <2>1. TableOf(InitialDeclarations) \in Tables(Name, Declaration)
    BY <1>5, TableOfDeclarations
  <2> QED BY <2>1 DEF Init, DeclarationsOK
<1>7. Refers(InitialDeclarations) \subseteq Name
  BY <1>5 DEF Refers, Declaration
<1>8. TypeOK
  BY <1>2, <1>3, <1>4, <1>6, <1>7, TypeParts DEF Init, BooksOK, StacksOK
<1>9. Root.assumptionsInForce = 0 /\ Root.arbitraryInForce = 0
  BY DEF Root
<1>10. Len(assumptionStack) = 0 /\ Len(arbitraryNames) = 0
  BY DEF Init
<1>11. StacksReachBack
  BY <1>2, <1>9, <1>10 DEF StacksReachBack
<1>12. InForceAfter(1) = 0
  BY <1>2, <1>9 DEF InForceAfter
<1>13. Depth = 1 /\ \A i \in 1 .. 1 : i = 1
  BY <1>2 DEF Depth
<1>14. AssumptionsAreInForce
  BY <1>2, <1>9, <1>10, <1>12, <1>13 DEF AssumptionsAreInForce
<1> QED BY <1>8, <1>11, <1>14 DEF Invariant, InForce

(* Every step keeps the types: one case for each kind of line.             *)
LEMMA NextKeepsTypes ==
  ASSUME TypeOK, StacksReachBack, [Next]_vars
  PROVE  TypeOK'
<1>1. CASE GivenStep
  <2>1. PICK ds \in DeclarationLists \cup {<<>>} :
          \/ \E tag \in {"declare", "premise"} : DeclareOnly(tag, ds)
          \/ \E phi \in DeclareLines : \E l \in LabelsOf(<<phi>>, Depth) : DeclareFormula(l, phi, ds)
          \/ \E fs \in PremiseLists : \E l \in LabelsOf(fs, Depth) : PremiseLine(l, fs, ds)
    BY <1>1 DEF GivenStep
  <2>2. ds \in Seq(Declaration)
    BY Inputs
  <2>3. CASE \E tag \in {"declare", "premise"} : DeclareOnly(tag, ds)
    BY <2>2, <2>3, DeclareOnlyKeepsTypes
  <2>4. CASE \E phi \in DeclareLines : \E l \in LabelsOf(<<phi>>, Depth) : DeclareFormula(l, phi, ds)
    <3>1. PICK phi \in DeclareLines : \E l \in LabelsOf(<<phi>>, Depth) : DeclareFormula(l, phi, ds)
      BY <2>4
    <3>2. phi \in Formula
      BY FormulaAssumption
    <3>3. PICK l \in Label \cup {NoLabel} : DeclareFormula(l, phi, ds)
      BY <3>1, <3>2, Inputs
    <3> QED BY <2>2, <3>2, <3>3, DeclareFormulaKeepsTypes
  <2>5. CASE \E fs \in PremiseLists : \E l \in LabelsOf(fs, Depth) : PremiseLine(l, fs, ds)
    <3>1. PICK fs \in PremiseLists : \E l \in LabelsOf(fs, Depth) : PremiseLine(l, fs, ds)
      BY <2>5
    <3>2. fs \in Seq(Formula) /\ fs # <<>>
      BY FormulaAssumption
    <3>3. PICK l \in Label \cup {NoLabel} : PremiseLine(l, fs, ds)
      BY <3>1, Inputs
    <3> QED BY <2>2, <3>2, <3>3, PremiseLineKeepsTypes
  <2> QED BY <2>1, <2>3, <2>4, <2>5
<1>2. CASE \E phi \in Formula : \E l \in LabelsOf(<<phi>>, Depth) : AxiomLine(l, phi)
  BY <1>2, Inputs, AxiomLineKeepsTypes
<1>3. CASE RuleStep
  <2>1. PICK rule, phi, l, cites :
          /\ rule \in Rule /\ phi \in Claims(rule) /\ l \in LabelsOf(<<phi>>, Depth) /\ cites \in Cites(rule)
          /\ \/ \E ds \in DeclarationLists \cup {<<>>} : RuleLine(l, phi, rule, cites, ds)
             \/ \E count \in 0 .. Arity(rule) : BeginHybrid(l, phi, rule, cites, count)
    BY <1>3, Zenon DEF RuleStep
  <2>2. phi \in Formula /\ 0 .. Arity(rule) \subseteq Nat
    BY <2>1, RuleAssumption
  <2>3. l \in Label \cup {NoLabel}
    BY <2>1, <2>2, Inputs
  <2>4. cites \in Seq(Label)
    BY <2>1, CitesAreLabels
  <2>5. CASE \E ds \in DeclarationLists \cup {<<>>} : RuleLine(l, phi, rule, cites, ds)
    BY <2>2, <2>3, <2>5, Inputs, RuleLineKeepsTypes
  <2>6. CASE \E count \in 0 .. Arity(rule) : BeginHybrid(l, phi, rule, cites, count)
    <3>1. PICK count \in Nat : BeginHybrid(l, phi, rule, cites, count)
      BY <2>2, <2>6
    <3> QED BY <2>1, <2>2, <2>3, <2>4, <3>1, BeginHybridKeepsTypes
  <2> QED BY <2>1, <2>5, <2>6
<1>4. CASE BelowStep
  <2>1. PICK rule, phi, l, count :
          /\ rule \in BelowRule /\ phi \in Claims(rule) /\ l \in LabelsOf(<<phi>>, Depth)
          /\ BeginBelow(l, phi, rule, count)
    BY <1>4, Zenon DEF BelowStep
  <2>2. rule \in Rule /\ phi \in Formula
    BY <2>1, RuleAssumption
  <2>3. l \in Label \cup {NoLabel}
    BY <2>1, <2>2, Inputs
  <2> QED BY <2>1, <2>2, <2>3, BeginBelowKeepsTypes
<1>5. CASE JudgeBelow \/ JudgeHybrid
  BY <1>5, JudgeBelowKeepsTypes, JudgeHybridKeepsTypes
<1>6. CASE SubproofStep
  <2>1. CASE \E l \in LabelsOf(<<>>, Depth) : BeginSubproof(l)
    BY <2>1, Inputs, BeginSubproofKeepsTypes
  <2>2. CASE \E phi \in AssumeLines : \E l \in LabelsOf(<<phi>>, Depth + 1) : OpenAssuming(l, phi)
    <3>1. PICK phi, l : phi \in AssumeLines /\ l \in LabelsOf(<<phi>>, Depth + 1) /\ OpenAssuming(l, phi)
      BY <2>2
    <3>2. phi \in Formula /\ Depth < MaxDepth
      BY <3>1, FormulaAssumption DEF OpenAssuming, Awaiting
    <3>3. l \in Label \cup {NoLabel}
      BY <3>1, <3>2, Inputs
    <3> QED BY <3>1, <3>2, <3>3, OpenAssumingKeepsTypes
  <2>3. CASE \E phi \in FreshLines : \E l \in LabelsOf(<<phi>>, Depth + 1) : OpenFresh(l, phi)
    <3>1. PICK phi, l : phi \in FreshLines /\ l \in LabelsOf(<<phi>>, Depth + 1) /\ OpenFresh(l, phi)
      BY <2>3
    <3>2. phi \in Formula /\ Depth < MaxDepth
      BY <3>1, FormulaAssumption DEF OpenFresh, Awaiting
    <3>3. l \in Label \cup {NoLabel}
      BY <3>1, <3>2, Inputs
    <3> QED BY <3>1, <3>2, <3>3, OpenFreshKeepsTypes
  <2>4. CASE OpenBadly \/ \E phi \in AssumeLines \cup FreshLines : MisplacedOpening(phi)
    BY <2>4, BadOpeningKeepsTypes
  <2>5. CASE CloseBlock
    BY <2>5, CloseBlockKeepsTypes
  <2> QED BY <1>6, <2>1, <2>2, <2>3, <2>4, <2>5 DEF SubproofStep
<1>7. CASE Finish
  BY <1>7 DEF Finish, Refusals, TypeOK, declared, granted, inForce, IsScope, IsTable
<1>8. CASE Done \/ UNCHANGED vars
  BY <1>8 DEF Done, vars, TypeOK, declared, granted, inForce, IsScope, IsTable
<1> QED BY <1>1, <1>2, <1>3, <1>4, <1>5, <1>6, <1>7, <1>8 DEF Next

(* And every step keeps the stacks.                                        *)
LEMMA NextKeepsStacks ==
  ASSUME TypeOK, TypeOK', InForce, [Next]_vars
  PROVE  InForce'
<1>1. CASE GivenStep
  <2>1. \/ \E tag, ds : DeclareOnly(tag, ds)
        \/ \E l, phi, ds : DeclareFormula(l, phi, ds)
        \/ \E l, fs, ds : PremiseLine(l, fs, ds)
    BY <1>1, Zenon DEF GivenStep
  <2> QED BY <2>1, DeclareOnlyKeepsStacks, LinesKeepStacks
<1>2. CASE \E phi \in Formula : \E l \in LabelsOf(<<phi>>, Depth) : AxiomLine(l, phi)
  BY <1>2, LinesKeepStacks
<1>3. CASE RuleStep
  <2>1. \/ \E l, phi, rule, cites, ds : RuleLine(l, phi, rule, cites, ds)
        \/ \E l, phi, rule, cites, count : BeginHybrid(l, phi, rule, cites, count)
    BY <1>3, Zenon DEF RuleStep
  <2> QED BY <2>1, LinesKeepStacks
<1>4. CASE BelowStep
  <2>1. \E l, phi, rule, count : BeginBelow(l, phi, rule, count)
    BY <1>4, Zenon DEF BelowStep
  <2> QED BY <2>1, LinesKeepStacks
<1>5. CASE JudgeBelow \/ JudgeHybrid \/ Finish \/ Done \/ UNCHANGED vars
  BY <1>5, LinesKeepStacks
<1>6. CASE SubproofStep
  <2>1. \/ \E l : BeginSubproof(l)
        \/ \E l, phi : OpenAssuming(l, phi) \/ OpenFresh(l, phi)
        \/ OpenBadly \/ \E phi : MisplacedOpening(phi)
        \/ CloseBlock
    BY <1>6, Zenon DEF SubproofStep
  <2> QED BY <2>1, LinesKeepStacks, OpeningsKeepStacks, CloseBlockKeepsStacks
<1> QED BY <1>1, <1>2, <1>3, <1>4, <1>5, <1>6 DEF Next

(* The inductive invariant holds in every state the validator reaches: its *)
(* state is of its type, and its stacks agree with the blocks it has open. *)
THEOREM InvariantHolds == Spec => []Invariant
<1>1. Invariant /\ [Next]_vars => Invariant'
  BY NextKeepsTypes, NextKeepsStacks DEF Invariant, InForce
<1> QED BY <1>1, InitHasInvariant, PTL DEF Spec

(* The state of the validator is always of its type: the scopes of labels  *)
(* and of declarations have a table for each open block, and a line that   *)
(* awaits its subproofs awaits them as a line that states something.       *)
THEOREM TypesHold == Spec => []TypeOK
BY InvariantHolds, PTL DEF Invariant

(* No stack is ever struck back beyond what the blocks around a closing    *)
(* subproof pushed.                                                        *)
THEOREM StacksNeverOvershoot == Spec => []StacksReachBack
BY InvariantHolds, PTL DEF Invariant, InForce

(* However subproofs are opened and closed, the hypotheses a rule is shown *)
(* include the assumptions of the open subproofs, and no closed one's.     *)
THEOREM OpenAssumptionsAreInForce == Spec => []AssumptionsAreInForce
BY InvariantHolds, PTL DEF Invariant, InForce

-----------------------------------------------------------------------------
(* Chains of tables.                                                       *)

(* All but the last index of a chain.                                      *)
LEMMA BeforeTheLast ==
  ASSUME NEW n \in Nat, NEW i \in 1 .. n, i # n
  PROVE  i \in 1 .. n - 1
OBVIOUS

(* Two sequences that agree up to n have the same beginning.               *)
LEMMA SameBeginning ==
  ASSUME NEW S, NEW s \in Seq(S), NEW t \in Seq(S), NEW n \in Nat, n <= Len(s), n <= Len(t),
         \A i \in 1 .. n : s[i] = t[i]
  PROVE  SubSeq(s, 1, n) = SubSeq(t, 1, n)
<1> DEFINE a == SubSeq(s, 1, n)
           b == SubSeq(t, 1, n)
<1>1. /\ a \in Seq(S) /\ Len(a) = n /\ \A i \in 1 .. n : a[i] = s[i]
      /\ b \in Seq(S) /\ Len(b) = n /\ \A i \in 1 .. n : b[i] = t[i]
  OBVIOUS
<1> HIDE DEF a, b
<1>2. a \in [1 .. n -> S] /\ b \in [1 .. n -> S] /\ \A i \in 1 .. n : a[i] = b[i]
  BY <1>1
<1>3. a = b
  BY <1>2
<1> QED BY <1>3 DEF a, b

(* The two scopes extend in the same sense.                                *)
LEMMA OneSenseOfExtension ==
  \A from, to : LabelNames!Extends(from, to) <=> SymbolNames!Extends(from, to)
BY DEF LabelNames!Extends, SymbolNames!Extends, LabelNames!Outside, SymbolNames!Outside,
       LabelNames!Innermost, SymbolNames!Innermost, LabelNames!New, SymbolNames!New,
       LabelNames!Visible, SymbolNames!Visible

(* Binding names that are bound nowhere in a chain extends it by them.     *)
LEMMA BindingExtends ==
  ASSUME NEW K, NEW V, NEW chain \in Seq(Tables(K, V)), Len(chain) > 0,
         NEW table \in Tables(K, V), \A k \in DOMAIN table : ~ IsBound(chain, k)
  PROVE  /\ LabelNames!Extends(chain, BindAll(chain, table))
         /\ LabelNames!New(chain, BindAll(chain, table)) \subseteq DOMAIN table
         /\ \A k \in DOMAIN table : LabelNames!Innermost(BindAll(chain, table))[k] = table[k]
<1> DEFINE n   == Len(chain)
           old == chain[n]
           new == [k \in DOMAIN old \cup DOMAIN table |->
                     IF k \in DOMAIN table THEN table[k] ELSE old[k]]
           to  == BindAll(chain, table)
<1>1. n \in DOMAIN chain /\ n \in Nat /\ n > 0
  OBVIOUS
<1>2. to = [chain EXCEPT ![n] = new]
  BY DEF BindAll
<1> HIDE DEF new
<1>3. Len(to) = n /\ to[n] = new /\ \A i \in 1 .. n - 1 : to[i] = chain[i]
  BY <1>1, <1>2
<1>4. SubSeq(to, 1, n - 1) = SubSeq(chain, 1, n - 1)
  <2>1. to \in Seq(Tables(K, V))
    BY BindAllKeepsScope
  <2>2. \A i \in 1 .. n - 1 : to[i] = chain[i]
    BY <1>3
  <2>3. n - 1 \in Nat /\ n - 1 <= Len(to) /\ n - 1 <= Len(chain)
    BY <1>1, <1>3
  <2> HIDE DEF to, n
  <2> QED BY <2>1, <2>2, <2>3, SameBeginning
<1>5. /\ DOMAIN new = DOMAIN old \cup DOMAIN table
      /\ \A k \in DOMAIN table : new[k] = table[k]
      /\ \A k \in DOMAIN old : k \notin DOMAIN table => new[k] = old[k]
  BY DEF new
<1>6. \A k \in DOMAIN table : k \notin LabelNames!Visible(chain) /\ k \notin DOMAIN old
  BY <1>1 DEF IsBound, LabelNames!Visible
<1> HIDE DEF to
<1>7. LabelNames!New(chain, to) = DOMAIN table
  BY <1>3, <1>5, <1>6 DEF LabelNames!New, LabelNames!Innermost
<1>8. LabelNames!Extends(chain, to)
  BY <1>3, <1>4, <1>5, <1>6, <1>7
  DEF LabelNames!Extends, LabelNames!Outside, LabelNames!Innermost
<1> QED BY <1>3, <1>5, <1>7, <1>8 DEF LabelNames!Innermost, to

(* What a chain that was extended twice has been extended by.              *)
LEMMA ExtensionsCompose ==
  ASSUME NEW a, NEW b, NEW c, LabelNames!Extends(a, b), LabelNames!Extends(b, c),
         Len(a) \in Nat, Len(a) > 0, DOMAIN a = 1 .. Len(a), DOMAIN b = 1 .. Len(b)
  PROVE  /\ LabelNames!Extends(a, c)
         /\ LabelNames!New(a, c) \subseteq LabelNames!New(a, b) \cup LabelNames!New(b, c)
<1> DEFINE n == Len(a)
<1>1. Len(b) = n /\ Len(c) = n /\ n \in 1 .. n
  BY DEF LabelNames!Extends
<1>2. /\ LabelNames!Outside(b) = LabelNames!Outside(a)
      /\ LabelNames!Outside(c) = LabelNames!Outside(b)
      /\ \A k \in DOMAIN a[n] : k \in DOMAIN b[n] /\ b[n][k] = a[n][k]
      /\ \A k \in DOMAIN b[n] : k \in DOMAIN c[n] /\ c[n][k] = b[n][k]
      /\ LabelNames!New(a, b) \cap LabelNames!Visible(a) = {}
      /\ LabelNames!New(b, c) \cap LabelNames!Visible(b) = {}
  BY <1>1 DEF LabelNames!Extends, LabelNames!Innermost
<1>3. /\ LabelNames!New(a, b) = DOMAIN b[n] \ DOMAIN a[n]
      /\ LabelNames!New(b, c) = DOMAIN c[n] \ DOMAIN b[n]
      /\ LabelNames!New(a, c) = DOMAIN c[n] \ DOMAIN a[n]
  BY <1>1 DEF LabelNames!New, LabelNames!Innermost
<1>4. LabelNames!Visible(a) \subseteq LabelNames!Visible(b)
  <2> SUFFICES ASSUME NEW i \in 1 .. n, NEW k \in DOMAIN a[i] PROVE k \in DOMAIN b[i]
    BY <1>1 DEF LabelNames!Visible
  <2>1. CASE i = n
    BY <1>2, <2>1
  <2>2. CASE i # n
    <3>1. SubSeq(a, 1, n - 1) = SubSeq(b, 1, n - 1)
      BY <1>1, <1>2 DEF LabelNames!Outside
    <3>2. i \in 1 .. n - 1
      BY <2>2, BeforeTheLast
    <3>3. SubSeq(a, 1, n - 1)[i] = a[i] /\ SubSeq(b, 1, n - 1)[i] = b[i]
      BY <3>2
    <3> QED BY <3>1, <3>3
  <2> QED BY <2>1, <2>2
<1> QED BY <1>1, <1>2, <1>3, <1>4 DEF LabelNames!Extends, LabelNames!Innermost

(* A chain extends itself, by nothing.                                     *)
LEMMA ExtensionByNothing ==
  \A a : LabelNames!Extends(a, a) /\ LabelNames!New(a, a) = {}
BY DEF LabelNames!Extends, LabelNames!New

(* What the chain held it holds, table by table.                           *)
LEMMA ExtensionsKeep ==
  ASSUME NEW T, NEW a \in Seq(T), NEW b \in Seq(T), Len(a) > 0, LabelNames!Extends(a, b)
  PROVE  /\ Len(b) = Len(a)
         /\ \A i \in 1 .. Len(a) - 1 : b[i] = a[i]
         /\ \A i \in 1 .. Len(a) : Kept(a[i], b[i])
         /\ \A i \in 1 .. Len(a) : \A k : (\E j \in 1 .. Len(a) : k \in DOMAIN a[j]) =>
              (k \in DOMAIN b[i] <=> k \in DOMAIN a[i])
<1> DEFINE n == Len(a)
<1>1. Len(b) = n /\ n \in 1 .. n /\ n \in Nat
  BY DEF LabelNames!Extends
<1>2. \A i \in 1 .. n - 1 : b[i] = a[i]
  <2>1. SubSeq(a, 1, n - 1) = SubSeq(b, 1, n - 1)
    BY <1>1 DEF LabelNames!Extends, LabelNames!Outside
  <2>2. \A i \in 1 .. n - 1 : SubSeq(a, 1, n - 1)[i] = a[i] /\ SubSeq(b, 1, n - 1)[i] = b[i]
    BY <1>1
  <2> QED BY <2>1, <2>2
<1>3. \A k \in DOMAIN a[n] : k \in DOMAIN b[n] /\ b[n][k] = a[n][k]
  BY <1>1 DEF LabelNames!Extends, LabelNames!Innermost
<1>4. \A k : (\E j \in 1 .. n : k \in DOMAIN a[j]) => (k \in DOMAIN b[n] <=> k \in DOMAIN a[n])
  <2>1. DOMAIN a = 1 .. n
    OBVIOUS
  <2> QED BY <1>1, <1>3, <2>1 DEF LabelNames!Extends, LabelNames!Innermost, LabelNames!New, LabelNames!Visible
<1>5. \A i \in 1 .. n : i = n \/ i \in 1 .. n - 1
  BY <1>1
<1> QED BY <1>1, <1>2, <1>3, <1>4, <1>5 DEF Kept

(* Extension never lets a name hide another.                               *)
LEMMA ExtensionsKeepUnique ==
  ASSUME NEW T, NEW a \in Seq(T), NEW b \in Seq(T), Len(a) > 0, LabelNames!Extends(a, b),
         NoShadowing(a)
  PROVE  NoShadowing(b)
<1> DEFINE n == Len(a)
<1>1. n \in 1 .. n /\ n \in Nat /\ DOMAIN a = 1 .. n /\ Len(b) = n /\ DOMAIN b = 1 .. n
  BY ExtensionsKeep
<1> SUFFICES ASSUME NEW i \in 1 .. n, NEW j \in 1 .. n, i # j,
                    NEW k, k \in DOMAIN b[i], k \in DOMAIN b[j]
             PROVE  FALSE
  BY <1>1 DEF NoShadowing
<1>2. \A m \in 1 .. n : m # n => b[m] = a[m]
  <2>1. \A m \in 1 .. n : m # n => m \in 1 .. n - 1
    BY <1>1, BeforeTheLast
  <2> QED BY <2>1, ExtensionsKeep
<1>3. \E m \in 1 .. n : k \in DOMAIN a[m]
  BY <1>2
<1>4. k \in DOMAIN a[i] /\ k \in DOMAIN a[j]
  BY <1>3, ExtensionsKeep
<1> QED BY <1>1, <1>4 DEF NoShadowing

(* A new innermost table whose names are bound nowhere.                    *)
LEMMA AppendingEnters ==
  ASSUME NEW T, NEW chain \in Seq(T), NEW table \in T,
         \A k \in DOMAIN table : ~ IsBound(chain, k)
  PROVE  LET to == Append(chain, table)
         IN  /\ to \in Seq(T) /\ Len(to) = Len(chain) + 1
             /\ \A i \in 1 .. Len(chain) : to[i] = chain[i]
             /\ LabelNames!Outside(to) = chain
             /\ LabelNames!Innermost(to) = table
             /\ DOMAIN table \cap LabelNames!Visible(chain) = {}
             /\ NoShadowing(chain) => NoShadowing(to)
<1> DEFINE to == Append(chain, table)
           n  == Len(chain)
<1>1. /\ to \in Seq(T) /\ n \in Nat /\ Len(to) = n + 1 /\ to[n + 1] = table
      /\ DOMAIN chain = 1 .. n /\ DOMAIN to = 1 .. n + 1
      /\ \A i \in 1 .. n : to[i] = chain[i]
  OBVIOUS
<1> HIDE DEF to
<1>2. SubSeq(to, 1, n) = chain
  <2>1. SubSeq(to, 1, n) = SubSeq(chain, 1, n)
    BY <1>1, SameBeginning
  <2> QED BY <2>1, SubSeqFull
<1>3. LabelNames!Outside(to) = chain
  BY <1>1, <1>2 DEF LabelNames!Outside
<1>4. DOMAIN table \cap LabelNames!Visible(chain) = {}
  BY DEF IsBound, LabelNames!Visible
<1>5. NoShadowing(chain) => NoShadowing(to)
  <2>1. \A i \in 1 .. n + 1 : i = n + 1 \/ i \in 1 .. n
    BY <1>1
  <2>2. \A i \in 1 .. n : DOMAIN chain[i] \cap DOMAIN table = {}
    BY <1>1 DEF IsBound
  <2> QED BY <1>1, <2>1, <2>2 DEF NoShadowing
<1> QED BY <1>1, <1>3, <1>4, <1>5 DEF LabelNames!Innermost, to

(* The innermost table goes.                                               *)
LEMMA ParentLeaves ==
  ASSUME NEW T, NEW chain \in Seq(T), Len(chain) > 1
  PROVE  /\ Parent(chain) \in Seq(T) /\ Len(Parent(chain)) = Len(chain) - 1
         /\ \A i \in 1 .. Len(chain) - 1 : Parent(chain)[i] = chain[i]
         /\ Parent(chain) = LabelNames!Outside(chain)
         /\ NoShadowing(chain) => NoShadowing(Parent(chain))
<1> DEFINE n == Len(chain) - 1
           p == Parent(chain)
<1>1. /\ p \in Seq(T) /\ n \in Nat /\ n > 0 /\ Len(p) = n
      /\ DOMAIN p = 1 .. n /\ DOMAIN chain = 1 .. n + 1
      /\ \A i \in 1 .. n : p[i] = chain[i] /\ i \in 1 .. n + 1
  BY DEF Parent
<1>2. p = LabelNames!Outside(chain)
  BY DEF Parent, LabelNames!Outside
<1> HIDE DEF p
<1>3. NoShadowing(chain) => NoShadowing(p)
  BY <1>1 DEF NoShadowing
<1> QED BY <1>1, <1>2, <1>3 DEF p

-----------------------------------------------------------------------------
(* What the checks of a line leave to hold when they find nothing.         *)

(* A check that finds nothing was made of checks that found nothing.       *)
LEMMA NothingFound ==
  \A e, f : (e ?? f) = {} => e = {} /\ f = {}
BY DEF ??

(* Of several indices one is the first.                                    *)
LEMMA FirstIndex ==
  ASSUME NEW S \in SUBSET Nat, S # {}
  PROVE  \E i \in S : \A j \in S : i <= j
<1> DEFINE less == OpToRel(<, Nat)
<1>1. IsWellFoundedOn(less, Nat)
  BY NatLessThanWellFounded
<1>2. \A i, j \in Nat : <<j, i>> \notin less => i <= j
  BY DEF OpToRel
<1> HIDE DEF less
<1>3. \E i \in S : \A j \in S : <<j, i>> \notin less
  BY <1>1, WFMin
<1> QED BY <1>2, <1>3

(* New declarations extend a scope.                                        *)
LEMMA DeclaringExtends ==
  ASSUME NEW chain \in Seq(Tables(Name, Declaration)), Len(chain) > 0,
         NEW D \in SUBSET Declaration, \A d \in D : ~ IsBound(chain, d.name)
  PROVE  LabelNames!Extends(chain, Declare(chain, D))
<1>1. TableOf(D) \in Tables(Name, Declaration)
  BY TableOfDeclarations
<1>2. \A k \in DOMAIN TableOf(D) : ~ IsBound(chain, k)
  BY DEF TableOf
<1>3. LabelNames!Extends(chain, BindAll(chain, TableOf(D)))
  BY <1>1, <1>2, BindingExtends
<1> QED BY <1>3 DEF Declare

(* So do those a line makes, and those it is read to make on top of them.  *)
LEMMA LineDeclaresNew ==
  ASSUME NEW chain \in Seq(Tables(Name, Declaration)), Len(chain) > 0,
         NEW ds \in Seq(Declaration), ConflictErrors(chain, ds) = {},
         NEW fs \in SUBSET Formula, NEW inferred,
         inferred \in {{}, Inferred(Declare(chain, ToSet(ds)), fs)}
  PROVE  /\ LabelNames!Extends(chain, Declare(chain, ToSet(ds)))
         /\ LabelNames!Extends(chain, Declare(Declare(chain, ToSet(ds)), inferred))
<1> DEFINE explicit == Declare(chain, ToSet(ds))
<1>1. ToSet(ds) \in SUBSET Declaration /\ \A d \in ToSet(ds) : ~ IsBound(chain, d.name)
  <2>1. \A i \in DOMAIN ds : ~ IsBound(chain, ds[i].name)
    BY DEF ConflictErrors, Check
  <2> QED BY <2>1 DEF ToSet
<1>2. explicit \in Seq(Tables(Name, Declaration)) /\ Len(explicit) = Len(chain)
  BY <1>1, DeclareKeepsScope
<1>3. LabelNames!Extends(chain, explicit)
  BY <1>1, DeclaringExtends
<1>4. inferred \in SUBSET Declaration /\ \A d \in inferred : ~ IsBound(explicit, d.name)
  <2>1. Inferred(explicit, fs) \in SUBSET Declaration
    BY InferredAreDeclarations
  <2>2. \A d \in Inferred(explicit, fs) : ~ IsBound(explicit, d.name)
    BY DEF Inferred
  <2> QED BY <2>1, <2>2
<1> HIDE DEF explicit
<1>5. Len(explicit) > 0
  BY <1>2
<1>6. LabelNames!Extends(explicit, Declare(explicit, inferred))
  BY <1>2, <1>4, <1>5, DeclaringExtends
<1>7. /\ Len(chain) \in Nat /\ DOMAIN chain = 1 .. Len(chain)
      /\ DOMAIN explicit = 1 .. Len(explicit)
  BY <1>2
<1>8. LabelNames!Extends(chain, Declare(explicit, inferred))
  BY <1>3, <1>6, <1>7, ExtensionsCompose
<1> QED BY <1>3, <1>8 DEF explicit

-----------------------------------------------------------------------------
(* The effects a step can have on the lines and the names of the blocks.   *)

Extended == LabelNames!Extends(declarations, declarations')

Rests == UNCHANGED <<blocks, labels, declarations>>

Waits ==
  \E entry : /\ Await(entry)
             /\ entry.tag \in {"rule_below", "rule_hybrid"} =>
                  SymbolErrors(declarations, entry.phi) = {}

Declares == UNCHANGED <<blocks, labels>> /\ Extended

States ==
  \E l \in Label \cup {NoLabel}, fs \in Seq(Formula) :
    /\ fs # <<>>
    /\ LabelErrors(l) = {}
    /\ Derive(l, fs)
    /\ Extended
    /\ \/ \A f \in ToSet(fs) : SymbolErrors(declarations', f) = {}
       \/ /\ Top.pending.tag \in {"rule_below", "rule_hybrid"}
          /\ ToSet(fs) = {Top.pending.phi}
          /\ UNCHANGED declarations

Opens ==
  \E l \in Label \cup {NoLabel}, phi \in Formula, fresh \in BOOLEAN,
     table \in Tables(Name, Declaration) :
    /\ LabelErrors(l) = {}
    /\ Open(l, phi, fresh, Append(declarations, table))
    /\ \A k \in DOMAIN table : ~ IsBound(declarations, k)
    /\ ~ fresh => table = EmptyTable /\ SymbolErrors(declarations, phi) = {}

(* The block around takes the record as a line of its own, or for the line *)
(* that awaits it.                                                         *)
TakenAsLine(n, record) ==
  [SubSeq(blocks, 1, n) EXCEPT ![n].seen    = @ \cup {record},
                               ![n].last    = NoFormula,
                               ![n].pending = NothingPending]
TakenBelow(n, record) ==
  [SubSeq(blocks, 1, n) EXCEPT ![n].pending.records = Append(@, record)]

Closes ==
  \E record \in SubproofRecord, l \in Label \cup {NoLabel} :
    LET n == Depth - 1
    IN  /\ Depth > 1
        /\ l = NoLabel \/ ~ IsBound(Parent(labels), l)
        /\ blocks' = TakenAsLine(n, record) \/ (blocks' = TakenBelow(n, record) /\ l = NoLabel)
        /\ labels' = IF l = NoLabel THEN Parent(labels)
                     ELSE BindAll(Parent(labels), Single(l, <<record>>))
        /\ declarations' = Parent(declarations)

Effect == Rests \/ Waits \/ Declares \/ States \/ Opens \/ Closes

(* A refusal has none.                                                     *)
LEMMA RefusalsRest ==
  \A errors : Refuse(errors) => Rests
BY DEF Refuse, Rests, declared

(* The parts of the type that the effects need.                            *)
LEMMA ScopesAreTyped ==
  ASSUME TypeOK
  PROVE  /\ declarations \in Seq(Tables(Name, Declaration)) /\ Len(declarations) = Len(blocks)
         /\ labels \in Seq(Tables(Label, Seq(Item))) /\ Len(labels) = Len(blocks)
         /\ blocks \in Seq(Block) /\ Len(blocks) \in Nat /\ Len(blocks) > 0
         /\ Depth = Len(blocks) /\ DOMAIN blocks = 1 .. Len(blocks)
BY TypeParts, SequencesAreTyped DEF DeclarationsOK, LabelsOK, Depth

(* A line that only declares.                                              *)
LEMMA DeclareOnlyEffect ==
  ASSUME TypeOK, NEW tag, NEW ds \in Seq(Declaration), DeclareOnly(tag, ds)
  PROVE  Effect
<1>1. CASE \E errors : Refuse(errors)
  BY <1>1, RefusalsRest DEF Effect
<1>2. CASE /\ ConflictErrors(declarations, ds) = {}
           /\ Register(ds, Declare(declarations, ToSet(ds)))
           /\ UNCHANGED <<blocks, labels>>
  <2>1. LabelNames!Extends(declarations, Declare(declarations, ToSet(ds)))
    BY <1>2, LineDeclaresNew, ScopesAreTyped
  <2> QED BY <1>2, <2>1 DEF Register, Extended, Declares, Effect
<1> QED BY <1>1, <1>2 DEF DeclareOnly

(* A declare line that states something.                                   *)
LEMMA DeclareFormulaEffect ==
  ASSUME TypeOK, NEW l \in Label \cup {NoLabel}, NEW phi \in Formula, NEW ds \in Seq(Declaration),
         DeclareFormula(l, phi, ds)
  PROVE  Effect
<1> DEFINE explicit == Declare(declarations, ToSet(ds))
           inferred == Inferred(explicit, {phi})
           chain    == Declare(explicit, inferred)
<1>1. CASE \E errors : Refuse(errors)
  BY <1>1, RefusalsRest DEF Effect
<1>2. CASE /\ ConflictErrors(declarations, ds) = {} /\ StatementErrors(chain, phi) = {}
           /\ LabelErrors(l) = {}
           /\ Register(ds, chain) /\ Derive(l, <<phi>>)
  <2>1. {phi} \in SUBSET Formula /\ <<phi>> \in Seq(Formula) /\ <<phi>> # <<>> /\ ToSet(<<phi>>) = {phi}
    BY DEF ToSet
  <2>2. LabelNames!Extends(declarations, chain)
    BY <1>2, <2>1, LineDeclaresNew, ScopesAreTyped
  <2>3. SymbolErrors(chain, phi) = {}
    BY <1>2, NothingFound DEF StatementErrors
  <2> HIDE DEF chain
  <2>4. declarations' = chain
    BY <1>2 DEF Register
  <2>5. States
    BY <1>2, <2>1, <2>2, <2>3, <2>4 DEF States, Extended
  <2> QED BY <2>5 DEF Effect
<1> QED BY <1>1, <1>2, Zenon DEF DeclareFormula, ??

(* A premise line.                                                         *)
LEMMA PremiseLineEffect ==
  ASSUME TypeOK, NEW l \in Label \cup {NoLabel}, NEW fs \in Seq(Formula), fs # <<>>,
         NEW ds \in Seq(Declaration), PremiseLine(l, fs, ds)
  PROVE  Effect
<1> DEFINE explicit  == Declare(declarations, ToSet(ds))
           inferred  == IF ds = <<>> THEN {} ELSE Inferred(explicit, ToSet(fs))
           chain     == Declare(explicit, inferred)
           Errors(f) == StatementErrors(chain, f) ?? MembershipErrors(f, Premises, FALSE)
           bad       == {i \in DOMAIN fs : Errors(fs[i]) # {}}
           first     == CHOOSE i \in bad : \A j \in bad : i <= j
<1>1. CASE \E errors : Refuse(errors)
  BY <1>1, RefusalsRest DEF Effect
<1>2. CASE /\ ConflictErrors(declarations, ds) = {}
           /\ bad = {} \/ Errors(fs[first]) = {}
           /\ LabelErrors(l) = {}
           /\ Register(ds, chain) /\ Derive(l, fs)
  <2>1. ToSet(fs) \in SUBSET Formula /\ DOMAIN fs \subseteq Nat
    BY DEF ToSet
  <2>2. inferred \in {{}, Inferred(explicit, ToSet(fs))}
    OBVIOUS
  <2>3. LabelNames!Extends(declarations, chain)
    BY <1>2, <2>1, <2>2, LineDeclaresNew, ScopesAreTyped
  <2> HIDE DEF chain
  <2>4. bad = {}
    <3>1. bad \in SUBSET Nat /\ \A i \in bad : Errors(fs[i]) # {}
      BY <2>1
    <3> HIDE DEF bad
    <3>2. bad # {} => first \in bad
      <4>1. bad # {} => \E i \in bad : \A j \in bad : i <= j
        BY <3>1, FirstIndex
      <4> QED BY <4>1
    <3> QED BY <1>2, <3>1, <3>2
  <2>5. \A f \in ToSet(fs) : SymbolErrors(chain, f) = {}
    <3>1. \A i \in DOMAIN fs : Errors(fs[i]) = {}
      BY <2>4
    <3>2. \A i \in DOMAIN fs : SymbolErrors(chain, fs[i]) = {}
      BY <3>1, Zenon DEF StatementErrors, ??
    <3> QED BY <3>2 DEF ToSet
  <2>6. declarations' = chain
    BY <1>2 DEF Register
  <2>7. States
    BY <1>2, <2>3, <2>5, <2>6 DEF States, Extended
  <2> QED BY <2>7 DEF Effect
<1> QED BY <1>1, <1>2, Zenon DEF PremiseLine, FirstErrors, ??

(* A line that states something and declares nothing.                      *)
LEMMA StatingAloneIsAnEffect ==
  ASSUME NEW l \in Label \cup {NoLabel}, NEW phi \in Formula, Derive(l, <<phi>>),
         LabelErrors(l) = {}, UNCHANGED declarations,
         \/ SymbolErrors(declarations, phi) = {}
         \/ Top.pending.tag \in {"rule_below", "rule_hybrid"} /\ phi = Top.pending.phi
  PROVE  Effect
<1>1. <<phi>> \in Seq(Formula) /\ <<phi>> # <<>> /\ ToSet(<<phi>>) = {phi}
  BY DEF ToSet
<1>2. Extended
  BY ExtensionByNothing DEF Extended
<1>3. SymbolErrors(declarations', phi) = SymbolErrors(declarations, phi)
  OBVIOUS
<1> HIDE DEF Derive
<1>4. States
  BY <1>1, <1>2, <1>3 DEF States
<1> QED BY <1>4 DEF Effect

(* An axiom line.                                                          *)
LEMMA AxiomLineEffect ==
  ASSUME NEW l \in Label \cup {NoLabel}, NEW phi \in Formula, AxiomLine(l, phi)
  PROVE  Effect
<1>1. \/ \E errors : Refuse(errors)
      \/ /\ SymbolErrors(declarations, phi) = {} /\ LabelErrors(l) = {}
         /\ Derive(l, <<phi>>) /\ UNCHANGED declared
  BY Zenon DEF AxiomLine, StatementErrors, ??
<1> QED BY <1>1, RefusalsRest, StatingAloneIsAnEffect DEF Effect, declared

(* A line justified from cited lines.                                      *)
LEMMA RuleLineEffect ==
  ASSUME TypeOK, NEW l \in Label \cup {NoLabel}, NEW phi \in Formula, NEW rule, NEW cites,
         NEW ds \in Seq(Declaration), RuleLine(l, phi, rule, cites, ds)
  PROVE  Effect
<1> DEFINE chain == Declare(declarations, ToSet(ds))
<1>1. CASE \E errors : Refuse(errors)
  BY <1>1, RefusalsRest DEF Effect
<1>2. CASE /\ ConflictErrors(declarations, ds) = {} /\ StatementErrors(chain, phi) = {}
           /\ LabelErrors(l) = {}
           /\ Register(ds, chain) /\ Derive(l, <<phi>>)
  <2>1. <<phi>> \in Seq(Formula) /\ <<phi>> # <<>> /\ ToSet(<<phi>>) = {phi}
    BY DEF ToSet
  <2>2. LabelNames!Extends(declarations, chain)
    BY <1>2, LineDeclaresNew, ScopesAreTyped
  <2>3. SymbolErrors(chain, phi) = {}
    BY <1>2, Zenon DEF StatementErrors, ??
  <2> HIDE DEF chain
  <2>4. declarations' = chain
    BY <1>2 DEF Register
  <2>5. States
    BY <1>2, <2>1, <2>2, <2>3, <2>4 DEF States, Extended
  <2> QED BY <2>5 DEF Effect
<1> QED BY <1>1, <1>2, Zenon DEF RuleLine, RuleLineErrors, ??

(* A line that waits for the subproofs below it.                           *)
LEMMA BeginningEffect ==
  /\ \A l : BeginSubproof(l) => Effect
  /\ \A l, phi, rule, count : BeginBelow(l, phi, rule, count) => Effect
  /\ \A l, phi, rule, cites, count : BeginHybrid(l, phi, rule, cites, count) => Effect
<1>1. ASSUME NEW l, BeginSubproof(l) PROVE Effect
  <2> DEFINE entry == Entry("subproof", l, NoFormula, "none", <<>>, 1)
  <2>1. entry.tag = "subproof" /\ Await(entry)
    BY <1>1 DEF BeginSubproof, Entry
  <2> HIDE DEF entry
  <2> QED BY <2>1 DEF Waits, Effect
<1>2. ASSUME NEW l, NEW phi, NEW rule, NEW count, BeginBelow(l, phi, rule, count) PROVE Effect
  <2> DEFINE entry == Entry("rule_below", l, phi, rule, <<>>, 1)
  <2>1. \/ \E errors : Refuse(errors)
        \/ SymbolErrors(declarations, phi) = {} /\ Await(entry)
    BY <1>2, Zenon DEF BeginBelow, StatementErrors, ??
  <2>2. entry.phi = phi
    BY DEF Entry
  <2> HIDE DEF entry
  <2> QED BY <2>1, <2>2, RefusalsRest DEF Waits, Effect
<1>3. ASSUME NEW l, NEW phi, NEW rule, NEW cites, NEW count, BeginHybrid(l, phi, rule, cites, count)
      PROVE  Effect
  <2> DEFINE entry == Entry("rule_hybrid", l, phi, rule, cites, count)
  <2>1. \/ \E errors : Refuse(errors)
        \/ SymbolErrors(declarations, phi) = {} /\ Await(entry)
    BY <1>3, Zenon DEF BeginHybrid, StatementErrors, ??
  <2>2. entry.phi = phi
    BY DEF Entry
  <2> HIDE DEF entry
  <2> QED BY <2>1, <2>2, RefusalsRest DEF Waits, Effect
<1> QED BY <1>1, <1>2, <1>3

(* The judgement of such a line once its subproofs are read.               *)
LEMMA JudgingEffect ==
  ASSUME TypeOK, JudgeBelow \/ JudgeHybrid
  PROVE  Effect
<1> DEFINE p == Top.pending
<1>1. \/ \E errors : Refuse(errors)
      \/ LabelErrors(p.label) = {} /\ Derive(p.label, <<p.phi>>) /\ UNCHANGED declared
  BY Zenon DEF JudgeBelow, JudgeHybrid, ??
<1>2. p.tag \in {"rule_below", "rule_hybrid"}
  BY DEF JudgeBelow, JudgeHybrid, Judging
<1>3. p.label \in Label \cup {NoLabel} /\ p.phi \in Formula
  BY <1>2, PendingLine
<1>4. UNCHANGED declared => UNCHANGED declarations
  BY DEF declared
<1> QED BY <1>1, <1>2, <1>3, <1>4, RefusalsRest, StatingAloneIsAnEffect DEF Effect

(* A subproof opens on an assumption.                                      *)
LEMMA OpenAssumingEffect ==
  ASSUME NEW l \in Label \cup {NoLabel}, NEW phi \in Formula, OpenAssuming(l, phi)
  PROVE  Effect
<1>1. \/ \E errors : Refuse(errors)
      \/ /\ SymbolErrors(declarations, phi) = {} /\ LabelErrors(l) = {}
         /\ Open(l, phi, FALSE, Child(declarations))
  BY Zenon DEF OpenAssuming, StatementErrors, ??
<1>2. EmptyTable \in Tables(Name, Declaration) /\ DOMAIN EmptyTable = {}
  BY SmallTables DEF EmptyTable
<1>3. CASE /\ SymbolErrors(declarations, phi) = {} /\ LabelErrors(l) = {}
           /\ Open(l, phi, FALSE, Child(declarations))
  <2>1. Open(l, phi, FALSE, Append(declarations, EmptyTable))
    BY <1>3 DEF Child
  <2>2. FALSE \in BOOLEAN
    OBVIOUS
  <2>3. Opens
    BY <1>2, <1>3, <2>1, <2>2, Zenon DEF Opens
  <2> QED BY <2>3 DEF Effect
<1> QED BY <1>1, <1>3, RefusalsRest DEF Effect

(* A subproof opens on a fresh constant: its scope is the new names.       *)
LEMMA OpenFreshEffect ==
  ASSUME TypeOK, NEW l \in Label \cup {NoLabel}, NEW phi \in Formula, OpenFresh(l, phi)
  PROVE  Effect
<1> DEFINE flags == {FlagDeclaration(c) : c \in FlagNames(phi)}
           table == TableOf(flags)
           new   == [k \in DOMAIN EmptyTable \cup DOMAIN table |->
                       IF k \in DOMAIN table THEN table[k] ELSE EmptyTable[k]]
<1>1. \/ \E errors : Refuse(errors)
      \/ /\ \A c \in FlagNames(phi) : ~ IsBound(declarations, c)
         /\ LabelErrors(l) = {}
         /\ Open(l, phi, TRUE, Declare(Child(declarations), flags))
  <2>1. Check(\A c \in FlagNames(phi) : ~ IsBound(declarations, c), "declaration_conflict") = {} =>
          \A c \in FlagNames(phi) : ~ IsBound(declarations, c)
    BY DEF Check
  <2> QED BY <2>1, Zenon DEF OpenFresh, FreshErrors, ??
<1>2. flags \in SUBSET Declaration
  BY DEF FlagNames, FlagDeclaration, Declaration, Kind, AnyArity
<1>3. table \in Tables(Name, Declaration)
  BY <1>2, TableOfDeclarations
<1>4. DOMAIN table = FlagNames(phi)
  <2>1. DOMAIN table = {d.name : d \in flags}
    BY DEF TableOf
  <2>2. \A c : FlagDeclaration(c).name = c
    BY DEF FlagDeclaration
  <2> QED BY <2>1, <2>2
<1> HIDE DEF flags, table
<1>5. Declare(Child(declarations), flags) = Append(declarations, table)
  <2>1. new = table
    <3>1. DOMAIN EmptyTable = {}
      BY DEF EmptyTable
    <3>2. PICK D \in SUBSET Name : table \in [D -> Declaration]
      BY <1>3 DEF Tables
    <3> QED BY <3>1, <3>2
  <2>2. /\ declarations \in Seq(Tables(Name, Declaration))
        /\ EmptyTable \in Tables(Name, Declaration)
    BY ScopesAreTyped, SmallTables
  <2>3. Declare(Child(declarations), flags) =
          [Append(declarations, EmptyTable) EXCEPT ![Len(declarations) + 1] = new]
    BY <2>2 DEF Declare, Child, BindAll, table
  <2> HIDE DEF new
  <2> DEFINE n == Len(declarations)
             c == Append(declarations, EmptyTable)
             a == [c EXCEPT ![n + 1] = table]
             b == Append(declarations, table)
  <2>4. /\ c \in Seq(Tables(Name, Declaration)) /\ Len(c) = n + 1
        /\ b \in Seq(Tables(Name, Declaration)) /\ Len(b) = n + 1
        /\ b[n + 1] = table /\ n \in Nat
        /\ \A i \in 1 .. n : b[i] = declarations[i] /\ c[i] = declarations[i]
    BY <1>3, <2>2
  <2> HIDE DEF b, c, n
  <2>5. /\ a \in Seq(Tables(Name, Declaration)) /\ Len(a) = n + 1
        /\ a[n + 1] = table /\ \A i \in 1 .. n : a[i] = c[i]
    BY <1>3, <2>4
  <2> HIDE DEF a
  <2>6. a = b
    <3>1. \A i \in 1 .. n + 1 : i = n + 1 \/ i \in 1 .. n
      BY <2>4
    <3>2. \A i \in 1 .. n + 1 : a[i] = b[i]
      BY <2>4, <2>5, <3>1
    <3> QED BY <2>4, <2>5, <3>2
  <2> QED BY <2>1, <2>3, <2>6 DEF a, b, c, n
<1>6. CASE /\ \A c \in FlagNames(phi) : ~ IsBound(declarations, c)
           /\ LabelErrors(l) = {}
           /\ Open(l, phi, TRUE, Declare(Child(declarations), flags))
  <2>1. Open(l, phi, TRUE, Append(declarations, table))
    BY <1>5, <1>6
  <2>2. TRUE \in BOOLEAN /\ \A k \in DOMAIN table : ~ IsBound(declarations, k)
    BY <1>4, <1>6
  <2>3. ~ TRUE => table = EmptyTable /\ SymbolErrors(declarations, phi) = {}
    OBVIOUS
  <2>4. Opens
    BY <1>3, <1>6, <2>1, <2>2, <2>3, Zenon DEF Opens
  <2> QED BY <2>4 DEF Effect
<1> QED BY <1>1, <1>6, RefusalsRest DEF Effect, flags

(* A subproof closes.                                                      *)
LEMMA CloseBlockEffect ==
  ASSUME TypeOK, CloseBlock
  PROVE  Effect
<1> DEFINE n      == Depth - 1
           p      == blocks[n].pending
           record == [assumption |-> Top.opener, conclusion |-> Top.last, fresh |-> Top.fresh,
                      inner |-> Flatten(Top.seen), outer |-> Flatten(blocks[n].seen)]
           alone  == p.tag = "subproof"
           l      == IF alone THEN p.label ELSE NoLabel
<1>1. Depth > 1 /\ n \in 1 .. Len(blocks) /\ Depth \in 1 .. Len(blocks)
  BY ScopesAreTyped DEF CloseBlock
<1>2. blocks[n] \in Block /\ Top \in Block /\ Top.opener \in Formula
  BY <1>1, TypeParts DEF BlocksOK, Top
<1>3. record \in SubproofRecord
  <2>1. Top.seen \in SUBSET Item /\ blocks[n].seen \in SUBSET Item
    BY <1>2 DEF Block
  <2>2. Flatten(Top.seen) \subseteq Formula /\ Flatten(blocks[n].seen) \subseteq Formula
    BY <2>1, FlattenedAreFormulas
  <2>3. Top.last \in Formula \cup {NoFormula} /\ Top.fresh \in BOOLEAN
    BY <1>2 DEF Block
  <2> QED BY <1>2, <2>2, <2>3 DEF SubproofRecord
<1>4. l \in Label \cup {NoLabel}
  BY <1>2 DEF Block, Pending
<1>5. \/ \E errors : Refuse(errors)
      \/ /\ ~ alone \/ p.label = NoLabel \/ ~ IsBound(Parent(labels), p.label)
         /\ blocks' = IF alone THEN TakenAsLine(n, record) ELSE TakenBelow(n, record)
         /\ labels' = IF alone /\ p.label # NoLabel
                      THEN BindAll(Parent(labels), Single(p.label, <<record>>))
                      ELSE Parent(labels)
         /\ declarations' = Parent(declarations)
  BY Zenon DEF CloseBlock, Check, TakenAsLine, TakenBelow
<1> HIDE DEF record, p, n
<1>6. CASE /\ ~ alone \/ p.label = NoLabel \/ ~ IsBound(Parent(labels), p.label)
           /\ blocks' = IF alone THEN TakenAsLine(n, record) ELSE TakenBelow(n, record)
           /\ labels' = IF alone /\ p.label # NoLabel
                        THEN BindAll(Parent(labels), Single(p.label, <<record>>))
                        ELSE Parent(labels)
           /\ declarations' = Parent(declarations)
  <2>1. l = NoLabel \/ ~ IsBound(Parent(labels), l)
    BY <1>6
  <2>2. labels' = IF l = NoLabel THEN Parent(labels)
                  ELSE BindAll(Parent(labels), Single(l, <<record>>))
    BY <1>6
  <2>3. blocks' = TakenAsLine(n, record) \/ (blocks' = TakenBelow(n, record) /\ l = NoLabel)
    BY <1>6
  <2> HIDE DEF l
  <2>4. Closes
    BY <1>1, <1>3, <1>4, <1>6, <2>1, <2>2, <2>3, Zenon DEF Closes, n
  <2> QED BY <2>4 DEF Effect
<1> QED BY <1>5, <1>6, RefusalsRest DEF Effect

(* Every step of the walk has one of the effects.                          *)
LEMMA StepsHaveEffects ==
  ASSUME TypeOK, [Next]_vars
  PROVE  Effect
<1>1. CASE GivenStep
  <2>1. PICK ds \in DeclarationLists \cup {<<>>} :
          \/ \E tag \in {"declare", "premise"} : DeclareOnly(tag, ds)
          \/ \E phi \in DeclareLines : \E l \in LabelsOf(<<phi>>, Depth) : DeclareFormula(l, phi, ds)
          \/ \E fs \in PremiseLists : \E l \in LabelsOf(fs, Depth) : PremiseLine(l, fs, ds)
    BY <1>1 DEF GivenStep
  <2>2. ds \in Seq(Declaration)
    BY Inputs
  <2>3. CASE \E tag \in {"declare", "premise"} : DeclareOnly(tag, ds)
    BY <2>2, <2>3, DeclareOnlyEffect
  <2>4. CASE \E phi \in DeclareLines : \E l \in LabelsOf(<<phi>>, Depth) : DeclareFormula(l, phi, ds)
    <3>1. PICK phi \in DeclareLines : \E l \in LabelsOf(<<phi>>, Depth) : DeclareFormula(l, phi, ds)
      BY <2>4
    <3>2. phi \in Formula
      BY FormulaAssumption
    <3>3. PICK l \in Label \cup {NoLabel} : DeclareFormula(l, phi, ds)
      BY <3>1, <3>2, Inputs
    <3> QED BY <2>2, <3>2, <3>3, DeclareFormulaEffect
  <2>5. CASE \E fs \in PremiseLists : \E l \in LabelsOf(fs, Depth) : PremiseLine(l, fs, ds)
    <3>1. PICK fs \in PremiseLists : \E l \in LabelsOf(fs, Depth) : PremiseLine(l, fs, ds)
      BY <2>5
    <3>2. fs \in Seq(Formula) /\ fs # <<>>
      BY FormulaAssumption
    <3>3. PICK l \in Label \cup {NoLabel} : PremiseLine(l, fs, ds)
      BY <3>1, Inputs
    <3> QED BY <2>2, <3>2, <3>3, PremiseLineEffect
  <2> QED BY <2>1, <2>3, <2>4, <2>5
<1>2. CASE \E phi \in Formula : \E l \in LabelsOf(<<phi>>, Depth) : AxiomLine(l, phi)
  BY <1>2, Inputs, AxiomLineEffect
<1>3. CASE RuleStep
  <2>1. PICK rule, phi, l :
          /\ rule \in Rule /\ phi \in Claims(rule) /\ l \in LabelsOf(<<phi>>, Depth)
          /\ \/ \E cites : \E ds \in DeclarationLists \cup {<<>>} : RuleLine(l, phi, rule, cites, ds)
             \/ \E cites, count : BeginHybrid(l, phi, rule, cites, count)
    BY <1>3, Zenon DEF RuleStep
  <2>2. phi \in Formula
    BY <2>1, RuleAssumption
  <2>3. l \in Label \cup {NoLabel}
    BY <2>1, <2>2, Inputs
  <2> QED BY <2>1, <2>2, <2>3, Inputs, RuleLineEffect, BeginningEffect
<1>4. CASE BelowStep
  <2>1. \E l, phi, rule, count : BeginBelow(l, phi, rule, count)
    BY <1>4, Zenon DEF BelowStep
  <2> QED BY <2>1, BeginningEffect
<1>5. CASE JudgeBelow \/ JudgeHybrid
  BY <1>5, JudgingEffect
<1>6. CASE SubproofStep
  <2>1. CASE \E l \in LabelsOf(<<>>, Depth) : BeginSubproof(l)
    BY <2>1, BeginningEffect
  <2>2. CASE \/ \E phi \in AssumeLines : \E l \in LabelsOf(<<phi>>, Depth + 1) : OpenAssuming(l, phi)
             \/ \E phi \in FreshLines : \E l \in LabelsOf(<<phi>>, Depth + 1) : OpenFresh(l, phi)
    <3>1. PICK phi, l : /\ phi \in AssumeLines \cup FreshLines /\ l \in LabelsOf(<<phi>>, Depth + 1)
                        /\ OpenAssuming(l, phi) \/ OpenFresh(l, phi)
      BY <2>2, Zenon
    <3>2. phi \in Formula /\ Depth < MaxDepth
      BY <3>1, FormulaAssumption DEF OpenAssuming, OpenFresh, Awaiting
    <3>3. l \in Label \cup {NoLabel}
      BY <3>1, <3>2, Inputs
    <3> QED BY <3>1, <3>2, <3>3, OpenAssumingEffect, OpenFreshEffect
  <2>3. CASE OpenBadly \/ \E phi \in AssumeLines \cup FreshLines : MisplacedOpening(phi)
    BY <2>3, RefusalsRest DEF OpenBadly, MisplacedOpening, Effect
  <2>4. CASE CloseBlock
    BY <2>4, CloseBlockEffect
  <2> QED BY <1>6, <2>1, <2>2, <2>3, <2>4 DEF SubproofStep
<1>7. CASE Finish \/ Done \/ UNCHANGED vars
  BY <1>7 DEF Finish, Done, vars, declared, Rests, Effect
<1> QED BY <1>1, <1>2, <1>3, <1>4, <1>5, <1>6, <1>7 DEF Next

-----------------------------------------------------------------------------
(* The two scopes, step by step.                                           *)

LabelsChange ==
  \/ LabelNames!Extends(labels, labels')
  \/ \E table \in Tables(Label, Seq(Item)) :
       /\ \A k \in DOMAIN table : ~ IsBound(labels, k)
       /\ labels' = Append(labels, table)
  \/ /\ Len(labels) > 1
     /\ LabelNames!Extends(Parent(labels), labels')
     /\ \A k \in LabelNames!New(Parent(labels), labels') :
          NamesRecord(LabelNames!Innermost(labels')[k])

DeclarationsChange ==
  \/ Extended
  \/ \E table \in Tables(Name, Declaration) :
       /\ \A k \in DOMAIN table : ~ IsBound(declarations, k)
       /\ declarations' = Append(declarations, table)
  \/ Len(declarations) > 1 /\ declarations' = Parent(declarations)

(* A new line's label, if it has one, names nothing yet.                   *)
LEMMA LabellingExtends ==
  ASSUME NEW chain \in Seq(Tables(Label, Seq(Item))), Len(chain) > 0,
         NEW l \in Label, NEW fs \in Seq(Item), ~ IsBound(chain, l)
  PROVE  /\ LabelNames!Extends(chain, BindAll(chain, Single(l, fs)))
         /\ \A k \in LabelNames!New(chain, BindAll(chain, Single(l, fs))) :
              k = l /\ LabelNames!Innermost(BindAll(chain, Single(l, fs)))[k] = fs
<1>1. Single(l, fs) \in Tables(Label, Seq(Item)) /\ DOMAIN Single(l, fs) = {l} /\ Single(l, fs)[l] = fs
  BY SmallTables DEF Single
<1> DEFINE table == Single(l, fs)
<1> HIDE DEF table
<1>2. /\ LabelNames!Extends(chain, BindAll(chain, table))
      /\ LabelNames!New(chain, BindAll(chain, table)) \subseteq {l}
      /\ LabelNames!Innermost(BindAll(chain, table))[l] = fs
  BY <1>1, BindingExtends DEF table
<1> QED BY <1>2 DEF table

(* Each effect on the labels.                                              *)
LEMMA LabelsDoChange ==
  ASSUME TypeOK, Effect
  PROVE  LabelsChange
<1>1. /\ labels \in Seq(Tables(Label, Seq(Item))) /\ Len(labels) > 0 /\ Len(labels) = Depth
  BY ScopesAreTyped
<1>2. CASE UNCHANGED labels
  BY <1>2, ExtensionByNothing DEF LabelsChange
<1>3. CASE Rests \/ Waits \/ Declares
  BY <1>2, <1>3 DEF Rests, Waits, Await, Declares
<1>4. CASE States
  <2>1. PICK l \in Label \cup {NoLabel}, fs \in Seq(Formula) : LabelErrors(l) = {} /\ Derive(l, fs)
    BY <1>4 DEF States
  <2>2. CASE l = NoLabel
    BY <1>2, <2>1, <2>2 DEF Derive
  <2>3. CASE l # NoLabel
    <3>1. ~ IsBound(labels, l) /\ labels' = BindAll(labels, Single(l, fs))
      BY <2>1, <2>3 DEF LabelErrors, Check, Derive
    <3>2. fs \in Seq(Item) /\ l \in Label
      BY <2>3 DEF Item
    <3> QED BY <1>1, <3>1, <3>2, LabellingExtends DEF LabelsChange
  <2> QED BY <2>2, <2>3
<1>5. CASE Opens
  <2>1. PICK l \in Label \cup {NoLabel}, phi \in Formula :
          /\ LabelErrors(l) = {}
          /\ labels' = Append(labels, IF l = NoLabel THEN EmptyTable ELSE Single(l, <<phi>>))
    BY <1>5 DEF Opens, Open
  <2> DEFINE table == IF l = NoLabel THEN EmptyTable ELSE Single(l, <<phi>>)
  <2>2. table \in Tables(Label, Seq(Item)) /\ \A k \in DOMAIN table : k = l /\ l # NoLabel
    <3>1. <<phi>> \in Seq(Item)
      BY DEF Item
    <3>2. CASE l = NoLabel
      BY <3>2, SmallTables DEF EmptyTable
    <3>3. CASE l # NoLabel
      BY <3>1, <3>3, SmallTables DEF Single
    <3> QED BY <3>2, <3>3
  <2>3. \A k \in DOMAIN table : ~ IsBound(labels, k)
    BY <2>1, <2>2 DEF LabelErrors, Check
  <2> QED BY <2>1, <2>2, <2>3 DEF LabelsChange
<1>6. CASE Closes
  <2>1. PICK record \in SubproofRecord, l \in Label \cup {NoLabel} :
          /\ Depth > 1
          /\ l = NoLabel \/ ~ IsBound(Parent(labels), l)
          /\ labels' = IF l = NoLabel THEN Parent(labels)
                       ELSE BindAll(Parent(labels), Single(l, <<record>>))
    BY <1>6 DEF Closes
  <2>2. Len(labels) > 1 /\ Parent(labels) \in Seq(Tables(Label, Seq(Item))) /\ Len(Parent(labels)) > 0
    BY <1>1, <2>1, ParentKeepsScope
  <2>3. CASE l = NoLabel
    BY <2>1, <2>2, <2>3, ExtensionByNothing DEF LabelsChange
  <2>4. CASE l # NoLabel
    <3>1. <<record>> \in Seq(Item) /\ NamesRecord(<<record>>) /\ l \in Label
      BY <2>4, RecordAssumption DEF Item, NamesRecord, IsSubproof
    <3>2. /\ labels' = BindAll(Parent(labels), Single(l, <<record>>))
          /\ LabelNames!Extends(Parent(labels), labels')
          /\ \A k \in LabelNames!New(Parent(labels), labels') :
               LabelNames!Innermost(labels')[k] = <<record>>
      BY <2>1, <2>2, <2>4, <3>1, LabellingExtends
    <3> QED BY <2>2, <3>1, <3>2 DEF LabelsChange
  <2> QED BY <2>3, <2>4
<1> QED BY <1>3, <1>4, <1>5, <1>6 DEF Effect

(* And on the declarations.                                                *)
LEMMA DeclarationsDoChange ==
  ASSUME TypeOK, Effect
  PROVE  DeclarationsChange
<1>1. CASE UNCHANGED declarations
  BY <1>1, ExtensionByNothing DEF DeclarationsChange, Extended
<1>2. CASE Rests \/ Waits
  BY <1>1, <1>2 DEF Rests, Waits, Await, declared
<1>3. CASE Declares \/ States
  BY <1>3 DEF Declares, States, DeclarationsChange
<1>4. CASE Opens
  BY <1>4 DEF Opens, Open, DeclarationsChange
<1>5. CASE Closes
  BY <1>5, ScopesAreTyped DEF Closes, DeclarationsChange
<1> QED BY <1>2, <1>3, <1>4, <1>5 DEF Effect

(* These are the steps of a lexical environment.                           *)
LEMMA ScopesTakeLexicalSteps ==
  ASSUME TypeOK, Effect
  PROVE  LabelNames!Next /\ SymbolNames!Next
<1>1. LabelNames!Next
  <2>1. labels \in Seq(Tables(Label, Seq(Item)))
    BY ScopesAreTyped
  <2>2. CASE LabelNames!Extends(labels, labels')
    BY <2>2 DEF LabelNames!Next, LabelNames!Bind
  <2>3. CASE \E table \in Tables(Label, Seq(Item)) :
               /\ \A k \in DOMAIN table : ~ IsBound(labels, k)
               /\ labels' = Append(labels, table)
    BY <2>1, <2>3, AppendingEnters DEF LabelNames!Next, LabelNames!Enter
  <2>4. CASE /\ Len(labels) > 1
             /\ LabelNames!Extends(Parent(labels), labels')
             /\ \A k \in LabelNames!New(Parent(labels), labels') :
                  NamesRecord(LabelNames!Innermost(labels')[k])
    <3>1. Parent(labels) = LabelNames!Outside(labels)
      BY <2>1, <2>4, ParentLeaves
    <3> QED BY <2>4, <3>1 DEF LabelNames!Next, LabelNames!Leave
  <2> QED BY <2>2, <2>3, <2>4, LabelsDoChange DEF LabelsChange
<1>2. SymbolNames!Next
  <2>1. declarations \in Seq(Tables(Name, Declaration))
    BY ScopesAreTyped
  <2>2. /\ \A chain : LabelNames!Outside(chain) = SymbolNames!Outside(chain)
        /\ \A chain : LabelNames!Innermost(chain) = SymbolNames!Innermost(chain)
        /\ \A chain : LabelNames!Visible(chain) = SymbolNames!Visible(chain)
        /\ \A from, to : LabelNames!New(from, to) = SymbolNames!New(from, to)
    BY DEF LabelNames!Outside, SymbolNames!Outside, LabelNames!Innermost, SymbolNames!Innermost,
           LabelNames!Visible, SymbolNames!Visible, LabelNames!New, SymbolNames!New
  <2>3. CASE Extended
    BY <2>3, OneSenseOfExtension DEF Extended, SymbolNames!Next, SymbolNames!Bind
  <2>4. CASE \E table \in Tables(Name, Declaration) :
               /\ \A k \in DOMAIN table : ~ IsBound(declarations, k)
               /\ declarations' = Append(declarations, table)
    <3>1. /\ Len(declarations') = Len(declarations) + 1
          /\ LabelNames!Outside(declarations') = declarations
          /\ DOMAIN LabelNames!Innermost(declarations') \cap LabelNames!Visible(declarations) = {}
      BY <2>1, <2>4, AppendingEnters
    <3> QED BY <2>2, <3>1 DEF SymbolNames!Next, SymbolNames!Enter
  <2>5. CASE Len(declarations) > 1 /\ declarations' = Parent(declarations)
    <3>1. declarations' = LabelNames!Outside(declarations)
      BY <2>1, <2>5, ParentLeaves
    <3>2. /\ LabelNames!Extends(declarations', declarations')
          /\ LabelNames!New(declarations', declarations') = {}
      BY ExtensionByNothing
    <3>3. declarations' = SymbolNames!Outside(declarations)
      BY <2>2, <3>1
    <3>4. /\ SymbolNames!Extends(SymbolNames!Outside(declarations), declarations')
          /\ SymbolNames!New(SymbolNames!Outside(declarations), declarations') = {}
      BY <2>2, <3>2, <3>3, OneSenseOfExtension
    <3> QED BY <2>5, <3>4 DEF SymbolNames!Next, SymbolNames!Leave
  <2> QED BY <2>3, <2>4, <2>5, DeclarationsDoChange DEF DeclarationsChange
<1> QED BY <1>1, <1>2

(* No name hides another.                                                  *)
LEMMA StepsKeepNamesUnique ==
  ASSUME TypeOK, TypeOK', Effect, NamesAreUnique
  PROVE  NamesAreUnique'
<1>1. /\ labels \in Seq(Tables(Label, Seq(Item))) /\ Len(labels) > 0
      /\ labels' \in Seq(Tables(Label, Seq(Item)))
      /\ declarations \in Seq(Tables(Name, Declaration)) /\ Len(declarations) > 0
      /\ declarations' \in Seq(Tables(Name, Declaration))
  BY ScopesAreTyped, ScopeIsSequence DEF TypeOK
<1>2. NoShadowing(labels')
  <2>1. NoShadowing(labels)
    BY DEF NamesAreUnique
  <2>2. Len(labels) > 1 => /\ Parent(labels) \in Seq(Tables(Label, Seq(Item)))
                           /\ Len(Parent(labels)) > 0 /\ NoShadowing(Parent(labels))
    BY <1>1, <2>1, ParentLeaves
  <2> QED BY <1>1, <2>1, <2>2, LabelsDoChange, ExtensionsKeepUnique, AppendingEnters DEF LabelsChange
<1>3. NoShadowing(declarations')
  <2>1. NoShadowing(declarations)
    BY DEF NamesAreUnique
  <2> QED BY <1>1, <2>1, DeclarationsDoChange, ExtensionsKeepUnique, AppendingEnters, ParentLeaves
          DEF DeclarationsChange, Extended
<1> QED BY <1>2, <1>3 DEF NamesAreUnique

-----------------------------------------------------------------------------
(* The blocks, step by step.                                               *)

Same(a, b) ==
  /\ a.seen = b.seen
  /\ a.opener = b.opener
  /\ a.fresh = b.fresh
  /\ a.last = b.last
  /\ a.pending = b.pending

(* A statement joins the innermost block, and nothing waits there.         *)
LEMMA DerivingAdds ==
  ASSUME TypeOK, NEW l, NEW fs, Derive(l, fs)
  PROVE  /\ Len(blocks') = Len(blocks) /\ DOMAIN blocks' = DOMAIN blocks
         /\ \A i \in DOMAIN blocks : i # Depth => Same(blocks'[i], blocks[i])
         /\ blocks'[Depth].seen = blocks[Depth].seen \cup ToSet(fs)
         /\ blocks'[Depth].opener = blocks[Depth].opener
         /\ blocks'[Depth].fresh = blocks[Depth].fresh
         /\ blocks'[Depth].last = fs[Len(fs)]
         /\ blocks'[Depth].pending = NothingPending
<1> DEFINE b == [blocks[Depth] EXCEPT !.seen = @ \cup ToSet(fs), !.last = fs[Len(fs)],
                                      !.pending = NothingPending]
<1>1. Depth \in DOMAIN blocks /\ blocks \in Seq(Block) /\ blocks[Depth] \in Block
  BY ScopesAreTyped
<1>2. /\ b.seen = blocks[Depth].seen \cup ToSet(fs) /\ b.pending = NothingPending
      /\ b.last = fs[Len(fs)] /\ b.opener = blocks[Depth].opener /\ b.fresh = blocks[Depth].fresh
  BY <1>1 DEF Block
<1>3. blocks' = [blocks EXCEPT ![Depth] = b]
  BY <1>1 DEF Derive, Block
<1> HIDE DEF b
<1> QED BY <1>1, <1>2, <1>3 DEF Same

(* A line starts to wait in the innermost block.                           *)
LEMMA AwaitingMarks ==
  ASSUME TypeOK, NEW entry, Await(entry)
  PROVE  /\ Len(blocks') = Len(blocks) /\ DOMAIN blocks' = DOMAIN blocks
         /\ \A i \in DOMAIN blocks : i # Depth => Same(blocks'[i], blocks[i])
         /\ blocks'[Depth].seen = blocks[Depth].seen
         /\ blocks'[Depth].opener = blocks[Depth].opener
         /\ blocks'[Depth].fresh = blocks[Depth].fresh
         /\ blocks'[Depth].last = blocks[Depth].last
         /\ blocks'[Depth].pending = entry
<1> DEFINE b == [blocks[Depth] EXCEPT !.pending = entry]
<1>1. Depth \in DOMAIN blocks /\ blocks \in Seq(Block) /\ blocks[Depth] \in Block
  BY ScopesAreTyped
<1>2. /\ b.seen = blocks[Depth].seen /\ b.pending = entry
      /\ b.last = blocks[Depth].last /\ b.opener = blocks[Depth].opener /\ b.fresh = blocks[Depth].fresh
  BY <1>1 DEF Block
<1>3. blocks' = [blocks EXCEPT ![Depth] = b]
  BY <1>1 DEF Await, Block
<1> HIDE DEF b
<1> QED BY <1>1, <1>2, <1>3 DEF Same

(* A block opens.                                                          *)
LEMMA OpeningAdds ==
  ASSUME TypeOK, NEW l, NEW phi, NEW fresh, NEW chain, Open(l, phi, fresh, chain)
  PROVE  /\ Len(blocks') = Len(blocks) + 1 /\ DOMAIN blocks' = 1 .. Len(blocks) + 1
         /\ \A i \in DOMAIN blocks : blocks'[i] = blocks[i]
         /\ blocks'[Len(blocks) + 1].seen = {phi}
         /\ blocks'[Len(blocks) + 1].opener = phi
         /\ blocks'[Len(blocks) + 1].fresh = fresh
         /\ blocks'[Len(blocks) + 1].last = phi
         /\ blocks'[Len(blocks) + 1].pending = NothingPending
<1> DEFINE b == [opener |-> phi, fresh |-> fresh, seen |-> {phi}, last |-> phi,
                 pending |-> NothingPending,
                 assumptionsInForce |-> AssumptionsNow,
                 arbitraryInForce |-> Len(arbitraryNames)]
<1>1. /\ b.seen = {phi} /\ b.opener = phi /\ b.fresh = fresh /\ b.last = phi
      /\ b.pending = NothingPending
  OBVIOUS
<1>2. blocks' = Append(blocks, b)
  BY DEF Open
<1> HIDE DEF b
<1>3. blocks \in Seq(Block) /\ DOMAIN blocks = 1 .. Len(blocks) /\ Len(blocks) \in Nat
  BY ScopesAreTyped
<1> QED BY <1>1, <1>2, <1>3

(* The innermost block closes, and its record is a line of the block       *)
(* around it.                                                              *)
LEMMA TakingAsLine ==
  ASSUME TypeOK, NEW record, Depth > 1, NEW n, n = Depth - 1,
         blocks' = TakenAsLine(n, record)
  PROVE  /\ Len(blocks') = n /\ DOMAIN blocks' = 1 .. n
         /\ \A i \in 1 .. n : i # n => Same(blocks'[i], blocks[i])
         /\ blocks'[n].opener = blocks[n].opener
         /\ blocks'[n].fresh = blocks[n].fresh
         /\ blocks'[n].seen = blocks[n].seen \cup {record}
         /\ blocks'[n].last = NoFormula
         /\ blocks'[n].pending = NothingPending
<1> DEFINE shut == SubSeq(blocks, 1, n)
<1>1. /\ Depth = Len(blocks) /\ blocks \in Seq(Block) /\ DOMAIN blocks = 1 .. Len(blocks)
      /\ Len(blocks) \in Nat
  BY ScopesAreTyped
<1>2. /\ n \in Nat /\ n \in 1 .. n /\ n \in 1 .. Len(blocks)
      /\ shut \in Seq(Block) /\ Len(shut) = n /\ DOMAIN shut = 1 .. n
      /\ \A i \in 1 .. n : shut[i] = blocks[i]
  BY <1>1
<1>3. shut[n] = blocks[n] /\ blocks[n] \in Block
  BY <1>1, <1>2
<1> DEFINE b == [shut[n] EXCEPT !.seen = @ \cup {record}, !.last = NoFormula,
                                !.pending = NothingPending]
<1>4. blocks' = [shut EXCEPT ![n].seen    = @ \cup {record},
                             ![n].last    = NoFormula,
                             ![n].pending = NothingPending]
  BY DEF TakenAsLine
<1> HIDE DEF shut
<1>5. /\ b.seen = blocks[n].seen \cup {record} /\ b.pending = NothingPending
      /\ b.last = NoFormula /\ b.opener = blocks[n].opener /\ b.fresh = blocks[n].fresh
  BY <1>3 DEF Block
<1>6. blocks' = [shut EXCEPT ![n] = b]
  BY <1>2, <1>3, <1>4 DEF Block
<1> HIDE DEF b
<1> QED BY <1>2, <1>5, <1>6 DEF Same

(* The innermost block closes, and its record is kept for the line that    *)
(* awaits it.                                                              *)
LEMMA TakingBelow ==
  ASSUME TypeOK, NEW record, Depth > 1, NEW n, n = Depth - 1,
         blocks' = TakenBelow(n, record)
  PROVE  /\ Len(blocks') = n /\ DOMAIN blocks' = 1 .. n
         /\ \A i \in 1 .. n : i # n => Same(blocks'[i], blocks[i])
         /\ blocks'[n].opener = blocks[n].opener
         /\ blocks'[n].fresh = blocks[n].fresh
         /\ blocks'[n].seen = blocks[n].seen
         /\ blocks'[n].last = blocks[n].last
         /\ blocks'[n].pending.tag = blocks[n].pending.tag
         /\ blocks'[n].pending.phi = blocks[n].pending.phi
         /\ blocks'[n].pending.cites = blocks[n].pending.cites
         /\ blocks'[n].pending.records = Append(blocks[n].pending.records, record)
<1> DEFINE shut == SubSeq(blocks, 1, n)
<1>1. /\ Depth = Len(blocks) /\ blocks \in Seq(Block) /\ DOMAIN blocks = 1 .. Len(blocks)
      /\ Len(blocks) \in Nat
  BY ScopesAreTyped
<1>2. /\ n \in Nat /\ n \in 1 .. n /\ n \in 1 .. Len(blocks)
      /\ shut \in Seq(Block) /\ Len(shut) = n /\ DOMAIN shut = 1 .. n
      /\ \A i \in 1 .. n : shut[i] = blocks[i]
  BY <1>1
<1>3. shut[n] = blocks[n] /\ blocks[n] \in Block
  BY <1>1, <1>2
<1>4. blocks[n].pending \in Pending
  BY <1>3 DEF Block
<1> DEFINE q == [shut[n].pending EXCEPT !.records = Append(@, record)]
           b == [shut[n] EXCEPT !.pending = q]
<1>5. blocks' = [shut EXCEPT ![n].pending.records = Append(@, record)]
  BY DEF TakenBelow
<1> HIDE DEF shut
<1>6. /\ q.tag = blocks[n].pending.tag /\ q.phi = blocks[n].pending.phi
      /\ q.cites = blocks[n].pending.cites
      /\ q.records = Append(blocks[n].pending.records, record)
  BY <1>3, <1>4 DEF Pending
<1>7. blocks' = [shut EXCEPT ![n] = b]
  BY <1>2, <1>3, <1>5 DEF Block
<1> HIDE DEF q
<1>8. /\ b.seen = blocks[n].seen /\ b.pending = q
      /\ b.last = blocks[n].last /\ b.opener = blocks[n].opener /\ b.fresh = blocks[n].fresh
  BY <1>3 DEF Block
<1> HIDE DEF b
<1> QED BY <1>2, <1>6, <1>7, <1>8 DEF Same

(* What the block around the closing one is after the step.                *)
LEMMA ClosesAdds ==
  ASSUME TypeOK, Closes
  PROVE  \E record \in SubproofRecord, l \in Label \cup {NoLabel}, n \in Nat :
           /\ n > 0 /\ n + 1 = Len(blocks)
           /\ l = NoLabel \/ ~ IsBound(Parent(labels), l)
           /\ labels' = IF l = NoLabel THEN Parent(labels)
                        ELSE BindAll(Parent(labels), Single(l, <<record>>))
           /\ declarations' = Parent(declarations)
           /\ Len(blocks') = n /\ DOMAIN blocks' = 1 .. n
           /\ \A i \in 1 .. n : i # n => Same(blocks'[i], blocks[i])
           /\ blocks'[n].opener = blocks[n].opener
           /\ blocks'[n].fresh = blocks[n].fresh
           /\ blocks[n].seen \subseteq blocks'[n].seen
           /\ blocks'[n].seen \subseteq blocks[n].seen \cup {record}
           /\ l # NoLabel => record \in blocks'[n].seen
           /\ \/ blocks'[n].pending = NothingPending
              \/ /\ blocks'[n].pending.tag = blocks[n].pending.tag
                 /\ blocks'[n].pending.phi = blocks[n].pending.phi
<1> DEFINE n == Depth - 1
<1>1. PICK record \in SubproofRecord, l \in Label \cup {NoLabel} :
        /\ Depth > 1
        /\ l = NoLabel \/ ~ IsBound(Parent(labels), l)
        /\ blocks' = TakenAsLine(n, record) \/ (blocks' = TakenBelow(n, record) /\ l = NoLabel)
        /\ labels' = IF l = NoLabel THEN Parent(labels)
                     ELSE BindAll(Parent(labels), Single(l, <<record>>))
        /\ declarations' = Parent(declarations)
  BY Zenon DEF Closes
<1>2. n \in Nat /\ n > 0 /\ n + 1 = Len(blocks) /\ n = Depth - 1
  BY <1>1, ScopesAreTyped
<1> HIDE DEF n
<1>3. CASE blocks' = TakenAsLine(n, record)
  <2>1. /\ Len(blocks') = n /\ DOMAIN blocks' = 1 .. n
        /\ \A i \in 1 .. n : i # n => Same(blocks'[i], blocks[i])
        /\ blocks'[n].opener = blocks[n].opener
        /\ blocks'[n].fresh = blocks[n].fresh
        /\ blocks[n].seen \subseteq blocks'[n].seen
        /\ blocks'[n].seen \subseteq blocks[n].seen \cup {record}
        /\ record \in blocks'[n].seen
        /\ \/ blocks'[n].pending = NothingPending
           \/ /\ blocks'[n].pending.tag = blocks[n].pending.tag
              /\ blocks'[n].pending.phi = blocks[n].pending.phi
    BY <1>1, <1>2, <1>3, TakingAsLine
  <2> QED BY <1>1, <1>2, <2>1
<1>4. CASE blocks' = TakenBelow(n, record) /\ l = NoLabel
  <2>1. /\ Len(blocks') = n /\ DOMAIN blocks' = 1 .. n
        /\ \A i \in 1 .. n : i # n => Same(blocks'[i], blocks[i])
        /\ blocks'[n].opener = blocks[n].opener
        /\ blocks'[n].fresh = blocks[n].fresh
        /\ blocks'[n].seen = blocks[n].seen
        /\ blocks'[n].pending.tag = blocks[n].pending.tag
        /\ blocks'[n].pending.phi = blocks[n].pending.phi
    BY <1>1, <1>2, <1>4, TakingBelow
  <2> QED BY <1>1, <1>2, <1>4, <2>1
<1> QED BY <1>1, <1>3, <1>4

-----------------------------------------------------------------------------
(* Lines stand, and what labels name is open.                              *)

LinesStay ==
  \A i \in DOMAIN blocks \cap DOMAIN blocks' :
    /\ blocks[i].seen \subseteq blocks'[i].seen
    /\ Kept(labels[i], labels'[i])
    /\ Kept(declarations[i], declarations'[i])

(* The lines of a block that stays open stay.                              *)
LEMMA SeenStays ==
  ASSUME TypeOK, Effect
  PROVE  \A i \in DOMAIN blocks \cap DOMAIN blocks' : blocks[i].seen \subseteq blocks'[i].seen
<1>1. CASE Rests \/ Declares
  BY <1>1 DEF Rests, Declares
<1>2. CASE Waits
  BY <1>2, AwaitingMarks DEF Waits, Same
<1>3. CASE States
  BY <1>3, DerivingAdds DEF States, Same
<1>4. CASE Opens
  BY <1>4, OpeningAdds DEF Opens
<1>5. CASE Closes
  BY <1>5, ClosesAdds DEF Same
<1> QED BY <1>1, <1>2, <1>3, <1>4, <1>5 DEF Effect

(* And all that its labels and names mean.                                 *)
LEMMA StepsKeepLines ==
  ASSUME TypeOK, TypeOK', Effect
  PROVE  LinesStay
<1>1. /\ DOMAIN blocks = 1 .. Len(blocks) /\ DOMAIN blocks' = 1 .. Len(blocks')
      /\ labels \in Seq(Tables(Label, Seq(Item))) /\ Len(labels) = Len(blocks)
      /\ labels' \in Seq(Tables(Label, Seq(Item))) /\ Len(labels') = Len(blocks')
      /\ declarations \in Seq(Tables(Name, Declaration)) /\ Len(declarations) = Len(blocks)
      /\ declarations' \in Seq(Tables(Name, Declaration)) /\ Len(declarations') = Len(blocks')
      /\ Len(blocks) \in Nat /\ Len(blocks) > 0
  BY ScopesAreTyped, ScopeIsSequence DEF TypeOK
<1>2. \A table : Kept(table, table)
  BY DEF Kept
<1>3. \A i \in DOMAIN blocks \cap DOMAIN blocks' : Kept(labels[i], labels'[i])
  <2>1. CASE LabelNames!Extends(labels, labels')
    BY <1>1, <2>1, ExtensionsKeep
  <2>2. CASE \E table \in Tables(Label, Seq(Item)) :
               /\ \A k \in DOMAIN table : ~ IsBound(labels, k)
               /\ labels' = Append(labels, table)
    BY <1>1, <1>2, <2>2, AppendingEnters
  <2>3. CASE Len(labels) > 1 /\ LabelNames!Extends(Parent(labels), labels')
    <3>1. /\ Parent(labels) \in Seq(Tables(Label, Seq(Item))) /\ Len(Parent(labels)) = Len(labels) - 1
          /\ \A i \in 1 .. Len(labels) - 1 : Parent(labels)[i] = labels[i]
      BY <1>1, <2>3, ParentLeaves
    <3>2. Len(Parent(labels)) > 0
      BY <1>1, <2>3, <3>1
    <3>3. /\ Len(labels') = Len(Parent(labels))
          /\ \A i \in 1 .. Len(Parent(labels)) : Kept(Parent(labels)[i], labels'[i])
      BY <1>1, <2>3, <3>1, <3>2, ExtensionsKeep
    <3> QED BY <1>1, <3>1, <3>3
  <2> QED BY <2>1, <2>2, <2>3, LabelsDoChange DEF LabelsChange
<1>4. \A i \in DOMAIN blocks \cap DOMAIN blocks' : Kept(declarations[i], declarations'[i])
  <2>1. CASE Extended
    BY <1>1, <2>1, ExtensionsKeep DEF Extended
  <2>2. CASE \E table \in Tables(Name, Declaration) :
               /\ \A k \in DOMAIN table : ~ IsBound(declarations, k)
               /\ declarations' = Append(declarations, table)
    BY <1>1, <1>2, <2>2, AppendingEnters
  <2>3. CASE Len(declarations) > 1 /\ declarations' = Parent(declarations)
    BY <1>1, <1>2, <2>3, ParentLeaves
  <2> QED BY <2>1, <2>2, <2>3, DeclarationsDoChange DEF DeclarationsChange
<1> QED BY <1>3, <1>4, SeenStays DEF LinesStay

(* If what a chain's labels name is in its blocks, so is what they name    *)
(* when the innermost block gains a line and perhaps a label for it.       *)
LEMMA ExtensionsStayOpen ==
  ASSUME NEW a \in Seq(Tables(Label, Seq(Item))), NEW b \in Seq(Tables(Label, Seq(Item))), Len(a) > 0,
         LabelNames!Extends(a, b), NEW value,
         \A k \in LabelNames!New(a, b) : LabelNames!Innermost(b)[k] = value,
         NEW old, NEW new, \A i \in 1 .. Len(a) : old[i].seen \subseteq new[i].seen,
         LabelNames!New(a, b) = {} \/ ToSet(value) \subseteq new[Len(a)].seen,
         \A i \in 1 .. Len(a) : \A l \in DOMAIN a[i] : ToSet(a[i][l]) \subseteq old[i].seen
  PROVE  \A i \in 1 .. Len(a) : \A l \in DOMAIN b[i] : ToSet(b[i][l]) \subseteq new[i].seen
<1> DEFINE n == Len(a)
<1>1. n \in Nat /\ n \in 1 .. n /\ Len(b) = n
  BY ExtensionsKeep
<1>2. ASSUME NEW i \in 1 .. n, NEW l \in DOMAIN b[i] PROVE ToSet(b[i][l]) \subseteq new[i].seen
  <2>1. CASE l \in DOMAIN a[i]
    <3>1. b[i][l] = a[i][l]
      BY <2>1, ExtensionsKeep DEF Kept
    <3> QED BY <2>1, <3>1
  <2>2. CASE l \notin DOMAIN a[i]
    <3>1. i = n
      BY <1>1, <2>2, ExtensionsKeep, BeforeTheLast
    <3>2. l \in LabelNames!New(a, b)
      BY <1>1, <2>2, <3>1 DEF LabelNames!New, LabelNames!Innermost
    <3>3. b[n][l] = value
      BY <1>1, <3>2 DEF LabelNames!Innermost
    <3> QED BY <3>1, <3>2, <3>3
  <2> QED BY <2>1, <2>2
<1> QED BY <1>2

(* No step leaves a label that names a line of a closed block.             *)
LEMMA StepsKeepLinesOpen ==
  ASSUME TypeOK, TypeOK', Effect, CitableLinesAreOpen
  PROVE  CitableLinesAreOpen'
<1>1. /\ labels \in Seq(Tables(Label, Seq(Item))) /\ Len(labels) = Len(blocks)
      /\ labels' \in Seq(Tables(Label, Seq(Item))) /\ Len(labels') = Len(blocks')
      /\ DOMAIN blocks = 1 .. Len(blocks) /\ DOMAIN labels = 1 .. Len(blocks)
      /\ DOMAIN labels' = 1 .. Len(blocks')
      /\ Len(blocks) \in Nat /\ Len(blocks) > 0 /\ Depth = Len(blocks)
  BY ScopesAreTyped, ScopeIsSequence DEF TypeOK
<1>2. \A i \in DOMAIN blocks \cap DOMAIN blocks' : blocks[i].seen \subseteq blocks'[i].seen
  BY SeenStays
<1>3. \A i \in 1 .. Len(blocks) : \A l \in DOMAIN labels[i] :
        ToSet(labels[i][l]) \subseteq blocks[i].seen
  BY <1>1 DEF CitableLinesAreOpen
<1>4. CASE Rests \/ Waits \/ Declares
  <2>1. UNCHANGED labels /\ DOMAIN blocks' = DOMAIN blocks
    BY <1>4, AwaitingMarks DEF Rests, Waits, Await, Declares
  <2> QED BY <1>1, <1>2, <1>3, <2>1 DEF CitableLinesAreOpen
<1>5. CASE States
  <2>1. PICK l \in Label \cup {NoLabel}, fs \in Seq(Formula) : LabelErrors(l) = {} /\ Derive(l, fs)
    BY <1>5 DEF States
  <2>2. /\ Len(blocks') = Len(blocks) /\ DOMAIN blocks' = DOMAIN blocks
        /\ blocks'[Depth].seen = blocks[Depth].seen \cup ToSet(fs)
    BY <2>1, DerivingAdds
  <2>3. CASE l = NoLabel
    <3>1. UNCHANGED labels
      BY <2>1, <2>3 DEF Derive
    <3> QED BY <1>1, <1>2, <1>3, <2>2, <3>1 DEF CitableLinesAreOpen
  <2>4. CASE l # NoLabel
    <3>1. ~ IsBound(labels, l) /\ labels' = BindAll(labels, Single(l, fs))
      BY <2>1, <2>4 DEF LabelErrors, Check, Derive
    <3>2. fs \in Seq(Item) /\ l \in Label /\ Len(labels) > 0
      BY <1>1, <2>4 DEF Item
    <3>3. /\ LabelNames!Extends(labels, labels')
          /\ \A k \in LabelNames!New(labels, labels') : LabelNames!Innermost(labels')[k] = fs
      BY <1>1, <3>1, <3>2, LabellingExtends
    <3>4. ToSet(fs) \subseteq blocks'[Len(labels)].seen
      BY <1>1, <2>2
    <3>5. \A i \in 1 .. Len(labels) : \A k \in DOMAIN labels'[i] :
            ToSet(labels'[i][k]) \subseteq blocks'[i].seen
      <4>1. /\ \A i \in 1 .. Len(labels) : blocks[i].seen \subseteq blocks'[i].seen
            /\ \A i \in 1 .. Len(labels) : \A k \in DOMAIN labels[i] :
                 ToSet(labels[i][k]) \subseteq blocks[i].seen
        BY <1>1, <1>2, <1>3, <2>2
      <4> QED BY <1>1, <3>2, <3>3, <3>4, <4>1, ExtensionsStayOpen
    <3> QED BY <1>1, <2>2, <3>5 DEF CitableLinesAreOpen
  <2> QED BY <2>3, <2>4
<1>6. CASE Opens
  <2>1. PICK l \in Label \cup {NoLabel}, phi \in Formula, fresh \in BOOLEAN,
             inside \in Tables(Name, Declaration) :
          Open(l, phi, fresh, Append(declarations, inside))
    BY <1>6 DEF Opens
  <2> DEFINE table == IF l = NoLabel THEN EmptyTable ELSE Single(l, <<phi>>)
  <2>2. /\ Len(blocks') = Len(blocks) + 1
        /\ \A i \in DOMAIN blocks : blocks'[i] = blocks[i]
        /\ blocks'[Len(blocks) + 1].seen = {phi}
    BY <2>1, OpeningAdds
  <2>3. \A k \in DOMAIN table : ToSet(table[k]) = {phi}
    BY DEF EmptyTable, Single, ToSet
  <2>4. labels' = Append(labels, table)
    BY <2>1 DEF Open
  <2> HIDE DEF table
  <2>5. labels'[Len(blocks) + 1] = table /\ \A i \in 1 .. Len(blocks) : labels'[i] = labels[i]
    BY <1>1, <2>4
  <2>6. \A i \in 1 .. Len(blocks) + 1 : i \in 1 .. Len(blocks) \/ i = Len(blocks) + 1
    BY <1>1
  <2> QED BY <1>1, <1>3, <2>2, <2>3, <2>5, <2>6 DEF CitableLinesAreOpen
<1>7. CASE Closes
  <2>1. PICK record \in SubproofRecord, l \in Label \cup {NoLabel}, n \in Nat :
          /\ n > 0 /\ n + 1 = Len(blocks)
          /\ l = NoLabel \/ ~ IsBound(Parent(labels), l)
          /\ labels' = IF l = NoLabel THEN Parent(labels)
                       ELSE BindAll(Parent(labels), Single(l, <<record>>))
          /\ Len(blocks') = n /\ DOMAIN blocks' = 1 .. n
          /\ l # NoLabel => record \in blocks'[n].seen
    BY <1>7, ClosesAdds
  <2> DEFINE outer == Parent(labels)
  <2>2. /\ outer \in Seq(Tables(Label, Seq(Item))) /\ Len(outer) = n
        /\ \A i \in 1 .. n : outer[i] = labels[i]
    <3>1. Len(labels) > 1 /\ Len(labels) - 1 = n
      BY <1>1, <2>1
    <3> QED BY <1>1, <3>1, ParentLeaves
  <2> HIDE DEF outer
  <2>3. /\ \A i \in 1 .. n : i \in 1 .. Len(blocks) /\ blocks[i].seen \subseteq blocks'[i].seen
        /\ \A i \in 1 .. n : \A k \in DOMAIN outer[i] : ToSet(outer[i][k]) \subseteq blocks[i].seen
    BY <1>1, <1>2, <1>3, <2>1, <2>2
  <2>4. CASE l = NoLabel
    BY <1>1, <2>1, <2>2, <2>3, <2>4 DEF CitableLinesAreOpen, outer
  <2>5. CASE l # NoLabel
    <3> DEFINE value == <<record>>
    <3>1. value \in Seq(Item) /\ l \in Label /\ ToSet(value) = {record}
      BY <2>5 DEF Item, ToSet
    <3>2. labels' = BindAll(outer, Single(l, value)) /\ ~ IsBound(outer, l) /\ Len(outer) > 0
      BY <2>1, <2>2, <2>5 DEF outer
    <3> HIDE DEF value
    <3>3. /\ LabelNames!Extends(outer, labels')
          /\ \A k \in LabelNames!New(outer, labels') : LabelNames!Innermost(labels')[k] = value
      BY <2>2, <3>1, <3>2, LabellingExtends
    <3>4. /\ ToSet(value) \subseteq blocks'[Len(outer)].seen
          /\ \A i \in 1 .. Len(outer) : blocks[i].seen \subseteq blocks'[i].seen
          /\ \A i \in 1 .. Len(outer) : \A k \in DOMAIN outer[i] :
               ToSet(outer[i][k]) \subseteq blocks[i].seen
      BY <2>1, <2>2, <2>3, <2>5, <3>1
    <3>5. \A i \in 1 .. Len(outer) : \A k \in DOMAIN labels'[i] :
            ToSet(labels'[i][k]) \subseteq blocks'[i].seen
      <4>1. /\ outer \in Seq(Tables(Label, Seq(Item))) /\ Len(outer) > 0
            /\ labels' \in Seq(Tables(Label, Seq(Item)))
        BY <1>1, <2>2, <3>2
      <4> QED BY <3>3, <3>4, <4>1, ExtensionsStayOpen
    <3> QED BY <1>1, <2>1, <2>2, <3>5 DEF CitableLinesAreOpen
  <2> QED BY <2>4, <2>5
<1> QED BY <1>4, <1>5, <1>6, <1>7 DEF Effect

-----------------------------------------------------------------------------
(* Symbols.  That the formulas of a block use declared symbols is not      *)
(* inductive alone: a line that waits for its subproofs was read before    *)
(* them and joins its block after them.                                    *)

Outward(i) == SubSeq(declarations, 1, i)

WaitingLinesAreRead ==
  \A i \in DOMAIN blocks :
    blocks[i].pending.tag \in {"rule_below", "rule_hybrid"} =>
      SymbolErrors(Outward(i), blocks[i].pending.phi) = {}

(* Where no name hides another, a name has its only meaning.               *)
LEMMA OnlyMeaning ==
  ASSUME NEW T, NEW chain \in Seq(T), NoShadowing(chain),
         NEW i \in DOMAIN chain, NEW k \in DOMAIN chain[i]
  PROVE  IsBound(chain, k) /\ Lookup(chain, k) = chain[i][k]
<1> DEFINE Nearest(j) == j \in DOMAIN chain /\ k \in DOMAIN chain[j]
                         /\ \A m \in DOMAIN chain : k \in DOMAIN chain[m] => m <= j
           nearest    == CHOOSE j \in DOMAIN chain :
                           /\ k \in DOMAIN chain[j]
                           /\ \A m \in DOMAIN chain : k \in DOMAIN chain[m] => m <= j
<1>1. \A m \in DOMAIN chain : k \in DOMAIN chain[m] => m = i
  BY DEF NoShadowing
<1>2. i \in Int /\ i <= i
  OBVIOUS
<1>3. Nearest(i)
  BY <1>1, <1>2
<1>4. nearest \in DOMAIN chain /\ k \in DOMAIN chain[nearest]
  BY <1>3
<1> HIDE DEF nearest
<1>5. nearest = i
  BY <1>1, <1>4
<1> QED BY <1>5 DEF Lookup, IsBound, nearest

(* A formula that is read without error is read so wherever its symbols    *)
(* have kept their meaning.                                                *)
LEMMA ReadingIsInherited ==
  ASSUME NEW S, NEW a \in Seq(S), NEW T, NEW b \in Seq(T), NoShadowing(a), NoShadowing(b),
         \A i \in DOMAIN a : \A k \in DOMAIN a[i] :
           \E j \in DOMAIN b : k \in DOMAIN b[j] /\ b[j][k] = a[i][k],
         NEW f, SymbolErrors(a, f) = {}
  PROVE  SymbolErrors(b, f) = {}
<1>1. \A k : IsBound(a, k) => IsBound(b, k) /\ Lookup(b, k) = Lookup(a, k)
  BY OnlyMeaning DEF IsBound
<1>2. ASSUME NEW u \in Uses(f) PROVE UseErrors(b, u) = {}
  <2>1. UseErrors(a, u) = {}
    BY DEF SymbolErrors
  <2>2. IsBound(a, u.name)
    BY <2>1 DEF UseErrors
  <2>3. IsBound(b, u.name) /\ Lookup(b, u.name) = Lookup(a, u.name)
    BY <1>1, <2>2
  <2> QED BY <2>1, <2>2, <2>3, Zenon DEF UseErrors
<1> QED BY <1>2 DEF SymbolErrors

(* The beginning of a chain.                                               *)
LEMMA Beginnings ==
  ASSUME NEW T, NEW chain \in Seq(T), NEW i \in 1 .. Len(chain)
  PROVE  /\ SubSeq(chain, 1, i) \in Seq(T)
         /\ DOMAIN SubSeq(chain, 1, i) = 1 .. i
         /\ \A j \in 1 .. i : SubSeq(chain, 1, i)[j] = chain[j]
         /\ NoShadowing(chain) => NoShadowing(SubSeq(chain, 1, i))
<1> DEFINE a == SubSeq(chain, 1, i)
<1>1. /\ a \in Seq(T) /\ DOMAIN a = 1 .. i /\ DOMAIN chain = 1 .. Len(chain)
      /\ \A j \in 1 .. i : a[j] = chain[j] /\ j \in 1 .. Len(chain)
  OBVIOUS
<1> HIDE DEF a
<1>2. NoShadowing(chain) => NoShadowing(a)
  BY <1>1 DEF NoShadowing
<1> QED BY <1>1, <1>2 DEF a

(* What is read in a block that stays open stays read.                     *)
LEMMA ReadingStays ==
  ASSUME TypeOK, TypeOK', NamesAreUnique, NamesAreUnique', LinesStay,
         NEW i \in DOMAIN blocks \cap DOMAIN blocks',
         NEW f, SymbolErrors(Outward(i), f) = {}
  PROVE  SymbolErrors(Outward(i)', f) = {}
<1> DEFINE a == SubSeq(declarations, 1, i)
           b == SubSeq(declarations', 1, i)
<1>1. /\ declarations \in Seq(Tables(Name, Declaration)) /\ NoShadowing(declarations)
      /\ declarations' \in Seq(Tables(Name, Declaration)) /\ NoShadowing(declarations')
      /\ i \in 1 .. Len(declarations) /\ i \in 1 .. Len(declarations')
      /\ DOMAIN blocks = 1 .. Len(declarations) /\ DOMAIN blocks' = 1 .. Len(declarations')
  BY ScopesAreTyped, ScopeIsSequence DEF TypeOK, NamesAreUnique
<1>2. /\ a \in Seq(Tables(Name, Declaration)) /\ DOMAIN a = 1 .. i /\ NoShadowing(a)
      /\ \A j \in 1 .. i : a[j] = declarations[j]
  BY <1>1, Beginnings
<1>3. /\ b \in Seq(Tables(Name, Declaration)) /\ DOMAIN b = 1 .. i /\ NoShadowing(b)
      /\ \A j \in 1 .. i : b[j] = declarations'[j]
  BY <1>1, Beginnings
<1>4. SymbolErrors(a, f) = {}
  BY DEF Outward
<1> HIDE DEF a, b
<1>5. \A j \in 1 .. i : Kept(a[j], b[j])
  <2>1. \A j \in 1 .. i : j \in DOMAIN blocks \cap DOMAIN blocks'
    BY <1>1
  <2> QED BY <1>2, <1>3, <2>1 DEF LinesStay
<1>6. \A j \in DOMAIN a : \A k \in DOMAIN a[j] :
        \E m \in DOMAIN b : k \in DOMAIN b[m] /\ b[m][k] = a[j][k]
  BY <1>2, <1>3, <1>5 DEF Kept
<1>7. SymbolErrors(b, f) = {}
  BY <1>2, <1>3, <1>4, <1>6, ReadingIsInherited
<1> QED BY <1>7 DEF Outward, b

SymbolsOK == SymbolsAreDeclared /\ WaitingLinesAreRead

(* The same of one block.                                                  *)
BlockIsRead(b, chain) ==
  /\ \A f \in b.seen \cap Formula : (b.fresh /\ f = b.opener) \/ SymbolErrors(chain, f) = {}
  /\ b.pending.tag \in {"rule_below", "rule_hybrid"} => SymbolErrors(chain, b.pending.phi) = {}

(* The two invariants about symbols, one block at a time, now ...          *)
LEMMA SymbolsBlockByBlock ==
  SymbolsOK <=> \A i \in DOMAIN blocks : BlockIsRead(blocks[i], Outward(i))
BY DEF SymbolsOK, SymbolsAreDeclared, WaitingLinesAreRead, BlockIsRead, Outward

(* ... and after the step.                                                 *)
LEMMA SymbolsBlockByBlockNext ==
  ASSUME \A i \in DOMAIN blocks' : BlockIsRead(blocks'[i], Outward(i)')
  PROVE  SymbolsOK'
BY DEF SymbolsOK, SymbolsAreDeclared, WaitingLinesAreRead, BlockIsRead, Outward

(* A block that is the same after a step, in what was read of it, is read. *)
LEMMA SameBlocksStayRead ==
  ASSUME TypeOK, TypeOK', NamesAreUnique, NamesAreUnique', LinesStay, SymbolsOK,
         NEW i \in DOMAIN blocks \cap DOMAIN blocks',
         blocks'[i].seen \cap Formula = blocks[i].seen \cap Formula,
         blocks'[i].opener = blocks[i].opener, blocks'[i].fresh = blocks[i].fresh,
         \/ blocks'[i].pending.tag \notin {"rule_below", "rule_hybrid"}
         \/ /\ blocks'[i].pending.tag = blocks[i].pending.tag
            /\ blocks'[i].pending.phi = blocks[i].pending.phi
  PROVE  BlockIsRead(blocks'[i], Outward(i)')
<1>1. BlockIsRead(blocks[i], Outward(i))
  BY SymbolsBlockByBlock
<1>2. \A f : SymbolErrors(Outward(i), f) = {} => SymbolErrors(Outward(i)', f) = {}
  BY ReadingStays
<1> QED BY <1>1, <1>2 DEF BlockIsRead

(* The whole scope is what lies outward from the innermost block.          *)
LEMMA WholeScope ==
  /\ TypeOK => Outward(Depth) = declarations
  /\ TypeOK' => Outward(Depth)' = declarations'
<1>1. ASSUME TypeOK PROVE Outward(Depth) = declarations
  BY <1>1, ScopesAreTyped, SubSeqFull DEF Outward
<1>2. ASSUME TypeOK' PROVE Outward(Depth)' = declarations'
  <2>1. declarations' \in Seq(Tables(Name, Declaration)) /\ Len(declarations') = Len(blocks')
    BY <1>2, ScopeIsSequence DEF TypeOK
  <2>2. SubSeq(declarations', 1, Len(declarations')) = declarations'
    BY <2>1, SubSeqFull
  <2> QED BY <2>1, <2>2 DEF Outward, Depth
<1> QED BY <1>1, <1>2

(* Every step leaves only formulas that were read.                         *)
LEMMA StepsKeepSymbols ==
  ASSUME TypeOK, TypeOK', NamesAreUnique, NamesAreUnique', Effect, SymbolsOK
  PROVE  SymbolsOK'
<1> SUFFICES \A i \in DOMAIN blocks' : BlockIsRead(blocks'[i], Outward(i)')
  BY SymbolsBlockByBlockNext
<1>1. /\ DOMAIN blocks = 1 .. Len(blocks) /\ DOMAIN blocks' = 1 .. Len(blocks')
      /\ Len(blocks) \in Nat /\ Len(blocks) > 0 /\ Depth = Len(blocks)
      /\ Depth \in DOMAIN blocks
  BY ScopesAreTyped DEF TypeOK
<1>2. LinesStay
  BY StepsKeepLines
<1>3. \A i \in DOMAIN blocks \cap DOMAIN blocks' :
        Same(blocks'[i], blocks[i]) => BlockIsRead(blocks'[i], Outward(i)')
  BY <1>2, SameBlocksStayRead DEF Same
<1>4. NothingPending.tag \notin {"rule_below", "rule_hybrid"}
  BY NothingPendingType
<1>5. CASE Rests \/ Declares
  BY <1>3, <1>5 DEF Rests, Declares, Same
<1>6. CASE Waits
  <2>1. PICK entry : /\ Await(entry)
                     /\ entry.tag \in {"rule_below", "rule_hybrid"} =>
                          SymbolErrors(declarations, entry.phi) = {}
    BY <1>6 DEF Waits
  <2>2. /\ DOMAIN blocks' = DOMAIN blocks
        /\ \A i \in DOMAIN blocks : i # Depth => Same(blocks'[i], blocks[i])
        /\ blocks'[Depth].seen = blocks[Depth].seen
        /\ blocks'[Depth].opener = blocks[Depth].opener
        /\ blocks'[Depth].fresh = blocks[Depth].fresh
        /\ blocks'[Depth].pending = entry
    BY <2>1, AwaitingMarks
  <2>3. Outward(Depth) = declarations
    BY WholeScope
  <2>4. BlockIsRead(blocks[Depth], Outward(Depth))
    BY <1>1, SymbolsBlockByBlock
  <2>5. BlockIsRead(blocks'[Depth], declarations)
    BY <2>1, <2>2, <2>3, <2>4 DEF BlockIsRead
  <2>6. \A i \in DOMAIN blocks' : i = Depth => Outward(i)' = declarations
    <3>1. \A i \in DOMAIN blocks' : Outward(i)' = Outward(i)
      BY <2>1 DEF Await, declared, Outward
    <3> QED BY <2>3, <3>1
  <2> QED BY <1>3, <2>2, <2>5, <2>6
<1>7. CASE States
  <2>1. PICK l, fs :
          /\ Derive(l, fs)
          /\ \/ \A f \in ToSet(fs) : SymbolErrors(declarations', f) = {}
             \/ /\ Top.pending.tag \in {"rule_below", "rule_hybrid"}
                /\ ToSet(fs) = {Top.pending.phi}
                /\ UNCHANGED declarations
    BY <1>7 DEF States
  <2>2. /\ DOMAIN blocks' = DOMAIN blocks /\ Len(blocks') = Len(blocks)
        /\ \A i \in DOMAIN blocks : i # Depth => Same(blocks'[i], blocks[i])
        /\ blocks'[Depth].seen = blocks[Depth].seen \cup ToSet(fs)
        /\ blocks'[Depth].opener = blocks[Depth].opener
        /\ blocks'[Depth].fresh = blocks[Depth].fresh
        /\ blocks'[Depth].pending = NothingPending
    BY <2>1, DerivingAdds
  <2>3. \A i \in DOMAIN blocks' : i = Depth => Outward(i)' = declarations'
    <3>1. declarations' \in Seq(Tables(Name, Declaration)) /\ Len(declarations') = Len(blocks')
      BY ScopeIsSequence DEF TypeOK
    <3>2. SubSeq(declarations', 1, Len(declarations')) = declarations'
      BY <3>1, SubSeqFull
    <3> QED BY <1>1, <2>2, <3>1, <3>2 DEF Outward
  <2>4. BlockIsRead(blocks[Depth], declarations)
    BY <1>1, SymbolsBlockByBlock, WholeScope
  <2>5. \A f : SymbolErrors(declarations, f) = {} => SymbolErrors(declarations', f) = {}
    <3>1. \A f : SymbolErrors(Outward(Depth), f) = {} => SymbolErrors(Outward(Depth)', f) = {}
      <4>1. ASSUME NEW i \in DOMAIN blocks \cap DOMAIN blocks', i = Depth,
                   NEW f, SymbolErrors(declarations, f) = {}
            PROVE  SymbolErrors(declarations', f) = {}
        <5>1. SymbolErrors(Outward(i), f) = {}
          BY <4>1, WholeScope
        <5>2. SymbolErrors(Outward(i)', f) = {}
          BY <1>2, <5>1, ReadingStays
        <5> QED BY <2>2, <2>3, <4>1, <5>2
      <4>2. Depth \in DOMAIN blocks \cap DOMAIN blocks' /\ Depth' = Depth
        BY <1>1, <2>2 DEF Depth
      <4> QED BY <4>1, <4>2, WholeScope
    <3>2. Depth' = Depth
      BY <2>2 DEF Depth
    <3> QED BY <3>1, <3>2, WholeScope
  <2>6. \A f \in ToSet(fs) : SymbolErrors(declarations', f) = {}
    <3>1. Top.pending.tag \in {"rule_below", "rule_hybrid"} =>
            SymbolErrors(declarations, Top.pending.phi) = {}
      BY <2>4 DEF BlockIsRead, Top
    <3> QED BY <2>1, <2>5, <3>1
  <2>7. BlockIsRead(blocks'[Depth], declarations')
    BY <1>4, <2>2, <2>4, <2>5, <2>6 DEF BlockIsRead
  <2> QED BY <1>3, <2>2, <2>3, <2>7
<1>8. CASE Opens
  <2>1. PICK l \in Label \cup {NoLabel}, phi \in Formula, fresh \in BOOLEAN,
             table \in Tables(Name, Declaration) :
          /\ Open(l, phi, fresh, Append(declarations, table))
          /\ ~ fresh => table = EmptyTable /\ SymbolErrors(declarations, phi) = {}
    BY <1>8, Zenon DEF Opens
  <2>2. /\ Len(blocks') = Len(blocks) + 1 /\ DOMAIN blocks' = 1 .. Len(blocks) + 1
        /\ \A i \in DOMAIN blocks : blocks'[i] = blocks[i]
        /\ blocks'[Len(blocks) + 1].seen = {phi}
        /\ blocks'[Len(blocks) + 1].opener = phi
        /\ blocks'[Len(blocks) + 1].fresh = fresh
        /\ blocks'[Len(blocks) + 1].pending = NothingPending
    BY <2>1, OpeningAdds
  <2>3. declarations' = Append(declarations, table)
    BY <2>1 DEF Open
  <2>4. ~ fresh => SymbolErrors(declarations', phi) = {}
    <3>1. /\ declarations \in Seq(Tables(Name, Declaration)) /\ NoShadowing(declarations)
          /\ declarations' \in Seq(Tables(Name, Declaration)) /\ NoShadowing(declarations')
      BY ScopesAreTyped, ScopeIsSequence DEF TypeOK, NamesAreUnique
    <3>2. \A i \in DOMAIN declarations : i \in DOMAIN declarations' /\ declarations'[i] = declarations[i]
      BY <2>3, <3>1
    <3>3. \A i \in DOMAIN declarations : \A k \in DOMAIN declarations[i] :
            \E j \in DOMAIN declarations' : k \in DOMAIN declarations'[j]
                                            /\ declarations'[j][k] = declarations[i][k]
      BY <3>2
    <3> QED BY <2>1, <3>1, <3>3, ReadingIsInherited
  <2>5. \A i \in DOMAIN blocks' : i = Len(blocks) + 1 => Outward(i)' = declarations'
    <3>1. declarations' \in Seq(Tables(Name, Declaration)) /\ Len(declarations') = Len(blocks')
      BY ScopeIsSequence DEF TypeOK
    <3>2. SubSeq(declarations', 1, Len(declarations')) = declarations'
      BY <3>1, SubSeqFull
    <3> QED BY <2>2, <3>1, <3>2 DEF Outward
  <2>6. BlockIsRead(blocks'[Len(blocks) + 1], declarations')
    BY <1>4, <2>2, <2>4 DEF BlockIsRead
  <2>7. \A i \in DOMAIN blocks' : i \in DOMAIN blocks \/ i = Len(blocks) + 1
    BY <1>1, <2>2
  <2>8. \A i \in DOMAIN blocks : BlockIsRead(blocks'[i], Outward(i)')
    <3>1. \A i \in DOMAIN blocks : Same(blocks'[i], blocks[i]) /\ i \in DOMAIN blocks'
      BY <1>1, <2>2 DEF Same
    <3> QED BY <1>3, <3>1
  <2> QED BY <2>5, <2>6, <2>7, <2>8
<1>9. CASE Closes
  <2>1. PICK record \in SubproofRecord, n \in Nat :
          /\ n > 0 /\ n + 1 = Len(blocks)
          /\ Len(blocks') = n /\ DOMAIN blocks' = 1 .. n
          /\ \A i \in 1 .. n : i # n => Same(blocks'[i], blocks[i])
          /\ blocks'[n].opener = blocks[n].opener
          /\ blocks'[n].fresh = blocks[n].fresh
          /\ blocks[n].seen \subseteq blocks'[n].seen
          /\ blocks'[n].seen \subseteq blocks[n].seen \cup {record}
          /\ \/ blocks'[n].pending = NothingPending
             \/ /\ blocks'[n].pending.tag = blocks[n].pending.tag
                /\ blocks'[n].pending.phi = blocks[n].pending.phi
    BY <1>9, ClosesAdds
  <2>2. blocks'[n].seen \cap Formula = blocks[n].seen \cap Formula
    BY <2>1, RecordAssumption
  <2>3. \A i \in DOMAIN blocks' : i \in DOMAIN blocks \cap DOMAIN blocks'
    BY <1>1, <2>1
  <2>4. n \in DOMAIN blocks'
    BY <2>1
  <2>5. BlockIsRead(blocks'[n], Outward(n)')
    BY <1>2, <1>4, <2>1, <2>2, <2>3, <2>4, SameBlocksStayRead
  <2> QED BY <1>3, <2>1, <2>3, <2>5
<1> QED BY <1>5, <1>6, <1>7, <1>8, <1>9 DEF Effect

-----------------------------------------------------------------------------
(* The books.                                                              *)

Grants ==
  \/ UNCHANGED granted
  \/ \E fs : TakeForGranted(fs, FALSE)
  \/ \E fs : TakeForGranted(fs, ListClosed) /\ (ListClosed => ToSet(fs) \subseteq Axioms)

Registers ==
  \/ UNCHANGED <<constrainedNames, ownDeclarations>>
  \/ \E ds, chain : Register(ds, chain)

(* A line that was read against a closed list is on it.                    *)
LEMMA AxiomLinesAreListed ==
  ASSUME NEW l, NEW phi, AxiomLine(l, phi)
  PROVE  Grants /\ Registers
<1>1. CASE \E errors : Refuse(errors)
  BY <1>1 DEF Refuse, Grants, Registers, declared
<1>2. CASE /\ MembershipErrors(phi, Axioms, ListClosed) = {}
           /\ TakeForGranted(<<phi>>, ListClosed)
           /\ UNCHANGED declared
  <2>1. ListClosed => phi \in Axioms
    BY <1>2 DEF MembershipErrors, Check
  <2>2. ListClosed => ToSet(<<phi>>) \subseteq Axioms
    BY <2>1 DEF ToSet
  <2>3. Grants
    BY <1>2, <2>2, Zenon DEF Grants
  <2>4. Registers
    BY <1>2 DEF Registers, declared
  <2> QED BY <2>3, <2>4
<1> QED BY <1>1, <1>2, Zenon DEF AxiomLine, ??

(* What every other line does to the books.                                *)
LEMMA LinesKeepBooks ==
  /\ \A errors : Refuse(errors) => Grants /\ Registers
  /\ \A tag, ds : DeclareOnly(tag, ds) => Grants /\ Registers
  /\ \A l, phi, ds : DeclareFormula(l, phi, ds) => Grants /\ Registers
  /\ \A l, fs, ds : PremiseLine(l, fs, ds) => Grants /\ Registers
  /\ \A l, phi, rule, cites, ds : RuleLine(l, phi, rule, cites, ds) => Grants /\ Registers
  /\ \A l : BeginSubproof(l) => Grants /\ Registers
  /\ \A l, phi, rule, count : BeginBelow(l, phi, rule, count) => Grants /\ Registers
  /\ \A l, phi, rule, cites, count : BeginHybrid(l, phi, rule, cites, count) => Grants /\ Registers
  /\ JudgeBelow \/ JudgeHybrid => Grants /\ Registers
  /\ \A l, phi : OpenAssuming(l, phi) \/ OpenFresh(l, phi) => Grants /\ Registers
  /\ OpenBadly \/ (\E phi : MisplacedOpening(phi)) => Grants /\ Registers
  /\ CloseBlock \/ Finish \/ Done \/ UNCHANGED vars => Grants /\ Registers
<1>1. \A errors : Refuse(errors) => Grants /\ Registers
  BY DEF Refuse, Grants, Registers, declared
<1>2. \A tag, ds : DeclareOnly(tag, ds) => Grants /\ Registers
  BY <1>1, Zenon DEF DeclareOnly, Grants, Registers
<1>3. \A l, phi, ds : DeclareFormula(l, phi, ds) => Grants /\ Registers
  BY <1>1, Zenon DEF DeclareFormula, Grants, Registers
<1>4. \A l, fs, ds : PremiseLine(l, fs, ds) => Grants /\ Registers
  BY <1>1, Zenon DEF PremiseLine, Grants, Registers
<1>5. \A l, phi, rule, cites, ds : RuleLine(l, phi, rule, cites, ds) => Grants /\ Registers
  <2> SUFFICES ASSUME NEW l, NEW phi, NEW rule, NEW cites, NEW ds, RuleLine(l, phi, rule, cites, ds)
               PROVE  Grants /\ Registers
    OBVIOUS
  <2>1. \/ \E errors : Refuse(errors)
        \/ /\ Register(ds, Declare(declarations, ToSet(ds)))
           /\ IF ds = <<>> THEN UNCHANGED granted ELSE TakeForGranted(<<phi>>, FALSE)
    BY Zenon DEF RuleLine
  <2>2. CASE \E errors : Refuse(errors)
    BY <1>1, <2>2
  <2>3. CASE /\ Register(ds, Declare(declarations, ToSet(ds)))
             /\ IF ds = <<>> THEN UNCHANGED granted ELSE TakeForGranted(<<phi>>, FALSE)
    BY <2>3, Zenon DEF Grants, Registers
  <2> QED BY <2>1, <2>2, <2>3
<1>6. \A entry : Await(entry) => Grants /\ Registers
  BY DEF Await, declared, Grants, Registers
<1>7. \A l : BeginSubproof(l) => Grants /\ Registers
  BY <1>6 DEF BeginSubproof
<1>8. \A l, phi, rule, count : BeginBelow(l, phi, rule, count) => Grants /\ Registers
  BY <1>1, <1>6, Zenon DEF BeginBelow
<1>9. \A l, phi, rule, cites, count : BeginHybrid(l, phi, rule, cites, count) => Grants /\ Registers
  BY <1>1, <1>6, Zenon DEF BeginHybrid
<1>10. JudgeBelow \/ JudgeHybrid => Grants /\ Registers
  <2>1. JudgeBelow \/ JudgeHybrid => (\E errors : Refuse(errors)) \/ UNCHANGED <<declared, granted>>
    BY Zenon DEF JudgeBelow, JudgeHybrid
  <2>2. UNCHANGED <<declared, granted>> => Grants /\ Registers
    BY DEF declared, Grants, Registers
  <2> QED BY <1>1, <2>1, <2>2
<1>11. \A l, phi, fresh, chain : Open(l, phi, fresh, chain) => Grants /\ Registers
  BY DEF Open, Grants, Registers
<1>12. \A l, phi : OpenAssuming(l, phi) \/ OpenFresh(l, phi) => Grants /\ Registers
  BY <1>1, <1>11, Zenon DEF OpenAssuming, OpenFresh
<1>13. OpenBadly \/ (\E phi : MisplacedOpening(phi)) => Grants /\ Registers
  BY <1>1 DEF OpenBadly, MisplacedOpening
<1>14. CloseBlock => Grants /\ Registers
  <2>1. CloseBlock => \/ \E errors : Refuse(errors)
                      \/ UNCHANGED <<constrainedNames, ownDeclarations, granted>>
    BY Zenon DEF CloseBlock
  <2>2. UNCHANGED <<constrainedNames, ownDeclarations, granted>> => Grants /\ Registers
    BY DEF Grants, Registers
  <2> QED BY <1>1, <2>1, <2>2
<1>15. Finish \/ Done \/ UNCHANGED vars => Grants /\ Registers
  BY DEF Finish, Done, vars, declared, Grants, Registers
<1> QED BY <1>1, <1>2, <1>3, <1>4, <1>5, <1>7, <1>8, <1>9, <1>10, <1>12, <1>13, <1>14, <1>15, Zenon

(* So every step grants and registers, or neither.                         *)
LEMMA StepsKeepBooks ==
  ASSUME [Next]_vars
  PROVE  Grants /\ Registers
<1>1. CASE GivenStep
  BY <1>1, LinesKeepBooks, Zenon DEF GivenStep
<1>2. CASE \E phi \in Formula : \E l \in LabelsOf(<<phi>>, Depth) : AxiomLine(l, phi)
  BY <1>2, AxiomLinesAreListed
<1>3. CASE RuleStep
  BY <1>3, LinesKeepBooks, Zenon DEF RuleStep
<1>4. CASE BelowStep
  BY <1>4, LinesKeepBooks, Zenon DEF BelowStep
<1>5. CASE SubproofStep
  BY <1>5, LinesKeepBooks, Zenon DEF SubproofStep
<1>6. CASE JudgeBelow \/ JudgeHybrid \/ Finish \/ Done \/ UNCHANGED vars
  BY <1>6, LinesKeepBooks
<1> QED BY <1>1, <1>2, <1>3, <1>4, <1>5, <1>6 DEF Next

(* The names two sets of declarations refer to are those either does.      *)
LEMMA RefersOfUnion ==
  \A C, D : Refers(C \cup D) = Refers(C) \cup Refers(D)
BY DEF Refers

(* A step that grants and registers as lines do keeps the books balanced.  *)
LEMMA BooksStayBalanced ==
  ASSUME Grants, Registers, BooksBalance
  PROVE  BooksBalance'
<1>1. givenLines' = ownGivens' \cup usedAxioms' /\ usedAxioms' \subseteq Axioms
  <2>1. CASE UNCHANGED granted
    BY <2>1 DEF granted, BooksBalance
  <2>2. CASE \E fs : TakeForGranted(fs, FALSE)
    BY <2>2 DEF TakeForGranted, BooksBalance
  <2>3. CASE \E fs : TakeForGranted(fs, ListClosed) /\ (ListClosed => ToSet(fs) \subseteq Axioms)
    <3>1. PICK fs : TakeForGranted(fs, ListClosed) /\ (ListClosed => ToSet(fs) \subseteq Axioms)
      BY <2>3
    <3>2. CASE ListClosed
      BY <3>1, <3>2 DEF TakeForGranted, BooksBalance
    <3>3. CASE ~ ListClosed
      BY <3>1, <3>3 DEF TakeForGranted, BooksBalance
    <3> QED BY <3>2, <3>3
  <2> QED BY <2>1, <2>2, <2>3 DEF Grants
<1>2. constrainedNames' = Refers(InitialDeclarations \cup ownDeclarations')
  <2>1. CASE UNCHANGED <<constrainedNames, ownDeclarations>>
    BY <2>1 DEF BooksBalance
  <2>2. CASE \E ds, chain : Register(ds, chain)
    <3>1. PICK ds, chain : Register(ds, chain)
      BY <2>2
    <3> DEFINE D == ToSet(ds)
    <3>2. constrainedNames' = constrainedNames \cup Refers(D) /\ ownDeclarations' = ownDeclarations \cup D
      BY <3>1 DEF Register
    <3> HIDE DEF D
    <3>3. constrainedNames = Refers(InitialDeclarations) \cup Refers(ownDeclarations)
      BY RefersOfUnion DEF BooksBalance
    <3>4. Refers(InitialDeclarations \cup ownDeclarations') =
            Refers(InitialDeclarations) \cup (Refers(ownDeclarations) \cup Refers(D))
      BY <3>2, RefersOfUnion
    <3> QED BY <3>2, <3>3, <3>4
  <2> QED BY <2>1, <2>2 DEF Registers
<1> QED BY <1>1, <1>2 DEF BooksBalance

-----------------------------------------------------------------------------
(* What is arbitrary.                                                      *)

(* A constant that a rule may generalize: an object of which its           *)
(* declaration says nothing.                                               *)
Plain(d) == d.kind = "object" /\ d.refers = {} /\ d.properties = {}
PlainIn(table, c) == c \in DOMAIN table /\ Plain(table[c])

(* How many names were arbitrary when the block inside block i opened; for *)
(* the innermost block, how many are now.                                  *)
UpTo(i) == IF i = Len(blocks) THEN Len(arbitraryNames) ELSE blocks[i + 1].arbitraryInForce

ArbitraryOf(i) == blocks[i].arbitraryInForce + 1 .. UpTo(i)

(* ArbitraryAreInScope in these words, ...                                 *)
LEMMA ScopeOfArbitrary ==
  ASSUME ArbitraryAreInScope
  PROVE  \A i \in DOMAIN blocks : \A k \in ArbitraryOf(i) :
           \A c \in arbitraryNames[k] : PlainIn(declarations[i], c)
<1>1. \A d : Refers({d}) = d.refers
  BY DEF Refers
<1>2. ASSUME NEW i \in DOMAIN blocks, NEW k \in ArbitraryOf(i), NEW c \in arbitraryNames[k]
      PROVE  PlainIn(declarations[i], c)
  <2>1. k \in blocks[i].arbitraryInForce + 1 .. UpTo(i)
    BY DEF ArbitraryOf
  <2>2. /\ c \in DOMAIN declarations[i]
        /\ declarations[i][c].kind = "object"
        /\ Refers({declarations[i][c]}) = {} /\ declarations[i][c].properties = {}
    BY <2>1 DEF ArbitraryAreInScope, UpTo, Depth
  <2> QED BY <1>1, <2>2 DEF PlainIn, Plain
<1> QED BY <1>2

(* ... and after the step.                                                 *)
LEMMA ScopeOfArbitraryNext ==
  ASSUME \A i \in DOMAIN blocks' : \A k \in ArbitraryOf(i)' :
           \A c \in arbitraryNames'[k] : PlainIn(declarations'[i], c)
  PROVE  ArbitraryAreInScope'
<1>1. \A d : Refers({d}) = d.refers
  BY DEF Refers
<1>2. ASSUME NEW i \in DOMAIN blocks',
             NEW k \in blocks'[i].arbitraryInForce + 1 .. UpTo(i)', NEW c \in arbitraryNames'[k]
      PROVE  /\ c \in DOMAIN declarations'[i]
             /\ declarations'[i][c].kind = "object"
             /\ Refers({declarations'[i][c]}) = {} /\ declarations'[i][c].properties = {}
  <2>1. k \in ArbitraryOf(i)'
    BY DEF ArbitraryOf
  <2> QED BY <1>1, <2>1 DEF PlainIn, Plain
<1> QED BY <1>2 DEF ArbitraryAreInScope, UpTo, Depth

(* Where the stacks stand.                                                 *)
LEMMA StacksAreOrdered ==
  ASSUME TypeOK, StacksReachBack
  PROVE  /\ Len(blocks) \in Nat \ {0} /\ DOMAIN blocks = 1 .. Len(blocks)
         /\ arbitraryNames \in Seq(SUBSET Name) /\ Len(arbitraryNames) \in Nat
         /\ \A i \in DOMAIN blocks :
              /\ blocks[i].arbitraryInForce \in Nat
              /\ UpTo(i) \in Nat
              /\ UpTo(i) <= Len(arbitraryNames)
              /\ i < Len(blocks) => /\ i + 1 \in DOMAIN blocks
                                    /\ UpTo(i) = blocks[i + 1].arbitraryInForce
                                    /\ UpTo(i) <= blocks[Len(blocks)].arbitraryInForce
<1>1. /\ Len(blocks) \in Nat \ {0} /\ DOMAIN blocks = 1 .. Len(blocks)
      /\ arbitraryNames \in Seq(SUBSET Name) /\ Len(arbitraryNames) \in Nat
      /\ \A i \in DOMAIN blocks : blocks[i].arbitraryInForce \in Nat
  BY SequencesAreTyped
<1>2. ASSUME NEW i \in DOMAIN blocks
      PROVE  /\ UpTo(i) \in Nat
             /\ UpTo(i) <= Len(arbitraryNames)
             /\ i < Len(blocks) => /\ i + 1 \in DOMAIN blocks
                                   /\ UpTo(i) = blocks[i + 1].arbitraryInForce
                                   /\ UpTo(i) <= blocks[Len(blocks)].arbitraryInForce
  <2>1. CASE i = Len(blocks)
    BY <1>1, <2>1 DEF UpTo
  <2>2. CASE i # Len(blocks)
    <3>1. i + 1 \in 1 .. Len(blocks) /\ Len(blocks) \in 1 .. Len(blocks) /\ i + 1 <= Len(blocks)
      <4>1. i \in 1 .. Len(blocks)
        BY <1>1
      <4> QED BY <1>1, <2>2, <4>1
    <3>2. UpTo(i) = blocks[i + 1].arbitraryInForce
      BY <2>2 DEF UpTo
    <3> QED BY <1>1, <3>1, <3>2 DEF StacksReachBack
  <2> QED BY <2>1, <2>2
<1> QED BY <1>1, <1>2

(* What the step makes arbitrary in a block is plain there.                *)
Adds(table) ==
  \/ arbitraryNames' = arbitraryNames
  \/ \E S \in SUBSET Name : /\ arbitraryNames' = Append(arbitraryNames, S)
                            /\ \A c \in S : PlainIn(table, c)

(* A line of an open block may add to what is arbitrary.                   *)
LEMMA LinesKeepArbitrary ==
  ASSUME TypeOK, TypeOK', StacksReachBack, ArbitraryAreInScope, SameFrames, LinesStay,
         Adds(declarations'[Len(blocks)])
  PROVE  ArbitraryAreInScope'
<1>1. Len(blocks') = Len(blocks) /\ DOMAIN blocks' = DOMAIN blocks /\ Len(blocks) \in Nat
  BY SequencesAreTyped DEF SameFrames, TypeOK
<1>2. ASSUME NEW i \in DOMAIN blocks', NEW k \in ArbitraryOf(i)', NEW c \in arbitraryNames'[k]
      PROVE  PlainIn(declarations'[i], c)
  <2>1. /\ i \in DOMAIN blocks /\ blocks'[i].arbitraryInForce = blocks[i].arbitraryInForce
        /\ i # Len(blocks) => UpTo(i)' = UpTo(i)
        /\ i = Len(blocks) => UpTo(i)' = Len(arbitraryNames') /\ UpTo(i) = Len(arbitraryNames)
    <3>1. i # Len(blocks) => i + 1 \in DOMAIN blocks
      BY <1>1, StacksAreOrdered
    <3> QED BY <1>1, <3>1 DEF SameFrames, UpTo
  <2>2. k \in blocks[i].arbitraryInForce + 1 .. UpTo(i)'
    BY <2>1 DEF ArbitraryOf
  <2>3. Kept(declarations[i], declarations'[i])
    BY <1>1, <2>1 DEF LinesStay
  <2>4. CASE k \in ArbitraryOf(i) /\ arbitraryNames'[k] = arbitraryNames[k]
    <3>1. PlainIn(declarations[i], c)
      BY <2>1, <2>4, ScopeOfArbitrary
    <3> QED BY <2>3, <3>1 DEF PlainIn, Kept
  <2>5. CASE i = Len(blocks) /\ k = Len(arbitraryNames) + 1 /\ arbitraryNames' # arbitraryNames
    BY <2>5, StacksAreOrdered DEF Adds
  <2>6. \/ k \in ArbitraryOf(i) /\ arbitraryNames'[k] = arbitraryNames[k]
        \/ i = Len(blocks) /\ k = Len(arbitraryNames) + 1 /\ arbitraryNames' # arbitraryNames
    <3>1. CASE arbitraryNames' = arbitraryNames
      BY <2>1, <2>2, <3>1 DEF ArbitraryOf
    <3>2. CASE \E S \in SUBSET Name : arbitraryNames' = Append(arbitraryNames, S)
      <4>1. /\ Len(arbitraryNames') = Len(arbitraryNames) + 1
            /\ \A m \in 1 .. Len(arbitraryNames) : arbitraryNames'[m] = arbitraryNames[m]
            /\ arbitraryNames' # arbitraryNames
        BY <3>2, StacksAreOrdered
      <4>2. /\ blocks[i].arbitraryInForce \in Nat /\ UpTo(i) \in Nat
            /\ UpTo(i) <= Len(arbitraryNames) /\ Len(arbitraryNames) \in Nat
        BY <2>1, StacksAreOrdered
      <4>3. CASE k <= UpTo(i)
        BY <2>2, <4>1, <4>2, <4>3, <2>1 DEF ArbitraryOf
      <4>4. CASE ~ k <= UpTo(i)
        BY <2>1, <2>2, <4>1, <4>2, <4>4
      <4> QED BY <4>3, <4>4
    <3> QED BY <3>1, <3>2 DEF Adds
  <2> QED BY <2>4, <2>5, <2>6
<1> QED BY <1>2, ScopeOfArbitraryNext

(* A block that opens finds all that is arbitrary outside it, and may add  *)
(* what it declares.                                                       *)
LEMMA OpeningsKeepArbitrary ==
  ASSUME TypeOK, TypeOK', StacksReachBack, ArbitraryAreInScope,
         NEW b, blocks' = Append(blocks, b), b.arbitraryInForce = Len(arbitraryNames),
         \A i \in 1 .. Len(blocks) : declarations'[i] = declarations[i],
         Adds(declarations'[Len(blocks) + 1])
  PROVE  ArbitraryAreInScope'
<1>1. /\ blocks \in Seq(Block) /\ Len(blocks) \in Nat \ {0} /\ DOMAIN blocks = 1 .. Len(blocks)
      /\ Len(blocks') = Len(blocks) + 1 /\ DOMAIN blocks' = 1 .. Len(blocks) + 1
      /\ \A i \in 1 .. Len(blocks) : blocks'[i] = blocks[i]
      /\ blocks'[Len(blocks) + 1] = b
  BY SequencesAreTyped
<1>2. Len(blocks) + 1 \in Nat
  BY <1>1
<1>3. /\ Len(arbitraryNames) \in Nat
      /\ \A m \in 1 .. Len(arbitraryNames) : arbitraryNames'[m] = arbitraryNames[m]
  BY StacksAreOrdered DEF Adds
<1>4. ASSUME NEW i \in DOMAIN blocks', NEW k \in ArbitraryOf(i)', NEW c \in arbitraryNames'[k]
      PROVE  PlainIn(declarations'[i], c)
  <2>1. k \in blocks'[i].arbitraryInForce + 1 .. UpTo(i)'
    BY DEF ArbitraryOf
  <2>2. CASE i \in 1 .. Len(blocks)
    <3>1. UpTo(i)' = UpTo(i)
      <4>1. UpTo(i)' = blocks'[i + 1].arbitraryInForce
        BY <1>1, <2>2 DEF UpTo
      <4>2. CASE i = Len(blocks)
        BY <1>1, <4>1, <4>2 DEF UpTo
      <4>3. CASE i # Len(blocks)
        <5>1. i + 1 \in 1 .. Len(blocks)
          BY <1>1, <2>2, <4>3
        <5> QED BY <1>1, <4>1, <4>3, <5>1 DEF UpTo
      <4> QED BY <4>2, <4>3
    <3>2. /\ blocks[i].arbitraryInForce \in Nat /\ UpTo(i) \in Nat
          /\ UpTo(i) <= Len(arbitraryNames)
      BY <1>1, <2>2, StacksAreOrdered
    <3>3. k \in ArbitraryOf(i) /\ k \in 1 .. Len(arbitraryNames)
      BY <1>1, <1>3, <2>1, <2>2, <3>1, <3>2 DEF ArbitraryOf
    <3> QED BY <1>1, <1>2, <1>3, <2>2, <3>3, ScopeOfArbitrary
  <2>3. CASE i = Len(blocks) + 1
    <3>1. k \in Len(arbitraryNames) + 1 .. Len(arbitraryNames')
      BY <1>1, <2>1, <2>3 DEF UpTo
    <3>2. arbitraryNames \in Seq(SUBSET Name)
      BY StacksAreOrdered
    <3>3. arbitraryNames' # arbitraryNames
      BY <1>3, <3>1
    <3>4. PICK S \in SUBSET Name : /\ arbitraryNames' = Append(arbitraryNames, S)
                                   /\ \A d \in S : PlainIn(declarations'[Len(blocks) + 1], d)
      BY <3>3 DEF Adds
    <3>5. k = Len(arbitraryNames) + 1 /\ arbitraryNames'[k] = S
      BY <1>3, <3>1, <3>2, <3>4
    <3> QED BY <1>2, <2>3, <3>4, <3>5
  <2>4. \A n \in Nat : \A j \in 1 .. n + 1 : j \in 1 .. n \/ j = n + 1
    OBVIOUS
  <2> QED BY <1>1, <2>2, <2>3, <2>4
<1> QED BY <1>4, ScopeOfArbitraryNext

(* A block that closes takes what became arbitrary in it along.            *)
LEMMA ClosingKeepsArbitrary ==
  ASSUME TypeOK, TypeOK', StacksReachBack, ArbitraryAreInScope, Len(blocks) > 1,
         Len(blocks') = Len(blocks) - 1,
         \A i \in 1 .. Len(blocks) - 1 :
           blocks'[i].arbitraryInForce = blocks[i].arbitraryInForce,
         declarations' = Parent(declarations),
         arbitraryNames' = StruckOff(arbitraryNames, blocks[Len(blocks)].arbitraryInForce)
  PROVE  ArbitraryAreInScope'
<1> DEFINE n == Len(blocks) - 1
           kept == blocks[Len(blocks)].arbitraryInForce
<1>1. /\ n \in Nat /\ n > 0 /\ n + 1 = Len(blocks) /\ DOMAIN blocks = 1 .. n + 1
      /\ DOMAIN blocks' = 1 .. n
      /\ kept \in Nat /\ kept <= Len(arbitraryNames) /\ n + 1 \in DOMAIN blocks
      /\ UpTo(n) = kept /\ n \in DOMAIN blocks
  <2>1. n \in Nat /\ n > 0 /\ n + 1 = Len(blocks) /\ DOMAIN blocks = 1 .. n + 1 /\ n \in 1 .. n + 1
        /\ n # Len(blocks)
    BY StacksAreOrdered
  <2>2. DOMAIN blocks' = 1 .. n
    BY SequencesAreTyped DEF TypeOK
  <2>3. UpTo(n) = kept
    BY <2>1 DEF UpTo
  <2> QED BY <2>1, <2>2, <2>3, StacksAreOrdered DEF StacksReachBack
<1>2. /\ Len(arbitraryNames') = kept
      /\ \A m \in 1 .. kept : arbitraryNames'[m] = arbitraryNames[m]
  BY <1>1, StacksAreOrdered DEF StruckOff
<1>3. \A i \in 1 .. n : declarations'[i] = declarations[i]
  BY ScopesAreTyped, ParentLeaves
<1>4. ASSUME NEW i \in DOMAIN blocks', NEW k \in ArbitraryOf(i)', NEW c \in arbitraryNames'[k]
      PROVE  PlainIn(declarations'[i], c)
  <2>1. i \in 1 .. n /\ i \in DOMAIN blocks /\ i < Len(blocks)
    BY <1>1
  <2>2. k \in blocks[i].arbitraryInForce + 1 .. UpTo(i)'
    BY <2>1 DEF ArbitraryOf
  <2>3. UpTo(i)' = UpTo(i) /\ UpTo(i) <= kept /\ UpTo(i) \in Nat /\ blocks[i].arbitraryInForce \in Nat
    <3>1. CASE i = n
      BY <1>1, <1>2, <2>1, <3>1, StacksAreOrdered DEF UpTo
    <3>2. CASE i # n
      <4>1. i + 1 \in 1 .. n
        BY <1>1, <2>1, <3>2
      <4>2. UpTo(i)' = blocks'[i + 1].arbitraryInForce
        BY <3>2 DEF UpTo
      <4> QED BY <2>1, <4>1, <4>2, StacksAreOrdered
    <3> QED BY <3>1, <3>2
  <2>4. k \in ArbitraryOf(i) /\ k \in 1 .. kept
    BY <1>1, <2>2, <2>3 DEF ArbitraryOf
  <2> QED BY <1>2, <1>3, <2>1, <2>4, ScopeOfArbitrary
<1> QED BY <1>4, ScopeOfArbitraryNext
(* A declaration that does not conflict with its list is found under its   *)
(* name.                                                                   *)
LEMMA DeclaredIsFound ==
  ASSUME NEW D, NEW d \in D, \A e \in D : e.name = d.name => e = d
  PROVE  d.name \in DOMAIN TableOf(D) /\ TableOf(D)[d.name] = d
<1>1. \A e \in D : e.name = d.name <=> e = d
  OBVIOUS
<1>2. (CHOOSE e \in D : e.name = d.name) = d
  BY <1>1
<1> QED BY <1>2 DEF TableOf

(* What is declared in a block is found there.                             *)
LEMMA DeclaredHere ==
  ASSUME NEW T, NEW chain \in Seq(T), Len(chain) > 0, NEW table, NEW c \in DOMAIN table
  PROVE  /\ c \in DOMAIN BindAll(chain, table)[Len(chain)]
         /\ BindAll(chain, table)[Len(chain)][c] = table[c]
<1>1. Len(chain) \in DOMAIN chain
  OBVIOUS
<1> QED BY <1>1 DEF BindAll

(* The objects that a line which only declares makes arbitrary are plain.  *)
LEMMA DeclareOnlyKeepsArbitrary ==
  ASSUME TypeOK, TypeOK', StacksReachBack, ArbitraryAreInScope, LinesStay,
         NEW tag, NEW ds \in Seq(Declaration), DeclareOnly(tag, ds)
  PROVE  ArbitraryAreInScope'
<1>1. SameFrames
  BY LinesKeepFrames DEF DeclareOnly, SameFrames
<1>2. CASE UNCHANGED arbitraryNames
  BY <1>1, <1>2, LinesKeepArbitrary DEF Adds
<1>3. CASE /\ ConflictErrors(declarations, ds) = {}
           /\ declarations' = Declare(declarations, ToSet(ds))
           /\ arbitraryNames' = Append(arbitraryNames, PlainObjects(ds))
  <2>1. /\ declarations \in Seq(Tables(Name, Declaration)) /\ Len(declarations) = Len(blocks)
        /\ Len(declarations) > 0
    BY ScopesAreTyped
  <2>2. \A d, e \in ToSet(ds) : e.name = d.name => e = d
    <3>1. \A i, j \in DOMAIN ds : ds[i].name = ds[j].name => i = j
      BY <1>3 DEF ConflictErrors, Check
    <3> QED BY <3>1 DEF ToSet
  <2>3. ASSUME NEW c \in PlainObjects(ds) PROVE PlainIn(declarations'[Len(blocks)], c)
    <3>1. PICK d \in ToSet(ds) :
            d.kind = "object" /\ d.refers = {} /\ d.properties = {} /\ d.name = c
      BY DEF PlainObjects
    <3>2. c \in DOMAIN TableOf(ToSet(ds)) /\ TableOf(ToSet(ds))[c] = d
      BY <2>2, <3>1, DeclaredIsFound
    <3>3. /\ c \in DOMAIN declarations'[Len(blocks)]
          /\ declarations'[Len(blocks)][c] = d
      BY <1>3, <2>1, <3>2, DeclaredHere DEF Declare
    <3> QED BY <3>1, <3>3 DEF PlainIn, Plain
  <2>4. Adds(declarations'[Len(blocks)])
    BY <1>3, <2>3, PlainObjectsAreNames DEF Adds
  <2> QED BY <1>1, <2>4, LinesKeepArbitrary
<1>4. \/ UNCHANGED arbitraryNames
      \/ /\ ConflictErrors(declarations, ds) = {}
         /\ declarations' = Declare(declarations, ToSet(ds))
         /\ arbitraryNames' = Append(arbitraryNames, PlainObjects(ds))
  BY DEF DeclareOnly, Register, Refuse, inForce
<1> QED BY <1>2, <1>3, <1>4

(* So is the constant a "Fresh Variable" subproof opens on.                *)
LEMMA OpenKeepsArbitrary ==
  ASSUME TypeOK, TypeOK', StacksReachBack, ArbitraryAreInScope, LinesStay,
         NEW l, NEW phi, OpenAssuming(l, phi) \/ OpenFresh(l, phi)
  PROVE  ArbitraryAreInScope'
<1> DEFINE flags == {FlagDeclaration(c) : c \in FlagNames(phi)}
           b(fresh) == [opener |-> phi, fresh |-> fresh, seen |-> {phi}, last |-> phi,
                        pending |-> NothingPending,
                        assumptionsInForce |-> AssumptionsNow,
                        arbitraryInForce |-> Len(arbitraryNames)]
           child == Child(declarations)
           n == Len(blocks)
<1>1. CASE \E errors : Refuse(errors)
  <2>1. SameFrames /\ UNCHANGED arbitraryNames
    BY <1>1, LinesKeepFrames DEF inForce
  <2> QED BY <2>1, LinesKeepArbitrary DEF Adds
<1>2. /\ declarations \in Seq(Tables(Name, Declaration)) /\ Len(declarations) = n /\ n \in Nat
      /\ EmptyTable \in Tables(Name, Declaration)
  BY ScopesAreTyped, SmallTables
<1>3. /\ child \in Seq(Tables(Name, Declaration)) /\ Len(child) = n + 1
      /\ \A i \in 1 .. n : child[i] = declarations[i] /\ i # n + 1 /\ i \in DOMAIN child
  BY <1>2 DEF Child
<1> HIDE DEF child, n
<1>4. CASE OpenAssuming(l, phi) /\ ~ \E errors : Refuse(errors)
  <2>1. /\ blocks' = Append(blocks, b(FALSE))
        /\ declarations' = child
        /\ arbitraryNames' = arbitraryNames
    BY <1>4, Zenon DEF OpenAssuming, Open, child
  <2> QED BY <1>3, <2>1, OpeningsKeepArbitrary DEF Adds, n
<1>5. CASE OpenFresh(l, phi) /\ ~ \E errors : Refuse(errors)
  <2>1. /\ blocks' = Append(blocks, b(TRUE))
        /\ declarations' = BindAll(child, TableOf(flags))
        /\ \/ arbitraryNames' = arbitraryNames
           \/ arbitraryNames' = Append(arbitraryNames, FlagNames(phi))
    BY <1>5, Zenon DEF OpenFresh, Open, child, Declare
  <2>2. \A i \in 1 .. n : declarations'[i] = declarations[i]
    BY <1>3, <2>1 DEF BindAll
  <2>3. ASSUME NEW c \in FlagNames(phi) PROVE PlainIn(declarations'[n + 1], c)
    <3>1. /\ FlagDeclaration(c) \in flags
          /\ \A e \in flags : e.name = FlagDeclaration(c).name => e = FlagDeclaration(c)
          /\ FlagDeclaration(c).name = c
          /\ Plain(FlagDeclaration(c))
      <4>1. \A a : FlagDeclaration(a).name = a
        BY DEF FlagDeclaration
      <4>2. Plain(FlagDeclaration(c))
        BY DEF FlagDeclaration, Plain
      <4>3. \A e \in flags : e = FlagDeclaration(e.name)
        BY <4>1
      <4> QED BY <4>1, <4>2, <4>3
    <3> HIDE DEF flags
    <3>2. c \in DOMAIN TableOf(flags) /\ TableOf(flags)[c] = FlagDeclaration(c)
      BY <3>1, DeclaredIsFound
    <3>3. Len(child) > 0
      BY <1>2, <1>3
    <3>4. /\ c \in DOMAIN declarations'[n + 1]
          /\ declarations'[n + 1][c] = FlagDeclaration(c)
      BY <1>3, <2>1, <3>2, <3>3, DeclaredHere
    <3> QED BY <3>1, <3>4 DEF PlainIn
  <2>4. Adds(declarations'[n + 1])
    BY <2>1, <2>3 DEF Adds, FlagNames
  <2>5. b(TRUE).arbitraryInForce = Len(arbitraryNames)
    OBVIOUS
  <2> QED BY <2>1, <2>2, <2>4, <2>5, OpeningsKeepArbitrary DEF n
<1> QED BY <1>1, <1>4, <1>5

(* What is arbitrary stays in scope at every step.                         *)
LEMMA StepsKeepArbitrary ==
  ASSUME Invariant, Invariant', ArbitraryAreInScope, LinesStay, [Next]_vars
  PROVE  ArbitraryAreInScope'
<1>1. TypeOK /\ TypeOK' /\ StacksReachBack
  BY DEF Invariant, InForce
<1>2. ASSUME SameFrames, UNCHANGED inForce PROVE ArbitraryAreInScope'
  BY <1>1, <1>2, LinesKeepArbitrary DEF Adds, inForce
<1>3. CASE GivenStep
  <2>1. \/ \E ds \in DeclarationLists \cup {<<>>} : \E tag : DeclareOnly(tag, ds)
        \/ \E l, phi, ds : DeclareFormula(l, phi, ds)
        \/ \E l, fs, ds : PremiseLine(l, fs, ds)
    BY <1>3, Zenon DEF GivenStep
  <2> QED BY <1>1, <1>2, <2>1, Inputs, DeclareOnlyKeepsArbitrary, LinesAreQuiet
<1>4. CASE \E phi \in Formula : \E l \in LabelsOf(<<phi>>, Depth) : AxiomLine(l, phi)
  BY <1>1, <1>2, <1>4, LinesAreQuiet
<1>5. CASE RuleStep
  <2>1. \/ \E l, phi, rule, cites, ds : RuleLine(l, phi, rule, cites, ds)
        \/ \E l, phi, rule, cites, count : BeginHybrid(l, phi, rule, cites, count)
    BY <1>5, Zenon DEF RuleStep
  <2> QED BY <1>1, <1>2, <2>1, LinesAreQuiet
<1>6. CASE BelowStep
  <2>1. \E l, phi, rule, count : BeginBelow(l, phi, rule, count)
    BY <1>6, Zenon DEF BelowStep
  <2> QED BY <1>1, <1>2, <2>1, LinesAreQuiet
<1>7. CASE JudgeBelow \/ JudgeHybrid \/ Finish \/ Done \/ UNCHANGED vars
  BY <1>1, <1>2, <1>7, LinesAreQuiet
<1>8. CASE SubproofStep
  <2>1. \/ \E l : BeginSubproof(l)
        \/ OpenBadly \/ \E phi : MisplacedOpening(phi)
        \/ \E l, phi : OpenAssuming(l, phi) \/ OpenFresh(l, phi)
        \/ CloseBlock
    BY <1>8, Zenon DEF SubproofStep
  <2>2. CASE CloseBlock
    <3> DEFINE n == Depth - 1
    <3>1. \/ \E errors : Refuse(errors)
          \/ /\ \E record :
                  blocks' = IF blocks[n].pending.tag = "subproof"
                            THEN [SubSeq(blocks, 1, n) EXCEPT ![n].seen    = @ \cup {record},
                                                              ![n].last    = NoFormula,
                                                              ![n].pending = NothingPending]
                            ELSE [SubSeq(blocks, 1, n) EXCEPT ![n].pending.records = Append(@, record)]
             /\ declarations' = Parent(declarations)
             /\ arbitraryNames' = StruckOff(arbitraryNames, Top.arbitraryInForce)
      BY <2>2, Zenon DEF CloseBlock
    <3>2. /\ n \in Nat \ {0} /\ n + 1 = Len(blocks) /\ Len(blocks) > 1
          /\ Top = blocks[Len(blocks)]
      BY <1>1, <2>2, ScopesAreTyped DEF CloseBlock, Top
    <3> HIDE DEF n
    <3>3. CASE \E errors : Refuse(errors)
      BY <1>1, <1>2, <3>3, LinesKeepFrames
    <3>4. CASE ~ \E errors : Refuse(errors)
      <4>1. /\ Len(blocks') = n
            /\ \A i \in 1 .. n : blocks'[i].arbitraryInForce = blocks[i].arbitraryInForce
        BY <1>1, <3>1, <3>2, <3>4, ClosingKeepsFrames
      <4>2. n = Len(blocks) - 1
        BY <3>2
      <4> QED BY <1>1, <3>1, <3>2, <3>4, <4>1, <4>2, ClosingKeepsArbitrary
    <3> QED BY <3>3, <3>4
  <2> QED BY <1>1, <1>2, <2>1, <2>2, LinesAreQuiet, OpenKeepsArbitrary
<1> QED BY <1>3, <1>4, <1>5, <1>6, <1>7, <1>8 DEF Next

-----------------------------------------------------------------------------
(* Theorems.                                                               *)

(* LabelScope and DeclarationScope, as the walk uses them, are lexical     *)
(* environments: what a line binds names nothing visible yet, and what is  *)
(* bound in a subproof goes with it, but for the name of its record.       *)
THEOREM WalkRefinesLexicalEnvironment == Spec => ScopesAreLexical
<1>1. Init => LabelNames!Init /\ SymbolNames!Init
  BY DEF Init, LabelNames!Init, SymbolNames!Init
<1>2. Invariant /\ [Next]_vars => [LabelNames!Next]_labels /\ [SymbolNames!Next]_declarations
  BY StepsHaveEffects, ScopesTakeLexicalSteps DEF Invariant
<1> QED BY <1>1, <1>2, InvariantHolds, PTL DEF Spec, ScopesAreLexical, LabelNames!Spec, SymbolNames!Spec

(* At every line of every proof a label, and a declared name, has one      *)
(* meaning: no binding hides that of an enclosing block.                   *)
THEOREM NamesStayUnique == Spec => []NamesAreUnique
<1>1. Init => NamesAreUnique
  BY DEF Init, NamesAreUnique, NoShadowing
<1>2. Invariant /\ Invariant' /\ NamesAreUnique /\ [Next]_vars => NamesAreUnique'
  BY StepsHaveEffects, StepsKeepNamesUnique DEF Invariant
<1> QED BY <1>1, <1>2, InvariantHolds, PTL DEF Spec

(* As long as a block is open its lines stand, and its labels and names    *)
(* mean what they first meant.                                             *)
THEOREM OpenLinesStand == Spec => LinesStand
<1>1. Invariant /\ Invariant' /\ [Next]_vars =>
        [\A i \in DOMAIN blocks \cap DOMAIN blocks' :
           /\ blocks[i].seen \subseteq blocks'[i].seen
           /\ Kept(labels[i], labels'[i])
           /\ Kept(declarations[i], declarations'[i])]_vars
  BY StepsHaveEffects, StepsKeepLines DEF Invariant, LinesStay
<1> QED BY <1>1, InvariantHolds, PTL DEF Spec, LinesStand

(* Whatever a label names is a line of the block that the label belongs    *)
(* to: no line of a closed subproof can be cited again.                    *)
THEOREM ClosedLinesAreOutOfReach == Spec => []CitableLinesAreOpen
<1>1. Init => CitableLinesAreOpen
  BY DEF Init, CitableLinesAreOpen, EmptyTable
<1>2. Invariant /\ Invariant' /\ CitableLinesAreOpen /\ [Next]_vars => CitableLinesAreOpen'
  BY StepsHaveEffects, StepsKeepLinesOpen DEF Invariant
<1> QED BY <1>1, <1>2, InvariantHolds, PTL DEF Spec

(* Every formula derived in a block uses the symbols declared there or     *)
(* around it, as what they were declared.                                  *)
THEOREM DerivedSymbolsAreDeclared == Spec => []SymbolsAreDeclared
<1>1. Init => SymbolsOK
  BY DEF Init, Root, NothingPending, Entry, SymbolsOK, SymbolsAreDeclared, WaitingLinesAreRead
<1>2. /\ Invariant /\ Invariant' /\ NamesAreUnique /\ NamesAreUnique' /\ SymbolsOK /\ [Next]_vars
      => SymbolsOK'
  BY StepsHaveEffects, StepsKeepSymbols DEF Invariant
<1>3. Spec => []SymbolsOK
  BY <1>1, <1>2, InvariantHolds, NamesStayUnique, PTL DEF Spec
<1> QED BY <1>3, PTL DEF SymbolsOK

(* What was taken for granted anywhere in a proof is what the theorem made *)
(* of it owes, and every name a declaration referred to is remembered as   *)
(* constrained.                                                            *)
THEOREM BooksAlwaysBalance == Spec => []BooksBalance
<1>1. Init => BooksBalance
  BY DEF Init, BooksBalance
<1>2. BooksBalance /\ [Next]_vars => BooksBalance'
  BY StepsKeepBooks, BooksStayBalanced
<1> QED BY <1>1, <1>2, PTL DEF Spec

(* Whatever a rule may take for arbitrary is an object declared in the     *)
(* block it counts for, and its declaration says nothing more of it.       *)
THEOREM ArbitraryStayInScope == Spec => []ArbitraryAreInScope
<1>1. Init => ArbitraryAreInScope
  BY DEF Init, ArbitraryAreInScope, Root, Depth
<1>2. Invariant /\ Invariant' /\ ArbitraryAreInScope /\ [Next]_vars => ArbitraryAreInScope'
  <2>1. Invariant /\ Invariant' /\ [Next]_vars => LinesStay
    BY StepsHaveEffects, StepsKeepLines DEF Invariant
  <2> QED BY <2>1, StepsKeepArbitrary
<1> QED BY <1>1, <1>2, InvariantHolds, PTL DEF Spec
=============================================================================
