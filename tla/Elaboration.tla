---------------------------- MODULE Elaboration ----------------------------
(***************************************************************************)
(* The elaborator and the kernel on the same text.  Elaboration            *)
(* (source/ProofParser.py, _ElaborationContext) turns each line as written *)
(* into an entry for the kernel and keeps a scope of its own, a            *)
(* ProofContext (source/ProofContext.py): it refuses names in use and      *)
(* resolves the label of an "Existence from L" line there.  The kernel     *)
(* reads the entries with its LabelScope and DeclarationScope, "an         *)
(* independent validation authority".                                      *)
(*                                                                         *)
(* The program elaborates the whole text before the kernel reads it; here  *)
(* both move a line at a time, so that their scopes at the same line stand *)
(* side by side.  A text the elaborator refuses never reaches the kernel.  *)
(***************************************************************************)
EXTENDS ProofValidator

CONSTANTS
  Existential,      \* the formulas an "Existence" line may name a witness of
  WitnessOf(_, _),  \* what such a formula says of the witness
  Definitions       \* what an "Existence" line may define besides: the
                    \* declarations it makes and the equations it states

ASSUME ExistenceAssumption ==
  /\ \A f \in Existential, c \in Name : WitnessOf(f, c) \in Formula
  /\ \A d \in Definitions : d.declares \in Seq(Declaration) /\ d.states \in Seq(Formula)

VARIABLES
  context,     \* the ProofContext: a chain of tables for each kind of binding
  unreadable   \* the elaborator has refused the text

textVars == <<context, unreadable, vars>>

(* The value of a label whose line states no formula: None.                *)
NoStatement == <<>>

EmptyContext ==
  [declarations |-> <<TableOf(InitialDeclarations)>>, labels |-> <<EmptyTable>>,
   assumptions  |-> <<EmptyTable>>,                   arbitrary |-> <<EmptyTable>>]

(* child(), and the parent again when the subproof is elaborated.  Mutant: *)
(* the bindings of the child are brought along.                            *)
ChildContext      == [table \in DOMAIN context |-> Child(context[table])]
BroughtAlong      == [table \in DOMAIN context |-> ParentMerged(context[table])]
RestoredContext   == [table \in DOMAIN context |-> Parent(context[table])]

-----------------------------------------------------------------------------
(* Names in use.  Labels and labelled assumptions share one namespace;     *)
(* declarations and arbitrary names have one each.  Mutant: a labelled     *)
(* assumption is not looked for.                                           *)
LineLabelFree(l)  == l = NoLabel \/ ~ IsBound(context.labels, l)
ReferenceFree(l)  == l = NoLabel \/ ~ (IsBound(context.labels, l) \/ IsBound(context.assumptions, l))

NamesFree(ds) ==
  /\ \A i \in DOMAIN ds : ~ IsBound(context.declarations, ds[i].name)
  /\ \A i, j \in DOMAIN ds : ds[i].name = ds[j].name => i = j

(* lookup_reference.                                                       *)
Reference(l) ==
  IF IsBound(context.labels, l) THEN Lookup(context.labels, l)
  ELSE IF IsBound(context.assumptions, l) THEN Lookup(context.assumptions, l)
  ELSE NoStatement

(* elaborate_entry, for the line labelled l that states fs: the line's     *)
(* declarations are registered, then the label is bound in table.  Without *)
(* a label only some elaborators register what the line declares.          *)
Registering(l) == IF l = NoLabel THEN BOOLEAN ELSE {TRUE}

BindReference(ctx, table, l, fs) ==
  IF l = NoLabel THEN ctx ELSE [ctx EXCEPT ![table] = BindAll(@, Single(l, fs))]

Write(l, fs, ds, registers) ==
  /\ ReferenceFree(l)
  /\ registers => NamesFree(ds)
  /\ context' = BindReference(
       IF registers THEN [context EXCEPT !.declarations = Declare(@, ToSet(ds))] ELSE context,
       "labels", l, fs)

-----------------------------------------------------------------------------
(* Lines.  The elaborator and the kernel both go on.                       *)
GoesOn  == ~ unreadable /\ UNCHANGED unreadable
Ignored == GoesOn /\ UNCHANGED context

TextDeclareOnly ==
  \E tag \in {"declare", "premise"}, ds \in DeclarationLists, l \in LabelsOf(<<>>, Depth) :
    \E r \in Registering(l) :
      GoesOn /\ Write(l, NoStatement, ds, r) /\ DeclareOnly(tag, ds)

TextDeclareFormula ==
  \E ds \in DeclarationLists \cup {<<>>}, phi \in DeclareLines :
    \E l \in LabelsOf(<<phi>>, Depth) : \E r \in Registering(l) :
      GoesOn /\ Write(l, <<phi>>, ds, r) /\ DeclareFormula(l, phi, ds)

TextPremise ==
  \E ds \in DeclarationLists \cup {<<>>}, fs \in PremiseLists :
    \E l \in LabelsOf(fs, Depth) : \E r \in Registering(l) :
      GoesOn /\ Write(l, fs, ds, r) /\ PremiseLine(l, fs, ds)

TextAxiom ==
  \E phi \in Formula : \E l \in LabelsOf(<<phi>>, Depth) :
    GoesOn /\ Write(l, <<phi>>, <<>>, FALSE) /\ AxiomLine(l, phi)

(* try_elaborate_existence: c names a witness of the existential formula   *)
(* at the cited label, and the kernel is given a premise that declares c.  *)
WitnessDeclaration(c) ==
  [name |-> c, kind |-> "object", arity |-> AnyArity, refers |-> {}, properties |-> {}]

ExistenceLine(l, cited, c, definition) ==
  LET fs     == Reference(cited)
      stated == <<WitnessOf(fs[1], c)>> \o definition.states
      ds     == <<WitnessDeclaration(c)>> \o definition.declares
  IN  /\ Len(fs) = 1 /\ fs[1] \in Existential
      /\ Write(l, stated, ds, l # NoLabel)
      /\ PremiseLine(l, stated, ds)

TextExistence ==
  \E l \in Label \cup {NoLabel}, cited \in Label, c \in Name, definition \in Definitions :
    GoesOn /\ ExistenceLine(l, cited, c, definition)

(* A line justified by a rule; the declarations it makes are registered    *)
(* with it, labelled or not.                                               *)
TextRule ==
  \E rule \in Rule : \E phi \in Claims(rule), cites \in Cites(rule) :
    \E l \in LabelsOf(<<phi>>, Depth), ds \in DeclarationLists \cup {<<>>} :
      GoesOn /\ Write(l, <<phi>>, ds, TRUE) /\ RuleLine(l, phi, rule, cites, ds)

(* Its subproofs are elaborated before its own label is bound; their       *)
(* number has to be what the rule takes.                                   *)
TextBegin ==
  \E rule \in BelowRule : \E phi \in Claims(rule), cites \in Cites(rule) :
    \E l \in LabelsOf(<<phi>>, Depth) :
      /\ Ignored
      /\ \/ Len(cites) < Arity(rule) /\ BeginHybrid(l, phi, rule, cites, Arity(rule) - Len(cites))
         \/ cites = <<>> /\ BeginBelow(l, phi, rule, 1)

TextJudge ==
  /\ GoesOn
  /\ Write(Top.pending.label, <<Top.pending.phi>>, <<>>, FALSE)
  /\ JudgeBelow \/ JudgeHybrid

(* elaborate_subproof_body.  The first line of a subproof binds in the new *)
(* context, a closed subproof binds nothing, not even its own label.       *)
TextSubproof == \E l \in LabelsOf(<<>>, Depth) : Ignored /\ BeginSubproof(l)

TextOpenAssuming ==
  \E phi \in AssumeLines : \E l \in LabelsOf(<<phi>>, Depth + 1) :
    /\ GoesOn
    /\ ReferenceFree(l)
    /\ context' = BindReference(ChildContext, "assumptions", l, <<phi>>)
    /\ OpenAssuming(l, phi)

Fresh(phi) == \A c \in FlagNames(phi) : ~ IsBound(context.arbitrary, c)

TextOpenFresh ==
  \E phi \in FreshLines : \E l \in LabelsOf(<<phi>>, Depth + 1) :
    LET named == IF l = NoLabel THEN {} ELSE FlagNames(phi)
        inner == [ChildContext EXCEPT !.arbitrary = BindAll(@, [c \in named |-> NoStatement])]
    IN  /\ GoesOn
        /\ ReferenceFree(l)
        /\ l # NoLabel => Fresh(phi)
        /\ context' = BindReference(inner, "labels", l, <<phi>>)
        /\ OpenFresh(l, phi)

TextClose == GoesOn /\ CloseBlock /\ context' = RestoredContext

(* What the elaborator passes on for the kernel to refuse.                 *)
TextMisplaced == Ignored /\ (OpenBadly \/ \E phi \in AssumeLines \cup FreshLines : MisplacedOpening(phi))

TextFinish == Ignored /\ Finish

(* An ElaborationError: a label or a name in use, or an "Existence" line   *)
(* whose label names no existential formula.                               *)
Unreadable ==
  /\ Checking /\ ~ unreadable
  /\ \/ \E l \in Label : ~ ReferenceFree(l) \/ ToSet(Reference(l)) \cap Existential = {}
     \/ \E ds \in DeclarationLists : ~ NamesFree(ds)
     \/ \E phi \in FreshLines : ~ Fresh(phi)
  /\ unreadable' = TRUE
  /\ UNCHANGED <<context, vars>>

TextDone == (unreadable \/ ~ Checking) /\ UNCHANGED textVars

TextInit == Init /\ context = EmptyContext /\ unreadable = FALSE

TextNext ==
  \/ TextDeclareOnly \/ TextDeclareFormula \/ TextPremise \/ TextAxiom \/ TextExistence
  \/ TextRule \/ TextBegin \/ TextJudge
  \/ TextSubproof \/ TextOpenAssuming \/ TextOpenFresh \/ TextClose \/ TextMisplaced
  \/ TextFinish \/ Unreadable \/ TextDone

TextSpec == TextInit /\ [][TextNext]_textVars

-----------------------------------------------------------------------------
(* Properties.                                                             *)

(* The two namespaces of labels as one chain of tables.                    *)
Merged(t, u) == [k \in DOMAIN t \cup DOMAIN u |-> IF k \in DOMAIN t THEN t[k] ELSE u[k]]
References   == [i \in DOMAIN context.labels |-> Merged(context.labels[i], context.assumptions[i])]

Only(table, K) == [k \in K |-> table[k]]
Statements(table) == Only(table, {k \in DOMAIN table : table[k] # NoStatement})
KernelLines(i)    == Only(labels[i], {l \in DOMAIN labels[i] : ~ NamesRecord(labels[i][l])})

(* "The context and the kernel's LabelScope enforce the same visibility    *)
(* rule": as long as both accept, a label that names formulas names the    *)
(* same formulas, of the same block, in both; so an "Existence" line       *)
(* instantiates the line the kernel knows by that label.                   *)
ReferencesAgree ==
  Checking => \A i \in DOMAIN blocks : Statements(References[i]) = KernelLines(i)

(* What the elaborator takes for declared, or for arbitrary, the kernel    *)
(* has declared in the same block; it may know more by inference.          *)
VocabularyAgrees ==
  Checking =>
    \A i \in DOMAIN blocks :
      /\ \A n \in DOMAIN context.declarations[i] :
           n \in DOMAIN declarations[i] /\ declarations[i][n] = context.declarations[i][n]
      /\ \A n \in DOMAIN context.arbitrary[i] :
           n \in DOMAIN declarations[i] /\ n \in UNION ToSet(arbitraryNames)

(* ProofContext is a lexical environment in each of its namespaces, the    *)
(* shared one of labels and assumptions included.                          *)
ReferenceNames == INSTANCE LexicalEnvironment WITH scopes <- References, IsResult <- NamesNothing
KnownNames     == INSTANCE LexicalEnvironment WITH scopes <- context.declarations, IsResult <- NamesNothing
FreshNames     == INSTANCE LexicalEnvironment WITH scopes <- context.arbitrary, IsResult <- NamesNothing
ContextIsLexical == ReferenceNames!Spec /\ KnownNames!Spec /\ FreshNames!Spec
=============================================================================
