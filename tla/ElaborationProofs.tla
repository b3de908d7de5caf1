------------------------- MODULE ElaborationProofs -------------------------
(***************************************************************************)
(* The elaborator and the kernel on the same text, for all formulas,       *)
(* labels, names, definitions and bounds: the elaborator's context is a    *)
(* lexical environment, the kernel's invariants hold of what it hands on,  *)
(* and as long as both accept they agree on what labels and names mean.    *)
(*                                                                         *)
(* A line of the text writes into the context, opens a child of it,        *)
(* returns to the parent or leaves it alone, even if the kernel refuses    *)
(* the line; if the kernel accepts, its scopes take the same step.         *)
(***************************************************************************)
EXTENDS Elaboration, ProofValidatorProofs

-----------------------------------------------------------------------------
(* The kernel under the elaborator.                                        *)

(* A line that names a witness is a premise line that the walk by itself   *)
(* would not enumerate: what it states comes from a label.                 *)
WitnessLine ==
  \E l \in Label \cup {NoLabel}, fs \in Seq(Formula), ds \in Seq(Declaration) :
    fs # <<>> /\ PremiseLine(l, fs, ds)

(* The declaration of a witness is one the kernel takes.                   *)
LEMMA WitnessIsDeclared ==
  ASSUME NEW c \in Name
  PROVE  WitnessDeclaration(c) \in Declaration
BY DEF WitnessDeclaration, Declaration, Kind, AnyArity

(* What an existence line states and declares.                             *)
LEMMA WitnessLines ==
  ASSUME NEW f \in Existential, NEW c \in Name, NEW definition \in Definitions
  PROVE  /\ <<WitnessOf(f, c)>> \o definition.states \in Seq(Formula)
         /\ <<WitnessOf(f, c)>> \o definition.states # <<>>
         /\ <<WitnessDeclaration(c)>> \o definition.declares \in Seq(Declaration)
<1>1. WitnessOf(f, c) \in Formula /\ WitnessDeclaration(c) \in Declaration
  BY ExistenceAssumption, WitnessIsDeclared
<1>2. definition.states \in Seq(Formula) /\ definition.declares \in Seq(Declaration)
  BY ExistenceAssumption
<1> QED BY <1>1, <1>2

(* Every step of the text is a step of the walk, or such a line.           *)
LEMMA TextWalks ==
  ASSUME TypeOK, [TextNext]_textVars
  PROVE  [Next]_vars \/ WitnessLine
<1>1. CASE TextDeclareOnly
  <2>1. \E tag \in {"declare", "premise"}, ds \in DeclarationLists : DeclareOnly(tag, ds)
    BY <1>1, Zenon DEF TextDeclareOnly
  <2> QED BY <2>1 DEF Next, GivenStep
<1>2. CASE TextDeclareFormula
  <2>1. \E ds \in DeclarationLists \cup {<<>>}, phi \in DeclareLines :
          \E l \in LabelsOf(<<phi>>, Depth) : DeclareFormula(l, phi, ds)
    BY <1>2, Zenon DEF TextDeclareFormula
  <2> QED BY <2>1 DEF Next, GivenStep
<1>3. CASE TextPremise
  <2>1. \E ds \in DeclarationLists \cup {<<>>}, fs \in PremiseLists :
          \E l \in LabelsOf(fs, Depth) : PremiseLine(l, fs, ds)
    BY <1>3, Zenon DEF TextPremise
  <2> QED BY <2>1 DEF Next, GivenStep
<1>4. CASE TextAxiom
  BY <1>4, Zenon DEF TextAxiom, Next
<1>5. CASE TextExistence
  <2>1. PICK l \in Label \cup {NoLabel}, cited \in Label, c \in Name, definition \in Definitions :
          ExistenceLine(l, cited, c, definition)
    BY <1>5, Zenon DEF TextExistence
  <2> DEFINE f  == Reference(cited)[1]
             fs == <<WitnessOf(f, c)>> \o definition.states
             ds == <<WitnessDeclaration(c)>> \o definition.declares
  <2>2. f \in Existential /\ PremiseLine(l, fs, ds)
    BY <2>1, Zenon DEF ExistenceLine
  <2>3. fs \in Seq(Formula) /\ fs # <<>> /\ ds \in Seq(Declaration)
    BY <2>2, WitnessLines
  <2> QED BY <2>2, <2>3, Zenon DEF WitnessLine
<1>6. CASE TextRule
  <2>1. \E rule \in Rule : \E phi \in Claims(rule), cites \in Cites(rule) :
          \E l \in LabelsOf(<<phi>>, Depth), ds \in DeclarationLists \cup {<<>>} :
            RuleLine(l, phi, rule, cites, ds)
    BY <1>6, Zenon DEF TextRule
  <2> QED BY <2>1, Zenon DEF Next, RuleStep
<1>7. CASE TextBegin
  <2>1. PICK rule \in BelowRule : \E phi \in Claims(rule), cites \in Cites(rule) :
          \E l \in LabelsOf(<<phi>>, Depth) :
            \/ Len(cites) < Arity(rule) /\ BeginHybrid(l, phi, rule, cites, Arity(rule) - Len(cites))
            \/ BeginBelow(l, phi, rule, 1)
    BY <1>7, Zenon DEF TextBegin
  <2>2. PICK phi \in Claims(rule), cites \in Cites(rule) :
          \E l \in LabelsOf(<<phi>>, Depth) :
            \/ Len(cites) < Arity(rule) /\ BeginHybrid(l, phi, rule, cites, Arity(rule) - Len(cites))
            \/ BeginBelow(l, phi, rule, 1)
    BY <2>1
  <2>3. PICK l \in LabelsOf(<<phi>>, Depth) :
            \/ Len(cites) < Arity(rule) /\ BeginHybrid(l, phi, rule, cites, Arity(rule) - Len(cites))
            \/ BeginBelow(l, phi, rule, 1)
    BY <2>2
  <2>4. rule \in Rule /\ Arity(rule) \in Nat /\ cites \in Seq(Label)
    BY RuleAssumption, CitesAreLabels
  <2>5. CASE BeginBelow(l, phi, rule, 1)
    <3>1. 1 \in 0 .. 1
      OBVIOUS
    <3> QED BY <2>5, <3>1, Zenon DEF Next, BelowStep
  <2>6. CASE Len(cites) < Arity(rule) /\ BeginHybrid(l, phi, rule, cites, Arity(rule) - Len(cites))
    <3>1. Arity(rule) - Len(cites) \in 0 .. Arity(rule)
      BY <2>4, <2>6
    <3> QED BY <2>4, <2>6, <3>1, Zenon DEF Next, RuleStep
  <2> QED BY <2>3, <2>5, <2>6
<1>8. CASE TextJudge
  BY <1>8 DEF TextJudge, Next
<1>9. CASE TextSubproof
  BY <1>9, Zenon DEF TextSubproof, Next, SubproofStep
<1>10. CASE TextOpenAssuming
  BY <1>10, Zenon DEF TextOpenAssuming, Next, SubproofStep
<1>11. CASE TextOpenFresh
  BY <1>11, Zenon DEF TextOpenFresh, Next, SubproofStep
<1>12. CASE TextClose \/ TextMisplaced \/ TextFinish
  BY <1>12 DEF TextClose, TextMisplaced, TextFinish, Next, SubproofStep
<1>13. CASE Unreadable \/ TextDone \/ UNCHANGED textVars
  BY <1>13 DEF Unreadable, TextDone, textVars
<1> QED BY <1>1, <1>2, <1>3, <1>4, <1>5, <1>6, <1>7, <1>8, <1>9, <1>10, <1>11, <1>12, <1>13
        DEF TextNext

(* So the kernel's invariant survives, and its steps have their effects.   *)
LEMMA TextKeepsInvariant ==
  ASSUME Invariant, [TextNext]_textVars
  PROVE  Invariant' /\ Effect
<1>1. TypeOK /\ InForce /\ StacksReachBack
  BY DEF Invariant, InForce
<1>2. CASE [Next]_vars
  BY <1>1, <1>2, NextKeepsTypes, NextKeepsStacks, StepsHaveEffects DEF Invariant
<1>3. CASE WitnessLine
  <2>1. PICK l \in Label \cup {NoLabel}, fs \in Seq(Formula), ds \in Seq(Declaration) :
          fs # <<>> /\ PremiseLine(l, fs, ds)
    BY <1>3 DEF WitnessLine
  <2>2. TypeOK'
    BY <1>1, <2>1, PremiseLineKeepsTypes
  <2>3. InForce'
    BY <1>1, <2>1, <2>2, LinesKeepStacks
  <2> QED BY <1>1, <2>1, <2>2, <2>3, PremiseLineEffect DEF Invariant
<1> QED BY <1>1, <1>2, <1>3, TextWalks

-----------------------------------------------------------------------------
(* The context, table by table.                                            *)

ContextTyped ==
  /\ DOMAIN context = {"declarations", "labels", "assumptions", "arbitrary"}
  /\ context.declarations \in Seq(Tables(Name, Declaration))
  /\ context.labels \in Seq(Tables(Label, Seq(Formula)))
  /\ context.assumptions \in Seq(Tables(Label, Seq(Formula)))
  /\ context.arbitrary \in Seq(Tables(Name, {NoStatement}))

(* It has a table of each kind for each block the elaborator is in, which  *)
(* are the kernel's unless the kernel has refused.                         *)
ContextOK ==
  /\ ContextTyped
  /\ Len(context.labels) > 0
  /\ Len(context.declarations) = Len(context.labels)
  /\ Len(context.assumptions) = Len(context.labels)
  /\ Len(context.arbitrary) = Len(context.labels)
  /\ Checking => Len(context.labels) = Len(blocks)

Labelling(chain, l, v) == IF l = NoLabel THEN chain ELSE BindAll(chain, Single(l, v))

(* What a step does to it, if anything: a line is written, a child opens,  *)
(* or the parent is back.                                                  *)
Writes(l, fs, ds, registers) ==
  /\ ReferenceFree(l)
  /\ registers => NamesFree(ds)
  /\ DOMAIN context' = DOMAIN context
  /\ context'.declarations = IF registers THEN Declare(context.declarations, ToSet(ds))
                             ELSE context.declarations
  /\ context'.labels = Labelling(context.labels, l, fs)
  /\ context'.assumptions = context.assumptions
  /\ context'.arbitrary = context.arbitrary

Enters(lines, assumed, named) ==
  /\ \A k \in DOMAIN lines \cup DOMAIN assumed :
       ~ IsBound(context.labels, k) /\ ~ IsBound(context.assumptions, k)
  /\ \A n \in DOMAIN named : ~ IsBound(context.arbitrary, n)
  /\ DOMAIN context' = DOMAIN context
  /\ context'.declarations = Append(context.declarations, EmptyTable)
  /\ context'.labels = Append(context.labels, lines)
  /\ context'.assumptions = Append(context.assumptions, assumed)
  /\ context'.arbitrary = Append(context.arbitrary, named)

Returns ==
  /\ Len(context.labels) > 1
  /\ DOMAIN context' = DOMAIN context
  /\ context'.declarations = Parent(context.declarations)
  /\ context'.labels = Parent(context.labels)
  /\ context'.assumptions = Parent(context.assumptions)
  /\ context'.arbitrary = Parent(context.arbitrary)

WritesSome ==
  \E l \in Label \cup {NoLabel}, fs \in Seq(Formula), ds \in Seq(Declaration), registers \in BOOLEAN :
    Writes(l, fs, ds, registers)
EntersSome ==
  \E lines \in Tables(Label, Seq(Formula)), assumed \in Tables(Label, Seq(Formula)),
     named \in Tables(Name, {NoStatement}) : Enters(lines, assumed, named)

ContextStep == UNCHANGED context \/ WritesSome \/ EntersSome \/ Returns

(* Binding in a child is opening a block with bindings.                    *)
LEMMA BindingInChild ==
  ASSUME NEW K, NEW V, NEW chain \in Seq(Tables(K, V)), NEW table \in Tables(K, V)
  PROVE  BindAll(Child(chain), table) = Append(chain, table)
<1> DEFINE n   == Len(chain)
           c   == Append(chain, EmptyTable)
           new == [k \in DOMAIN c[n + 1] \cup DOMAIN table |->
                     IF k \in DOMAIN table THEN table[k] ELSE c[n + 1][k]]
           a   == [c EXCEPT ![n + 1] = new]
           b   == Append(chain, table)
<1>1. /\ c \in Seq(Tables(K, V)) /\ Len(c) = n + 1 /\ c[n + 1] = EmptyTable
      /\ b \in Seq(Tables(K, V)) /\ Len(b) = n + 1 /\ b[n + 1] = table
      /\ n \in Nat
      /\ \A i \in 1 .. n : b[i] = chain[i] /\ c[i] = chain[i]
  BY SmallTables
<1>2. BindAll(Child(chain), table) = a
  BY <1>1 DEF BindAll, Child
<1>3. new = table
  <2>1. DOMAIN EmptyTable = {}
    BY DEF EmptyTable
  <2>2. PICK D \in SUBSET K : table \in [D -> V]
    BY DEF Tables
  <2> QED BY <1>1, <2>1, <2>2
<1> HIDE DEF c, b, n, new
<1>4. /\ a \in Seq(Tables(K, V)) /\ Len(a) = n + 1 /\ a[n + 1] = table
      /\ \A i \in 1 .. n : a[i] = c[i]
  BY <1>1, <1>3
<1> HIDE DEF a
<1>5. a = b
  <2>1. \A i \in 1 .. n + 1 : i = n + 1 \/ i \in 1 .. n
    BY <1>1
  <2>2. \A i \in 1 .. n + 1 : a[i] = b[i]
    BY <1>1, <1>4, <2>1
  <2> QED BY <1>1, <1>4, <2>2
<1> QED BY <1>2, <1>5 DEF b

(* Write does what Writes says.                                            *)
LEMMA WriteWrites ==
  ASSUME ContextTyped, NEW l, NEW fs, NEW ds, NEW registers \in BOOLEAN,
         Write(l, fs, ds, registers)
  PROVE  Writes(l, fs, ds, registers)
<1> DEFINE ctx == IF registers
                  THEN [context EXCEPT !.declarations = Declare(@, ToSet(ds))] ELSE context
<1>1. DOMAIN context = {"declarations", "labels", "assumptions", "arbitrary"}
  BY DEF ContextTyped
<1>2. /\ DOMAIN ctx = DOMAIN context
      /\ ctx.declarations = IF registers THEN Declare(context.declarations, ToSet(ds))
                            ELSE context.declarations
      /\ ctx.labels = context.labels
      /\ ctx.assumptions = context.assumptions
      /\ ctx.arbitrary = context.arbitrary
  BY <1>1
<1>3. context' = BindReference(ctx, "labels", l, fs)
  BY DEF Write
<1> HIDE DEF ctx
<1>4. /\ DOMAIN context' = DOMAIN context
      /\ context'.declarations = ctx.declarations
      /\ context'.labels = Labelling(ctx.labels, l, fs)
      /\ context'.assumptions = ctx.assumptions
      /\ context'.arbitrary = ctx.arbitrary
  BY <1>1, <1>2, <1>3 DEF BindReference, Labelling
<1> QED BY <1>2, <1>4 DEF Writes, Write

(* A child of the context, with the first line of a subproof.              *)
LEMMA ChildFields ==
  ASSUME ContextTyped
  PROVE  /\ DOMAIN ChildContext = {"declarations", "labels", "assumptions", "arbitrary"}
         /\ ChildContext.declarations = Child(context.declarations)
         /\ ChildContext.labels = Child(context.labels)
         /\ ChildContext.assumptions = Child(context.assumptions)
         /\ ChildContext.arbitrary = Child(context.arbitrary)
BY DEF ContextTyped, ChildContext

(* The table of a first line.                                              *)
FirstTable(l, phi) == IF l = NoLabel THEN EmptyTable ELSE Single(l, <<phi>>)

LEMMA FirstTables ==
  ASSUME NEW l \in Label \cup {NoLabel}, NEW phi \in Formula
  PROVE  /\ FirstTable(l, phi) \in Tables(Label, Seq(Formula))
         /\ \A k \in DOMAIN FirstTable(l, phi) : k = l /\ l # NoLabel
<1>1. <<phi>> \in Seq(Formula)
  OBVIOUS
<1>2. CASE l = NoLabel
  BY <1>2, SmallTables DEF FirstTable, EmptyTable
<1>3. CASE l # NoLabel
  BY <1>1, <1>3, SmallTables DEF FirstTable, Single
<1> QED BY <1>2, <1>3

(* Labelling it in the child gives that table.                             *)
LEMMA LabellingInChild ==
  ASSUME NEW chain \in Seq(Tables(Label, Seq(Formula))), NEW l \in Label \cup {NoLabel},
         NEW phi \in Formula
  PROVE  Labelling(Child(chain), l, <<phi>>) = Append(chain, FirstTable(l, phi))
<1>1. CASE l = NoLabel
  BY <1>1 DEF Labelling, FirstTable, Child
<1>2. CASE l # NoLabel
  <2>1. Single(l, <<phi>>) \in Tables(Label, Seq(Formula))
    BY <1>2, FirstTables DEF FirstTable
  <2> QED BY <1>2, <2>1, BindingInChild DEF Labelling, FirstTable
<1> QED BY <1>1, <1>2

(* A subproof opens on an assumption.                                      *)
LEMMA AssumingEnters ==
  ASSUME ContextTyped, NEW l \in Label \cup {NoLabel}, NEW phi \in Formula,
         ReferenceFree(l), context' = BindReference(ChildContext, "assumptions", l, <<phi>>)
  PROVE  Enters(EmptyTable, FirstTable(l, phi), EmptyTable)
<1>1. /\ DOMAIN context' = DOMAIN context
      /\ context'.declarations = Child(context.declarations)
      /\ context'.labels = Child(context.labels)
      /\ context'.assumptions = Labelling(Child(context.assumptions), l, <<phi>>)
      /\ context'.arbitrary = Child(context.arbitrary)
  BY ChildFields DEF BindReference, Labelling, ContextTyped
<1>2. context'.assumptions = Append(context.assumptions, FirstTable(l, phi))
  BY <1>1, LabellingInChild DEF ContextTyped
<1>3. DOMAIN EmptyTable = {}
  BY DEF EmptyTable
<1> QED BY <1>1, <1>2, <1>3, FirstTables DEF Enters, Child, ReferenceFree

(* A subproof opens on a fresh constant.                                   *)
FreshTable(l, phi) == [c \in (IF l = NoLabel THEN {} ELSE FlagNames(phi)) |-> NoStatement]

LEMMA FreshTables ==
  ASSUME NEW l, NEW phi
  PROVE  /\ FreshTable(l, phi) \in Tables(Name, {NoStatement})
         /\ \A c \in DOMAIN FreshTable(l, phi) : c \in FlagNames(phi) /\ l # NoLabel
<1> DEFINE D == IF l = NoLabel THEN {} ELSE FlagNames(phi)
<1>1. D \in SUBSET Name
  BY DEF FlagNames
<1>2. FreshTable(l, phi) \in [D -> {NoStatement}]
  BY DEF FreshTable
<1> QED BY <1>1, <1>2 DEF Tables

LEMMA NamingEnters ==
  ASSUME ContextTyped, NEW l \in Label \cup {NoLabel}, NEW phi \in Formula,
         ReferenceFree(l), l # NoLabel => Fresh(phi),
         context' = BindReference(
           [ChildContext EXCEPT !.arbitrary = BindAll(@, FreshTable(l, phi))], "labels", l, <<phi>>)
  PROVE  Enters(FirstTable(l, phi), EmptyTable, FreshTable(l, phi))
<1> DEFINE inner == [ChildContext EXCEPT !.arbitrary = BindAll(@, FreshTable(l, phi))]
<1>1. /\ DOMAIN inner = {"declarations", "labels", "assumptions", "arbitrary"}
      /\ inner.declarations = Child(context.declarations)
      /\ inner.labels = Child(context.labels)
      /\ inner.assumptions = Child(context.assumptions)
      /\ inner.arbitrary = BindAll(Child(context.arbitrary), FreshTable(l, phi))
  BY ChildFields
<1> HIDE DEF inner
<1>2. /\ DOMAIN context' = DOMAIN context
      /\ context'.declarations = Child(context.declarations)
      /\ context'.labels = Labelling(Child(context.labels), l, <<phi>>)
      /\ context'.assumptions = Child(context.assumptions)
      /\ context'.arbitrary = BindAll(Child(context.arbitrary), FreshTable(l, phi))
  BY <1>1 DEF BindReference, Labelling, inner, ContextTyped
<1>3. context'.labels = Append(context.labels, FirstTable(l, phi))
  BY <1>2, LabellingInChild DEF ContextTyped
<1>4. context'.arbitrary = Append(context.arbitrary, FreshTable(l, phi))
  <2>1. context.arbitrary \in Seq(Tables(Name, {NoStatement}))
    BY DEF ContextTyped
  <2>2. FreshTable(l, phi) \in Tables(Name, {NoStatement})
    BY FreshTables
  <2>3. BindAll(Child(context.arbitrary), FreshTable(l, phi)) = Append(context.arbitrary, FreshTable(l, phi))
    BY <2>1, <2>2, BindingInChild
  <2> QED BY <1>2, <2>3
<1>5. DOMAIN EmptyTable = {}
  BY DEF EmptyTable
<1>6. \A c \in DOMAIN FreshTable(l, phi) : ~ IsBound(context.arbitrary, c)
  BY FreshTables DEF Fresh
<1>7. \A k \in DOMAIN FirstTable(l, phi) :
        ~ IsBound(context.labels, k) /\ ~ IsBound(context.assumptions, k)
  BY FirstTables DEF ReferenceFree
<1> QED BY <1>2, <1>3, <1>4, <1>5, <1>6, <1>7 DEF Enters, Child

(* A subproof closes.                                                      *)
LEMMA ClosingReturns ==
  ASSUME ContextTyped, Len(context.labels) > 1, context' = RestoredContext
  PROVE  Returns
BY DEF ContextTyped, RestoredContext, Returns

-----------------------------------------------------------------------------
(* What the kernel does with a line it accepts.                            *)

(* A refused line ends the walk.                                           *)
LEMMA RefusalsStop ==
  ASSUME NEW errors \in SUBSET Refusals, Refuse(errors)
  PROVE  ~ Checking'
BY DEF Refuse, Refusals, Checking

Piles == arbitraryNames' = arbitraryNames \/ \E S : arbitraryNames' = Append(arbitraryNames, S)

LineRead(l, fs, ds) ==
  /\ SameFrames
  /\ IF fs = <<>> THEN UNCHANGED labels
     ELSE LabelErrors(l) = {} /\ labels' = Labelling(labels, l, fs)
  /\ \A n \in DOMAIN TableOf(ToSet(ds)) :
       /\ n \in DOMAIN declarations'[Depth]
       /\ declarations'[Depth][n] = TableOf(ToSet(ds))[n]
  /\ Piles

(* What a line declares stands under what is inferred from its statement.  *)
LEMMA ExplicitStand ==
  ASSUME NEW chain \in Seq(Tables(Name, Declaration)), Len(chain) > 0,
         NEW ds \in Seq(Declaration), NEW fs \in SUBSET Formula, NEW inferred,
         inferred \in {{}, Inferred(Declare(chain, ToSet(ds)), fs)},
         NEW n \in DOMAIN TableOf(ToSet(ds))
  PROVE  /\ n \in DOMAIN Declare(chain, ToSet(ds))[Len(chain)]
         /\ Declare(chain, ToSet(ds))[Len(chain)][n] = TableOf(ToSet(ds))[n]
         /\ n \in DOMAIN Declare(Declare(chain, ToSet(ds)), inferred)[Len(chain)]
         /\ Declare(Declare(chain, ToSet(ds)), inferred)[Len(chain)][n] = TableOf(ToSet(ds))[n]
<1> DEFINE explicit == Declare(chain, ToSet(ds))
           whole    == Declare(explicit, inferred)
<1>1. ToSet(ds) \in SUBSET Declaration
  BY DEF ToSet
<1>2. explicit \in Seq(Tables(Name, Declaration)) /\ Len(explicit) = Len(chain)
  BY <1>1, DeclareKeepsScope
<1>3. /\ n \in DOMAIN explicit[Len(chain)]
      /\ explicit[Len(chain)][n] = TableOf(ToSet(ds))[n]
  BY DeclaredHere DEF Declare
<1>4. inferred \in SUBSET Declaration /\ \A d \in inferred : ~ IsBound(explicit, d.name)
  <2>1. Inferred(explicit, fs) \in SUBSET Declaration
    BY InferredAreDeclarations
  <2>2. \A d \in Inferred(explicit, fs) : ~ IsBound(explicit, d.name)
    BY DEF Inferred
  <2> QED BY <2>1, <2>2
<1> HIDE DEF explicit
<1>5. Len(explicit) > 0 /\ Len(chain) \in 1 .. Len(explicit)
  BY <1>2
<1>6. LabelNames!Extends(explicit, whole) /\ whole \in Seq(Tables(Name, Declaration))
  BY <1>2, <1>4, <1>5, DeclaringExtends, DeclareKeepsScope
<1> HIDE DEF whole
<1>7. Kept(explicit[Len(chain)], whole[Len(chain)])
  BY <1>2, <1>5, <1>6, ExtensionsKeep
<1> QED BY <1>3, <1>7 DEF Kept, explicit, whole

(* A statement joins the block and is labelled; the frames stay.           *)
LEMMA DerivedIsRead ==
  ASSUME TypeOK, NEW l, NEW fs, fs # <<>>, LabelErrors(l) = {}, Derive(l, fs),
         UNCHANGED inForce, NEW ds,
         \A n \in DOMAIN TableOf(ToSet(ds)) :
           n \in DOMAIN declarations'[Depth] /\ declarations'[Depth][n] = TableOf(ToSet(ds))[n]
  PROVE  LineRead(l, fs, ds)
<1>1. SameFrames
  BY LinesKeepFrames
<1>2. labels' = Labelling(labels, l, fs)
  BY DEF Derive, Labelling
<1>3. Piles
  BY DEF Piles, inForce
<1> QED BY <1>1, <1>2, <1>3 DEF LineRead

LEMMA DeclareOnlyRead ==
  ASSUME TypeOK, NEW tag, NEW ds \in Seq(Declaration), DeclareOnly(tag, ds), Checking', NEW l
  PROVE  LineRead(l, NoStatement, ds)
<1>1. PICK errors \in SUBSET Refusals :
        \/ Refuse(errors)
        \/ /\ Register(ds, Declare(declarations, ToSet(ds)))
           /\ arbitraryNames' = IF tag = "declare" THEN Append(arbitraryNames, PlainObjects(ds))
                                                   ELSE arbitraryNames
           /\ UNCHANGED <<blocks, labels>>
  BY ChecksRefuse DEF DeclareOnly
<1>2. /\ declarations' = Declare(declarations, ToSet(ds))
      /\ arbitraryNames' = IF tag = "declare" THEN Append(arbitraryNames, PlainObjects(ds))
                                              ELSE arbitraryNames
      /\ UNCHANGED <<blocks, labels>>
  BY <1>1, RefusalsStop DEF Register
<1>3. SameFrames
  BY <1>2 DEF SameFrames
<1>4. /\ declarations \in Seq(Tables(Name, Declaration)) /\ Len(declarations) > 0
      /\ Len(declarations) = Depth
  BY ScopesAreTyped
<1>5. {} \in SUBSET Formula
  OBVIOUS
<1>6. \A n \in DOMAIN TableOf(ToSet(ds)) :
        n \in DOMAIN declarations'[Depth] /\ declarations'[Depth][n] = TableOf(ToSet(ds))[n]
  BY <1>2, <1>4, <1>5, ExplicitStand
<1>7. Piles
  BY <1>2 DEF Piles
<1> QED BY <1>2, <1>3, <1>6, <1>7 DEF LineRead, NoStatement

LEMMA DeclareFormulaRead ==
  ASSUME TypeOK, NEW l \in Label \cup {NoLabel}, NEW phi \in Formula, NEW ds \in Seq(Declaration),
         DeclareFormula(l, phi, ds), Checking'
  PROVE  LineRead(l, <<phi>>, ds)
<1> DEFINE explicit == Declare(declarations, ToSet(ds))
           inferred == Inferred(explicit, {phi})
           chain    == Declare(explicit, inferred)
           errs     == ConflictErrors(declarations, ds)
                       ?? (InferenceErrors(inferred)
                       ?? (StatementErrors(chain, phi)
                       ?? LabelErrors(l)))
<1>1. PICK errors \in SUBSET Refusals :
        \/ Refuse(errors)
        \/ /\ LabelErrors(l) = {}
           /\ Register(ds, chain)
           /\ Derive(l, <<phi>>)
           /\ UNCHANGED inForce
  <2>1. errs \subseteq Refusals
    BY ChecksRefuse, StatementRefuses, OrElseRefuses
  <2>2. errs = {} => LabelErrors(l) = {}
    BY Zenon DEF ??
  <2>3. Refuse(errs) \/ (errs = {} /\ Register(ds, chain) /\ Derive(l, <<phi>>) /\ UNCHANGED inForce)
    BY DEF DeclareFormula
  <2> QED BY <2>1, <2>2, <2>3
<1>2. /\ LabelErrors(l) = {} /\ declarations' = chain /\ Derive(l, <<phi>>) /\ UNCHANGED inForce
  BY <1>1, RefusalsStop DEF Register
<1>3. /\ declarations \in Seq(Tables(Name, Declaration)) /\ Len(declarations) > 0
      /\ Len(declarations) = Depth /\ {phi} \in SUBSET Formula /\ <<phi>> # <<>>
  BY ScopesAreTyped
<1>4. \A n \in DOMAIN TableOf(ToSet(ds)) :
        n \in DOMAIN declarations'[Depth] /\ declarations'[Depth][n] = TableOf(ToSet(ds))[n]
  BY <1>2, <1>3, ExplicitStand
<1> QED BY <1>2, <1>3, <1>4, DerivedIsRead

LEMMA PremiseLineRead ==
  ASSUME TypeOK, NEW l \in Label \cup {NoLabel}, NEW fs \in Seq(Formula), fs # <<>>,
         NEW ds \in Seq(Declaration), PremiseLine(l, fs, ds), Checking'
  PROVE  LineRead(l, fs, ds)
<1> DEFINE explicit == Declare(declarations, ToSet(ds))
           inferred == IF ds = <<>> THEN {} ELSE Inferred(explicit, ToSet(fs))
           chain    == Declare(explicit, inferred)
           Errors(f) == StatementErrors(chain, f) ?? MembershipErrors(f, Premises, FALSE)
           errs     == ConflictErrors(declarations, ds)
                       ?? (InferenceErrors(inferred)
                       ?? (FirstErrors(fs, Errors)
                       ?? LabelErrors(l)))
<1>1. PICK errors \in SUBSET Refusals :
        \/ Refuse(errors)
        \/ /\ LabelErrors(l) = {}
           /\ Register(ds, chain)
           /\ Derive(l, fs)
           /\ UNCHANGED inForce
  <2>1. FirstErrors(fs, Errors) \subseteq Refusals
    BY ChecksRefuse, StatementRefuses, OrElseRefuses DEF FirstErrors
  <2>2. errs \subseteq Refusals
    BY <2>1, ChecksRefuse, OrElseRefuses
  <2>3. errs = {} => LabelErrors(l) = {}
    BY Zenon DEF ??
  <2>4. Refuse(errs) \/ (errs = {} /\ Register(ds, chain) /\ Derive(l, fs) /\ UNCHANGED inForce)
    BY DEF PremiseLine
  <2> QED BY <2>2, <2>3, <2>4
<1>2. /\ LabelErrors(l) = {} /\ declarations' = chain /\ Derive(l, fs) /\ UNCHANGED inForce
  BY <1>1, RefusalsStop DEF Register
<1>3. /\ declarations \in Seq(Tables(Name, Declaration)) /\ Len(declarations) > 0
      /\ Len(declarations) = Depth /\ ToSet(fs) \in SUBSET Formula
      /\ inferred \in {{}, Inferred(explicit, ToSet(fs))}
  BY ScopesAreTyped DEF ToSet
<1>4. \A n \in DOMAIN TableOf(ToSet(ds)) :
        n \in DOMAIN declarations'[Depth] /\ declarations'[Depth][n] = TableOf(ToSet(ds))[n]
  BY <1>2, <1>3, ExplicitStand
<1> QED BY <1>2, <1>4, DerivedIsRead

(* Nothing is declared by a line without declarations.                     *)
LEMMA NothingDeclared == DOMAIN TableOf(ToSet(<<>>)) = {}
BY DEF TableOf, ToSet

LEMMA AxiomLineRead ==
  ASSUME TypeOK, NEW l \in Label \cup {NoLabel}, NEW phi \in Formula, AxiomLine(l, phi), Checking'
  PROVE  LineRead(l, <<phi>>, <<>>)
<1>1. PICK errors \in SUBSET Refusals :
        \/ Refuse(errors)
        \/ LabelErrors(l) = {} /\ Derive(l, <<phi>>) /\ UNCHANGED inForce
  BY ChecksRefuse, StatementRefuses, OrElseRefuses, NothingFound DEF AxiomLine
<1>2. LabelErrors(l) = {} /\ Derive(l, <<phi>>) /\ UNCHANGED inForce
  BY <1>1, RefusalsStop
<1>3. <<phi>> # <<>>
  OBVIOUS
<1> QED BY <1>2, <1>3, NothingDeclared, DerivedIsRead

LEMMA RuleLineRead ==
  ASSUME TypeOK, NEW l \in Label \cup {NoLabel}, NEW phi \in Formula, NEW rule, NEW cites,
         NEW ds \in Seq(Declaration), RuleLine(l, phi, rule, cites, ds), Checking'
  PROVE  LineRead(l, <<phi>>, ds)
<1> DEFINE chain == Declare(declarations, ToSet(ds))
<1>1. RuleLineErrors(l, phi, rule, cites, ds) = {} => LabelErrors(l) = {}
  BY Zenon DEF RuleLineErrors, ??
<1>2. PICK errors \in SUBSET Refusals :
        \/ Refuse(errors)
        \/ /\ LabelErrors(l) = {}
           /\ Register(ds, chain)
           /\ Derive(l, <<phi>>)
           /\ UNCHANGED inForce
  BY <1>1, RuleLineRefuses DEF RuleLine
<1>3. /\ LabelErrors(l) = {} /\ declarations' = chain /\ Derive(l, <<phi>>) /\ UNCHANGED inForce
  BY <1>2, RefusalsStop DEF Register
<1>4. /\ declarations \in Seq(Tables(Name, Declaration)) /\ Len(declarations) > 0
      /\ Len(declarations) = Depth /\ {} \in SUBSET Formula /\ <<phi>> # <<>>
  BY ScopesAreTyped
<1>5. \A n \in DOMAIN TableOf(ToSet(ds)) :
        n \in DOMAIN declarations'[Depth] /\ declarations'[Depth][n] = TableOf(ToSet(ds))[n]
  BY <1>3, <1>4, ExplicitStand
<1> QED BY <1>3, <1>4, <1>5, DerivedIsRead

LEMMA JudgedRead ==
  ASSUME TypeOK, JudgeBelow \/ JudgeHybrid, Checking'
  PROVE  LineRead(Top.pending.label, <<Top.pending.phi>>, <<>>)
<1> DEFINE p == Top.pending
<1>1. PICK errors \in SUBSET Refusals :
        \/ Refuse(errors)
        \/ LabelErrors(p.label) = {} /\ Derive(p.label, <<p.phi>>) /\ UNCHANGED inForce
  <2>1. CASE JudgeBelow
    BY <2>1, ChecksRefuse, OrElseRefuses, NothingFound DEF JudgeBelow
  <2>2. CASE JudgeHybrid
    BY <2>2, ChecksRefuse, OrElseRefuses, NothingFound DEF JudgeHybrid
  <2> QED BY <2>1, <2>2
<1>2. LabelErrors(p.label) = {} /\ Derive(p.label, <<p.phi>>) /\ UNCHANGED inForce
  BY <1>1, RefusalsStop
<1>3. <<p.phi>> # <<>>
  OBVIOUS
<1> HIDE DEF p
<1>4. LineRead(p.label, <<p.phi>>, <<>>)
  BY <1>2, <1>3, NothingDeclared, DerivedIsRead
<1> QED BY <1>4 DEF p

(* A subproof opens whose first line, labelled l, states phi; named are    *)
(* names it makes arbitrary.                                               *)
BlockOpened(l, phi, named) ==
  /\ LabelErrors(l) = {}
  /\ labels' = Append(labels, FirstTable(l, phi))
  /\ Len(blocks') = Len(blocks) + 1
  /\ \A i \in DOMAIN blocks : blocks'[i].arbitraryInForce = blocks[i].arbitraryInForce
  /\ blocks'[Len(blocks) + 1].arbitraryInForce = Len(arbitraryNames)
  /\ named \subseteq DOMAIN declarations'[Len(blocks) + 1]
  /\ Piles
  /\ named # {} => \E S : named \subseteq S /\ arbitraryNames' = Append(arbitraryNames, S)

BlockClosed ==
  /\ Len(blocks) > 1
  /\ Len(blocks') = Len(blocks) - 1
  /\ \A i \in 1 .. Len(blocks) - 1 : blocks'[i].arbitraryInForce = blocks[i].arbitraryInForce
  /\ \/ labels' = Parent(labels)
     \/ \E l \in Label, record \in SubproofRecord :
          /\ ~ IsBound(Parent(labels), l)
          /\ labels' = BindAll(Parent(labels), Single(l, <<record>>))
  /\ declarations' = Parent(declarations)
  /\ arbitraryNames' = StruckOff(arbitraryNames, blocks[Len(blocks)].arbitraryInForce)

(* Opening adds a block that notes how many names are arbitrary.           *)
LEMMA OpenNotes ==
  ASSUME TypeOK, NEW l, NEW phi, NEW fresh, NEW chain, Open(l, phi, fresh, chain)
  PROVE  /\ labels' = Append(labels, FirstTable(l, phi))
         /\ declarations' = chain
         /\ Len(blocks') = Len(blocks) + 1
         /\ \A i \in DOMAIN blocks : blocks'[i].arbitraryInForce = blocks[i].arbitraryInForce
         /\ blocks'[Len(blocks) + 1].arbitraryInForce = Len(arbitraryNames)
<1> DEFINE b == [opener |-> phi, fresh |-> fresh, seen |-> {phi}, last |-> phi,
                 pending |-> NothingPending, assumptionsInForce |-> AssumptionsNow,
                 arbitraryInForce |-> Len(arbitraryNames)]
<1>1. blocks' = Append(blocks, b) /\ b.arbitraryInForce = Len(arbitraryNames)
  BY DEF Open
<1>2. labels' = Append(labels, FirstTable(l, phi)) /\ declarations' = chain
  BY DEF Open, FirstTable
<1>3. blocks \in Seq(Block) /\ Len(blocks) \in Nat /\ DOMAIN blocks = 1 .. Len(blocks)
  BY SequencesAreTyped
<1> HIDE DEF b
<1>4. /\ Len(blocks') = Len(blocks) + 1 /\ blocks'[Len(blocks) + 1] = b
      /\ \A i \in 1 .. Len(blocks) : blocks'[i] = blocks[i]
  BY <1>1, <1>3
<1> QED BY <1>1, <1>2, <1>3, <1>4

LEMMA AssumingOpens ==
  ASSUME TypeOK, NEW l \in Label \cup {NoLabel}, NEW phi \in Formula, OpenAssuming(l, phi), Checking'
  PROVE  BlockOpened(l, phi, {})
<1>1. PICK errors \in SUBSET Refusals :
        \/ Refuse(errors)
        \/ /\ LabelErrors(l) = {}
           /\ Open(l, phi, FALSE, Child(declarations))
           /\ UNCHANGED arbitraryNames
  <2> DEFINE errs == StatementErrors(declarations, phi) ?? LabelErrors(l)
  <2>1. errs \subseteq Refusals
    BY ChecksRefuse, StatementRefuses, OrElseRefuses
  <2>2. errs = {} => LabelErrors(l) = {}
    BY Zenon DEF ??
  <2>3. Refuse(errs) \/ (errs = {} /\ Open(l, phi, FALSE, Child(declarations)) /\ UNCHANGED arbitraryNames)
    BY DEF OpenAssuming
  <2> QED BY <2>1, <2>2, <2>3
<1>2. LabelErrors(l) = {} /\ Open(l, phi, FALSE, Child(declarations)) /\ UNCHANGED arbitraryNames
  BY <1>1, RefusalsStop
<1> QED BY <1>2, OpenNotes DEF BlockOpened, Piles

LEMMA NamingOpens ==
  ASSUME TypeOK, NEW l \in Label \cup {NoLabel}, NEW phi \in Formula, OpenFresh(l, phi), Checking',
         NEW named \in SUBSET FlagNames(phi)
  PROVE  BlockOpened(l, phi, named)
<1> DEFINE flags == {FlagDeclaration(c) : c \in FlagNames(phi)}
           chain == Declare(Child(declarations), flags)
<1>1. PICK errors \in SUBSET Refusals :
        \/ Refuse(errors)
        \/ /\ LabelErrors(l) = {}
           /\ Open(l, phi, TRUE, chain)
           /\ arbitraryNames' = IF flags = {} THEN arbitraryNames
                                ELSE Append(arbitraryNames, FlagNames(phi))
  <2> DEFINE errs == FreshErrors(phi) ?? LabelErrors(l)
  <2>1. errs \subseteq Refusals
    BY ChecksRefuse, FreshRefuses, OrElseRefuses
  <2>2. errs = {} => LabelErrors(l) = {}
    BY Zenon DEF ??
  <2>3. \/ Refuse(errs)
        \/ /\ errs = {} /\ Open(l, phi, TRUE, chain)
           /\ arbitraryNames' = IF flags = {} THEN arbitraryNames
                                ELSE Append(arbitraryNames, FlagNames(phi))
    BY DEF OpenFresh
  <2> QED BY <2>1, <2>2, <2>3
<1>2. /\ LabelErrors(l) = {}
      /\ Open(l, phi, TRUE, chain)
      /\ arbitraryNames' = IF flags = {} THEN arbitraryNames
                           ELSE Append(arbitraryNames, FlagNames(phi))
  BY <1>1, RefusalsStop
<1>3. declarations' = chain
  BY <1>2, OpenNotes
<1>4. named \subseteq DOMAIN declarations'[Len(blocks) + 1]
  <2>1. /\ Child(declarations) \in Seq(Tables(Name, Declaration))
        /\ Len(Child(declarations)) = Len(blocks) + 1 /\ Len(Child(declarations)) > 0
    BY ScopesAreTyped, SmallTables DEF Child
  <2>2. named \subseteq DOMAIN TableOf(flags)
    <3>1. \A c : FlagDeclaration(c).name = c
      BY DEF FlagDeclaration
    <3>2. DOMAIN TableOf(flags) = {d.name : d \in flags}
      BY DEF TableOf
    <3> QED BY <3>1, <3>2
  <2> HIDE DEF flags
  <2>3. \A c \in DOMAIN TableOf(flags) : c \in DOMAIN chain[Len(Child(declarations))]
    BY <2>1, DeclaredHere DEF Declare
  <2> QED BY <1>3, <2>1, <2>2, <2>3
<1>5. Piles
  BY <1>2 DEF Piles
<1>6. named # {} => arbitraryNames' = Append(arbitraryNames, FlagNames(phi))
  BY <1>2
<1> HIDE DEF flags, chain
<1> QED BY <1>2, <1>4, <1>5, <1>6, OpenNotes DEF BlockOpened

LEMMA ClosingCloses ==
  ASSUME TypeOK, CloseBlock, Checking'
  PROVE  BlockClosed
<1> DEFINE n      == Depth - 1
           p      == blocks[n].pending
           record == [assumption |-> Top.opener, conclusion |-> Top.last, fresh |-> Top.fresh,
                      inner |-> Flatten(Top.seen), outer |-> Flatten(blocks[n].seen)]
           alone  == p.tag = "subproof"
           errs   == Check(~ alone \/ p.label = NoLabel \/ ~ IsBound(Parent(labels), p.label),
                           "label_shadowing")
<1>1. /\ n \in Nat \ {0} /\ n + 1 = Len(blocks) /\ Len(blocks) > 1 /\ n \in 1 .. Len(blocks)
      /\ Depth = Len(blocks) /\ Depth \in 1 .. Len(blocks) /\ Top = blocks[Len(blocks)]
  BY ScopesAreTyped DEF CloseBlock, Top
<1>2. blocks[n] \in Block /\ Top \in Block /\ Top.opener \in Formula
  BY <1>1, TypeParts DEF BlocksOK, Top
<1>3. record \in SubproofRecord
  <2>1. Top.seen \in SUBSET Item /\ blocks[n].seen \in SUBSET Item
    BY <1>2 DEF Block
  <2>2. Flatten(Top.seen) \subseteq Formula /\ Flatten(blocks[n].seen) \subseteq Formula
    BY <2>1, FlattenedAreFormulas
  <2>3. Top.last \in Formula \cup {NoFormula} /\ Top.fresh \in BOOLEAN
    BY <1>2 DEF Block
  <2> QED BY <1>2, <2>2, <2>3 DEF SubproofRecord
<1>4. p.label \in Label \cup {NoLabel}
  BY <1>2 DEF Block, Pending
<1>5. \/ Refuse(errs)
      \/ /\ errs = {}
         /\ blocks' = IF alone
                      THEN [SubSeq(blocks, 1, n) EXCEPT ![n].seen    = @ \cup {record},
                                                        ![n].last    = NoFormula,
                                                        ![n].pending = NothingPending]
                      ELSE [SubSeq(blocks, 1, n) EXCEPT ![n].pending.records = Append(@, record)]
         /\ labels' = IF alone /\ p.label # NoLabel
                      THEN BindAll(Parent(labels), Single(p.label, <<record>>))
                      ELSE Parent(labels)
         /\ declarations' = Parent(declarations)
         /\ arbitraryNames' = StruckOff(arbitraryNames, Top.arbitraryInForce)
  BY DEF CloseBlock
<1>6. errs \subseteq Refusals
  BY CheckRefuses DEF Refusals
<1>7. errs = {} => ~ alone \/ p.label = NoLabel \/ ~ IsBound(Parent(labels), p.label)
  BY DEF Check
<1> HIDE DEF record, errs
<1>8. ~ Refuse(errs)
  BY <1>6, RefusalsStop
<1>9. /\ Len(blocks') = n
      /\ \A i \in 1 .. n : blocks'[i].arbitraryInForce = blocks[i].arbitraryInForce
  BY <1>1, <1>5, <1>8, ClosingKeepsFrames
<1>10. n = Len(blocks) - 1
  BY <1>1
<1> HIDE DEF n
<1>11. \/ labels' = Parent(labels)
       \/ /\ p.label \in Label /\ ~ IsBound(Parent(labels), p.label)
          /\ labels' = BindAll(Parent(labels), Single(p.label, <<record>>))
  BY <1>4, <1>5, <1>7, <1>8
<1> QED BY <1>1, <1>3, <1>5, <1>8, <1>9, <1>10, <1>11 DEF BlockClosed

-----------------------------------------------------------------------------
(* The steps of the text.                                                  *)

PassesBy == UNCHANGED <<context, labels, arbitraryNames>> /\ SameFrames

ReadsLine ==
  \E l \in Label \cup {NoLabel}, fs \in Seq(Formula), ds \in Seq(Declaration), registers \in BOOLEAN :
    Writes(l, fs, ds, registers) /\ LineRead(l, fs, ds)

OpensBlock ==
  \E l \in Label \cup {NoLabel}, phi \in Formula :
    \/ /\ Enters(EmptyTable, FirstTable(l, phi), EmptyTable)
       /\ BlockOpened(l, phi, {})
    \/ /\ Enters(FirstTable(l, phi), EmptyTable, FreshTable(l, phi))
       /\ BlockOpened(l, phi, DOMAIN FreshTable(l, phi))

(* The elaborator and the kernel do the same.                              *)
Together == PassesBy \/ ReadsLine \/ OpensBlock \/ (Returns /\ BlockClosed)

Stepping == ContextStep /\ (Checking' => Together)

(* A line the elaborator writes and the kernel reads.                      *)
LEMMA LineSteps ==
  ASSUME ContextOK, NEW l \in Label \cup {NoLabel}, NEW fs \in Seq(Formula),
         NEW ds \in Seq(Declaration), NEW registers \in BOOLEAN,
         Write(l, fs, ds, registers), Checking' => LineRead(l, fs, ds)
  PROVE  Stepping
<1>1. Writes(l, fs, ds, registers)
  BY WriteWrites DEF ContextOK
<1> HIDE DEF LineRead
<1>2. WritesSome
  BY <1>1, Zenon DEF WritesSome
<1>3. Checking' => ReadsLine
  BY <1>1, Zenon DEF ReadsLine
<1> QED BY <1>2, <1>3 DEF Stepping, ContextStep, Together

(* A line that leaves both scopes alone.                                   *)
LEMMA QuietSteps ==
  ASSUME TypeOK, UNCHANGED context, Checking' => UNCHANGED labels,
         \/ \E l : BeginSubproof(l)
         \/ \E l, phi, rule, count : BeginBelow(l, phi, rule, count)
         \/ \E l, phi, rule, cites, count : BeginHybrid(l, phi, rule, cites, count)
         \/ OpenBadly \/ \E phi : MisplacedOpening(phi)
         \/ Finish \/ Done \/ UNCHANGED vars
  PROVE  Stepping
<1>1. SameFrames /\ UNCHANGED inForce
  BY LinesAreQuiet
<1> QED BY <1>1 DEF Stepping, ContextStep, Together, PassesBy, inForce

(* Labels of the lines a text may have.                                    *)
LEMMA RegisteringIsBoolean ==
  \A l : Registering(l) \subseteq BOOLEAN
BY DEF Registering

(* Every step of the text, one action at a time.                           *)
LEMMA TextSteps ==
  ASSUME Invariant, ContextOK, [TextNext]_textVars
  PROVE  Stepping
<1>1. TypeOK
  BY DEF Invariant
<1> USE <1>1
<1>2. NoStatement \in Seq(Formula) /\ <<>> \in Seq(Declaration) /\ FALSE \in BOOLEAN
      /\ TRUE \in BOOLEAN /\ \A phi \in Formula : <<phi>> \in Seq(Formula)
  BY DEF NoStatement
<1>3. CASE TextDeclareOnly
  <2>1. PICK tag, ds, l, r :
          /\ ds \in DeclarationLists /\ l \in LabelsOf(<<>>, Depth) /\ r \in Registering(l)
          /\ Write(l, NoStatement, ds, r) /\ DeclareOnly(tag, ds)
    BY <1>3, Zenon DEF TextDeclareOnly
  <2>2. l \in Label \cup {NoLabel} /\ ds \in Seq(Declaration) /\ r \in BOOLEAN
    BY <2>1, Inputs, RegisteringIsBoolean
  <2>3. Checking' => LineRead(l, NoStatement, ds)
    BY <2>1, <2>2, DeclareOnlyRead
  <2> QED BY <1>2, <2>1, <2>2, <2>3, LineSteps
<1>4. CASE TextDeclareFormula
  <2>1. PICK ds, phi, l, r :
          /\ ds \in DeclarationLists \cup {<<>>} /\ phi \in DeclareLines
          /\ l \in LabelsOf(<<phi>>, Depth) /\ r \in Registering(l)
          /\ Write(l, <<phi>>, ds, r) /\ DeclareFormula(l, phi, ds)
    BY <1>4, Zenon DEF TextDeclareFormula
  <2>2. phi \in Formula /\ ds \in Seq(Declaration) /\ r \in BOOLEAN
    BY <2>1, Inputs, RegisteringIsBoolean, FormulaAssumption
  <2>3. l \in Label \cup {NoLabel}
    BY <2>1, <2>2, Inputs
  <2>4. Checking' => LineRead(l, <<phi>>, ds)
    BY <2>1, <2>2, <2>3, DeclareFormulaRead
  <2> QED BY <1>2, <2>1, <2>2, <2>3, <2>4, LineSteps
<1>5. CASE TextPremise
  <2>1. PICK ds, fs, l, r :
          /\ ds \in DeclarationLists \cup {<<>>} /\ fs \in PremiseLists
          /\ l \in LabelsOf(fs, Depth) /\ r \in Registering(l)
          /\ Write(l, fs, ds, r) /\ PremiseLine(l, fs, ds)
    BY <1>5, Zenon DEF TextPremise
  <2>2. fs \in Seq(Formula) /\ fs # <<>> /\ ds \in Seq(Declaration) /\ r \in BOOLEAN
        /\ l \in Label \cup {NoLabel}
    BY <2>1, Inputs, RegisteringIsBoolean, FormulaAssumption
  <2>3. Checking' => LineRead(l, fs, ds)
    BY <2>1, <2>2, PremiseLineRead
  <2> QED BY <2>1, <2>2, <2>3, LineSteps
<1>6. CASE TextAxiom
  <2>1. PICK phi, l : /\ phi \in Formula /\ l \in LabelsOf(<<phi>>, Depth)
                      /\ Write(l, <<phi>>, <<>>, FALSE) /\ AxiomLine(l, phi)
    BY <1>6, Zenon DEF TextAxiom
  <2>2. l \in Label \cup {NoLabel}
    BY <2>1, Inputs
  <2>3. Checking' => LineRead(l, <<phi>>, <<>>)
    BY <2>1, <2>2, AxiomLineRead
  <2> QED BY <1>2, <2>1, <2>2, <2>3, LineSteps
<1>7. CASE TextExistence
  <2>1. PICK l \in Label \cup {NoLabel}, cited \in Label, c \in Name, definition \in Definitions :
          ExistenceLine(l, cited, c, definition)
    BY <1>7, Zenon DEF TextExistence
  <2> DEFINE f  == Reference(cited)[1]
             fs == <<WitnessOf(f, c)>> \o definition.states
             ds == <<WitnessDeclaration(c)>> \o definition.declares
             r  == l # NoLabel
  <2>2. f \in Existential /\ Write(l, fs, ds, r) /\ PremiseLine(l, fs, ds)
    BY <2>1, Zenon DEF ExistenceLine
  <2>3. fs \in Seq(Formula) /\ fs # <<>> /\ ds \in Seq(Declaration) /\ r \in BOOLEAN
    BY <2>2, WitnessLines
  <2> HIDE DEF fs, ds, r
  <2>4. Checking' => LineRead(l, fs, ds)
    BY <2>2, <2>3, PremiseLineRead
  <2> QED BY <2>2, <2>3, <2>4, LineSteps
<1>8. CASE TextRule
  <2>1. PICK rule, phi, cites, l, ds :
          /\ rule \in Rule /\ phi \in Claims(rule) /\ l \in LabelsOf(<<phi>>, Depth)
          /\ ds \in DeclarationLists \cup {<<>>}
          /\ Write(l, <<phi>>, ds, TRUE) /\ RuleLine(l, phi, rule, cites, ds)
    BY <1>8, Zenon DEF TextRule
  <2>2. phi \in Formula /\ ds \in Seq(Declaration)
    BY <2>1, Inputs, RuleAssumption
  <2>3. l \in Label \cup {NoLabel}
    BY <2>1, <2>2, Inputs
  <2>4. Checking' => LineRead(l, <<phi>>, ds)
    BY <2>1, <2>2, <2>3, RuleLineRead
  <2> QED BY <1>2, <2>1, <2>2, <2>3, <2>4, LineSteps
<1>9. CASE TextBegin
  <2>1. /\ UNCHANGED context
        /\ \/ \E l, phi, rule, count : BeginBelow(l, phi, rule, count)
           \/ \E l, phi, rule, cites, count : BeginHybrid(l, phi, rule, cites, count)
    BY <1>9, Zenon DEF TextBegin, Ignored
  <2>2. UNCHANGED labels
    BY <2>1, Zenon DEF BeginBelow, BeginHybrid, Refuse, Await
  <2> QED BY <2>1, <2>2, QuietSteps
<1>10. CASE TextJudge
  <2> DEFINE p == Top.pending
  <2>1. Write(p.label, <<p.phi>>, <<>>, FALSE) /\ (JudgeBelow \/ JudgeHybrid)
    BY <1>10 DEF TextJudge
  <2>2. p.label \in Label \cup {NoLabel} /\ p.phi \in Formula
    BY <2>1, PendingLine DEF JudgeBelow, JudgeHybrid, Judging
  <2>3. Checking' => LineRead(p.label, <<p.phi>>, <<>>)
    BY <2>1, JudgedRead
  <2> HIDE DEF p
  <2> QED BY <1>2, <2>1, <2>2, <2>3, LineSteps
<1>11. CASE TextSubproof
  <2>1. UNCHANGED context /\ \E l : BeginSubproof(l)
    BY <1>11, Zenon DEF TextSubproof, Ignored
  <2>2. UNCHANGED labels
    BY <2>1, Zenon DEF BeginSubproof, Await
  <2> QED BY <2>1, <2>2, QuietSteps
<1>12. CASE TextOpenAssuming
  <2>1. PICK phi, l :
          /\ phi \in AssumeLines /\ l \in LabelsOf(<<phi>>, Depth + 1)
          /\ ReferenceFree(l)
          /\ context' = BindReference(ChildContext, "assumptions", l, <<phi>>)
          /\ OpenAssuming(l, phi)
    BY <1>12, Zenon DEF TextOpenAssuming
  <2>2. phi \in Formula /\ Depth < MaxDepth
    BY <2>1, FormulaAssumption DEF OpenAssuming, Awaiting
  <2>3. l \in Label \cup {NoLabel}
    BY <2>1, <2>2, Inputs
  <2>4. Enters(EmptyTable, FirstTable(l, phi), EmptyTable)
    BY <2>1, <2>2, <2>3, AssumingEnters DEF ContextOK
  <2>5. Checking' => BlockOpened(l, phi, {})
    BY <2>1, <2>2, <2>3, AssumingOpens
  <2>6. EntersSome
    BY <2>2, <2>3, <2>4, FirstTables, SmallTables DEF EntersSome
  <2>7. Checking' => OpensBlock
    BY <2>2, <2>3, <2>4, <2>5, Zenon DEF OpensBlock
  <2> QED BY <2>6, <2>7 DEF Stepping, ContextStep, Together
<1>13. CASE TextOpenFresh
  <2>1. PICK phi, l :
          /\ phi \in FreshLines /\ l \in LabelsOf(<<phi>>, Depth + 1)
          /\ ReferenceFree(l)
          /\ l # NoLabel => Fresh(phi)
          /\ context' = BindReference(
               [ChildContext EXCEPT !.arbitrary = BindAll(@, FreshTable(l, phi))], "labels", l, <<phi>>)
          /\ OpenFresh(l, phi)
    BY <1>13, Zenon DEF TextOpenFresh, FreshTable
  <2>2. phi \in Formula /\ Depth < MaxDepth
    BY <2>1, FormulaAssumption DEF OpenFresh, Awaiting
  <2>3. l \in Label \cup {NoLabel}
    BY <2>1, <2>2, Inputs
  <2>4. Enters(FirstTable(l, phi), EmptyTable, FreshTable(l, phi))
    BY <2>1, <2>2, <2>3, NamingEnters DEF ContextOK
  <2>5. Checking' => BlockOpened(l, phi, DOMAIN FreshTable(l, phi))
    <3>1. DOMAIN FreshTable(l, phi) \in SUBSET FlagNames(phi)
      BY FreshTables
    <3> QED BY <2>1, <2>2, <2>3, <3>1, NamingOpens
  <2>6. EntersSome
    BY <2>2, <2>3, <2>4, FirstTables, FreshTables, SmallTables DEF EntersSome
  <2>7. Checking' => OpensBlock
    BY <2>2, <2>3, <2>4, <2>5, Zenon DEF OpensBlock
  <2> QED BY <2>6, <2>7 DEF Stepping, ContextStep, Together
<1>14. CASE TextClose
  <2>1. context' = RestoredContext /\ CloseBlock
    BY <1>14 DEF TextClose
  <2>2. Len(context.labels) > 1
    BY <2>1 DEF CloseBlock, Reading, ContextOK, Depth
  <2>3. Returns
    BY <2>1, <2>2, ClosingReturns DEF ContextOK
  <2> QED BY <2>1, <2>3, ClosingCloses DEF Stepping, ContextStep, Together
<1>15. CASE TextMisplaced
  <2>1. UNCHANGED context /\ (OpenBadly \/ \E phi : MisplacedOpening(phi))
    BY <1>15, Zenon DEF TextMisplaced, Ignored
  <2>2. UNCHANGED labels
    BY <2>1, Zenon DEF OpenBadly, MisplacedOpening, Refuse
  <2> QED BY <2>1, <2>2, QuietSteps
<1>16. CASE TextFinish
  <2>1. UNCHANGED context /\ Finish /\ UNCHANGED labels
    BY <1>16 DEF TextFinish, Ignored, Finish
  <2> QED BY <2>1, QuietSteps
<1>17. CASE Unreadable \/ TextDone \/ UNCHANGED textVars
  <2>1. UNCHANGED context /\ UNCHANGED vars
    BY <1>17 DEF Unreadable, TextDone, textVars
  <2>2. UNCHANGED labels
    BY <2>1 DEF vars
  <2> QED BY <2>1, <2>2, QuietSteps
<1> QED BY <1>3, <1>4, <1>5, <1>6, <1>7, <1>8, <1>9, <1>10, <1>11, <1>12, <1>13, <1>14, <1>15,
           <1>16, <1>17 DEF TextNext

(* A refused walk does not go on.                                          *)
LEMMA RefusalsAreFinal ==
  ASSUME TypeOK, [TextNext]_textVars, Checking'
  PROVE  Checking
<1>1. CASE GivenStep
  BY <1>1, Zenon DEF GivenStep, DeclareOnly, DeclareFormula, PremiseLine, Reading
<1>2. CASE RuleStep \/ BelowStep
  <2>1. \A l, phi, rule, cites, ds : RuleLine(l, phi, rule, cites, ds) => Checking
    BY Zenon DEF RuleLine, Reading
  <2>2. \A l, phi, rule, count : BeginBelow(l, phi, rule, count) => Checking
    BY Zenon DEF BeginBelow, Reading
  <2>3. \A l, phi, rule, cites, count : BeginHybrid(l, phi, rule, cites, count) => Checking
    BY Zenon DEF BeginHybrid, Reading
  <2>4. CASE RuleStep
    BY <2>1, <2>3, <2>4, Zenon DEF RuleStep
  <2>5. CASE BelowStep
    BY <2>2, <2>5, Zenon DEF BelowStep
  <2> QED BY <1>2, <2>4, <2>5
<1>3. CASE SubproofStep
  BY <1>3, Zenon
  DEF SubproofStep, BeginSubproof, OpenAssuming, OpenFresh, CloseBlock, OpenBadly,
      MisplacedOpening, Reading, Awaiting
<1>4. CASE JudgeBelow \/ JudgeHybrid \/ Finish
  BY <1>4, Zenon DEF JudgeBelow, JudgeHybrid, Finish, Judging, Reading
<1>5. CASE \E phi \in Formula : \E l \in LabelsOf(<<phi>>, Depth) : AxiomLine(l, phi)
  BY <1>5, Zenon DEF AxiomLine, Reading
<1>6. CASE WitnessLine
  BY <1>6, Zenon DEF WitnessLine, PremiseLine, Reading
<1>7. CASE UNCHANGED vars
  BY <1>7 DEF vars, Checking
<1> QED BY <1>1, <1>2, <1>3, <1>4, <1>5, <1>6, <1>7, TextWalks DEF Next, Done

(* Labelling a line keeps a chain a chain.                                 *)
LEMMA LabellingKeepsScope ==
  ASSUME NEW chain \in Seq(Tables(Label, Seq(Formula))), Len(chain) > 0,
         NEW l \in Label \cup {NoLabel}, NEW fs \in Seq(Formula)
  PROVE  /\ Labelling(chain, l, fs) \in Seq(Tables(Label, Seq(Formula)))
         /\ Len(Labelling(chain, l, fs)) = Len(chain)
<1>1. CASE l = NoLabel
  BY <1>1 DEF Labelling
<1>2. CASE l # NoLabel
  <2>1. Single(l, fs) \in Tables(Label, Seq(Formula))
    BY <1>2, SmallTables
  <2> QED BY <1>2, <2>1, BindAllKeepsScope DEF Labelling
<1> QED BY <1>1, <1>2

(* The elaborator's chains stay chains of one length.                      *)
LEMMA ContextStaysTyped ==
  ASSUME ContextOK, ContextStep
  PROVE  /\ ContextTyped'
         /\ Len(context'.labels) > 0
         /\ Len(context'.declarations) = Len(context'.labels)
         /\ Len(context'.assumptions) = Len(context'.labels)
         /\ Len(context'.arbitrary) = Len(context'.labels)
         /\ WritesSome => Len(context'.labels) = Len(context.labels)
         /\ EntersSome => Len(context'.labels) = Len(context.labels) + 1
         /\ Returns => Len(context'.labels) = Len(context.labels) - 1
<1>1. /\ ContextTyped /\ Len(context.labels) > 0
      /\ Len(context.declarations) = Len(context.labels)
      /\ Len(context.assumptions) = Len(context.labels)
      /\ Len(context.arbitrary) = Len(context.labels)
  BY DEF ContextOK
<1>2. ASSUME WritesSome
      PROVE  /\ ContextTyped' /\ Len(context'.labels) = Len(context.labels)
             /\ Len(context'.declarations) = Len(context.labels)
             /\ Len(context'.assumptions) = Len(context.labels)
             /\ Len(context'.arbitrary) = Len(context.labels)
  <2>1. PICK l \in Label \cup {NoLabel}, fs \in Seq(Formula), ds \in Seq(Declaration),
             registers \in BOOLEAN : Writes(l, fs, ds, registers)
    BY <1>2, Zenon DEF WritesSome
  <2>2. /\ Labelling(context.labels, l, fs) \in Seq(Tables(Label, Seq(Formula)))
        /\ Len(Labelling(context.labels, l, fs)) = Len(context.labels)
    BY <1>1, LabellingKeepsScope DEF ContextTyped
  <2>3. ToSet(ds) \in SUBSET Declaration
    BY DEF ToSet
  <2>4. /\ Declare(context.declarations, ToSet(ds)) \in Seq(Tables(Name, Declaration))
        /\ Len(Declare(context.declarations, ToSet(ds))) = Len(context.declarations)
    BY <1>1, <2>3, DeclareKeepsScope DEF ContextTyped
  <2> QED BY <1>1, <2>1, <2>2, <2>4 DEF Writes, ContextTyped
<1>3. ASSUME EntersSome
      PROVE  /\ ContextTyped' /\ Len(context'.labels) = Len(context.labels) + 1
             /\ Len(context'.declarations) = Len(context.labels) + 1
             /\ Len(context'.assumptions) = Len(context.labels) + 1
             /\ Len(context'.arbitrary) = Len(context.labels) + 1
  <2>1. PICK lines \in Tables(Label, Seq(Formula)), assumed \in Tables(Label, Seq(Formula)),
             named \in Tables(Name, {NoStatement}) : Enters(lines, assumed, named)
    BY <1>3, Zenon DEF EntersSome
  <2>2. EmptyTable \in Tables(Name, Declaration)
    BY SmallTables
  <2> QED BY <1>1, <2>1, <2>2 DEF Enters, ContextTyped
<1>4. ASSUME Returns
      PROVE  /\ ContextTyped' /\ Len(context'.labels) = Len(context.labels) - 1
             /\ Len(context'.declarations) = Len(context.labels) - 1
             /\ Len(context'.assumptions) = Len(context.labels) - 1
             /\ Len(context'.arbitrary) = Len(context.labels) - 1
             /\ Len(context.labels) > 1
  BY <1>1, <1>4, ParentKeepsScope DEF Returns, ContextTyped
<1>5. CASE UNCHANGED context
  BY <1>1, <1>2, <1>3, <1>4, <1>5 DEF ContextTyped
<1>6. Len(context.labels) \in Nat
  BY <1>1 DEF ContextTyped
<1> QED BY <1>1, <1>2, <1>3, <1>4, <1>5, <1>6 DEF ContextStep

(* The elaborator is in as many blocks as the kernel.                      *)
LEMMA ContextStays ==
  ASSUME Invariant, ContextOK, [TextNext]_textVars
  PROVE  ContextOK'
<1>1. TypeOK /\ Stepping
  BY TextSteps DEF Invariant
<1>2. /\ ContextTyped'
      /\ Len(context'.labels) > 0
      /\ Len(context'.declarations) = Len(context'.labels)
      /\ Len(context'.assumptions) = Len(context'.labels)
      /\ Len(context'.arbitrary) = Len(context'.labels)
  BY <1>1, ContextStaysTyped DEF Stepping
<1>3. ASSUME Checking' PROVE Len(context'.labels) = Len(blocks')
  <2>1. Len(context.labels) = Len(blocks) /\ Together /\ ContextStep
    BY <1>1, <1>3, RefusalsAreFinal DEF ContextOK, Stepping
  <2>2. CASE PassesBy
    BY <2>1, <2>2 DEF PassesBy, SameFrames
  <2>3. CASE ReadsLine
    <3>1. PICK l \in Label \cup {NoLabel}, fs \in Seq(Formula), ds \in Seq(Declaration),
               registers \in BOOLEAN : Writes(l, fs, ds, registers) /\ LineRead(l, fs, ds)
      BY <2>3, Zenon DEF ReadsLine
    <3>2. WritesSome /\ Len(blocks') = Len(blocks)
      BY <3>1, Zenon DEF WritesSome, LineRead, SameFrames
    <3> QED BY <2>1, <3>2, ContextStaysTyped
  <2>4. CASE OpensBlock
    <3>1. PICK l \in Label \cup {NoLabel}, phi \in Formula :
            \/ /\ Enters(EmptyTable, FirstTable(l, phi), EmptyTable)
               /\ BlockOpened(l, phi, {})
            \/ /\ Enters(FirstTable(l, phi), EmptyTable, FreshTable(l, phi))
               /\ BlockOpened(l, phi, DOMAIN FreshTable(l, phi))
      BY <2>4, Zenon DEF OpensBlock
    <3>2. EntersSome
      BY <3>1, FirstTables, FreshTables, SmallTables DEF EntersSome
    <3>3. Len(blocks') = Len(blocks) + 1
      BY <3>1 DEF BlockOpened
    <3> QED BY <2>1, <3>2, <3>3, ContextStaysTyped
  <2>5. CASE Returns /\ BlockClosed
    BY <2>1, <2>5, ContextStaysTyped DEF BlockClosed
  <2> QED BY <2>1, <2>2, <2>3, <2>4, <2>5 DEF Together
<1> QED BY <1>2, <1>3 DEF ContextOK

-----------------------------------------------------------------------------
(* The context as a lexical environment.                                   *)

MergedChain(a, b) == [i \in DOMAIN a |-> Merged(a[i], b[i])]

(* Merging two tables gives a table, ...                                   *)
LEMMA MergedTables ==
  ASSUME NEW K, NEW V, NEW t \in Tables(K, V), NEW u \in Tables(K, V)
  PROVE  Merged(t, u) \in Tables(K, V)
<1>1. PICK D \in SUBSET K, E \in SUBSET K : t \in [D -> V] /\ u \in [E -> V]
  BY DEF Tables
<1>2. Merged(t, u) \in [D \cup E -> V]
  BY <1>1 DEF Merged
<1>3. D \cup E \in SUBSET K
  OBVIOUS
<1> QED BY <1>2, <1>3 DEF Tables, Merged

(* ... and two chains of one length a chain, in which a name is bound if   *)
(* either binds it.                                                        *)
LEMMA MergedChains ==
  ASSUME NEW K, NEW V, NEW a \in Seq(Tables(K, V)), NEW b \in Seq(Tables(K, V)), Len(b) = Len(a)
  PROVE  /\ MergedChain(a, b) \in Seq(Tables(K, V))
         /\ Len(MergedChain(a, b)) = Len(a)
         /\ \A i \in 1 .. Len(a) : MergedChain(a, b)[i] = Merged(a[i], b[i])
         /\ \A k : IsBound(MergedChain(a, b), k) => IsBound(a, k) \/ IsBound(b, k)
<1> DEFINE c == MergedChain(a, b)
<1>1. DOMAIN a = 1 .. Len(a) /\ DOMAIN b = 1 .. Len(a) /\ Len(a) \in Nat
  OBVIOUS
<1>2. ASSUME NEW i \in 1 .. Len(a)
      PROVE  /\ c[i] = Merged(a[i], b[i]) /\ Merged(a[i], b[i]) \in Tables(K, V)
             /\ DOMAIN Merged(a[i], b[i]) = DOMAIN a[i] \cup DOMAIN b[i]
  <2>1. a[i] \in Tables(K, V) /\ b[i] \in Tables(K, V)
    BY <1>1
  <2>2. c[i] = Merged(a[i], b[i])
    BY <1>1 DEF MergedChain
  <2> QED BY <2>1, <2>2, MergedTables DEF Merged
<1>3. c \in [1 .. Len(a) -> Tables(K, V)]
  BY <1>1, <1>2 DEF MergedChain
<1>4. c \in Seq(Tables(K, V)) /\ Len(c) = Len(a) /\ DOMAIN c = 1 .. Len(a)
  BY <1>1, <1>3
<1> HIDE DEF c
<1>5. ASSUME NEW k, IsBound(c, k) PROVE IsBound(a, k) \/ IsBound(b, k)
  <2>1. PICK i \in 1 .. Len(a) : k \in DOMAIN Merged(a[i], b[i])
    BY <1>2, <1>4, <1>5 DEF IsBound
  <2>2. k \in DOMAIN a[i] \/ k \in DOMAIN b[i]
    BY <1>2, <2>1
  <2> QED BY <1>1, <2>2 DEF IsBound
<1> QED BY <1>2, <1>4, <1>5 DEF c

(* Two chains are the same if they are so table by table.                  *)
LEMMA SameChain ==
  ASSUME NEW T, NEW a \in Seq(T), NEW b \in Seq(T), Len(a) = Len(b),
         \A i \in 1 .. Len(a) : a[i] = b[i]
  PROVE  a = b
OBVIOUS

(* What labelling does, table by table.                                    *)
LEMMA LabellingByTable ==
  ASSUME NEW T, NEW chain \in Seq(T), Len(chain) > 0, NEW l, NEW fs
  PROVE  LET n  == Len(chain)
             to == BindAll(chain, Single(l, fs))
         IN  /\ \A i \in 1 .. n : i # n => to[i] = chain[i]
             /\ DOMAIN to[n] = DOMAIN chain[n] \cup {l}
             /\ to[n][l] = fs
             /\ \A k \in DOMAIN chain[n] : k # l => to[n][k] = chain[n][k]
<1>1. Len(chain) \in DOMAIN chain /\ DOMAIN chain = 1 .. Len(chain)
  OBVIOUS
<1>2. DOMAIN Single(l, fs) = {l} /\ Single(l, fs)[l] = fs
  BY DEF Single
<1> QED BY <1>1, <1>2 DEF BindAll

(* Labelling a line in one of two chains labels it in both together.       *)
LEMMA MergedLabelling ==
  ASSUME NEW a \in Seq(Tables(Label, Seq(Formula))), NEW b \in Seq(Tables(Label, Seq(Formula))),
         Len(b) = Len(a), Len(a) > 0, NEW l \in Label \cup {NoLabel}, NEW fs \in Seq(Formula)
  PROVE  MergedChain(Labelling(a, l, fs), b) = Labelling(MergedChain(a, b), l, fs)
<1>1. CASE l = NoLabel
  BY <1>1 DEF Labelling
<1>2. CASE l # NoLabel
  <2> DEFINE n  == Len(a)
             T  == Tables(Label, Seq(Formula))
             a2 == BindAll(a, Single(l, fs))
             m  == MergedChain(a, b)
             m2 == BindAll(m, Single(l, fs))
             c  == MergedChain(a2, b)
  <2>1. l \in Label /\ n \in Nat /\ n \in 1 .. n
    BY <1>2
  <2>2. a2 \in Seq(T) /\ Len(a2) = n
    BY <2>1, SmallTables, BindAllKeepsScope
  <2>3. m \in Seq(T) /\ Len(m) = n /\ \A i \in 1 .. n : m[i] = Merged(a[i], b[i])
    BY MergedChains
  <2>4. c \in Seq(T) /\ Len(c) = n /\ \A i \in 1 .. n : c[i] = Merged(a2[i], b[i])
    BY <2>2, MergedChains
  <2>5. m2 \in Seq(T) /\ Len(m2) = n
    BY <2>1, <2>3, SmallTables, BindAllKeepsScope
  <2>6. /\ \A i \in 1 .. n : i # n => a2[i] = a[i]
        /\ DOMAIN a2[n] = DOMAIN a[n] \cup {l}
        /\ a2[n][l] = fs
        /\ \A k \in DOMAIN a[n] : k # l => a2[n][k] = a[n][k]
    BY <2>1, LabellingByTable
  <2>7. /\ \A i \in 1 .. n : i # n => m2[i] = m[i]
        /\ DOMAIN m2[n] = DOMAIN m[n] \cup {l}
        /\ m2[n][l] = fs
        /\ \A k \in DOMAIN m[n] : k # l => m2[n][k] = m[n][k]
    BY <2>1, <2>3, LabellingByTable
  <2> HIDE DEF a2, m, m2, c, T
  <2>8. c[n] = m2[n]
    <3>1. /\ a[n] \in T /\ b[n] \in T /\ a2[n] \in T /\ m2[n] \in T /\ c[n] \in T
          /\ c[n] = Merged(a2[n], b[n]) /\ m[n] = Merged(a[n], b[n])
      BY <2>1, <2>2, <2>3, <2>4, <2>5 DEF T
    <3>2. /\ DOMAIN c[n] = DOMAIN a2[n] \cup DOMAIN b[n]
          /\ \A k \in DOMAIN a2[n] : c[n][k] = a2[n][k]
          /\ \A k \in DOMAIN b[n] : k \notin DOMAIN a2[n] => c[n][k] = b[n][k]
      BY <3>1 DEF Merged
    <3>3. /\ DOMAIN m[n] = DOMAIN a[n] \cup DOMAIN b[n]
          /\ \A k \in DOMAIN a[n] : m[n][k] = a[n][k]
          /\ \A k \in DOMAIN b[n] : k \notin DOMAIN a[n] => m[n][k] = b[n][k]
      BY <3>1 DEF Merged
    <3>4. DOMAIN c[n] = DOMAIN m2[n]
      BY <2>6, <2>7, <3>2, <3>3
    <3>5. \A k \in DOMAIN m2[n] : c[n][k] = m2[n][k]
      BY <2>6, <2>7, <3>2, <3>3
    <3>6. PICK D, E : c[n] \in [D -> Seq(Formula)] /\ m2[n] \in [E -> Seq(Formula)]
      BY <3>1 DEF Tables, T
    <3> QED BY <3>4, <3>5, <3>6
  <2>9. \A i \in 1 .. n : c[i] = m2[i]
    BY <2>3, <2>4, <2>6, <2>7, <2>8
  <2>10. c = m2
    BY <2>4, <2>5, <2>9, SameChain
  <2> QED BY <1>2, <2>10 DEF c, m2, m, a2, Labelling
<1> QED BY <1>1, <1>2

(* A step of a chain that is an environment.                               *)
EnvironmentStep(from, to) ==
  \/ LabelNames!Extends(from, to)
  \/ /\ Len(to) = Len(from) + 1
     /\ LabelNames!Outside(to) = from
     /\ DOMAIN LabelNames!Innermost(to) \cap LabelNames!Visible(from) = {}
  \/ Len(from) > 1 /\ to = LabelNames!Outside(from)

(* It is a step of each of the context's three environments.               *)
LEMMA StepsOfEnvironments ==
  /\ EnvironmentStep(References, References') => ReferenceNames!Next
  /\ EnvironmentStep(context.declarations, context'.declarations) => KnownNames!Next
  /\ EnvironmentStep(context.arbitrary, context'.arbitrary) => FreshNames!Next
<1>1. \A a : LabelNames!Extends(a, a) /\ LabelNames!New(a, a) = {}
  BY ExtensionByNothing
<1>2. EnvironmentStep(References, References') => ReferenceNames!Next
  <2>1. /\ \A c : LabelNames!Outside(c) = ReferenceNames!Outside(c)
        /\ \A c : LabelNames!Innermost(c) = ReferenceNames!Innermost(c)
        /\ \A c : LabelNames!Visible(c) = ReferenceNames!Visible(c)
        /\ \A a, b : LabelNames!New(a, b) = ReferenceNames!New(a, b)
        /\ \A a, b : LabelNames!Extends(a, b) <=> ReferenceNames!Extends(a, b)
    BY DEF LabelNames!Outside, ReferenceNames!Outside, LabelNames!Innermost, ReferenceNames!Innermost,
           LabelNames!Visible, ReferenceNames!Visible, LabelNames!New, ReferenceNames!New,
           LabelNames!Extends, ReferenceNames!Extends
  <2> QED BY <1>1, <2>1
          DEF EnvironmentStep, ReferenceNames!Next, ReferenceNames!Bind, ReferenceNames!Enter,
              ReferenceNames!Leave
<1>3. EnvironmentStep(context.declarations, context'.declarations) => KnownNames!Next
  <2>1. /\ \A c : LabelNames!Outside(c) = KnownNames!Outside(c)
        /\ \A c : LabelNames!Innermost(c) = KnownNames!Innermost(c)
        /\ \A c : LabelNames!Visible(c) = KnownNames!Visible(c)
        /\ \A a, b : LabelNames!New(a, b) = KnownNames!New(a, b)
        /\ \A a, b : LabelNames!Extends(a, b) <=> KnownNames!Extends(a, b)
    BY DEF LabelNames!Outside, KnownNames!Outside, LabelNames!Innermost, KnownNames!Innermost,
           LabelNames!Visible, KnownNames!Visible, LabelNames!New, KnownNames!New,
           LabelNames!Extends, KnownNames!Extends
  <2> QED BY <1>1, <2>1
          DEF EnvironmentStep, KnownNames!Next, KnownNames!Bind, KnownNames!Enter, KnownNames!Leave
<1>4. EnvironmentStep(context.arbitrary, context'.arbitrary) => FreshNames!Next
  <2>1. /\ \A c : LabelNames!Outside(c) = FreshNames!Outside(c)
        /\ \A c : LabelNames!Innermost(c) = FreshNames!Innermost(c)
        /\ \A c : LabelNames!Visible(c) = FreshNames!Visible(c)
        /\ \A a, b : LabelNames!New(a, b) = FreshNames!New(a, b)
        /\ \A a, b : LabelNames!Extends(a, b) <=> FreshNames!Extends(a, b)
    BY DEF LabelNames!Outside, FreshNames!Outside, LabelNames!Innermost, FreshNames!Innermost,
           LabelNames!Visible, FreshNames!Visible, LabelNames!New, FreshNames!New,
           LabelNames!Extends, FreshNames!Extends
  <2> QED BY <1>1, <2>1
          DEF EnvironmentStep, FreshNames!Next, FreshNames!Bind, FreshNames!Enter, FreshNames!Leave
<1> QED BY <1>2, <1>3, <1>4

(* The tables of the references, and what a step does to them.             *)
LEMMA ReferencesAreChained ==
  ASSUME ContextOK
  PROVE  /\ References = MergedChain(context.labels, context.assumptions)
         /\ References \in Seq(Tables(Label, Seq(Formula)))
         /\ Len(References) = Len(context.labels)
         /\ \A i \in 1 .. Len(context.labels) :
              References[i] = Merged(context.labels[i], context.assumptions[i])
         /\ \A k : IsBound(References, k) =>
              IsBound(context.labels, k) \/ IsBound(context.assumptions, k)
<1>1. References = MergedChain(context.labels, context.assumptions)
  BY DEF References, MergedChain
<1>2. /\ context.labels \in Seq(Tables(Label, Seq(Formula)))
      /\ context.assumptions \in Seq(Tables(Label, Seq(Formula)))
      /\ Len(context.assumptions) = Len(context.labels)
  BY DEF ContextOK, ContextTyped
<1> QED BY <1>1, <1>2, MergedChains

LEMMA WritingReferences ==
  ASSUME ContextOK, ContextOK', NEW l \in Label \cup {NoLabel}, NEW fs \in Seq(Formula), NEW ds,
         NEW registers, Writes(l, fs, ds, registers)
  PROVE  References' = Labelling(References, l, fs)
<1>1. /\ context.labels \in Seq(Tables(Label, Seq(Formula)))
      /\ context.assumptions \in Seq(Tables(Label, Seq(Formula)))
      /\ Len(context.assumptions) = Len(context.labels) /\ Len(context.labels) > 0
  BY DEF ContextOK, ContextTyped
<1>2. References' = MergedChain(context'.labels, context'.assumptions)
  BY DEF References, MergedChain
<1>3. References = MergedChain(context.labels, context.assumptions)
  BY DEF References, MergedChain
<1> QED BY <1>1, <1>2, <1>3, MergedLabelling DEF Writes

LEMMA EnteringReferences ==
  ASSUME ContextOK, NEW lines \in Tables(Label, Seq(Formula)),
         NEW assumed \in Tables(Label, Seq(Formula)), NEW named, Enters(lines, assumed, named)
  PROVE  References' = Append(References, Merged(lines, assumed))
<1> DEFINE T == Tables(Label, Seq(Formula))
           a == context'.labels
           b == context'.assumptions
           n == Len(context.labels)
           r == MergedChain(a, b)
           q == Append(References, Merged(lines, assumed))
<1>1. /\ context.labels \in Seq(T) /\ context.assumptions \in Seq(T)
      /\ Len(context.assumptions) = n /\ n \in Nat
  BY DEF ContextOK, ContextTyped
<1>2. /\ a \in Seq(T) /\ b \in Seq(T) /\ Len(a) = n + 1 /\ Len(b) = n + 1
      /\ a[n + 1] = lines /\ b[n + 1] = assumed
      /\ \A i \in 1 .. n : a[i] = context.labels[i] /\ b[i] = context.assumptions[i]
  BY <1>1 DEF Enters
<1>3. References' = r
  BY DEF References, MergedChain
<1> HIDE DEF a, b
<1>4. r \in Seq(T) /\ Len(r) = n + 1 /\ \A i \in 1 .. n + 1 : r[i] = Merged(a[i], b[i])
  BY <1>1, <1>2, MergedChains
<1>5. /\ References \in Seq(T) /\ Len(References) = n
      /\ \A i \in 1 .. n : References[i] = Merged(context.labels[i], context.assumptions[i])
  BY ReferencesAreChained
<1>6. Merged(lines, assumed) \in T
  BY MergedTables
<1>7. /\ q \in Seq(T) /\ Len(q) = n + 1 /\ q[n + 1] = Merged(lines, assumed)
      /\ \A i \in 1 .. n : q[i] = References[i]
  BY <1>1, <1>5, <1>6
<1> HIDE DEF q, r, n, T
<1>8. \A i \in 1 .. n + 1 : r[i] = q[i]
  <2>1. \A i \in 1 .. n + 1 : i = n + 1 \/ i \in 1 .. n
    BY <1>1
  <2> QED BY <1>1, <1>2, <1>4, <1>5, <1>7, <2>1
<1>9. r = q
  BY <1>4, <1>7, <1>8, SameChain
<1> QED BY <1>3, <1>9 DEF q

LEMMA ReturningReferences ==
  ASSUME ContextOK, Returns
  PROVE  References' = Parent(References)
<1> DEFINE T == Tables(Label, Seq(Formula))
           a == context'.labels
           b == context'.assumptions
           n == Len(context.labels) - 1
           r == MergedChain(a, b)
           q == Parent(References)
<1>1. /\ context.labels \in Seq(T) /\ context.assumptions \in Seq(T)
      /\ Len(context.assumptions) = Len(context.labels) /\ Len(context.labels) > 1 /\ n \in Nat
  BY DEF ContextOK, ContextTyped, Returns
<1>2. /\ a \in Seq(T) /\ b \in Seq(T) /\ Len(a) = n /\ Len(b) = n
      /\ \A i \in 1 .. n : a[i] = context.labels[i] /\ b[i] = context.assumptions[i]
  BY <1>1, ParentLeaves DEF Returns
<1>3. References' = r
  BY DEF References, MergedChain
<1> HIDE DEF a, b
<1>4. r \in Seq(T) /\ Len(r) = n /\ \A i \in 1 .. n : r[i] = Merged(a[i], b[i])
  BY <1>1, <1>2, MergedChains
<1>5. /\ References \in Seq(T) /\ Len(References) = Len(context.labels)
      /\ \A i \in 1 .. n : References[i] = Merged(context.labels[i], context.assumptions[i])
  BY <1>1, ReferencesAreChained
<1>6. q \in Seq(T) /\ Len(q) = n /\ \A i \in 1 .. n : q[i] = References[i]
  BY <1>1, <1>5, ParentLeaves
<1> HIDE DEF q, r, n, T
<1>7. r = q
  BY <1>2, <1>4, <1>5, <1>6, SameChain
<1> QED BY <1>3, <1>7 DEF q

(* A line written extends all three; ...                                   *)
LEMMA WritingIsLexical ==
  ASSUME ContextOK, ContextOK', WritesSome
  PROVE  /\ EnvironmentStep(References, References')
         /\ EnvironmentStep(context.declarations, context'.declarations)
         /\ EnvironmentStep(context.arbitrary, context'.arbitrary)
<1>1. PICK l \in Label \cup {NoLabel}, fs \in Seq(Formula), ds \in Seq(Declaration),
           registers \in BOOLEAN : Writes(l, fs, ds, registers)
  BY Zenon DEF WritesSome
<1>2. EnvironmentStep(References, References')
  <2>1. References' = Labelling(References, l, fs)
    BY <1>1, WritingReferences
  <2>2. CASE l = NoLabel
    BY <2>1, <2>2, ExtensionByNothing DEF Labelling, EnvironmentStep
  <2>3. CASE l # NoLabel
    <3>1. /\ References \in Seq(Tables(Label, Seq(Formula))) /\ Len(References) > 0
          /\ ~ IsBound(References, l)
      BY <1>1, <2>3, ReferencesAreChained DEF ContextOK, Writes, ReferenceFree
    <3>2. Single(l, fs) \in Tables(Label, Seq(Formula)) /\ DOMAIN Single(l, fs) = {l}
      BY <2>3, SmallTables DEF Single
    <3>3. LabelNames!Extends(References, BindAll(References, Single(l, fs)))
      BY <3>1, <3>2, BindingExtends
    <3> QED BY <2>1, <2>3, <3>3 DEF Labelling, EnvironmentStep
  <2> QED BY <2>2, <2>3
<1>3. EnvironmentStep(context.declarations, context'.declarations)
  <2>1. CASE ~ registers
    BY <1>1, <2>1, ExtensionByNothing DEF Writes, EnvironmentStep
  <2>2. CASE registers
    <3>1. \A d \in ToSet(ds) : ~ IsBound(context.declarations, d.name)
      BY <1>1, <2>2 DEF Writes, NamesFree, ToSet
    <3>2. ToSet(ds) \in SUBSET Declaration
      BY DEF ToSet
    <3>3. /\ context.declarations \in Seq(Tables(Name, Declaration))
          /\ Len(context.declarations) > 0
      BY DEF ContextOK, ContextTyped
    <3>4. LabelNames!Extends(context.declarations, Declare(context.declarations, ToSet(ds)))
      BY <3>1, <3>2, <3>3, DeclaringExtends
    <3> QED BY <1>1, <2>2, <3>4 DEF Writes, EnvironmentStep
  <2> QED BY <2>1, <2>2
<1>4. EnvironmentStep(context.arbitrary, context'.arbitrary)
  BY <1>1, ExtensionByNothing DEF Writes, EnvironmentStep
<1> QED BY <1>2, <1>3, <1>4

(* ... a child enters a block in all three.                                *)
LEMMA EnteringIsLexical ==
  ASSUME ContextOK, EntersSome
  PROVE  /\ EnvironmentStep(References, References')
         /\ EnvironmentStep(context.declarations, context'.declarations)
         /\ EnvironmentStep(context.arbitrary, context'.arbitrary)
<1>1. PICK lines \in Tables(Label, Seq(Formula)), assumed \in Tables(Label, Seq(Formula)),
           named \in Tables(Name, {NoStatement}) : Enters(lines, assumed, named)
  BY Zenon DEF EntersSome
<1>2. ASSUME NEW T, NEW chain \in Seq(T), NEW table \in T, \A k \in DOMAIN table : ~ IsBound(chain, k)
      PROVE  EnvironmentStep(chain, Append(chain, table))
  BY <1>2, AppendingEnters DEF EnvironmentStep
<1>3. EnvironmentStep(References, References')
  <2>1. References' = Append(References, Merged(lines, assumed))
    BY <1>1, EnteringReferences
  <2>2. /\ References \in Seq(Tables(Label, Seq(Formula)))
        /\ Merged(lines, assumed) \in Tables(Label, Seq(Formula))
    BY ReferencesAreChained, MergedTables
  <2>3. \A k \in DOMAIN Merged(lines, assumed) : ~ IsBound(References, k)
    BY <1>1, ReferencesAreChained DEF Enters, Merged
  <2> QED BY <1>2, <2>1, <2>2, <2>3
<1>4. EnvironmentStep(context.declarations, context'.declarations)
  <2>1. /\ context'.declarations = Append(context.declarations, EmptyTable)
        /\ context.declarations \in Seq(Tables(Name, Declaration))
        /\ EmptyTable \in Tables(Name, Declaration) /\ DOMAIN EmptyTable = {}
    BY <1>1, SmallTables DEF Enters, ContextOK, ContextTyped, EmptyTable
  <2> QED BY <1>2, <2>1
<1>5. EnvironmentStep(context.arbitrary, context'.arbitrary)
  <2>1. /\ context'.arbitrary = Append(context.arbitrary, named)
        /\ context.arbitrary \in Seq(Tables(Name, {NoStatement}))
        /\ \A n \in DOMAIN named : ~ IsBound(context.arbitrary, n)
    BY <1>1 DEF Enters, ContextOK, ContextTyped
  <2> QED BY <1>2, <2>1
<1> QED BY <1>3, <1>4, <1>5

(* The elaborator's context takes the steps of a lexical environment.      *)
LEMMA ContextTakesLexicalSteps ==
  ASSUME ContextOK, ContextOK', ContextStep
  PROVE  UNCHANGED context \/ (ReferenceNames!Next /\ KnownNames!Next /\ FreshNames!Next)
<1>1. CASE WritesSome
  BY <1>1, WritingIsLexical, StepsOfEnvironments
<1>2. CASE EntersSome
  BY <1>2, EnteringIsLexical, StepsOfEnvironments
<1>3. CASE Returns
  <2>1. ASSUME NEW T, NEW chain \in Seq(T), Len(chain) > 1
        PROVE  EnvironmentStep(chain, Parent(chain))
    BY <2>1, ParentLeaves DEF EnvironmentStep
  <2>2. EnvironmentStep(References, References')
    <3>1. /\ References \in Seq(Tables(Label, Seq(Formula))) /\ Len(References) > 1
          /\ References' = Parent(References)
      BY <1>3, ReferencesAreChained, ReturningReferences DEF Returns
    <3> QED BY <2>1, <3>1
  <2>3. /\ EnvironmentStep(context.declarations, context'.declarations)
        /\ EnvironmentStep(context.arbitrary, context'.arbitrary)
    BY <1>3, <2>1 DEF Returns, ContextOK, ContextTyped
  <2> QED BY <2>2, <2>3, StepsOfEnvironments
<1> QED BY <1>1, <1>2, <1>3 DEF ContextStep

(* To begin with it has one table of each kind.                            *)
LEMMA ContextBegins ==
  TextInit => Invariant /\ ContextOK /\ Checking /\ Len(References) = 1
<1> SUFFICES ASSUME TextInit PROVE Invariant /\ ContextOK /\ Checking /\ Len(References) = 1
  OBVIOUS
<1>1. Invariant
  BY InitHasInvariant DEF TextInit
<1>2. TableOf(InitialDeclarations) \in Tables(Name, Declaration)
  BY TableOfDeclarations, DeclarationAssumption
<1>3. EmptyTable \in Tables(Label, Seq(Formula)) /\ EmptyTable \in Tables(Name, {NoStatement})
  BY SmallTables
<1>4. ContextTyped /\ Len(context.labels) = 1 /\ Len(context.declarations) = 1
      /\ Len(context.assumptions) = 1 /\ Len(context.arbitrary) = 1
  BY <1>2, <1>3 DEF TextInit, EmptyContext, ContextTyped
<1>5. Checking /\ Len(blocks) = 1
  BY DEF TextInit, Init, Checking
<1>6. ContextOK
  BY <1>4, <1>5 DEF ContextOK
<1> QED BY <1>1, <1>4, <1>5, <1>6, ReferencesAreChained

-----------------------------------------------------------------------------
(* What labels name.                                                       *)

(* A table of references and one of the kernel's labels name the same      *)
(* formulas.                                                               *)
AgreeOn(rt, kt) ==
  /\ \A k \in DOMAIN rt : rt[k] # NoStatement =>
       k \in DOMAIN kt /\ ~ NamesRecord(kt[k]) /\ kt[k] = rt[k]
  /\ \A k \in DOMAIN kt : ~ NamesRecord(kt[k]) =>
       k \in DOMAIN rt /\ rt[k] # NoStatement /\ rt[k] = kt[k]

(* ReferencesAgree in these words.                                         *)
LEMMA AgreeTableByTable ==
  ASSUME NEW rt, NEW kt
  PROVE  AgreeOn(rt, kt) <=> Statements(rt) = Only(kt, {l \in DOMAIN kt : ~ NamesRecord(kt[l])})
<1> DEFINE D == {k \in DOMAIN rt : rt[k] # NoStatement}
           E == {l \in DOMAIN kt : ~ NamesRecord(kt[l])}
<1>1. Statements(rt) = [k \in D |-> rt[k]] /\ Only(kt, E) = [k \in E |-> kt[k]]
  BY DEF Statements, Only
<1>2. ASSUME AgreeOn(rt, kt) PROVE [k \in D |-> rt[k]] = [k \in E |-> kt[k]]
  <2>1. D = E /\ \A k \in D : rt[k] = kt[k]
    BY <1>2 DEF AgreeOn
  <2> HIDE DEF D, E
  <2> QED BY <2>1
<1>3. ASSUME [k \in D |-> rt[k]] = [k \in E |-> kt[k]] PROVE AgreeOn(rt, kt)
  <2> DEFINE f == [k \in D |-> rt[k]]
             g == [k \in E |-> kt[k]]
  <2>1. DOMAIN f = D /\ DOMAIN g = E /\ (\A k \in D : f[k] = rt[k]) /\ \A k \in E : g[k] = kt[k]
    OBVIOUS
  <2>2. D = E /\ \A k \in D : rt[k] = kt[k]
    BY <1>3, <2>1
  <2> QED BY <2>2 DEF AgreeOn
<1> QED BY <1>1, <1>2, <1>3

LEMMA ReferencesAgreeByTable ==
  /\ ReferencesAgree <=>
       (Checking => \A i \in DOMAIN blocks : AgreeOn(References[i], labels[i]))
  /\ ReferencesAgree' <=>
       (Checking' => \A i \in DOMAIN blocks' : AgreeOn(References'[i], labels'[i]))
BY AgreeTableByTable DEF ReferencesAgree, KernelLines

(* There is a block for each index.                                        *)
LEMMA BlocksAreIndexed ==
  ASSUME TypeOK'
  PROVE  DOMAIN blocks' = 1 .. Len(blocks')
BY SequencesAreTyped DEF TypeOK

(* What a line states is no record.                                        *)
LEMMA StatementsAreNoRecords ==
  ASSUME NEW fs \in Seq(Formula)
  PROVE  ~ NamesRecord(fs)
<1>1. Len(fs) = 1 => fs[1] \in Formula
  OBVIOUS
<1> QED BY <1>1, RecordAssumption, FormulaAssumption DEF NamesRecord, IsSubproof

(* A line of both is labelled in both.                                     *)
LEMMA ReadingKeepsAgreement ==
  ASSUME TypeOK, TypeOK', ContextOK, ContextOK', Checking, ReferencesAgree,
         NEW l \in Label \cup {NoLabel}, NEW fs \in Seq(Formula), NEW ds, NEW registers,
         Writes(l, fs, ds, registers), LineRead(l, fs, ds)
  PROVE  ReferencesAgree'
<1> DEFINE n == Len(blocks)
<1>1. /\ References \in Seq(Tables(Label, Seq(Formula))) /\ Len(References) = n
      /\ labels \in Seq(Tables(Label, Seq(Item))) /\ Len(labels) = n
      /\ n \in Nat /\ n > 0 /\ n \in 1 .. n /\ DOMAIN blocks = 1 .. n /\ Depth = n
  BY ReferencesAreChained, ScopesAreTyped DEF ContextOK
<1>2. References' = Labelling(References, l, fs)
  BY WritingReferences
<1>3. \A i \in 1 .. n : AgreeOn(References[i], labels[i])
  BY <1>1, ReferencesAgreeByTable
<1>4. DOMAIN blocks' = 1 .. n
  BY BlocksAreIndexed DEF LineRead, SameFrames
<1>5. \A i \in 1 .. n : AgreeOn(References'[i], labels'[i])
  <2>1. CASE l = NoLabel
    <3>1. References' = References /\ labels' = labels
      BY <1>2, <2>1 DEF Labelling, LineRead
    <3> QED BY <1>3, <3>1
  <2>2. CASE l # NoLabel
    <3>1. References' = BindAll(References, Single(l, fs)) /\ l \notin DOMAIN References[n]
      <4>1. ~ IsBound(References, l)
        BY <2>2, ReferencesAreChained DEF Writes, ReferenceFree
      <4> QED BY <1>1, <1>2, <2>2, <4>1 DEF Labelling, IsBound
    <3>2. /\ \A i \in 1 .. n : i # n => References'[i] = References[i]
          /\ DOMAIN References'[n] = DOMAIN References[n] \cup {l}
          /\ References'[n][l] = fs
          /\ \A k \in DOMAIN References[n] : k # l => References'[n][k] = References[n][k]
      BY <1>1, <3>1, LabellingByTable
    <3>3. CASE fs = <<>>
      <4>1. labels' = labels
        BY <3>3 DEF LineRead
      <4>2. AgreeOn(References'[n], labels[n])
        BY <1>1, <1>3, <3>1, <3>2, <3>3 DEF AgreeOn, NoStatement
      <4> QED BY <1>3, <3>2, <4>1, <4>2
    <3>4. CASE fs # <<>>
      <4>1. labels' = BindAll(labels, Single(l, fs))
        BY <2>2, <3>4 DEF LineRead, Labelling
      <4>2. /\ \A i \in 1 .. n : i # n => labels'[i] = labels[i]
            /\ DOMAIN labels'[n] = DOMAIN labels[n] \cup {l}
            /\ labels'[n][l] = fs
            /\ \A k \in DOMAIN labels[n] : k # l => labels'[n][k] = labels[n][k]
        BY <1>1, <4>1, LabellingByTable
      <4>3. ~ NamesRecord(fs) /\ fs # NoStatement
        BY <3>4, StatementsAreNoRecords DEF NoStatement
      <4>4. AgreeOn(References[n], labels[n])
        BY <1>1, <1>3
      <4>5. AgreeOn(References'[n], labels'[n])
        BY <3>2, <4>2, <4>3, <4>4 DEF AgreeOn
      <4> QED BY <1>3, <3>2, <4>2, <4>5
    <3> QED BY <3>3, <3>4
  <2> QED BY <2>1, <2>2
<1> QED BY <1>4, <1>5, ReferencesAgreeByTable

(* A subproof's first line is labelled in both children.                   *)
LEMMA OpeningKeepsAgreement ==
  ASSUME TypeOK, TypeOK', ContextOK, ContextOK', Checking, ReferencesAgree, OpensBlock
  PROVE  ReferencesAgree'
<1> DEFINE n == Len(blocks)
<1>1. /\ References \in Seq(Tables(Label, Seq(Formula))) /\ Len(References) = n
      /\ labels \in Seq(Tables(Label, Seq(Item))) /\ Len(labels) = n
      /\ n \in Nat /\ DOMAIN blocks = 1 .. n
  BY ReferencesAreChained, ScopesAreTyped DEF ContextOK
<1>2. PICK l \in Label \cup {NoLabel}, phi \in Formula :
        \/ /\ Enters(EmptyTable, FirstTable(l, phi), EmptyTable)
           /\ BlockOpened(l, phi, {})
        \/ /\ Enters(FirstTable(l, phi), EmptyTable, FreshTable(l, phi))
           /\ BlockOpened(l, phi, DOMAIN FreshTable(l, phi))
  BY Zenon DEF OpensBlock
<1> DEFINE first == FirstTable(l, phi)
<1>3. /\ first \in Tables(Label, Seq(Formula)) /\ EmptyTable \in Tables(Label, Seq(Formula))
      /\ DOMAIN EmptyTable = {}
      /\ \A k \in DOMAIN first : first[k] = <<phi>>
  BY FirstTables, SmallTables DEF EmptyTable, FirstTable, Single
<1> HIDE DEF first
<1>4. PICK merged \in {Merged(EmptyTable, first), Merged(first, EmptyTable)} :
        References' = Append(References, merged)
  BY <1>2, <1>3, EnteringReferences DEF first
<1>5. merged \in Tables(Label, Seq(Formula))
  BY <1>3, <1>4, MergedTables
<1>6. DOMAIN merged = DOMAIN first /\ \A k \in DOMAIN first : merged[k] = first[k]
  BY <1>3, <1>4 DEF Merged
<1>7. labels' = Append(labels, first) /\ Len(blocks') = n + 1
  BY <1>2 DEF BlockOpened, first
<1>8. ~ NamesRecord(<<phi>>) /\ <<phi>> # NoStatement
  <2>1. <<phi>> \in Seq(Formula)
    OBVIOUS
  <2> QED BY <2>1, StatementsAreNoRecords DEF NoStatement
<1>9. AgreeOn(merged, first)
  BY <1>3, <1>6, <1>8 DEF AgreeOn
<1>10. ASSUME NEW i \in 1 .. n + 1 PROVE AgreeOn(References'[i], labels'[i])
  <2>1. CASE i = n + 1
    BY <1>1, <1>4, <1>5, <1>7, <1>9, <2>1
  <2>2. CASE i # n + 1
    <3>1. i \in 1 .. n
      BY <1>1, <2>2
    <3>2. References'[i] = References[i] /\ labels'[i] = labels[i]
      BY <1>1, <1>4, <1>5, <1>7, <3>1
    <3> QED BY <1>1, <3>1, <3>2, ReferencesAgreeByTable
  <2> QED BY <2>1, <2>2
<1>11. DOMAIN blocks' = 1 .. n + 1
  BY <1>7, BlocksAreIndexed
<1> QED BY <1>10, <1>11, ReferencesAgreeByTable

(* When it closes, what remains agreed; its record names no formula.       *)
LEMMA ClosingKeepsAgreement ==
  ASSUME TypeOK, TypeOK', ContextOK, Checking, ReferencesAgree, Returns, BlockClosed
  PROVE  ReferencesAgree'
<1> DEFINE n == Len(blocks) - 1
<1>1. /\ References \in Seq(Tables(Label, Seq(Formula))) /\ Len(References) = n + 1
      /\ labels \in Seq(Tables(Label, Seq(Item))) /\ Len(labels) = n + 1
      /\ n \in Nat /\ n > 0 /\ DOMAIN blocks = 1 .. n + 1
  BY ReferencesAreChained, ScopesAreTyped DEF ContextOK, BlockClosed
<1>2. \A i \in 1 .. n : References'[i] = References[i]
  BY <1>1, ReturningReferences, ParentLeaves
<1>3. \A i \in 1 .. n : AgreeOn(References[i], labels[i])
  BY <1>1, ReferencesAgreeByTable
<1>4. /\ Parent(labels) \in Seq(Tables(Label, Seq(Item))) /\ Len(Parent(labels)) = n
      /\ \A i \in 1 .. n : Parent(labels)[i] = labels[i]
  BY <1>1, ParentLeaves
<1>5. CASE labels' = Parent(labels)
  <2>1. \A i \in 1 .. n : AgreeOn(References'[i], labels'[i])
    BY <1>2, <1>3, <1>4, <1>5
  <2>2. DOMAIN blocks' = 1 .. n
    BY BlocksAreIndexed DEF BlockClosed
  <2> QED BY <2>1, <2>2, ReferencesAgreeByTable
<1>6. ASSUME NEW l \in Label, NEW record \in SubproofRecord, ~ IsBound(Parent(labels), l),
             labels' = BindAll(Parent(labels), Single(l, <<record>>))
      PROVE  \A i \in 1 .. n : AgreeOn(References'[i], labels'[i])
  <2> DEFINE p == Parent(labels)
  <2>6. Len(p) > 0 /\ p \in Seq(Tables(Label, Seq(Item))) /\ Len(p) = n
    BY <1>1, <1>4
  <2>1. /\ \A i \in 1 .. n : i # n => labels'[i] = p[i]
        /\ DOMAIN labels'[n] = DOMAIN p[n] \cup {l}
        /\ labels'[n][l] = <<record>>
        /\ \A k \in DOMAIN p[n] : k # l => labels'[n][k] = p[n][k]
    BY <1>6, <2>6, LabellingByTable
  <2>2. NamesRecord(<<record>>)
    BY RecordAssumption DEF NamesRecord, IsSubproof
  <2>3. l \notin DOMAIN p[n]
    BY <1>1, <1>4, <1>6 DEF IsBound
  <2>4. AgreeOn(References[n], p[n])
    BY <1>1, <1>3, <1>4
  <2> HIDE DEF p
  <2>5. AgreeOn(References[n], labels'[n])
    BY <2>1, <2>2, <2>3, <2>4 DEF AgreeOn
  <2> QED BY <1>1, <1>2, <1>3, <1>4, <2>1, <2>5 DEF p
<1>7. DOMAIN blocks' = 1 .. n
  BY BlocksAreIndexed DEF BlockClosed
<1>8. (\A i \in 1 .. n : AgreeOn(References'[i], labels'[i])) => ReferencesAgree'
  BY <1>7, ReferencesAgreeByTable
<1> QED BY <1>5, <1>6, <1>8 DEF BlockClosed

(* As long as both accept, they agree on what labels name.                 *)
LEMMA StepsKeepReferencesAgreed ==
  ASSUME Invariant, ContextOK, ContextOK', ReferencesAgree, [TextNext]_textVars
  PROVE  ReferencesAgree'
<1>1. SUFFICES ASSUME Checking' PROVE ReferencesAgree'
  BY ReferencesAgreeByTable
<1>2. TypeOK /\ TypeOK' /\ Checking /\ Together
  BY <1>1, TextSteps, TextKeepsInvariant, RefusalsAreFinal DEF Invariant, Stepping
<1>3. CASE PassesBy
  <2>1. References' = References /\ labels' = labels /\ Len(blocks') = Len(blocks)
    BY <1>3 DEF PassesBy, References, SameFrames
  <2>2. DOMAIN blocks = 1 .. Len(blocks) /\ DOMAIN blocks' = 1 .. Len(blocks')
    BY <1>2, ScopesAreTyped, BlocksAreIndexed
  <2> QED BY <1>2, <2>1, <2>2, ReferencesAgreeByTable
<1>4. CASE ReadsLine
  BY <1>2, <1>4, ReadingKeepsAgreement DEF ReadsLine
<1> QED BY <1>2, <1>3, <1>4, OpeningKeepsAgreement, ClosingKeepsAgreement DEF Together

-----------------------------------------------------------------------------
(* What names mean.                                                        *)

(* What was arbitrary up to a block is so as long as the block is open.    *)
Stand ==
  \A i \in DOMAIN blocks \cap DOMAIN blocks' :
    /\ UpTo(i) <= UpTo(i)'
    /\ \A k \in 1 .. UpTo(i) : arbitraryNames'[k] = arbitraryNames[k]

LEMMA ReadingStands ==
  ASSUME TypeOK, TypeOK', StacksReachBack, SameFrames, Piles
  PROVE  Stand
<1>1. /\ Len(blocks') = Len(blocks) /\ Len(blocks) \in Nat
      /\ DOMAIN blocks = 1 .. Len(blocks) /\ DOMAIN blocks' = 1 .. Len(blocks)
      /\ arbitraryNames \in Seq(SUBSET Name)
  BY StacksAreOrdered, BlocksAreIndexed DEF SameFrames
<1>2. /\ Len(arbitraryNames) \in Nat /\ Len(arbitraryNames') \in Nat
      /\ Len(arbitraryNames) <= Len(arbitraryNames')
      /\ \A k \in 1 .. Len(arbitraryNames) : arbitraryNames'[k] = arbitraryNames[k]
  BY <1>1 DEF Piles
<1>3. ASSUME NEW i \in DOMAIN blocks
      PROVE  UpTo(i) <= UpTo(i)' /\ \A k \in 1 .. UpTo(i) : arbitraryNames'[k] = arbitraryNames[k]
  <2>1. UpTo(i) \in Nat /\ UpTo(i) <= Len(arbitraryNames)
    BY StacksAreOrdered
  <2>2. UpTo(i) <= UpTo(i)'
    <3>1. CASE i = Len(blocks)
      BY <1>1, <1>2, <3>1 DEF UpTo
    <3>2. CASE i # Len(blocks)
      <4>1. i + 1 \in DOMAIN blocks
        BY <1>1, <3>2
      <4>2. UpTo(i)' = UpTo(i)
        BY <1>1, <3>2, <4>1 DEF UpTo, SameFrames
      <4> QED BY <2>1, <4>2
    <3> QED BY <3>1, <3>2
  <2> QED BY <1>2, <2>1, <2>2
<1> QED BY <1>3 DEF Stand

LEMMA OpeningStands ==
  ASSUME TypeOK, TypeOK', StacksReachBack, NEW l, NEW phi, NEW named, BlockOpened(l, phi, named)
  PROVE  Stand
<1> DEFINE n == Len(blocks)
<1>1. /\ n \in Nat /\ DOMAIN blocks = 1 .. n /\ Len(blocks') = n + 1
      /\ arbitraryNames \in Seq(SUBSET Name)
      /\ \A i \in 1 .. n : blocks'[i].arbitraryInForce = blocks[i].arbitraryInForce
      /\ blocks'[n + 1].arbitraryInForce = Len(arbitraryNames)
      /\ Piles
  BY StacksAreOrdered DEF BlockOpened
<1>2. /\ Len(arbitraryNames) \in Nat
      /\ \A k \in 1 .. Len(arbitraryNames) : arbitraryNames'[k] = arbitraryNames[k]
  BY <1>1 DEF Piles
<1>3. ASSUME NEW i \in 1 .. n
      PROVE  UpTo(i) <= UpTo(i)' /\ \A k \in 1 .. UpTo(i) : arbitraryNames'[k] = arbitraryNames[k]
  <2>1. UpTo(i) \in Nat /\ UpTo(i) <= Len(arbitraryNames)
    BY <1>1, StacksAreOrdered
  <2>2. UpTo(i)' = blocks'[i + 1].arbitraryInForce
    BY <1>1 DEF UpTo
  <2>3. UpTo(i)' = UpTo(i)
    <3>1. CASE i = n
      BY <1>1, <2>2, <3>1 DEF UpTo
    <3>2. CASE i # n
      <4>1. i + 1 \in 1 .. n
        <5>1. \A m \in Nat : \A j \in 1 .. m : j # m => j + 1 \in 1 .. m
          OBVIOUS
        <5> QED BY <1>1, <3>2, <5>1
      <4> QED BY <1>1, <2>2, <3>2, <4>1 DEF UpTo
    <3> QED BY <3>1, <3>2
  <2> QED BY <1>2, <2>1, <2>3
<1> QED BY <1>1, <1>3 DEF Stand

LEMMA ClosingStands ==
  ASSUME TypeOK, TypeOK', StacksReachBack, BlockClosed
  PROVE  Stand
<1> DEFINE n    == Len(blocks) - 1
           kept == blocks[Len(blocks)].arbitraryInForce
<1>1. /\ n \in Nat /\ n > 0 /\ n + 1 = Len(blocks) /\ DOMAIN blocks = 1 .. n + 1
      /\ Len(blocks') = n /\ DOMAIN blocks' = 1 .. n
      /\ kept \in Nat /\ kept <= Len(arbitraryNames) /\ n + 1 \in DOMAIN blocks /\ n \in DOMAIN blocks
      /\ arbitraryNames \in Seq(SUBSET Name)
      /\ \A i \in 1 .. n : blocks'[i].arbitraryInForce = blocks[i].arbitraryInForce
      /\ arbitraryNames' = StruckOff(arbitraryNames, kept)
  <2>1. n \in Nat /\ n > 0 /\ n + 1 = Len(blocks) /\ DOMAIN blocks = 1 .. n + 1 /\ n \in 1 .. n + 1
        /\ Len(blocks') = n /\ DOMAIN blocks' = 1 .. n
    BY StacksAreOrdered, BlocksAreIndexed DEF BlockClosed
  <2> QED BY <2>1, StacksAreOrdered DEF StacksReachBack, BlockClosed
<1>2. /\ Len(arbitraryNames') = kept
      /\ \A k \in 1 .. kept : arbitraryNames'[k] = arbitraryNames[k]
  BY <1>1 DEF StruckOff
<1> HIDE DEF n, kept
<1>3. ASSUME NEW i \in 1 .. n
      PROVE  UpTo(i) <= UpTo(i)' /\ \A k \in 1 .. UpTo(i) : arbitraryNames'[k] = arbitraryNames[k]
  <2>1. UpTo(i) \in Nat /\ UpTo(i) <= kept /\ UpTo(i) = blocks[i + 1].arbitraryInForce
    <3>1. i \in DOMAIN blocks /\ i < Len(blocks)
      BY <1>1
    <3> QED BY <3>1, StacksAreOrdered DEF kept
  <2>2. UpTo(i)' = UpTo(i)
    <3>1. CASE i = n
      <4>1. UpTo(i) = kept
        BY <1>1, <2>1, <3>1 DEF kept
      <4> QED BY <1>1, <1>2, <3>1, <4>1 DEF UpTo
    <3>2. CASE i # n
      <4>1. i + 1 \in 1 .. n /\ i # Len(blocks')
        BY <1>1, <3>2
      <4>2. UpTo(i)' = blocks'[i + 1].arbitraryInForce
        BY <4>1 DEF UpTo
      <4> QED BY <1>1, <2>1, <4>1, <4>2
    <3> QED BY <3>1, <3>2
  <2> QED BY <1>1, <1>2, <2>1, <2>2
<1> QED BY <1>1, <1>3 DEF Stand

(* VocabularyAgrees, and where the kernel has made arbitrary what the      *)
(* elaborator takes for it: no later than the block was last the innermost.*)
ArbitraryIn(i) == UNION {arbitraryNames[k] : k \in 1 .. UpTo(i)}

VocabularyOK ==
  Checking =>
    \A i \in DOMAIN blocks :
      /\ Kept(context.declarations[i], declarations[i])
      /\ DOMAIN context.arbitrary[i] \subseteq DOMAIN declarations[i]
      /\ DOMAIN context.arbitrary[i] \subseteq ArbitraryIn(i)

LEMMA VocabularyAgreesThen ==
  ASSUME Invariant, VocabularyOK
  PROVE  VocabularyAgrees
<1>1. TypeOK /\ StacksReachBack
  BY DEF Invariant, InForce
<1>2. ASSUME NEW i \in DOMAIN blocks PROVE ArbitraryIn(i) \subseteq UNION ToSet(arbitraryNames)
  <2>1. UpTo(i) \in Nat /\ UpTo(i) <= Len(arbitraryNames) /\ arbitraryNames \in Seq(SUBSET Name)
    BY <1>1, StacksAreOrdered
  <2>2. \A k \in 1 .. UpTo(i) : k \in DOMAIN arbitraryNames
    BY <2>1
  <2> QED BY <2>2 DEF ArbitraryIn, ToSet
<1> QED BY <1>2 DEF VocabularyOK, VocabularyAgrees, Kept

LEMMA UpToIsCount ==
  ASSUME TypeOK', NEW i \in DOMAIN blocks'
  PROVE  UpTo(i)' \in Nat
<1>1. /\ DOMAIN blocks' = 1 .. Len(blocks') /\ Len(blocks') \in Nat
      /\ arbitraryNames' \in Seq(SUBSET Name)
      /\ \A j \in DOMAIN blocks' : blocks'[j].arbitraryInForce \in Nat
  <2>1. blocks' \in Seq(Block) /\ arbitraryNames' \in Seq(SUBSET Name)
    BY DEF TypeOK
  <2>2. \A b \in Block : b.arbitraryInForce \in Nat
    BY DEF Block
  <2> QED BY <2>1, <2>2
<1>2. CASE i = Len(blocks')
  BY <1>1, <1>2 DEF UpTo
<1>3. CASE i # Len(blocks')
  <2>1. i + 1 \in DOMAIN blocks'
    BY <1>1, <1>3
  <2> QED BY <1>1, <1>3, <2>1 DEF UpTo
<1> QED BY <1>2, <1>3

(* A block that stays open, and of which the elaborator takes no more for  *)
(* arbitrary than it did, keeps that part of it.                           *)
LEMMA ArbitraryStayKnown ==
  ASSUME TypeOK, TypeOK', StacksReachBack, Stand, LinesStay, NEW i \in DOMAIN blocks, i \in DOMAIN blocks',
         NEW table,
         DOMAIN table \subseteq DOMAIN declarations[i], DOMAIN table \subseteq ArbitraryIn(i)
  PROVE  DOMAIN table \subseteq DOMAIN declarations'[i] /\ DOMAIN table \subseteq ArbitraryIn(i)'
<1>1. UpTo(i) \in Nat /\ UpTo(i) <= UpTo(i)' /\ \A k \in 1 .. UpTo(i) : arbitraryNames'[k] = arbitraryNames[k]
  BY StacksAreOrdered DEF Stand
<1>2. ASSUME NEW k \in 1 .. UpTo(i) PROVE k \in 1 .. UpTo(i)' /\ arbitraryNames'[k] = arbitraryNames[k]
  <2>1. UpTo(i)' \in Nat
    BY UpToIsCount
  <2> QED BY <1>1, <2>1
<1>3. ArbitraryIn(i) \subseteq ArbitraryIn(i)'
  BY <1>2 DEF ArbitraryIn
<1>4. DOMAIN declarations[i] \subseteq DOMAIN declarations'[i]
  BY DEF LinesStay, Kept
<1> QED BY <1>3, <1>4

(* What binding a table does to a chain.                                   *)
LEMMA BindingByTable ==
  ASSUME NEW T, NEW chain \in Seq(T), Len(chain) > 0, NEW table
  PROVE  LET n  == Len(chain)
             to == BindAll(chain, table)
         IN  /\ \A i \in 1 .. n : i # n => to[i] = chain[i]
             /\ DOMAIN to[n] = DOMAIN chain[n] \cup DOMAIN table
             /\ \A k \in DOMAIN table : to[n][k] = table[k]
             /\ \A k \in DOMAIN chain[n] : k \notin DOMAIN table => to[n][k] = chain[n][k]
<1>1. Len(chain) \in DOMAIN chain /\ DOMAIN chain = 1 .. Len(chain)
  OBVIOUS
<1> QED BY <1>1 DEF BindAll

(* What a line declares, the kernel declares alike.                        *)
LEMMA ReadingKeepsVocabulary ==
  ASSUME TypeOK, TypeOK', StacksReachBack, LinesStay, ContextOK, Checking, VocabularyOK,
         NEW l, NEW fs, NEW ds \in Seq(Declaration), NEW registers \in BOOLEAN,
         Writes(l, fs, ds, registers), LineRead(l, fs, ds)
  PROVE  VocabularyOK'
<1> DEFINE n == Len(blocks)
           table == TableOf(ToSet(ds))
<1>1. /\ n \in Nat /\ n > 0 /\ n \in 1 .. n /\ DOMAIN blocks = 1 .. n /\ Depth = n
      /\ context.declarations \in Seq(Tables(Name, Declaration)) /\ Len(context.declarations) = n
      /\ DOMAIN blocks' = 1 .. n
  BY ScopesAreTyped, BlocksAreIndexed DEF ContextOK, ContextTyped, LineRead, SameFrames
<1>2. \A i \in 1 .. n :
        /\ Kept(context.declarations[i], declarations[i])
        /\ Kept(declarations[i], declarations'[i])
        /\ DOMAIN context.arbitrary[i] \subseteq DOMAIN declarations[i]
        /\ DOMAIN context.arbitrary[i] \subseteq ArbitraryIn(i)
  BY <1>1 DEF VocabularyOK, LinesStay
<1>3. ASSUME NEW i \in 1 .. n PROVE Kept(context'.declarations[i], declarations'[i])
  <2>1. Kept(context.declarations[i], declarations'[i])
    BY <1>2 DEF Kept
  <2>2. CASE ~ registers
    BY <2>1, <2>2 DEF Writes
  <2>3. CASE registers
    <3>1. /\ context'.declarations = BindAll(context.declarations, table)
          /\ context.declarations \in Seq(Tables(Name, Declaration))
          /\ Len(context.declarations) > 0 /\ Len(context.declarations) = n /\ i \in 1 .. n
      BY <1>1, <2>3 DEF Writes, Declare
    <3> HIDE DEF table, n
    <3>2. /\ i # n => context'.declarations[i] = context.declarations[i]
          /\ DOMAIN context'.declarations[n] = DOMAIN context.declarations[n] \cup DOMAIN table
          /\ \A k \in DOMAIN table : context'.declarations[n][k] = table[k]
          /\ \A k \in DOMAIN context.declarations[n] :
               k \notin DOMAIN table => context'.declarations[n][k] = context.declarations[n][k]
      BY <3>1, BindingByTable
    <3>3. \A k \in DOMAIN table : k \in DOMAIN declarations'[n] /\ declarations'[n][k] = table[k]
      BY <1>1 DEF LineRead, table
    <3> QED BY <2>1, <3>2, <3>3 DEF Kept
  <2> QED BY <2>2, <2>3
<1>4. Stand
  BY ReadingStands DEF LineRead
<1>5. ASSUME NEW i \in 1 .. n
      PROVE  /\ DOMAIN context'.arbitrary[i] \subseteq DOMAIN declarations'[i]
             /\ DOMAIN context'.arbitrary[i] \subseteq ArbitraryIn(i)'
  <2>1. context'.arbitrary = context.arbitrary
    BY DEF Writes
  <2> QED BY <1>1, <1>2, <1>4, <2>1, ArbitraryStayKnown
<1> QED BY <1>1, <1>3, <1>5 DEF VocabularyOK

(* A child declares nothing yet, and the names it makes arbitrary are the  *)
(* kernel's last.                                                          *)
LEMMA OpeningKeepsVocabulary ==
  ASSUME TypeOK, TypeOK', StacksReachBack, LinesStay, ContextOK, Checking, VocabularyOK,
         NEW lines, NEW assumed, NEW named \in Tables(Name, {NoStatement}),
         Enters(lines, assumed, named), NEW l, NEW phi, BlockOpened(l, phi, DOMAIN named)
  PROVE  VocabularyOK'
<1>1. PICK n \in Nat :
      /\ n = Len(blocks) /\ n > 0 /\ DOMAIN blocks = 1 .. n /\ DOMAIN blocks' = 1 .. n + 1
      /\ Len(blocks') = n + 1
      /\ context.declarations \in Seq(Tables(Name, Declaration)) /\ Len(context.declarations) = n
      /\ context.arbitrary \in Seq(Tables(Name, {NoStatement})) /\ Len(context.arbitrary) = n
      /\ arbitraryNames \in Seq(SUBSET Name)
  BY ScopesAreTyped, SequencesAreTyped, BlocksAreIndexed DEF ContextOK, ContextTyped, BlockOpened
<1>2. EmptyTable \in Tables(Name, Declaration) /\ DOMAIN EmptyTable = {}
  BY SmallTables DEF EmptyTable
<1>3. /\ \A i \in 1 .. n : context'.declarations[i] = context.declarations[i]
      /\ \A i \in 1 .. n : context'.arbitrary[i] = context.arbitrary[i]
      /\ context'.declarations[n + 1] = EmptyTable
      /\ context'.arbitrary[n + 1] = named
  BY <1>1, <1>2 DEF Enters
<1>4. Stand
  BY OpeningStands
<1>5. ASSUME NEW i \in 1 .. n
      PROVE  /\ Kept(context'.declarations[i], declarations'[i])
             /\ DOMAIN context'.arbitrary[i] \subseteq DOMAIN declarations'[i]
             /\ DOMAIN context'.arbitrary[i] \subseteq ArbitraryIn(i)'
  <2>1. i \in DOMAIN blocks /\ i \in DOMAIN blocks'
    BY <1>1
  <2>2. /\ Kept(context.declarations[i], declarations[i])
        /\ Kept(declarations[i], declarations'[i])
        /\ DOMAIN context.arbitrary[i] \subseteq DOMAIN declarations[i]
        /\ DOMAIN context.arbitrary[i] \subseteq ArbitraryIn(i)
    BY <2>1 DEF VocabularyOK, LinesStay
  <2> QED BY <1>3, <1>4, <2>1, <2>2, ArbitraryStayKnown DEF Kept
<1>6. /\ Kept(context'.declarations[n + 1], declarations'[n + 1])
      /\ DOMAIN context'.arbitrary[n + 1] \subseteq DOMAIN declarations'[n + 1]
      /\ DOMAIN context'.arbitrary[n + 1] \subseteq ArbitraryIn(n + 1)'
  <2>1. Kept(context'.declarations[n + 1], declarations'[n + 1])
    BY <1>2, <1>3 DEF Kept
  <2>2. DOMAIN named \subseteq DOMAIN declarations'[n + 1]
    BY <1>1 DEF BlockOpened
  <2>3. ASSUME DOMAIN named # {} PROVE DOMAIN named \subseteq ArbitraryIn(n + 1)'
    <3>1. PICK S : DOMAIN named \subseteq S /\ arbitraryNames' = Append(arbitraryNames, S)
      BY <2>3 DEF BlockOpened
    <3>2. /\ Len(arbitraryNames') = Len(arbitraryNames) + 1
          /\ arbitraryNames'[Len(arbitraryNames) + 1] = S
          /\ Len(arbitraryNames) + 1 \in 1 .. Len(arbitraryNames')
      BY <1>1, <3>1
    <3>3. UpTo(n + 1)' = Len(arbitraryNames')
      BY <1>1 DEF UpTo
    <3>4. S \subseteq ArbitraryIn(n + 1)'
      BY <3>2, <3>3 DEF ArbitraryIn
    <3> QED BY <3>1, <3>4
  <2> QED BY <1>3, <2>1, <2>2, <2>3
<1>7. \A i \in DOMAIN blocks' : i = n + 1 \/ i \in 1 .. n
  BY <1>1
<1> QED BY <1>5, <1>6, <1>7 DEF VocabularyOK

(* As long as both accept, what the elaborator takes for declared or for   *)
(* arbitrary is so.                                                        *)
LEMMA StepsKeepVocabulary ==
  ASSUME Invariant, ContextOK, ContextOK', VocabularyOK, [TextNext]_textVars
  PROVE  VocabularyOK'
<1>1. SUFFICES ASSUME Checking' PROVE VocabularyOK'
  BY DEF VocabularyOK
<1>2. TypeOK /\ TypeOK' /\ Checking /\ Together /\ StacksReachBack /\ LinesStay
  <2>1. TypeOK /\ TypeOK' /\ Effect /\ StacksReachBack
    BY TextKeepsInvariant DEF Invariant, InForce
  <2> QED BY <1>1, <2>1, TextSteps, RefusalsAreFinal, StepsKeepLines DEF Stepping
<1>3. ASSUME NEW i \in DOMAIN blocks
      PROVE  /\ Kept(context.declarations[i], declarations[i])
             /\ DOMAIN context.arbitrary[i] \subseteq DOMAIN declarations[i]
             /\ DOMAIN context.arbitrary[i] \subseteq ArbitraryIn(i)
  BY <1>2 DEF VocabularyOK
<1>4. CASE PassesBy
  <2>1. context' = context /\ SameFrames /\ Piles
    BY <1>4 DEF PassesBy, Piles
  <2>2. Stand /\ DOMAIN blocks' = DOMAIN blocks
    BY <1>2, <2>1, ReadingStands, BlocksAreIndexed, ScopesAreTyped DEF SameFrames
  <2>3. ASSUME NEW i \in DOMAIN blocks'
        PROVE  /\ Kept(context'.declarations[i], declarations'[i])
               /\ DOMAIN context'.arbitrary[i] \subseteq DOMAIN declarations'[i]
               /\ DOMAIN context'.arbitrary[i] \subseteq ArbitraryIn(i)'
    <3>1. i \in DOMAIN blocks /\ Kept(declarations[i], declarations'[i])
      BY <1>2, <2>2 DEF LinesStay
    <3> QED BY <1>2, <1>3, <2>1, <2>2, <3>1, ArbitraryStayKnown DEF Kept
  <2> QED BY <2>3 DEF VocabularyOK
<1>5. CASE ReadsLine
  BY <1>2, <1>5, ReadingKeepsVocabulary DEF ReadsLine
<1>6. CASE OpensBlock
  <2>1. PICK l \in Label \cup {NoLabel}, phi \in Formula :
          \/ /\ Enters(EmptyTable, FirstTable(l, phi), EmptyTable)
             /\ BlockOpened(l, phi, {})
          \/ /\ Enters(FirstTable(l, phi), EmptyTable, FreshTable(l, phi))
             /\ BlockOpened(l, phi, DOMAIN FreshTable(l, phi))
    BY <1>6, Zenon DEF OpensBlock
  <2>2. EmptyTable \in Tables(Name, {NoStatement}) /\ DOMAIN EmptyTable = {}
    BY SmallTables DEF EmptyTable
  <2>3. FreshTable(l, phi) \in Tables(Name, {NoStatement})
    BY FreshTables
  <2> QED BY <1>2, <2>1, <2>2, <2>3, OpeningKeepsVocabulary
<1>7. CASE Returns /\ BlockClosed
  <2> DEFINE n == Len(blocks) - 1
  <2>1. /\ n \in Nat /\ DOMAIN blocks = 1 .. n + 1 /\ DOMAIN blocks' = 1 .. n
        /\ context.declarations \in Seq(Tables(Name, Declaration)) /\ Len(context.declarations) = n + 1
        /\ context.arbitrary \in Seq(Tables(Name, {NoStatement})) /\ Len(context.arbitrary) = n + 1
        /\ n > 0
    BY <1>2, <1>7, ScopesAreTyped, BlocksAreIndexed DEF ContextOK, ContextTyped, BlockClosed
  <2>2. \A i \in 1 .. n : /\ context'.declarations[i] = context.declarations[i]
                          /\ context'.arbitrary[i] = context.arbitrary[i]
    BY <1>7, <2>1, ParentLeaves DEF Returns
  <2>3. Stand
    BY <1>2, <1>7, ClosingStands
  <2>4. ASSUME NEW i \in 1 .. n
        PROVE  /\ Kept(context'.declarations[i], declarations'[i])
               /\ DOMAIN context'.arbitrary[i] \subseteq DOMAIN declarations'[i]
               /\ DOMAIN context'.arbitrary[i] \subseteq ArbitraryIn(i)'
    <3>1. i \in DOMAIN blocks /\ i \in DOMAIN blocks'
      BY <2>1
    <3>2. Kept(declarations[i], declarations'[i])
      BY <1>2, <3>1 DEF LinesStay
    <3> QED BY <1>2, <1>3, <2>2, <2>3, <3>1, <3>2, ArbitraryStayKnown DEF Kept
  <2> QED BY <2>1, <2>4 DEF VocabularyOK
<1> QED BY <1>2, <1>4, <1>5, <1>6, <1>7 DEF Together

-----------------------------------------------------------------------------
(* Theorems.                                                               *)

(* Whatever the elaborator hands on, the kernel's invariant holds of it,   *)
(* and the elaborator's context has its tables for the kernel's blocks.    *)
THEOREM TextKeepsBoth == TextSpec => [](Invariant /\ ContextOK)
<1>1. TextInit => Invariant /\ ContextOK
  BY ContextBegins
<1>2. Invariant /\ ContextOK /\ [TextNext]_textVars => Invariant' /\ ContextOK'
  BY TextKeepsInvariant, ContextStays
<1> QED BY <1>1, <1>2, PTL DEF TextSpec

(* The elaborator's ProofContext is a lexical environment in each of its   *)
(* namespaces, the one that labels and labelled assumptions share          *)
(* included: a name in use is never bound again, and what is bound in a    *)
(* subproof goes with it.                                                  *)
THEOREM ContextRefinesLexicalEnvironment == TextSpec => ContextIsLexical
<1>1. TextInit => ReferenceNames!Init /\ KnownNames!Init /\ FreshNames!Init
  <2>1. TextInit => Len(References) = 1
    BY ContextBegins
  <2>2. TextInit => Len(context.declarations) = 1 /\ Len(context.arbitrary) = 1
    BY DEF TextInit, EmptyContext
  <2> QED BY <2>1, <2>2 DEF ReferenceNames!Init, KnownNames!Init, FreshNames!Init
<1>2. /\ Invariant /\ ContextOK /\ Invariant' /\ ContextOK' /\ [TextNext]_textVars
      => /\ [ReferenceNames!Next]_References
         /\ [KnownNames!Next]_(context.declarations)
         /\ [FreshNames!Next]_(context.arbitrary)
  <2> SUFFICES ASSUME Invariant, ContextOK, Invariant', ContextOK', [TextNext]_textVars
               PROVE  /\ [ReferenceNames!Next]_References
                      /\ [KnownNames!Next]_(context.declarations)
                      /\ [FreshNames!Next]_(context.arbitrary)
    OBVIOUS
  <2>1. ContextStep
    BY TextSteps DEF Stepping
  <2>2. UNCHANGED context => UNCHANGED <<References, context.declarations, context.arbitrary>>
    BY DEF References
  <2> QED BY <2>1, <2>2, ContextTakesLexicalSteps
<1> QED BY <1>1, <1>2, TextKeepsBoth, PTL
        DEF TextSpec, ContextIsLexical, ReferenceNames!Spec, KnownNames!Spec, FreshNames!Spec

(* "The context and the kernel's LabelScope enforce the same visibility    *)
(* rule": at every line both accept, a label that names formulas names the *)
(* same formulas, of the same block, in both.                              *)
THEOREM LabelsNameTheSame == TextSpec => []ReferencesAgree
<1>1. TextInit => ReferencesAgree
  <2> SUFFICES ASSUME TextInit PROVE ReferencesAgree
    OBVIOUS
  <2>1. /\ DOMAIN blocks = 1 .. 1 /\ labels[1] = EmptyTable
        /\ References = [i \in 1 .. 1 |-> Merged(EmptyTable, EmptyTable)]
    BY DEF TextInit, Init, EmptyContext, References
  <2>2. AgreeOn(References[1], labels[1])
    BY <2>1 DEF AgreeOn, EmptyTable, Merged
  <2> QED BY <2>1, <2>2, ReferencesAgreeByTable
<1>2. /\ Invariant /\ ContextOK /\ ContextOK' /\ ReferencesAgree /\ [TextNext]_textVars
      => ReferencesAgree'
  BY StepsKeepReferencesAgreed
<1> QED BY <1>1, <1>2, TextKeepsBoth, PTL DEF TextSpec

(* What the elaborator takes for declared the kernel has declared alike in *)
(* the same block, and what it takes for arbitrary the kernel does too: so *)
(* a line the elaborator passes on means there what it meant to it.        *)
THEOREM NamesMeanTheSame == TextSpec => []VocabularyAgrees
<1>1. TextInit => VocabularyOK
  BY DEF TextInit, Init, EmptyContext, EmptyTable, VocabularyOK, Kept
<1>2. /\ Invariant /\ ContextOK /\ ContextOK' /\ VocabularyOK /\ [TextNext]_textVars
      => VocabularyOK'
  BY StepsKeepVocabulary
<1>3. Invariant /\ VocabularyOK => VocabularyAgrees
  BY VocabularyAgreesThen
<1> QED BY <1>1, <1>2, <1>3, TextKeepsBoth, PTL DEF TextSpec

(* The scopes of the kernel do not depend on which lines are enumerated:   *)
(* under the elaborator too no binding hides another, and no label names a *)
(* line of a closed subproof.                                              *)
THEOREM ScopesHoldUnderTheElaborator == TextSpec => [](NamesAreUnique /\ CitableLinesAreOpen)
<1>1. TextInit => NamesAreUnique /\ CitableLinesAreOpen
  BY DEF TextInit, Init, NamesAreUnique, NoShadowing, CitableLinesAreOpen, EmptyTable
<1>2. /\ Invariant /\ NamesAreUnique /\ CitableLinesAreOpen /\ [TextNext]_textVars
      => NamesAreUnique' /\ CitableLinesAreOpen'
  BY TextKeepsInvariant, StepsKeepNamesUnique, StepsKeepLinesOpen DEF Invariant
<1> QED BY <1>1, <1>2, TextKeepsBoth, PTL DEF TextSpec
=============================================================================
