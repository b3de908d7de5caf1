----------------------- MODULE RepeatedArgumentsProofs -----------------------
(***************************************************************************)
(* A proof with WLOG and Mutatis mutandis lines proves what it says it     *)
(* does, for all entries, formulas, structures and bounds: from what is    *)
(* said below of single rules, of the comparison of values and of the      *)
(* rewriting of single entries, it follows of every proof that each line   *)
(* follows in the case chosen and the last one in every case, and that a   *)
(* repeated argument takes nothing new for granted.                        *)
(*                                                                         *)
(* The argument is an induction over the nesting of subproofs and, in each *)
(* block, over the entries read, over the subproofs below a line and over  *)
(* the cases read again: every fold is a trace (FoldTraces).               *)
(***************************************************************************)
EXTENDS RepeatedArguments, QuantifierRules, GroundVerdicts, FiniteSetTheorems, TLAPS

CONSTANTS
  Formula,       \* what lines may state
  Value,         \* formulas and the records of closed subproofs
  Entry,         \* the entries that proofs are made of, rewritten ones too
  LabelName,     \* the labels
  CaseFormula,   \* the formulas that WLOG lines choose between
  Substitution   \* the replacements under which entries are read again

CONSTANTS
  Domain(_),              \* the objects of a structure
  BodyTrue(_, _, _),      \* the body of the quantified formula is true in the structure
                          \* when its variable stands for the object
  Reinterpreted(_, _, _)  \* the structure in which the constant stands for the object

Reads   == INSTANCE FoldTraces WITH Step <- Read
Belows  == INSTANCE FoldTraces WITH Step <- ReadBelow
Replays == INSTANCE FoldTraces WITH Step <- Replay
Offers  == INSTANCE FoldTraces WITH Step <- Offer

-----------------------------------------------------------------------------
(* What is assumed of the data.                                            *)

(* Formulas are neither records nor bundles, and records are of formulas.  *)
ValuesAreTyped ==
  /\ NoConclusion \notin Formula
  /\ \A f \in Formula : ~ IsRecord(f) /\ ~ Is("bundle", f)
  /\ Formula \subseteq Value
  /\ \A v \in Value \ Formula :
       /\ DOMAIN v = {"assumption", "conclusion", "inner", "outer"}
       /\ v.assumption \in Formula
       /\ v.conclusion \in Formula \cup {NoConclusion}
  /\ \A f \in Formula, g \in Formula \cup {NoConclusion}, inner, outer \in Seq(Value) :
       [assumption |-> f, conclusion |-> g, inner |-> inner, outer |-> outer] \in Value

(* A disjunction is true only where some part is; the parts of one that a  *)
(* WLOG line may cite are cases.                                           *)
DisjunctionsSplit ==
  \A f \in Formula : Is("or", f) =>
    /\ f.kids \in Seq(Formula)
    /\ \A m \in Structure : m \in Models(f) => \E i \in DOMAIN f.kids : m \in Models(f.kids[i])
    /\ (\E i \in DOMAIN f.kids : f.kids[i] \in CaseFormula) =>
         \A i \in DOMAIN f.kids : f.kids[i] \in CaseFormula

IsCaseLine(e) == e.tag \in RuleTags /\ e.rule = "WLOG"

(* What the parser hands on: a line that assumes, that declares an object  *)
(* arbitrary or that a rule justifies states one formula, and a standalone *)
(* subproof is one block.  A "(Fresh Variable)" flag says nothing: it is   *)
(* read as true.                                                           *)
EntryFields == {"label", "tag", "states", "rule", "refs", "names", "about", "blocks"}
EntryIsTyped(e) ==
  /\ DOMAIN e = EntryFields
  /\ e.tag \in {"premise", "declare", "assume", "arbitrary", "block"} \cup RuleTags
  /\ e.label \in LabelName
  /\ e.states \in Seq(Formula)
  /\ e.refs \in Seq(LabelName)
  /\ e.blocks \in Seq(Seq(Entry))
  /\ e.tag \in {"assume", "arbitrary"} \cup RuleTags => Len(e.states) = 1
  /\ e.tag = "arbitrary" => \A m \in Structure : m \in Models(e.states[1])
  /\ e.tag = "block" => Len(e.blocks) = 1
  /\ IsRepetition(e) => e.tag \in RuleTags
  /\ IsCaseLine(e) => e.states[1] \in CaseFormula
EntriesAreTyped ==
  /\ CaseFormula \subseteq Formula
  /\ \A e \in Entry : EntryIsTyped(e)

(* Adds looks at an entry and at the entries below it.                     *)
AddsLooksBelow ==
  \A e \in Entry :
    Adds(e) <=> \/ AddsHypothesis(e)
                \/ \E b \in DOMAIN e.blocks : \E i \in DOMAIN e.blocks[b] : Adds(e.blocks[b][i])

(* A label, what it stands for and the entry that was written there.       *)
LabelValue == Value \cup {Bundle(fs) : fs \in Seq(Formula)}
Labelled   == [label : LabelName, value : LabelValue, source : Entry \cup {NoEntry}]

(* An entry rewritten is an entry of the same kind, by the same rule, and  *)
(* adds no hypothesis if it did not; and a line that a rule justifies may  *)
(* state another formula.                                                  *)
RewritingKeepsEntries ==
  /\ \A f, g \in Formula : StandIn(f, g) \in Substitution
  /\ \A f, g \in CaseFormula :
       LET changes == CaseChange(f, g)
       IN  IsRenaming(changes) =>
             Renaming(changes) \in Substitution /\ Exchange(changes) \in Substitution
  /\ \A e \in Entry, sigma, exchange \in Substitution,
        labels \in Seq(Labelled), policy \in {"WLOG", "MutatisMutandis"} :
       LET again == Reread(e, sigma, exchange, labels, policy)
       IN  /\ again \in Entry
           /\ again.tag = e.tag
           /\ again.rule = e.rule
           /\ Adds(again) => Adds(e)
RepeatingKeepsEntries ==
  \A e, claim \in Entry :
    e.tag \in RuleTags /\ ~ IsCaseLine(e) /\ IsRepetition(claim) =>
      [e EXCEPT !.label = claim.label, !.states = claim.states] \in Entry

(* Two values that say the same are true in the same structures.           *)
SameIsTrueAlike ==
  \A u, v \in Value : SaysSame(u, v) /\ u \in Formula =>
    v \in Formula /\ \A m \in Structure : m \in Models(u) <=> m \in Models(v)

-----------------------------------------------------------------------------
(* What a value says under the hypotheses H: a record, that its conclusion *)
(* follows with its assumption.                                            *)
Holds(v, H) ==
  IF IsRecord(v) THEN v.conclusion = NoConclusion \/ Entails(H \cup {v.assumption}, v.conclusion)
  ELSE IF Is("bundle", v) THEN \A i \in DOMAIN v.kids : Entails(H, v.kids[i])
  ELSE Entails(H, v)

(* A rule that says yes to candidates that hold claims what follows, and   *)
(* does so whatever cases were chosen around the line: these are in force  *)
(* but in no context (ContextOf).  A rule that asks the context whether a  *)
(* name is fresh is sound in this sense only as far as the cases, which it *)
(* is not shown, do not mention that name.  Nothing is asked of the rule   *)
(* of a line that names objects: what it says is taken for granted.        *)
Candidate == Formula \cup {ForRule(v) : v \in Value}
RuleIsSound(rule) ==
  \A cs \in Seq(Candidate), phi \in Formula, cases \in SUBSET CaseFormula : \A ctx :
    /\ ctx.hypotheses \in SUBSET Formula
    /\ \A i \in DOMAIN cs : Holds(cs[i], ctx.hypotheses \cup cases)
    /\ Justifies(rule, cs, phi, ctx)
    => Entails(ctx.hypotheses \cup cases, phi)
AsksARule(e) == e.tag \in RuleTags /\ e.rule # "WLOG" /\ (e.names = {} \/ e.tag # "rule")
RulesAreSound == \A e \in Entry : AsksARule(e) => RuleIsSound(e.rule)

-----------------------------------------------------------------------------
(* The states of the walk.                                                 *)

WalkFields ==
  {"ok", "seen", "labels", "declared", "given", "assumptions", "arbitrary", "constrained",
   "depth", "lines", "case", "rest", "derived"}

(* What a line that a rule justifies says is a formula.                    *)
FormulaWhereRuled(l) == l.source.tag \in RuleTags => l.value \in Formula

IsPlainState(w) ==
  /\ DOMAIN w = WalkFields
  /\ w.ok \in BOOLEAN
  /\ w.seen \in Seq(Value)
  /\ w.labels \in Seq(Labelled)
  /\ \A i \in DOMAIN w.labels : FormulaWhereRuled(w.labels[i])
  /\ w.given \in SUBSET Formula
  /\ w.assumptions \in SUBSET Formula
  /\ w.depth \in Nat
  /\ w.lines \in Nat

(* A line can no longer open the block.                                    *)
Begun(w) == w.depth = 0 \/ w.lines > 0

(* What a WLOG line left behind: the state before it, and cases.           *)
IsCase(w, case) ==
  /\ case.chosen \in CaseFormula
  /\ case.label \in LabelName
  /\ case.cases \in Seq(Formula)
  /\ \A i \in DOMAIN case.cases : case.cases[i] \in CaseFormula
  /\ IsPlainState(case.before)
  /\ case.before.ok
  /\ FirstCase(case.before)
  /\ case.before.rest = <<>>
  /\ Begun(case.before)
  /\ case.before.depth = w.depth
  /\ case.before.assumptions = w.assumptions
  /\ case.before.given \subseteq w.given

IsState(w) ==
  /\ IsPlainState(w)
  /\ FirstCase(w) => w.rest = <<>>
  /\ w.rest \in Seq(Entry)
  /\ w.ok => \A i \in DOMAIN w.rest : ~ IsCaseLine(w.rest[i])
  /\ ~ FirstCase(w) => IsCase(w, w.case) /\ w.seen # <<>>

(* ReadBlock solves the recursion: NestedBlock reads subproofs of w at a   *)
(* greater depth, and refuses them below MaxNesting.                       *)
BlocksAreRead ==
  \A w, entries : IsState(w) /\ FirstCase(w) => ReadBlock(w, entries) = NestedBlock(w, entries)

(* What the lines of w may rest on, when the cases K were chosen around it.*)
ChosenOf(w)  == IF FirstCase(w) THEN {} ELSE {w.case.chosen}
Before(w, K) == w.given \cup w.assumptions \cup K
Basis(w, K)  == Before(w, K) \cup ChosenOf(w)

LinesHold(w, H) ==
  /\ \A i \in DOMAIN w.seen : w.seen[i] \in Formula => Entails(H, w.seen[i])
  /\ \A i \in DOMAIN w.labels : Holds(w.labels[i].value, H)

(* Some case holds wherever what was in force before the choice holds.     *)
CasesCover(case, K) ==
  /\ LinesHold(case.before, Before(case.before, K))
  /\ \A m \in Structure :
       (\A h \in Before(case.before, K) : m \in Models(h)) =>
         \E i \in DOMAIN case.cases : m \in Models(case.cases[i])

Sound(w, K) ==
  /\ LinesHold(w, Basis(w, K))
  /\ ~ FirstCase(w) => CasesCover(w.case, K)

(* Nothing was taken for granted since the WLOG line, nor will be when the *)
(* lines after it are read again.                                          *)
Quiet(w) ==
  ~ FirstCase(w) =>
    w.case.before.given = w.given /\ \A i \in DOMAIN w.rest : ~ Adds(w.rest[i])

-----------------------------------------------------------------------------
(* What reading does to a state.                                           *)

(* Lines of S were read in w, and v is what became of it.                  *)
Follows(w, v, S) ==
  /\ IsState(v) /\ Begun(v)
  /\ v.ok => w.ok
  /\ v.depth = w.depth
  /\ v.assumptions = w.assumptions
  /\ w.given \subseteq v.given
  /\ w.seen # <<>> => v.seen # <<>> /\ Head(v.seen) = Head(w.seen)
  /\ (\A e \in S : ~ Adds(e)) => v.given = w.given /\ (Quiet(w) => Quiet(v))
  /\ (\A e \in S : ~ IsCaseLine(e)) => v.case = w.case
  /\ \A K \in SUBSET CaseFormula : Sound(w, K) /\ v.ok => Sound(v, K)

(* A block about to be read, and what became of it when it was.            *)
IsFresh(w) == IsState(w) /\ FirstCase(w) /\ w.seen = <<>> /\ w.lines = 0 /\ w.depth > 0

ConcludesUnder(v, H) ==
  Last(v.seen) \in Formula => Entails(H \cup {Head(v.seen)}, Last(v.seen))

BlockFollows(w, v, entries) ==
  /\ v.ok \in BOOLEAN
  /\ v.given \in SUBSET Formula
  /\ w.given \subseteq v.given
  /\ v.ok => v.seen \in Seq(Value) /\ v.seen # <<>> /\ Head(v.seen) \in Formula
  /\ (\A i \in DOMAIN entries : ~ Adds(entries[i])) => v.given = w.given
  /\ \A K \in SUBSET CaseFormula :
       Sound(w, K) /\ v.ok => ConcludesUnder(v, v.given \cup w.assumptions \cup K)

(* The subproofs of a line at depth d are read as they should be.          *)
InnerFollows(d) ==
  \A w, entries :
    IsFresh(w) /\ w.depth = d + 1 /\ entries \in Seq(Entry) =>
      BlockFollows(w, ReadBlock(w, entries), entries)

-----------------------------------------------------------------------------
(* Truth.                                                                  *)

LEMMA EntailsWherever ==
  ASSUME NEW H, NEW f
  PROVE  Entails(H, f) <=>
           \A m \in Structure : (\A h \in H : m \in Models(h)) => m \in Models(f)
BY DEF Entails

LEMMA EntailsMore ==
  ASSUME NEW G, NEW H, G \subseteq H, NEW f, Entails(G, f)
  PROVE  Entails(H, f)
BY EntailsWherever

LEMMA HypothesisFollows ==
  ASSUME NEW H, NEW f \in H
  PROVE  Entails(H, f)
BY EntailsWherever

LEMMA HoldsMore ==
  ASSUME NEW G, NEW H, G \subseteq H, NEW v, Holds(v, G)
  PROVE  Holds(v, H)
<1>1. \A f : Entails(G, f) => Entails(H, f)
  BY EntailsMore
<1>2. Entails(G \cup {v.assumption}, v.conclusion) => Entails(H \cup {v.assumption}, v.conclusion)
  BY EntailsMore, G \cup {v.assumption} \subseteq H \cup {v.assumption}
<1> QED BY <1>1, <1>2 DEF Holds

LEMMA LinesHoldMore ==
  ASSUME NEW G, NEW H, G \subseteq H, NEW w, LinesHold(w, G)
  PROVE  LinesHold(w, H)
<1>1. \A f : Entails(G, f) => Entails(H, f)
  BY EntailsMore
<1>2. \A v : Holds(v, G) => Holds(v, H)
  BY HoldsMore
<1> QED BY <1>1, <1>2 DEF LinesHold

LEMMA FormulaHolds ==
  ASSUME ValuesAreTyped, NEW H, NEW f \in Formula
  PROVE  Holds(f, H) <=> Entails(H, f)
BY DEF ValuesAreTyped, Holds

LEMMA BundleHolds ==
  ASSUME NEW H, NEW fs
  PROVE  Holds(Bundle(fs), H) <=> \A i \in DOMAIN fs : Entails(H, fs[i])
<1>1. ~ IsRecord(Bundle(fs)) /\ Is("bundle", Bundle(fs)) /\ Bundle(fs).kids = fs
  BY DEF Bundle, Node, IsRecord, Is
<1> QED BY <1>1 DEF Holds

LEMMA ForRuleHolds ==
  ASSUME ValuesAreTyped, NEW v \in Value, NEW H, Holds(v, H)
  PROVE  ForRule(v) \in Candidate /\ Holds(ForRule(v), H)
<1>1. CASE v \in Formula
  BY <1>1 DEF ForRule, ValuesAreTyped, Candidate
<1>2. CASE v \notin Formula
  <2> DEFINE r == ForRule(v)
  <2>1. IsRecord(v) /\ DOMAIN v = {"assumption", "conclusion", "inner", "outer"}
    BY <1>2 DEF ValuesAreTyped, IsRecord
  <2>2. /\ DOMAIN r = DOMAIN v
        /\ r.assumption = v.assumption
        /\ r.conclusion = v.conclusion
    BY <2>1 DEF ForRule
  <2>3. r \in Candidate
    BY DEF Candidate
  <2>4. IsRecord(r)
    BY <2>1, <2>2 DEF IsRecord
  <2> QED BY <2>1, <2>2, <2>3, <2>4 DEF Holds
<1> QED BY <1>1, <1>2

-----------------------------------------------------------------------------
(* Folds are traces.                                                       *)

LEMMA ReadingIsTraced ==
  ASSUME NEW S, NEW s \in Seq(S), NEW w
  PROVE  \E r : Reads!IsTrace(r, w, s) /\ FoldLeft(Read, w, s) = r[Len(s)]
<1>1. FoldLeft(Read, w, s) = Reads!FoldLeft(Read, w, s)
  BY Zenon DEF FoldLeft, Reads!FoldLeft, MapThenFoldSet, Reads!MapThenFoldSet, Max, Reads!Max
<1> QED BY <1>1, Reads!FoldLeftIsTrace, Zenon

LEMMA ReadingBelowIsTraced ==
  ASSUME NEW S, NEW s \in Seq(S), NEW acc
  PROVE  \E r : Belows!IsTrace(r, acc, s) /\ FoldLeft(ReadBelow, acc, s) = r[Len(s)]
<1>1. FoldLeft(ReadBelow, acc, s) = Belows!FoldLeft(ReadBelow, acc, s)
  BY Zenon DEF FoldLeft, Belows!FoldLeft, MapThenFoldSet, Belows!MapThenFoldSet, Max, Belows!Max
<1> QED BY <1>1, Belows!FoldLeftIsTrace, Zenon

LEMMA ReplayingIsTraced ==
  ASSUME NEW S, NEW s \in Seq(S), NEW acc
  PROVE  \E r : Replays!IsTrace(r, acc, s) /\ FoldLeft(Replay, acc, s) = r[Len(s)]
<1>1. FoldLeft(Replay, acc, s) = Replays!FoldLeft(Replay, acc, s)
  BY Zenon DEF FoldLeft, Replays!FoldLeft, MapThenFoldSet, Replays!MapThenFoldSet, Max, Replays!Max
<1> QED BY <1>1, Replays!FoldLeftIsTrace, Zenon

LEMMA OfferingIsTraced ==
  ASSUME NEW S, NEW s \in Seq(S), NEW acc
  PROVE  \E r : Offers!IsTrace(r, acc, s) /\ FoldLeft(Offer, acc, s) = r[Len(s)]
<1>1. FoldLeft(Offer, acc, s) = Offers!FoldLeft(Offer, acc, s)
  BY Zenon DEF FoldLeft, Offers!FoldLeft, MapThenFoldSet, Offers!MapThenFoldSet, Max, Offers!Max
<1> QED BY <1>1, Offers!FoldLeftIsTrace, Zenon

-----------------------------------------------------------------------------
(* States that grow: s was said, l labelled and g taken for granted.       *)

Grown(w, v, s, l, g) ==
  /\ DOMAIN v = WalkFields
  /\ v.ok \in BOOLEAN
  /\ v.ok => w.ok
  /\ v.seen = w.seen \o s
  /\ v.labels = w.labels \o l
  /\ v.given = w.given \cup g
  /\ v.assumptions = w.assumptions
  /\ v.depth = w.depth
  /\ v.lines = w.lines
  /\ v.case = w.case
  /\ v.rest = w.rest
  /\ s \in Seq(Value)
  /\ l \in Seq(Labelled)
  /\ \A i \in DOMAIN l : FormulaWhereRuled(l[i])
  /\ g \in SUBSET Formula

LEMMA IsCaseMore ==
  ASSUME NEW w, NEW v, NEW case, IsCase(w, case),
         v.depth = w.depth, v.assumptions = w.assumptions, w.given \subseteq v.given
  PROVE  IsCase(v, case)
BY DEF IsCase

LEMMA GrownIsPlain ==
  ASSUME NEW w, NEW v, NEW s, NEW l, NEW g, IsPlainState(w), Grown(w, v, s, l, g)
  PROVE  IsPlainState(v)
<1>1. v.seen \in Seq(Value) /\ v.labels \in Seq(Labelled) /\ v.given \in SUBSET Formula
  BY DEF IsPlainState, Grown
<1>2. \A i \in DOMAIN v.labels : FormulaWhereRuled(v.labels[i])
  <2>1. w.labels \in Seq(Labelled) /\ l \in Seq(Labelled) /\ v.labels = w.labels \o l
    BY DEF IsPlainState, Grown
  <2>2. \A i \in DOMAIN v.labels :
          \/ i \in DOMAIN w.labels /\ v.labels[i] = w.labels[i]
          \/ i - Len(w.labels) \in DOMAIN l /\ v.labels[i] = l[i - Len(w.labels)]
    BY <2>1
  <2> QED BY <2>2 DEF IsPlainState, Grown
<1> QED BY <1>1, <1>2 DEF IsPlainState, Grown

LEMMA GrownIsState ==
  ASSUME NEW w, NEW v, NEW s, NEW l, NEW g, IsState(w), Grown(w, v, s, l, g)
  PROVE  /\ IsState(v)
         /\ Begun(w) => Begun(v)
         /\ FirstCase(v) <=> FirstCase(w)
         /\ w.seen # <<>> => v.seen # <<>> /\ Head(v.seen) = Head(w.seen)
<1>1. IsPlainState(v)
  BY GrownIsPlain DEF IsState
<1>2. FirstCase(v) <=> FirstCase(w)
  BY DEF FirstCase, Grown
<1>3. w.seen # <<>> => v.seen # <<>> /\ Head(v.seen) = Head(w.seen)
  <2>1. w.seen \in Seq(Value) /\ s \in Seq(Value) /\ v.seen = w.seen \o s
    BY DEF IsState, IsPlainState, Grown
  <2> QED BY <2>1
<1>4. IsCase(w, w.case) => IsCase(v, v.case)
  <2>1. v.depth = w.depth /\ v.assumptions = w.assumptions /\ w.given \subseteq v.given /\ v.case = w.case
    BY DEF Grown
  <2> QED BY <2>1, IsCaseMore
<1>5. v.rest = w.rest /\ (v.ok => w.ok) /\ (Begun(w) => Begun(v))
  BY DEF Grown, Begun
<1> QED BY <1>1, <1>2, <1>3, <1>4, <1>5 DEF IsState

LEMMA GrownIsSound ==
  ASSUME NEW w, NEW v, NEW s, NEW l, NEW g, IsState(w), Grown(w, v, s, l, g),
         NEW K, Sound(w, K),
         \A i \in DOMAIN s : s[i] \in Formula => Entails(Basis(v, K), s[i]),
         \A i \in DOMAIN l : Holds(l[i].value, Basis(v, K))
  PROVE  Sound(v, K)
<1>1. /\ w.seen \in Seq(Value) /\ s \in Seq(Value) /\ v.seen = w.seen \o s
      /\ w.labels \in Seq(Labelled) /\ l \in Seq(Labelled) /\ v.labels = w.labels \o l
  BY DEF IsState, IsPlainState, Grown
<1>2. Basis(w, K) \subseteq Basis(v, K)
  BY DEF Grown, Basis, Before, ChosenOf, FirstCase
<1>3. LinesHold(w, Basis(v, K))
  BY <1>2, LinesHoldMore DEF Sound
<1>4. \A i \in DOMAIN v.seen : v.seen[i] \in Formula => Entails(Basis(v, K), v.seen[i])
  <2> SUFFICES ASSUME NEW i \in DOMAIN v.seen, v.seen[i] \in Formula
               PROVE  Entails(Basis(v, K), v.seen[i])
    OBVIOUS
  <2>1. \/ i \in DOMAIN w.seen /\ v.seen[i] = w.seen[i]
        \/ i - Len(w.seen) \in DOMAIN s /\ v.seen[i] = s[i - Len(w.seen)]
    BY <1>1
  <2> QED BY <1>3, <2>1 DEF LinesHold
<1>5. \A i \in DOMAIN v.labels : Holds(v.labels[i].value, Basis(v, K))
  <2> SUFFICES ASSUME NEW i \in DOMAIN v.labels
               PROVE  Holds(v.labels[i].value, Basis(v, K))
    OBVIOUS
  <2>1. \/ i \in DOMAIN w.labels /\ v.labels[i] = w.labels[i]
        \/ i - Len(w.labels) \in DOMAIN l /\ v.labels[i] = l[i - Len(w.labels)]
    BY <1>1
  <2> QED BY <1>3, <2>1 DEF LinesHold
<1>6. ~ FirstCase(v) => CasesCover(v.case, K)
  BY DEF Sound, Grown, FirstCase
<1> QED BY <1>4, <1>5, <1>6 DEF Sound, LinesHold

(* Most lines make the state grow.                                         *)
LEMMA GrownFollows ==
  ASSUME NEW w, NEW v, NEW s, NEW l, NEW g, IsState(w), Begun(w), Grown(w, v, s, l, g),
         NEW S,
         (\A e \in S : ~ Adds(e)) => g \subseteq w.given,
         \A K \in SUBSET CaseFormula : Sound(w, K) /\ v.ok =>
           /\ \A i \in DOMAIN s : s[i] \in Formula => Entails(Basis(v, K), s[i])
           /\ \A i \in DOMAIN l : Holds(l[i].value, Basis(v, K))
  PROVE  Follows(w, v, S)
<1>1. /\ IsState(v) /\ Begun(v)
      /\ w.seen # <<>> => v.seen # <<>> /\ Head(v.seen) = Head(w.seen)
  BY GrownIsState
<1>2. /\ v.ok => w.ok
      /\ v.depth = w.depth /\ v.assumptions = w.assumptions /\ w.given \subseteq v.given
      /\ v.case = w.case
  BY DEF Grown
<1>3. (\A e \in S : ~ Adds(e)) => v.given = w.given /\ (Quiet(w) => Quiet(v))
  BY DEF Grown, Quiet, FirstCase
<1>4. \A K \in SUBSET CaseFormula : Sound(w, K) /\ v.ok => Sound(v, K)
  BY GrownIsSound
<1> QED BY <1>1, <1>2, <1>3, <1>4 DEF Follows

LEMMA FollowsGoesOn ==
  ASSUME NEW u, NEW v, NEW w, NEW S, NEW T, NEW U, S \subseteq U, T \subseteq U,
         Follows(u, v, S), Follows(v, w, T)
  PROVE  Follows(u, w, U)
<1>1. /\ IsState(w) /\ Begun(w)
      /\ w.ok => u.ok
      /\ w.depth = u.depth
      /\ w.assumptions = u.assumptions
      /\ u.given \subseteq w.given
      /\ u.seen # <<>> => w.seen # <<>> /\ Head(w.seen) = Head(u.seen)
  BY DEF Follows
<1>2. (\A e \in U : ~ Adds(e)) => w.given = u.given /\ (Quiet(u) => Quiet(w))
  BY DEF Follows
<1>3. (\A e \in U : ~ IsCaseLine(e)) => w.case = u.case
  BY DEF Follows
<1>4. \A K \in SUBSET CaseFormula : Sound(u, K) /\ w.ok => Sound(w, K)
  BY DEF Follows
<1> QED BY <1>1, <1>2, <1>3, <1>4 DEF Follows

-----------------------------------------------------------------------------
(* Lines that state what is known already, or take it for granted.         *)

(* The hypotheses of everything that follows.                              *)
Assumed ==
  /\ ValuesAreTyped
  /\ DisjunctionsSplit
  /\ EntriesAreTyped
  /\ AddsLooksBelow
  /\ RewritingKeepsEntries
  /\ RepeatingKeepsEntries
  /\ SameIsTrueAlike
  /\ RulesAreSound

LEMMA EmptyIsTyped ==
  ASSUME NEW S
  PROVE  <<>> \in Seq(S) /\ DOMAIN <<>> = {}
OBVIOUS

LEMMA GrownByNothing ==
  ASSUME NEW w, IsState(w)
  PROVE  Grown(w, w, <<>>, <<>>, {})
<1>1. /\ DOMAIN w = WalkFields /\ w.ok \in BOOLEAN
      /\ w.seen \in Seq(Value) /\ w.labels \in Seq(Labelled)
  BY DEF IsState, IsPlainState
<1>2. w.seen \o <<>> = w.seen /\ w.labels \o <<>> = w.labels
  BY <1>1
<1> QED BY <1>1, <1>2 DEF Grown

(* A refusal changes nothing else.                                         *)
LEMMA RefusedIsGrown ==
  ASSUME NEW w, NEW v, NEW s, NEW l, NEW g, Grown(w, v, s, l, g)
  PROVE  Grown(w, Refused(v), s, l, g) /\ ~ Refused(v).ok
BY DEF Grown, Refused, WalkFields

(* Nor do these fields matter.                                             *)
LEMMA OtherFieldsAreFree ==
  ASSUME NEW w, NEW v, NEW s, NEW l, NEW g, Grown(w, v, s, l, g), NEW d, NEW a, NEW c, NEW x
  PROVE  /\ Grown(w, [v EXCEPT !.declared = d, !.constrained = c], s, l, g)
         /\ Grown(w, [v EXCEPT !.arbitrary = a], s, l, g)
         /\ Grown(w, [v EXCEPT !.derived = x], s, l, g)
BY DEF Grown, WalkFields

LEMMA RefusedFollows ==
  ASSUME NEW w, IsState(w), Begun(w), NEW S
  PROVE  Follows(w, Refused(w), S) /\ ~ Refused(w).ok
<1>1. Grown(w, Refused(w), <<>>, <<>>, {}) /\ ~ Refused(w).ok
  BY GrownByNothing, RefusedIsGrown
<1> QED BY <1>1, GrownFollows

(* What a line says in all.                                                *)
Said(fs) == IF Len(fs) = 1 THEN fs[1] ELSE Bundle(fs)

LEMMA SaidHolds ==
  ASSUME ValuesAreTyped, NEW fs \in Seq(Formula), NEW H, \A i \in DOMAIN fs : Entails(H, fs[i])
  PROVE  Holds(Said(fs), H)
<1>1. CASE Len(fs) = 1
  <2>1. 1 \in DOMAIN fs /\ fs[1] \in Formula
    BY <1>1
  <2> QED BY <1>1, <2>1, FormulaHolds DEF Said
<1>2. CASE Len(fs) # 1
  BY <1>2, BundleHolds DEF Said
<1> QED BY <1>1, <1>2

LEMMA SaidIsTyped ==
  ASSUME Assumed, NEW e \in Entry
  PROVE  /\ e.states \in Seq(Formula) /\ e.states \in Seq(Value)
         /\ Said(e.states) \in LabelValue
         /\ e.tag \in RuleTags => Said(e.states) \in Formula
<1>1. EntryIsTyped(e)
  BY DEF Assumed, EntriesAreTyped
<1>2. e.states \in Seq(Formula)
  BY <1>1 DEF EntryIsTyped
<1>3. e.states \in Seq(Value)
  <2>1. Formula \subseteq Value
    BY DEF Assumed, ValuesAreTyped
  <2> QED BY <1>2, <2>1
<1>4. Len(e.states) = 1 => e.states[1] \in Formula
  BY <1>2
<1>5. Said(e.states) \in LabelValue
  BY <1>2, <1>4 DEF Said, LabelValue, Assumed, ValuesAreTyped
<1>6. e.tag \in RuleTags => Said(e.states) \in Formula
  BY <1>1, <1>4 DEF Said, EntryIsTyped
<1> QED BY <1>2, <1>3, <1>5, <1>6

(* labels[label] = value.                                                  *)
LEMMA LabelGrows ==
  ASSUME NEW w, NEW u, NEW s, NEW g, IsState(w), Grown(w, u, s, <<>>, g),
         NEW e, e.label \in LabelName, NEW value \in LabelValue, NEW source \in Entry \cup {NoEntry},
         source.tag \in RuleTags => value \in Formula
  PROVE  LET v   == Label(u, e, value, source)
             new == [label |-> e.label, value |-> value, source |-> source]
         IN  \E l \in {<<>>, <<new>>} : Grown(w, v, s, l, g)
<1> DEFINE v   == Label(u, e, value, source)
           new == [label |-> e.label, value |-> value, source |-> source]
<1>1. CASE e.label \in Visible(u.labels)
  BY <1>1, RefusedIsGrown DEF Label
<1>2. CASE e.label \notin Visible(u.labels)
  <2>1. v = [u EXCEPT !.labels = Append(@, new)]
    BY <1>2 DEF Label
  <2>2. w.labels \in Seq(Labelled) /\ u.labels = w.labels \o <<>>
    BY DEF IsState, IsPlainState, Grown
  <2>3. new \in Labelled /\ FormulaWhereRuled(new)
    BY DEF Labelled, FormulaWhereRuled
  <2> HIDE DEF new
  <2>4. /\ v.labels = w.labels \o <<new>>
        /\ <<new>> \in Seq(Labelled)
        /\ \A i \in DOMAIN <<new>> : FormulaWhereRuled(<<new>>[i])
    <3>1. v.labels = Append(u.labels, new)
      BY <2>1 DEF Grown, WalkFields
    <3> QED BY <2>2, <2>3, <3>1
  <2> HIDE DEF v
  <2>5. /\ DOMAIN v = WalkFields
        /\ v.ok = u.ok /\ v.seen = u.seen /\ v.given = u.given /\ v.assumptions = u.assumptions
        /\ v.depth = u.depth /\ v.lines = u.lines /\ v.case = u.case /\ v.rest = u.rest
    BY <2>1 DEF Grown, WalkFields
  <2>6. Grown(w, v, s, <<new>>, g)
    BY <2>4, <2>5 DEF Grown
  <2> QED BY <2>6 DEF v, new
<1> QED BY <1>1, <1>2

LEMMA DerivedGrows ==
  ASSUME Assumed, NEW w, NEW u, NEW g, IsState(w), Grown(w, u, <<>>, <<>>, g), NEW e \in Entry
  PROVE  LET new == [label |-> e.label, value |-> Said(e.states), source |-> e]
         IN  \E l \in {<<>>, <<new>>} : Grown(w, Derived(u, e, e.states), e.states, l, g)
<1> DEFINE x == [u EXCEPT !.seen = @ \o e.states]
<1>1. e.label \in LabelName
  BY DEF Assumed, EntriesAreTyped, EntryIsTyped
<1>2. Derived(u, e, e.states) = Label(x, e, Said(e.states), e)
  BY DEF Derived, Said
<1>3. Grown(w, x, e.states, <<>>, g)
  <2>1. x.seen = w.seen \o e.states
    <3>1. w.seen \in Seq(Value) /\ u.seen = w.seen \o <<>>
      BY DEF IsState, IsPlainState, Grown
    <3>2. u.seen = w.seen
      BY <3>1
    <3>3. x.seen = u.seen \o e.states
      BY DEF Grown, WalkFields
    <3> QED BY <3>2, <3>3
  <2>2. e.states \in Seq(Value)
    BY SaidIsTyped
  <2> QED BY <2>1, <2>2 DEF Grown, WalkFields
<1> HIDE DEF x
<1>4. Said(e.states) \in LabelValue /\ (e.tag \in RuleTags => Said(e.states) \in Formula)
  BY SaidIsTyped
<1>5. LET v   == Label(x, e, Said(e.states), e)
          new == [label |-> e.label, value |-> Said(e.states), source |-> e]
      IN  \E l \in {<<>>, <<new>>} : Grown(w, v, e.states, l, g)
  BY <1>1, <1>3, <1>4, LabelGrows
<1> QED BY <1>2, <1>5

LEMMA DerivedFollows ==
  ASSUME Assumed, NEW w, NEW u, NEW g, IsState(w), Begun(w), Grown(w, u, <<>>, <<>>, g), NEW e \in Entry,
         NEW S, (\A f \in S : ~ Adds(f)) => g \subseteq w.given,
         \A K \in SUBSET CaseFormula : Sound(w, K) /\ u.ok =>
           \A i \in DOMAIN e.states : Entails(Basis(u, K), e.states[i])
  PROVE  Follows(w, Derived(u, e, e.states), S)
<1> DEFINE v   == Derived(u, e, e.states)
           new == [label |-> e.label, value |-> Said(e.states), source |-> e]
<1>1. PICK l \in {<<>>, <<new>>} : Grown(w, v, e.states, l, g)
  BY DerivedGrows
<1>2. v.ok => u.ok
  BY DEF Derived, Label, Refused, Grown, WalkFields
<1>3. \A K : Basis(v, K) = Basis(u, K)
  BY <1>1 DEF Grown, Basis, Before, ChosenOf, FirstCase
<1>4. e.states \in Seq(Formula)
  BY SaidIsTyped
<1> HIDE DEF v
<1>5. ASSUME NEW K \in SUBSET CaseFormula, Sound(w, K), v.ok
      PROVE  /\ \A i \in DOMAIN e.states : Entails(Basis(v, K), e.states[i])
             /\ \A i \in DOMAIN l : Holds(l[i].value, Basis(v, K))
  <2>1. \A i \in DOMAIN e.states : Entails(Basis(v, K), e.states[i])
    BY <1>2, <1>3, <1>5
  <2>2. Holds(Said(e.states), Basis(v, K))
    BY <1>4, <2>1, SaidHolds DEF Assumed
  <2>3. \A i \in DOMAIN l : l[i].value = Said(e.states)
    BY <1>1
  <2> QED BY <2>1, <2>2, <2>3
<1>6. Follows(w, v, S)
  BY <1>1, <1>5, GrownFollows
<1> QED BY <1>6 DEF v

LEMMA TakenForGrantedFollows ==
  ASSUME Assumed, NEW w, NEW u, NEW g, IsState(w), Begun(w), Grown(w, u, <<>>, <<>>, g), NEW e \in Entry,
         NEW S, (\A f \in S : ~ Adds(f)) => g \cup ToSet(e.states) \subseteq w.given
  PROVE  Follows(w, TakenForGranted(u, e), S)
<1> DEFINE x == [u EXCEPT !.given = @ \cup ToSet(e.states)]
<1>1. TakenForGranted(u, e) = Derived(x, e, e.states)
  BY DEF TakenForGranted
<1>2. ToSet(e.states) \in SUBSET Formula
  BY SaidIsTyped DEF ToSet
<1>3. Grown(w, x, <<>>, <<>>, g \cup ToSet(e.states))
  BY <1>2 DEF Grown, WalkFields
<1>4. \A K : \A i \in DOMAIN e.states : Entails(Basis(x, K), e.states[i])
  <2>1. x.given = u.given \cup ToSet(e.states)
    BY DEF Grown, WalkFields
  <2>2. \A K : \A i \in DOMAIN e.states : e.states[i] \in Basis(x, K)
    BY <2>1 DEF Basis, Before, ToSet
  <2> QED BY <2>2, HypothesisFollows
<1> HIDE DEF x
<1>5. Follows(w, Derived(x, e, e.states), S)
  BY <1>3, <1>4, DerivedFollows
<1> QED BY <1>1, <1>5

LEMMA DeclareOnlyFollows ==
  ASSUME NEW w, NEW u, IsState(w), Begun(w), Grown(w, u, <<>>, <<>>, {}), NEW e, NEW S
  PROVE  Follows(w, DeclareOnly(u, e), S)
<1>1. Grown(w, DeclareOnly(u, e), <<>>, <<>>, {})
  BY OtherFieldsAreFree DEF DeclareOnly
<1> QED BY <1>1, GrownFollows

-----------------------------------------------------------------------------
(* The line that opens a subproof.                                         *)

LEMMA BegunRefusesOpening ==
  ASSUME NEW u, Begun(u), u.lines \in Nat, NEW e
  PROVE  Opening(u, e) = Refused(u)
BY DEF Opening, Begun

(* One line more was read.                                                 *)
NextLine(v, rest) == [v EXCEPT !.lines = @ + 1, !.rest = rest]

LEMMA NextLineIsState ==
  ASSUME NEW v, IsState(v), NEW rest \in Seq(Entry),
         FirstCase(v) => rest = <<>>,
         v.ok => \A i \in DOMAIN rest : ~ IsCaseLine(rest[i])
  PROVE  LET n == NextLine(v, rest)
         IN  /\ IsState(n) /\ Begun(n)
             /\ n.ok = v.ok /\ n.seen = v.seen /\ n.labels = v.labels /\ n.given = v.given
             /\ n.assumptions = v.assumptions /\ n.depth = v.depth /\ n.case = v.case
             /\ n.rest = rest
             /\ \A K : Sound(n, K) <=> Sound(v, K)
<1> DEFINE n == NextLine(v, rest)
<1>1. /\ DOMAIN n = WalkFields /\ n.lines = v.lines + 1
      /\ n.ok = v.ok /\ n.seen = v.seen /\ n.labels = v.labels /\ n.given = v.given
      /\ n.assumptions = v.assumptions /\ n.depth = v.depth /\ n.case = v.case
      /\ n.rest = rest
  BY DEF NextLine, IsState, IsPlainState, WalkFields
<1> HIDE DEF n
<1>2. IsPlainState(n) /\ Begun(n)
  BY <1>1 DEF IsState, IsPlainState, Begun
<1>3. FirstCase(n) <=> FirstCase(v)
  BY <1>1 DEF FirstCase
<1>4. IsCase(v, v.case) => IsCase(n, n.case)
  BY <1>1, IsCaseMore
<1>5. IsState(n)
  BY <1>1, <1>2, <1>3, <1>4 DEF IsState
<1>6. ASSUME NEW K
      PROVE  Sound(n, K) <=> Sound(v, K)
  <2>1. Basis(n, K) = Basis(v, K)
    BY <1>1, <1>3 DEF Basis, Before, ChosenOf
  <2> QED BY <1>1, <1>3, <2>1 DEF Sound, LinesHold
<1> QED BY <1>1, <1>2, <1>5, <1>6 DEF n

(* What the first line of a subproof leaves: its assumption, and nothing   *)
(* else that was not in force.                                             *)
Opened(w, v) ==
  /\ IsState(v) /\ FirstCase(v)
  /\ v.depth = w.depth
  /\ v.given = w.given
  /\ v.ok => /\ v.seen # <<>> /\ Head(v.seen) \in Formula
             /\ v.assumptions \subseteq w.assumptions \cup {Head(v.seen)}
  /\ \A K \in SUBSET CaseFormula : Sound(w, K) /\ v.ok => Sound(v, K)

LEMMA OpeningOpens ==
  ASSUME Assumed, NEW w, NEW u, IsFresh(w), Grown(w, u, <<>>, <<>>, {}),
         NEW e \in Entry, e.tag \in {"assume", "arbitrary"}
  PROVE  Opened(w, Opening(u, e))
<1> DEFINE v == Opening(u, e)
           f == e.states[1]
           A == IF e.tag = "assume" THEN {f} ELSE {}
           B == w.assumptions \cup A
           wB == [w EXCEPT !.assumptions = B]
           uB == IF e.tag = "assume" THEN [u EXCEPT !.assumptions = @ \cup ToSet(e.states)]
                 ELSE [u EXCEPT !.arbitrary = @ \cup {f.sym}, !.declared = @ \cup {f.sym}]
           new == [label |-> e.label, value |-> Said(e.states), source |-> e]
<1>1. EntryIsTyped(e)
  BY DEF Assumed, EntriesAreTyped
<1>2. e.states \in Seq(Formula) /\ Len(e.states) = 1 /\ f \in Formula /\ ToSet(e.states) = {f}
      /\ DOMAIN e.states = {1}
  <2>1. e.states \in Seq(Formula) /\ Len(e.states) = 1
    BY <1>1 DEF EntryIsTyped
  <2> QED BY <2>1 DEF ToSet
<1>3. u.depth > 0 /\ u.lines = 0
  BY DEF IsFresh, Grown
<1>4. v = Derived(uB, e, e.states)
  <2>1. u.depth # 0 /\ ~ (u.lines > 0)
    BY <1>3 DEF IsFresh, IsState, IsPlainState, Grown
  <2> QED BY <2>1, Zenon DEF Opening
<1>5. /\ DOMAIN wB = WalkFields /\ wB.assumptions = B
      /\ wB.ok = w.ok /\ wB.seen = w.seen /\ wB.labels = w.labels /\ wB.given = w.given
      /\ wB.depth = w.depth /\ wB.lines = w.lines /\ wB.case = w.case /\ wB.rest = w.rest
  BY DEF IsFresh, IsState, IsPlainState, WalkFields
<1>6. IsState(wB) /\ FirstCase(wB)
  <2>1. B \in SUBSET Formula
    BY <1>2 DEF IsFresh, IsState, IsPlainState
  <2>2. FirstCase(wB)
    BY <1>5 DEF IsFresh, FirstCase
  <2> HIDE DEF wB, B
  <2> QED BY <1>5, <2>1, <2>2 DEF IsFresh, IsState, IsPlainState
<1>7. Grown(wB, uB, <<>>, <<>>, {})
  <2>1. CASE e.tag = "assume"
    <3>1. uB = [u EXCEPT !.assumptions = @ \cup {f}] /\ B = w.assumptions \cup {f}
      BY <1>2, <2>1
    <3>2. /\ DOMAIN uB = WalkFields /\ uB.assumptions = u.assumptions \cup {f}
          /\ uB.ok = u.ok /\ uB.seen = u.seen /\ uB.labels = u.labels /\ uB.given = u.given
          /\ uB.depth = u.depth /\ uB.lines = u.lines /\ uB.case = u.case /\ uB.rest = u.rest
      BY <3>1 DEF Grown, WalkFields
    <3> HIDE DEF wB, uB, B
    <3> QED BY <1>5, <3>1, <3>2 DEF Grown
  <2>2. CASE e.tag = "arbitrary"
    <3>1. uB = [u EXCEPT !.arbitrary = @ \cup {f.sym}, !.declared = @ \cup {f.sym}] /\ B = w.assumptions
      BY <2>2
    <3>2. /\ DOMAIN uB = WalkFields /\ uB.assumptions = u.assumptions
          /\ uB.ok = u.ok /\ uB.seen = u.seen /\ uB.labels = u.labels /\ uB.given = u.given
          /\ uB.depth = u.depth /\ uB.lines = u.lines /\ uB.case = u.case /\ uB.rest = u.rest
      BY <3>1 DEF Grown, WalkFields
    <3> HIDE DEF wB, uB, B
    <3> QED BY <1>5, <3>1, <3>2 DEF Grown
  <2> QED BY <2>1, <2>2
<1>8. /\ w.seen = <<>> /\ FirstCase(w)
      /\ A \subseteq {f}
  BY DEF IsFresh
<1> HIDE DEF wB, uB, v
<1>9. PICK l \in {<<>>, <<new>>} : Grown(wB, Derived(uB, e, e.states), e.states, l, {})
  BY <1>6, <1>7, DerivedGrows
<1>10. IsState(v) /\ FirstCase(v)
  BY <1>4, <1>6, <1>9, GrownIsState
<1>11. v.depth = w.depth /\ v.given = w.given /\ v.assumptions = B
  BY <1>4, <1>5, <1>9 DEF Grown
<1>12. v.seen = e.states /\ v.seen # <<>> /\ Head(v.seen) = f
  <2>1. v.seen = <<>> \o e.states
    BY <1>4, <1>5, <1>8, <1>9 DEF Grown
  <2> QED BY <1>2, <2>1
<1>13. ASSUME NEW K \in SUBSET CaseFormula, Sound(w, K)
       PROVE  Sound(v, K)
  <2>1. Basis(w, K) \subseteq Basis(wB, K)
    BY <1>5, <1>6, <1>8 DEF Basis, Before, ChosenOf
  <2>2. Sound(wB, K)
    <3>1. LinesHold(w, Basis(wB, K))
      BY <1>13, <2>1, LinesHoldMore DEF Sound
    <3> QED BY <1>5, <1>6, <3>1 DEF Sound, LinesHold
  <2>3. Basis(wB, K) \subseteq Basis(v, K) /\ B \subseteq Basis(v, K)
    BY <1>4, <1>5, <1>6, <1>9, <1>10, <1>11 DEF Basis, Before, ChosenOf, Grown
  <2>4. Entails(Basis(v, K), f)
    <3>1. CASE e.tag = "assume"
      BY <3>1, <2>3, HypothesisFollows
    <3>2. CASE e.tag = "arbitrary"
      BY <1>1, <3>2, EntailsWherever DEF EntryIsTyped
    <3> QED BY <3>1, <3>2
  <2>5. \A i \in DOMAIN e.states : Entails(Basis(v, K), e.states[i])
    BY <1>2, <2>4
  <2>6. Holds(Said(e.states), Basis(v, K))
    BY <1>2, <2>5, SaidHolds DEF Assumed
  <2>7. \A i \in DOMAIN l : Holds(l[i].value, Basis(v, K))
    BY <1>9, <2>6
  <2> QED BY <1>4, <1>6, <1>9, <2>2, <2>5, <2>7, GrownIsSound
<1>14. Opened(w, v)
  BY <1>8, <1>10, <1>11, <1>12, <1>13, <1>2 DEF Opened
<1> QED BY <1>14 DEF v

-----------------------------------------------------------------------------
(* A WLOG line.                                                            *)

LEMMA VisibleIsLabelled ==
  ASSUME NEW labels, NEW l \in Visible(labels)
  PROVE  PlaceOf(labels, l) \in DOMAIN labels
BY DEF Visible, PlaceOf

LEMMA ValuesHold ==
  ASSUME NEW w, IsState(w), NEW l \in Visible(w.labels)
  PROVE  /\ ValueOf(w.labels, l) \in LabelValue
         /\ SourceOf(w.labels, l) \in Entry \cup {NoEntry}
         /\ SourceOf(w.labels, l).tag \in RuleTags => ValueOf(w.labels, l) \in Formula
         /\ \A H : LinesHold(w, H) => Holds(ValueOf(w.labels, l), H)
<1> DEFINE i == PlaceOf(w.labels, l)
<1>1. i \in DOMAIN w.labels
  BY VisibleIsLabelled
<1>2. w.labels[i] \in Labelled /\ FormulaWhereRuled(w.labels[i])
  <2>1. w.labels \in Seq(Labelled) /\ \A j \in DOMAIN w.labels : FormulaWhereRuled(w.labels[j])
    BY DEF IsState, IsPlainState
  <2> HIDE DEF i
  <2> QED BY <1>1, <2>1
<1>3. ValueOf(w.labels, l) = w.labels[i].value /\ SourceOf(w.labels, l) = w.labels[i].source
  BY DEF ValueOf, SourceOf
<1> HIDE DEF i
<1> QED BY <1>1, <1>2, <1>3 DEF Labelled, FormulaWhereRuled, LinesHold

LEMMA DisjunctionIsFormula ==
  ASSUME ValuesAreTyped, NEW v \in LabelValue, IsA("or", v)
  PROVE  v \in Formula
<1>1. CASE v \in Value
  BY <1>1 DEF ValuesAreTyped, IsA, IsRecord
<1>2. CASE v \in {Bundle(fs) : fs \in Seq(Formula)}
  <2>1. PICK fs \in Seq(Formula) : v = Bundle(fs)
    BY <1>2
  <2>2. v.op = "bundle"
    BY <2>1 DEF Bundle, Node
  <2> QED BY <2>2 DEF IsA, Is
<1> QED BY <1>1, <1>2 DEF LabelValue

LEMMA OneIsSome ==
  ASSUME NEW S, Cardinality(S) = 1
  PROVE  \E x : x \in S
<1>1. Cardinality({}) = 0
  BY FS_EmptySet
<1> QED BY <1>1

LEMMA CaseIsNoNoCase ==
  ASSUME NEW phi, NEW l, NEW u, NEW kids
  PROVE  [chosen |-> phi, label |-> l, before |-> u, cases |-> kids] # NoCase
<1>1. "label" \in DOMAIN [chosen |-> phi, label |-> l, before |-> u, cases |-> kids]
  OBVIOUS
<1>2. "label" \notin DOMAIN NoCase
  BY DEF NoCase
<1> QED BY <1>1, <1>2

LEMMA CaseLineFollows ==
  ASSUME Assumed, NEW w, NEW u, IsState(w), Begun(w), Grown(w, u, <<>>, <<>>, {}), u.ok,
         NEW e \in Entry, IsCaseLine(e)
  PROVE  Follows(w, CaseLine(u, e), {e})
<1> DEFINE v == CaseLine(u, e)
           d == ValueOf(u.labels, e.refs[1])
           phi == e.states[1]
           new == [label |-> e.label, value |-> Said(e.states), source |-> e]
           case == [chosen |-> phi, label |-> e.label, before |-> u, cases |-> d.kids]
           x == Derived(u, e, e.states)
<1>1. EntryIsTyped(e) /\ CaseFormula \subseteq Formula
  BY DEF Assumed, EntriesAreTyped
<1>2. e.states \in Seq(Formula) /\ Len(e.states) = 1 /\ phi \in CaseFormula /\ e.label \in LabelName
      /\ DOMAIN e.states = {1}
  BY <1>1 DEF EntryIsTyped, IsCaseLine
<1>3. IsState(u) /\ Begun(u) /\ (FirstCase(u) <=> FirstCase(w))
  BY GrownIsState
<1>4. ASSUME ~ (/\ FirstCase(u)
                /\ Len(e.refs) = 1
                /\ e.refs[1] \in Visible(u.labels)
                /\ IsA("or", d)
                /\ Len(d.kids) >= 2
                /\ Cardinality({i \in DOMAIN d.kids : d.kids[i] = phi}) = 1)
      PROVE  Follows(w, v, {e})
  <2>1. v = Refused(u)
    BY <1>4 DEF CaseLine
  <2>2. Grown(w, Refused(u), <<>>, <<>>, {})
    BY RefusedIsGrown
  <2>3. ~ Refused(u).ok
    BY RefusedIsGrown
  <2> QED BY <2>1, <2>2, <2>3, GrownFollows
<1>5. ASSUME /\ FirstCase(u)
             /\ Len(e.refs) = 1
             /\ e.refs[1] \in Visible(u.labels)
             /\ IsA("or", d)
             /\ Len(d.kids) >= 2
             /\ Cardinality({i \in DOMAIN d.kids : d.kids[i] = phi}) = 1
      PROVE  Follows(w, v, {e})
  <2>1. v = [x EXCEPT !.derived = phi, !.case = case]
    BY <1>5 DEF CaseLine
  <2>2. PICK l \in {<<>>, <<new>>} : Grown(w, x, e.states, l, {})
    BY DerivedGrows
  <2>3. d \in Formula /\ Is("or", d)
    BY <1>3, <1>5, ValuesHold, DisjunctionIsFormula DEF Assumed, IsA
  <2>4. d.kids \in Seq(Formula) /\ \A i \in DOMAIN d.kids : d.kids[i] \in CaseFormula
    <3>1. d.kids \in Seq(Formula)
      BY <2>3 DEF Assumed, DisjunctionsSplit
    <3>2. \E i \in DOMAIN d.kids : d.kids[i] = phi
      <4> DEFINE places == {i \in DOMAIN d.kids : d.kids[i] = phi}
      <4>1. Cardinality(places) = 1
        BY <1>5
      <4> HIDE DEF places
      <4>2. \E i : i \in places
        BY <4>1, OneIsSome
      <4> QED BY <4>2 DEF places
    <3> QED BY <1>2, <2>3, <3>1, <3>2 DEF Assumed, DisjunctionsSplit
  <2> HIDE DEF x, d, new
  <2>5. /\ DOMAIN v = WalkFields /\ v.case = case
        /\ v.ok = x.ok /\ v.seen = x.seen /\ v.labels = x.labels /\ v.given = x.given
        /\ v.assumptions = x.assumptions /\ v.depth = x.depth /\ v.lines = x.lines /\ v.rest = x.rest
    BY <2>1, <2>2 DEF Grown, WalkFields
  <2>6. /\ case.chosen = phi /\ case.label = e.label /\ case.before = u /\ case.cases = d.kids
        /\ case # NoCase
    BY CaseIsNoNoCase
  <2> HIDE DEF case, v, phi
  <2>7. ~ FirstCase(v) /\ FirstCase(w)
    BY <1>3, <1>5, <2>5, <2>6 DEF FirstCase
  <2>8. IsState(x) /\ x.seen # <<>>
    <3>1. x.seen = w.seen \o e.states /\ w.seen \in Seq(Value)
      BY <2>2 DEF Grown, IsState, IsPlainState
    <3> QED BY <1>2, <2>2, <3>1, GrownIsState
  <2>9. /\ u.given = w.given /\ x.given = w.given
        /\ u.assumptions = w.assumptions /\ x.assumptions = w.assumptions
        /\ u.depth = w.depth /\ x.depth = w.depth /\ x.lines = w.lines /\ x.rest = w.rest /\ u.rest = w.rest
        /\ w.rest = <<>>
        /\ x.ok => w.ok
    BY <2>2, <2>7 DEF Grown, IsState
  <2>10. IsCase(v, case)
    BY <1>2, <1>3, <1>5, <2>4, <2>5, <2>6, <2>9 DEF IsCase, IsState
  <2>11. IsState(v)
    BY <2>5, <2>7, <2>8, <2>9, <2>10 DEF IsState, IsPlainState
  <2>12. Begun(v)
    BY <2>5, <2>9 DEF Begun
  <2>13. w.seen # <<>> => v.seen # <<>> /\ Head(v.seen) = Head(w.seen)
    BY <2>2, <2>5, GrownIsState
  <2>14. Quiet(v)
    BY <2>5, <2>6, <2>9 DEF Quiet
  <2>15. ASSUME NEW K \in SUBSET CaseFormula, Sound(w, K)
         PROVE  Sound(v, K)
    <3>1. Sound(u, K)
      BY <2>15, GrownIsSound
    <3>2. Basis(u, K) = Before(u, K) /\ Basis(w, K) = Before(u, K)
      BY <1>5, <2>7, <2>9 DEF Basis, Before, ChosenOf
    <3>3. LinesHold(u, Before(u, K))
      BY <3>1, <3>2 DEF Sound
    <3>4. Entails(Before(u, K), d)
      <4>1. Holds(d, Before(u, K))
        BY <1>3, <1>5, <3>3, ValuesHold DEF d
      <4> QED BY <2>3, <4>1, FormulaHolds DEF Assumed
    <3>5. CasesCover(case, K)
      <4>1. \A m \in Structure : m \in Models(d) => \E i \in DOMAIN d.kids : m \in Models(d.kids[i])
        BY <2>3 DEF Assumed, DisjunctionsSplit
      <4>2. \A m \in Structure : (\A h \in Before(u, K) : m \in Models(h)) => m \in Models(d)
        BY <3>4, EntailsWherever
      <4> QED BY <2>6, <3>3, <4>1, <4>2 DEF CasesCover
    <3>6. Before(u, K) \subseteq Basis(v, K) /\ phi \in Basis(v, K)
      BY <2>5, <2>6, <2>7, <2>9 DEF Basis, Before, ChosenOf
    <3>7. LinesHold(w, Basis(v, K))
      <4>1. LinesHold(w, Before(u, K))
        BY <2>15, <3>2 DEF Sound
      <4> QED BY <3>6, <4>1, LinesHoldMore
    <3>8. \A i \in DOMAIN e.states : Entails(Basis(v, K), e.states[i])
      BY <1>2, <3>6, HypothesisFollows DEF phi
    <3>9. \A i \in DOMAIN l : Holds(l[i].value, Basis(v, K))
      <4>1. Holds(Said(e.states), Basis(v, K))
        BY <1>2, <3>8, SaidHolds DEF Assumed
      <4> QED BY <2>2, <4>1 DEF new
    <3>10. LinesHold(v, Basis(v, K))
      <4> DEFINE said == e.states
      <4>1. /\ w.seen \in Seq(Value) /\ said \in Seq(Value) /\ v.seen = w.seen \o said
            /\ w.labels \in Seq(Labelled) /\ l \in Seq(Labelled) /\ v.labels = w.labels \o l
        BY <2>2, <2>5 DEF IsState, IsPlainState, Grown
      <4>4. \A i \in DOMAIN said : Entails(Basis(v, K), said[i])
        BY <3>8
      <4> HIDE DEF said
      <4>2. ASSUME NEW i \in DOMAIN v.seen, v.seen[i] \in Formula
            PROVE  Entails(Basis(v, K), v.seen[i])
        <5>1. \/ i \in DOMAIN w.seen /\ v.seen[i] = w.seen[i]
              \/ i - Len(w.seen) \in DOMAIN said /\ v.seen[i] = said[i - Len(w.seen)]
          BY <4>1
        <5> QED BY <3>7, <4>4, <4>2, <5>1 DEF LinesHold
      <4>3. ASSUME NEW i \in DOMAIN v.labels
            PROVE  Holds(v.labels[i].value, Basis(v, K))
        <5>1. \/ i \in DOMAIN w.labels /\ v.labels[i] = w.labels[i]
              \/ i - Len(w.labels) \in DOMAIN l /\ v.labels[i] = l[i - Len(w.labels)]
          BY <4>1
        <5> QED BY <3>7, <3>9, <5>1 DEF LinesHold
      <4> QED BY <4>2, <4>3 DEF LinesHold
    <3> QED BY <2>5, <3>5, <3>10 DEF Sound
  <2> QED BY <2>5, <2>9, <2>11, <2>12, <2>13, <2>14, <2>15 DEF Follows, IsCaseLine
<1> QED BY <1>4, <1>5 DEF v

-----------------------------------------------------------------------------
(* Cited lines.                                                            *)

AllHold(vs, H) == \A i \in DOMAIN vs : Holds(vs[i], H)

LEMMA ConcatHolds ==
  ASSUME NEW S, NEW s \in Seq(S), NEW t \in Seq(S), NEW H, AllHold(s, H), AllHold(t, H)
  PROVE  s \o t \in Seq(S) /\ AllHold(s \o t, H)
<1>1. \A i \in DOMAIN (s \o t) :
        \/ i \in DOMAIN s /\ (s \o t)[i] = s[i]
        \/ i - Len(s) \in DOMAIN t /\ (s \o t)[i] = t[i - Len(s)]
  OBVIOUS
<1>2. s \o t \in Seq(S)
  OBVIOUS
<1> QED BY <1>1, <1>2 DEF AllHold

LEMMA OneHolds ==
  ASSUME NEW S, NEW v \in S
  PROVE  /\ <<v>> \in Seq(S)
         /\ \A H : Holds(v, H) => AllHold(<<v>>, H)
BY DEF AllHold

(* What a label offers: the facts of a bundle, or the one value.           *)
LEMMA OfferedHolds ==
  ASSUME Assumed, NEW v \in LabelValue
  PROVE  LET vs == IF IsA("bundle", v) THEN v.kids ELSE <<v>>
         IN  /\ vs \in Seq(Value)
             /\ \A H : Holds(v, H) => AllHold(vs, H)
<1>1. CASE v \in Value
  <2>1. ~ IsA("bundle", v)
    BY <1>1 DEF Assumed, ValuesAreTyped, IsA, IsRecord
  <2> QED BY <1>1, <2>1, OneHolds
<1>2. CASE v \in {Bundle(fs) : fs \in Seq(Formula)}
  <2>1. PICK fs \in Seq(Formula) : v = Bundle(fs)
    BY <1>2
  <2>2. IsA("bundle", v) /\ v.kids = fs
    BY <2>1 DEF Bundle, Node, IsA, Is, IsRecord
  <2>3. \A H : Holds(v, H) => \A i \in DOMAIN fs : Entails(H, fs[i])
    BY <2>1, BundleHolds
  <2>4. \A H : Holds(v, H) => AllHold(fs, H)
    <3> SUFFICES ASSUME NEW H, Holds(v, H), NEW i \in DOMAIN fs PROVE Holds(fs[i], H)
      BY DEF AllHold
    <3>1. fs[i] \in Formula /\ Entails(H, fs[i])
      BY <2>1, <2>3
    <3> QED BY <3>1, FormulaHolds DEF Assumed
  <2>5. fs \in Seq(Value)
    <3>1. Formula \subseteq Value
      BY DEF Assumed, ValuesAreTyped
    <3> QED BY <2>1, <3>1
  <2> QED BY <2>2, <2>4, <2>5
<1> QED BY <1>1, <1>2 DEF LabelValue

LEMMA CitedHolds ==
  ASSUME Assumed, NEW w, IsState(w), NEW refs \in Seq(LabelName), ToSet(refs) \subseteq Visible(w.labels)
  PROVE  /\ Cited(w, refs) \in Seq(Value)
         /\ \A H : LinesHold(w, H) => AllHold(Cited(w, refs), H)
<1> DEFINE vs == [i \in DOMAIN refs |-> ValueOf(w.labels, refs[i])]
           n == Len(vs)
<1>1. \A i \in DOMAIN refs : refs[i] \in Visible(w.labels)
  BY DEF ToSet
<1>2. \A i \in DOMAIN refs : /\ ValueOf(w.labels, refs[i]) \in LabelValue
                             /\ \A H : LinesHold(w, H) => Holds(ValueOf(w.labels, refs[i]), H)
  BY <1>1, ValuesHold
<1>3. vs \in Seq(LabelValue) /\ n \in Nat /\ DOMAIN vs = 1 .. n /\ DOMAIN vs = DOMAIN refs
  <2>1. DOMAIN refs = 1 .. Len(refs) /\ Len(refs) \in Nat
    OBVIOUS
  <2>2. \A i \in DOMAIN refs : vs[i] \in LabelValue
    BY <1>2
  <2>3. vs \in [1 .. Len(refs) -> LabelValue]
    BY <2>1, <2>2
  <2>4. Len(vs) = Len(refs)
    BY <2>1, <2>3
  <2> HIDE DEF vs
  <2> QED BY <2>1, <2>3, <2>4
<1>4. \A i \in DOMAIN vs : \A H : LinesHold(w, H) => Holds(vs[i], H)
  BY <1>2
<1>5. Cited(w, refs) = FoldLeft(Offer, <<>>, vs)
  BY Zenon DEF Cited
<1> HIDE DEF vs, n
<1>6. PICK r : Offers!IsTrace(r, <<>>, vs) /\ FoldLeft(Offer, <<>>, vs) = r[Len(vs)]
  BY <1>3, OfferingIsTraced, Zenon
<1> DEFINE Good(x) == x \in Seq(Value) /\ \A H : LinesHold(w, H) => AllHold(x, H)
           T == {i \in 0 .. n : Good(r[i])}
<1>7. 0 \in T
  <2>1. r[0] = <<>>
    BY <1>6, Zenon DEF Offers!IsTrace
  <2>2. Good(<<>>)
    BY DEF AllHold
  <2>3. Good(r[0])
    BY <2>1, <2>2
  <2>4. 0 \in 0 .. n
    BY <1>3
  <2> HIDE DEF Good
  <2> QED BY <2>3, <2>4
<1>8. ASSUME NEW i \in 0 + 1 .. n, i - 1 \in T
      PROVE  i \in T
  <2>1. i \in DOMAIN vs /\ i \in 1 .. Len(vs) /\ i \in 0 .. n
    BY <1>3 DEF n
  <2>2. r[i] = Offer(r[i - 1], vs[i])
    BY <1>6, <2>1, Zenon DEF Offers!IsTrace
  <2> DEFINE more == IF IsA("bundle", vs[i]) THEN vs[i].kids ELSE <<vs[i]>>
  <2>3. /\ more \in Seq(Value)
        /\ \A H : Holds(vs[i], H) => AllHold(more, H)
    <3>1. vs[i] \in LabelValue
      BY <1>3, <2>1
    <3> QED BY <3>1, OfferedHolds
  <2>4. r[i] = r[i - 1] \o more
    BY <2>2 DEF Offer
  <2> HIDE DEF more
  <2>5. Good(r[i - 1])
    BY <1>8
  <2>6. r[i] \in Seq(Value)
    BY <2>3, <2>4, <2>5
  <2>7. ASSUME NEW H, LinesHold(w, H)
        PROVE  AllHold(r[i], H)
    <3>1. AllHold(r[i - 1], H) /\ AllHold(more, H)
      BY <1>4, <2>1, <2>3, <2>5, <2>7
    <3> QED BY <2>3, <2>4, <2>5, <3>1, ConcatHolds
  <2> QED BY <2>1, <2>6, <2>7
<1>9. \A i \in 0 .. n : i \in T
  <2>1. n \in Nat /\ 0 \in 0 .. n
    BY <1>3
  <2> HIDE DEF T
  <2> QED BY <1>7, <1>8, <2>1, Offers!PlaceInduction
<1>10. Good(r[n])
  BY <1>3, <1>9
<1> QED BY <1>5, <1>6, <1>10 DEF n

-----------------------------------------------------------------------------
(* The subproofs below a line.                                             *)

LEMMA GrownGoesOn ==
  ASSUME NEW w, NEW u, NEW v, NEW g, NEW h, IsState(w), Grown(w, u, <<>>, <<>>, g), Grown(u, v, <<>>, <<>>, h)
  PROVE  Grown(w, v, <<>>, <<>>, g \cup h)
<1>1. w.seen \in Seq(Value) /\ w.labels \in Seq(Labelled)
  BY DEF IsState, IsPlainState
<1>2. u.seen = w.seen /\ u.labels = w.labels
  BY <1>1 DEF Grown
<1>3. v.seen = w.seen \o <<>> /\ v.labels = w.labels \o <<>>
  BY <1>2 DEF Grown
<1> QED BY <1>3 DEF Grown

LEMMA InsideIsFresh ==
  ASSUME Assumed, NEW u, IsState(u)
  PROVE  /\ IsFresh(Inside(u))
         /\ Inside(u).depth = u.depth + 1
         /\ Inside(u).given = u.given
         /\ Inside(u).assumptions = u.assumptions
         /\ \A K \in SUBSET CaseFormula :
              /\ K \cup ChosenOf(u) \in SUBSET CaseFormula
              /\ Sound(u, K) => Sound(Inside(u), K \cup ChosenOf(u))
<1> DEFINE v == Inside(u)
<1>1. /\ DOMAIN v = WalkFields /\ v.seen = <<>> /\ v.depth = u.depth + 1 /\ v.lines = 0
      /\ v.case = NoCase /\ v.rest = <<>> /\ v.ok = u.ok /\ v.labels = u.labels
      /\ v.given = u.given /\ v.assumptions = u.assumptions
  BY DEF Inside, IsState, IsPlainState, WalkFields
<1> HIDE DEF v
<1>2. FirstCase(v)
  BY <1>1 DEF FirstCase
<1>3. IsPlainState(v)
  BY <1>1 DEF IsState, IsPlainState
<1>4. IsFresh(v)
  BY <1>1, <1>2, <1>3 DEF IsFresh, IsState, IsPlainState
<1>5. ASSUME NEW K \in SUBSET CaseFormula
      PROVE  /\ K \cup ChosenOf(u) \in SUBSET CaseFormula
             /\ Sound(u, K) => Sound(v, K \cup ChosenOf(u))
  <2>1. K \cup ChosenOf(u) \in SUBSET CaseFormula
    BY DEF ChosenOf, IsState, IsCase
  <2>2. Basis(v, K \cup ChosenOf(u)) = Basis(u, K)
    BY <1>1, <1>2 DEF Basis, Before, ChosenOf
  <2>3. ASSUME Sound(u, K) PROVE LinesHold(v, Basis(u, K))
    BY <1>1, <2>3 DEF Sound, LinesHold
  <2> QED BY <1>2, <2>1, <2>2, <2>3 DEF Sound
<1> QED BY <1>1, <1>4, <1>5 DEF v

LEMMA LastIsMember ==
  ASSUME NEW S, NEW s \in Seq(S), s # <<>>
  PROVE  Last(s) \in S /\ Last(s) = s[Len(s)] /\ Len(s) \in DOMAIN s
BY DEF Last

LEMMA RecordsSayTheirBlock ==
  ASSUME Assumed, NEW w, w.seen \in Seq(Value),
         NEW v, v.seen \in Seq(Value), v.seen # <<>>, Head(v.seen) \in Formula
  PROVE  /\ RecordOf(w, v) \in Value
         /\ \A H : ConcludesUnder(v, H) => Holds(RecordOf(w, v), H)
<1> DEFINE r == RecordOf(w, v)
<1>1. Last(v.seen) \in Value
  BY LastIsMember
<1>2. r.conclusion \in Formula \cup {NoConclusion}
  BY <1>1 DEF RecordOf, Assumed, ValuesAreTyped, IsRecord
<1>3. r = [assumption |-> Head(v.seen), conclusion |-> r.conclusion, inner |-> v.seen, outer |-> w.seen]
  BY DEF RecordOf
<1>4. r \in Value
  BY <1>2, <1>3 DEF Assumed, ValuesAreTyped
<1>5. IsRecord(r) /\ r.assumption = Head(v.seen)
  BY DEF RecordOf, IsRecord
<1>6. r.conclusion = NoConclusion \/ (r.conclusion = Last(v.seen) /\ Last(v.seen) \in Formula)
  BY <1>1 DEF RecordOf, Assumed, ValuesAreTyped, IsRecord
<1> HIDE DEF r
<1>7. \A H : ConcludesUnder(v, H) => Holds(r, H)
  BY <1>5, <1>6 DEF ConcludesUnder, Holds
<1> QED BY <1>4, <1>7 DEF r

(* A subproof read from u, and what stays of it.                           *)
LEMMA OutsideGrows ==
  ASSUME Assumed, NEW u, IsState(u), u.ok, NEW v, NEW entries, BlockFollows(Inside(u), v, entries), v.ok
  PROVE  LET r == RecordOf(u, v)
         IN  /\ Grown(u, Outside(u, v), <<>>, <<>>, v.given)
             /\ (\A i \in DOMAIN entries : ~ Adds(entries[i])) => v.given = u.given
             /\ r \in Value
             /\ \A K \in SUBSET CaseFormula : Sound(u, K) => Holds(r, Basis(Outside(u, v), K))
<1> DEFINE x == Outside(u, v)
           r == RecordOf(u, v)
<1>1. /\ DOMAIN x = WalkFields /\ x.given = v.given /\ x.ok = v.ok
      /\ x.seen = u.seen /\ x.labels = u.labels /\ x.assumptions = u.assumptions
      /\ x.depth = u.depth /\ x.lines = u.lines /\ x.case = u.case /\ x.rest = u.rest
  BY DEF Outside, IsState, IsPlainState, WalkFields
<1> HIDE DEF x
<1>2. /\ Inside(u).given = u.given /\ Inside(u).assumptions = u.assumptions
      /\ \A K \in SUBSET CaseFormula :
           /\ K \cup ChosenOf(u) \in SUBSET CaseFormula
           /\ Sound(u, K) => Sound(Inside(u), K \cup ChosenOf(u))
  BY InsideIsFresh
<1>3. v.given \in SUBSET Formula /\ u.given \subseteq v.given
  BY <1>2 DEF BlockFollows
<1>4. Grown(u, x, <<>>, <<>>, v.given)
  <2>1. /\ u.seen \in Seq(Value) /\ u.labels \in Seq(Labelled)
        /\ v.ok \in BOOLEAN
    BY DEF IsState, IsPlainState, BlockFollows
  <2>2. x.seen = u.seen \o <<>> /\ x.labels = u.labels \o <<>>
    BY <1>1, <2>1
  <2>3. x.given = u.given \cup v.given
    BY <1>1, <1>3
  <2> QED BY <1>1, <1>3, <2>1, <2>2, <2>3, EmptyIsTyped DEF Grown
<1>5. (\A i \in DOMAIN entries : ~ Adds(entries[i])) => v.given = u.given
  BY <1>2 DEF BlockFollows
<1>6. r \in Value /\ \A H : ConcludesUnder(v, H) => Holds(r, H)
  BY RecordsSayTheirBlock DEF BlockFollows, IsState, IsPlainState
<1>7. ASSUME NEW K \in SUBSET CaseFormula, Sound(u, K)
      PROVE  Holds(r, Basis(x, K))
  <2>1. Sound(Inside(u), K \cup ChosenOf(u)) /\ K \cup ChosenOf(u) \in SUBSET CaseFormula
    BY <1>2, <1>7
  <2>2. ConcludesUnder(v, v.given \cup u.assumptions \cup (K \cup ChosenOf(u)))
    BY <1>2, <2>1 DEF BlockFollows
  <2>3. Basis(x, K) = v.given \cup u.assumptions \cup (K \cup ChosenOf(u))
    BY <1>1 DEF Basis, Before, ChosenOf, FirstCase
  <2> QED BY <1>6, <2>2, <2>3
<1> QED BY <1>4, <1>5, <1>6, <1>7 DEF x, r

(* The subproofs below a line of w, as far as they were read.              *)
BelowHolds(w, acc, quiet) ==
  /\ Grown(w, acc.w, <<>>, <<>>, acc.w.given)
  /\ acc.records \in Seq(Value)
  /\ quiet => acc.w.given = w.given
  /\ \A K \in SUBSET CaseFormula :
       Sound(w, K) /\ acc.w.ok => AllHold(acc.records, Basis(acc.w, K))

LEMMA GrownByGivenIsSound ==
  ASSUME NEW w, NEW u, NEW g, IsState(w), Grown(w, u, <<>>, <<>>, g)
  PROVE  /\ IsState(u)
         /\ \A K : Basis(w, K) \subseteq Basis(u, K)
         /\ \A K : Sound(w, K) => Sound(u, K)
<1>1. IsState(u)
  BY GrownIsState
<1>2. \A K : Basis(w, K) \subseteq Basis(u, K)
  BY DEF Grown, Basis, Before, ChosenOf, FirstCase
<1>3. \A K : Sound(w, K) => Sound(u, K)
  <2> SUFFICES ASSUME NEW K, Sound(w, K) PROVE Sound(u, K)
    OBVIOUS
  <2>1. \A i \in DOMAIN <<>> : FALSE
    OBVIOUS
  <2>2. /\ \A i \in DOMAIN <<>> : <<>>[i] \in Formula => Entails(Basis(u, K), <<>>[i])
        /\ \A i \in DOMAIN <<>> : Holds(<<>>[i].value, Basis(u, K))
    BY <2>1
  <2> QED BY <2>2, GrownIsSound
<1> QED BY <1>1, <1>2, <1>3

LEMMA ReadBelowHolds ==
  ASSUME Assumed, NEW w, IsState(w), InnerFollows(w.depth),
         NEW acc, NEW quiet, BelowHolds(w, acc, quiet),
         NEW entries \in Seq(Entry), quiet => \A i \in DOMAIN entries : ~ Adds(entries[i])
  PROVE  BelowHolds(w, ReadBelow(acc, entries), quiet)
<1> DEFINE u == acc.w
           v == ReadBlock(Inside(u), entries)
           next == ReadBelow(acc, entries)
<1>1. IsState(u) /\ u.depth = w.depth /\ \A K : Sound(w, K) => Sound(u, K)
  <2>1. Grown(w, u, <<>>, <<>>, u.given)
    BY DEF BelowHolds
  <2> QED BY <2>1, GrownByGivenIsSound DEF Grown
<1>2. BlockFollows(Inside(u), v, entries)
  <2>1. IsFresh(Inside(u)) /\ Inside(u).depth = w.depth + 1
    BY <1>1, InsideIsFresh
  <2> HIDE DEF u
  <2> QED BY <2>1 DEF InnerFollows
<1>3. CASE u.ok /\ v.ok
  <2> DEFINE x == Outside(u, v)
             r == RecordOf(u, v)
  <2>1. next.w = x /\ next.records = Append(acc.records, r)
    BY <1>3 DEF ReadBelow, After
  <2> HIDE DEF v, next
  <2>2. /\ Grown(u, x, <<>>, <<>>, v.given)
        /\ (\A i \in DOMAIN entries : ~ Adds(entries[i])) => v.given = u.given
        /\ r \in Value
        /\ \A K \in SUBSET CaseFormula : Sound(u, K) => Holds(r, Basis(x, K))
    BY <1>1, <1>2, <1>3, OutsideGrows
  <2>3. x.given = v.given /\ u.given \subseteq v.given
    <3>1. x.given = v.given
      BY <1>1 DEF Outside, IsState, IsPlainState, WalkFields
    <3> QED BY <2>2, <3>1 DEF Grown
  <2> HIDE DEF x, r
  <2>4. Grown(w, x, <<>>, <<>>, x.given)
    <3>1. Grown(w, x, <<>>, <<>>, u.given \cup v.given)
      BY <2>2, GrownGoesOn DEF BelowHolds
    <3> QED BY <2>3, <3>1 DEF u
  <2>5. Append(acc.records, r) = acc.records \o <<r>> /\ acc.records \in Seq(Value)
    BY <2>2 DEF BelowHolds
  <2>6. quiet => x.given = w.given
    BY <2>2, <2>3 DEF BelowHolds, u
  <2>7. ASSUME NEW K \in SUBSET CaseFormula, Sound(w, K)
        PROVE  AllHold(Append(acc.records, r), Basis(x, K))
    <3>1. Sound(u, K) /\ Basis(u, K) \subseteq Basis(x, K)
      BY <1>1, <2>2, <2>7, GrownByGivenIsSound
    <3>2. AllHold(acc.records, Basis(x, K))
      <4>1. AllHold(acc.records, Basis(u, K))
        BY <1>3, <2>7 DEF BelowHolds, u
      <4> QED BY <3>1, <4>1, HoldsMore DEF AllHold
    <3>3. AllHold(<<r>>, Basis(x, K)) /\ <<r>> \in Seq(Value)
      BY <2>2, <3>1, OneHolds
    <3> QED BY <2>5, <3>2, <3>3, ConcatHolds
  <2>8. next.records \in Seq(Value)
    BY <2>1, <2>2, <2>5
  <2>9. \A K \in SUBSET CaseFormula : Sound(w, K) => AllHold(next.records, Basis(x, K))
    BY <2>1, <2>7
  <2>10. BelowHolds(w, next, quiet)
    BY <2>1, <2>4, <2>6, <2>8, <2>9 DEF BelowHolds
  <2> QED BY <2>10 DEF next
<1>4. CASE ~ (u.ok /\ v.ok)
  <2>1. next.w = Refused(u) /\ next.records = <<>>
    BY <1>4 DEF ReadBelow, After
  <2> HIDE DEF next
  <2>2. Grown(w, u, <<>>, <<>>, u.given)
    BY DEF BelowHolds
  <2>3. Grown(w, Refused(u), <<>>, <<>>, u.given) /\ ~ Refused(u).ok
    BY <2>2, RefusedIsGrown
  <2>4. Refused(u).given = u.given /\ (quiet => u.given = w.given)
    <3>1. Refused(u).given = u.given
      BY DEF Refused
    <3> QED BY <3>1 DEF BelowHolds, u
  <2>5. next.records \in Seq(Value)
    BY <2>1, EmptyIsTyped
  <2> HIDE DEF u
  <2>6. next.w.given = u.given
    BY <2>1, <2>4
  <2>7. Grown(w, next.w, <<>>, <<>>, next.w.given) /\ ~ next.w.ok
    BY <2>1, <2>3, <2>6
  <2>8. BelowHolds(w, next, quiet)
    BY <2>4, <2>5, <2>6, <2>7 DEF BelowHolds
  <2> QED BY <2>8 DEF next
<1> QED BY <1>3, <1>4

LEMMA BelowIsRead ==
  ASSUME Assumed, NEW w, NEW u, IsState(w), InnerFollows(w.depth), Grown(w, u, <<>>, <<>>, {}),
         NEW blocks \in Seq(Seq(Entry)), NEW quiet,
         quiet => \A b \in DOMAIN blocks : \A i \in DOMAIN blocks[b] : ~ Adds(blocks[b][i])
  PROVE  BelowHolds(w, FoldLeft(ReadBelow, [w |-> u, records |-> <<>>], blocks), quiet)
<1> DEFINE base == [w |-> u, records |-> <<>>]
           n == Len(blocks)
<1>1. PICK r : Belows!IsTrace(r, base, blocks) /\ FoldLeft(ReadBelow, base, blocks) = r[Len(blocks)]
  BY ReadingBelowIsTraced, Zenon
<1> DEFINE T == {i \in 0 .. n : BelowHolds(w, r[i], quiet)}
<1>2. BelowHolds(w, base, quiet)
  <2>1. u.given = w.given \cup {}
    BY DEF Grown
  <2>2. Grown(w, u, <<>>, <<>>, u.given)
    BY <2>1 DEF Grown, IsState, IsPlainState
  <2>3. base.w = u /\ base.records = <<>>
    OBVIOUS
  <2> HIDE DEF base
  <2>4. \A K : AllHold(base.records, K)
    BY <2>3 DEF AllHold
  <2> QED BY <2>1, <2>2, <2>3, <2>4, EmptyIsTyped DEF BelowHolds
<1> HIDE DEF base
<1>3. 0 \in T /\ n \in Nat /\ 0 \in 0 .. n
  <2>1. r[0] = base
    BY <1>1, Zenon DEF Belows!IsTrace
  <2>2. n \in Nat /\ 0 \in 0 .. n
    OBVIOUS
  <2> QED BY <1>2, <2>1, <2>2
<1>4. ASSUME NEW i \in 0 + 1 .. n, i - 1 \in T
      PROVE  i \in T
  <2>1. i \in DOMAIN blocks /\ i \in 1 .. Len(blocks) /\ i \in 0 .. n
    OBVIOUS
  <2>2. r[i] = ReadBelow(r[i - 1], blocks[i])
    BY <1>1, <2>1, Zenon DEF Belows!IsTrace
  <2>3. blocks[i] \in Seq(Entry) /\ (quiet => \A j \in DOMAIN blocks[i] : ~ Adds(blocks[i][j]))
    BY <2>1
  <2>4. BelowHolds(w, r[i - 1], quiet)
    BY <1>4
  <2>5. BelowHolds(w, r[i], quiet)
    BY <2>2, <2>3, <2>4, ReadBelowHolds
  <2> QED BY <2>1, <2>5
<1>5. \A i \in 0 .. n : i \in T
  <2> HIDE DEF T, n
  <2> QED BY <1>3, <1>4, Belows!PlaceInduction
<1>6. BelowHolds(w, r[n], quiet)
  <2>1. n \in 0 .. n
    BY <1>3
  <2> QED BY <1>5, <2>1
<1> QED BY <1>1, <1>6 DEF base

-----------------------------------------------------------------------------
(* A line justified by a rule.                                             *)

LEMMA ArityIsNatural ==
  ASSUME NEW rule
  PROVE  PremiseArity(rule) \in Nat
BY DEF PremiseArity

(* What a rule says yes to follows.                                        *)
LEMMA JustifiedFollows ==
  ASSUME Assumed, NEW e \in Entry, AsksARule(e), NEW w, IsState(w),
         NEW available \in Seq(Value), Justified(w, e, available), e.states[1] \in Formula,
         NEW K \in SUBSET CaseFormula, AllHold(available, Basis(w, K))
  PROVE  Entails(Basis(w, K), e.states[1])
<1> DEFINE n == PremiseArity(e.rule)
           ctx == ContextOf(w)
           cases == K \cup ChosenOf(w)
<1>1. PICK cs \in Combinations(available, n) :
        Justifies(e.rule, [i \in DOMAIN cs |-> ForRule(cs[i])], e.states[1], ctx)
  BY Zenon DEF Justified
<1> DEFINE candidates == [i \in DOMAIN cs |-> ForRule(cs[i])]
<1>2. PICK pick \in [1 .. n -> DOMAIN available] : cs = [i \in 1 .. n |-> available[pick[i]]]
  BY <1>1 DEF Combinations
<1>3. n \in Nat
  BY ArityIsNatural
<1> HIDE DEF n
<1>4. DOMAIN cs = 1 .. n /\ \A i \in 1 .. n : cs[i] \in Value /\ Holds(cs[i], Basis(w, K))
  <2>1. \A i \in 1 .. n : pick[i] \in DOMAIN available /\ cs[i] = available[pick[i]]
    BY <1>2
  <2>2. \A j \in DOMAIN available : available[j] \in Value
    OBVIOUS
  <2> QED BY <1>2, <2>1, <2>2 DEF AllHold
<1>5. \A i \in 1 .. n : ForRule(cs[i]) \in Candidate /\ Holds(ForRule(cs[i]), Basis(w, K))
  BY <1>4, ForRuleHolds DEF Assumed
<1>6. candidates \in Seq(Candidate) /\ DOMAIN candidates = 1 .. n
  <2>1. candidates \in [1 .. n -> Candidate]
    BY <1>4, <1>5
  <2> HIDE DEF candidates
  <2> QED BY <1>3, <2>1
<1>7. \A i \in DOMAIN candidates : Holds(candidates[i], Basis(w, K))
  BY <1>4, <1>5
<1>8. ctx.hypotheses = w.given \cup w.assumptions /\ ctx.hypotheses \in SUBSET Formula
  BY DEF ContextOf, IsState, IsPlainState
<1>9. cases \in SUBSET CaseFormula
  BY InsideIsFresh
<1>10. ctx.hypotheses \cup cases = Basis(w, K)
  BY <1>8 DEF Basis, Before
<1>11. RuleIsSound(e.rule)
  BY DEF Assumed, RulesAreSound
<1>12. Justifies(e.rule, candidates, e.states[1], ctx)
  BY <1>1
<1> HIDE DEF candidates, ctx, cases
<1>13. Entails(ctx.hypotheses \cup cases, e.states[1])
  BY <1>6, <1>7, <1>8, <1>9, <1>10, <1>11, <1>12 DEF RuleIsSound
<1> QED BY <1>10, <1>13

LEMMA GivenIsAllThatGrew ==
  ASSUME NEW w, NEW u, Grown(w, u, <<>>, <<>>, {}), IsState(w)
  PROVE  /\ u.given = w.given /\ u.labels = w.labels /\ u.seen = w.seen
         /\ \A K : Basis(u, K) = Basis(w, K)
<1>1. w.seen \in Seq(Value) /\ w.labels \in Seq(Labelled)
  BY DEF IsState, IsPlainState
<1>2. u.seen = w.seen /\ u.labels = w.labels
  BY <1>1 DEF Grown
<1> QED BY <1>2 DEF Grown, Basis, Before, ChosenOf, FirstCase

LEMMA QuietBelow ==
  ASSUME Assumed, NEW e \in Entry, ~ Adds(e)
  PROVE  /\ ~ AddsHypothesis(e)
         /\ \A b \in DOMAIN e.blocks : \A i \in DOMAIN e.blocks[b] : ~ Adds(e.blocks[b][i])
BY DEF Assumed, AddsLooksBelow

LEMMA RuleLineFollows ==
  ASSUME Assumed, NEW w, NEW u, IsState(w), Begun(w), InnerFollows(w.depth), Grown(w, u, <<>>, <<>>, {}),
         NEW e \in Entry, e.tag \in RuleTags, e.rule # "WLOG",
         NEW S, (\A f \in S : ~ Adds(f)) => ~ Adds(e)
  PROVE  Follows(w, RuleLine(u, e), S)
<1> DEFINE below == FoldLeft(ReadBelow, [w |-> u, records |-> <<>>], e.blocks)
           v == RuleLine(u, e)
           phi == e.states[1]
           x == [below.w EXCEPT !.derived = phi]
           available == Cited(u, e.refs) \o below.records
<1>1. /\ e.states \in Seq(Formula) /\ Len(e.states) = 1 /\ phi \in Formula /\ DOMAIN e.states = {1}
      /\ e.blocks \in Seq(Seq(Entry)) /\ e.refs \in Seq(LabelName)
  <2>1. EntryIsTyped(e)
    BY DEF Assumed, EntriesAreTyped
  <2> QED BY <2>1 DEF EntryIsTyped
<1>2. BelowHolds(w, below, ~ Adds(e))
  <2>1. ~ Adds(e) => \A b \in DOMAIN e.blocks : \A i \in DOMAIN e.blocks[b] : ~ Adds(e.blocks[b][i])
    BY QuietBelow
  <2> QED BY <1>1, <2>1, BelowIsRead
<1>3. v = IF /\ Attached(e)
             /\ ToSet(e.refs) \subseteq Visible(u.labels)
             /\ below.w.ok
             /\ Justified(below.w, e, available)
          THEN IF e.tag = "rule" /\ e.names # {} THEN TakenForGranted(x, e) ELSE Derived(x, e, e.states)
          ELSE Refused(u)
  BY DEF RuleLine, Judged
<1> HIDE DEF below, v, phi
<1>4. CASE ~ (/\ Attached(e)
              /\ ToSet(e.refs) \subseteq Visible(u.labels)
              /\ below.w.ok
              /\ Justified(below.w, e, available))
  <2>1. Grown(w, Refused(u), <<>>, <<>>, {}) /\ ~ Refused(u).ok
    BY RefusedIsGrown
  <2>2. v = Refused(u)
    BY <1>3, <1>4
  <2> QED BY <2>1, <2>2, GrownFollows DEF v
<1>5. CASE /\ Attached(e)
           /\ ToSet(e.refs) \subseteq Visible(u.labels)
           /\ below.w.ok
           /\ Justified(below.w, e, available)
  <2>1. v = IF e.tag = "rule" /\ e.names # {} THEN TakenForGranted(x, e) ELSE Derived(x, e, e.states)
    BY <1>3, <1>5
  <2>2. Grown(w, below.w, <<>>, <<>>, below.w.given)
    BY <1>2 DEF BelowHolds
  <2>3. Grown(w, x, <<>>, <<>>, below.w.given)
    BY <2>2, OtherFieldsAreFree
  <2>4. \A K : Basis(x, K) = Basis(below.w, K)
    BY <2>2 DEF Basis, Before, ChosenOf, FirstCase, Grown, WalkFields
  <2>5. IsState(below.w) /\ \A K : Basis(w, K) \subseteq Basis(below.w, K)
    BY <2>2, GrownByGivenIsSound
  <2>6. ~ Adds(e) => below.w.given \subseteq w.given
    BY <1>2 DEF BelowHolds
  <2> HIDE DEF x
  <2>7. CASE e.tag = "rule" /\ e.names # {}
    <3>1. Adds(e)
      BY <2>7, QuietBelow DEF AddsHypothesis
    <3>2. Follows(w, TakenForGranted(x, e), S)
      BY <2>3, <3>1, TakenForGrantedFollows
    <3> QED BY <2>1, <2>7, <3>2 DEF v
  <2>8. CASE e.names = {} \/ e.tag # "rule"
    <3>1. ASSUME NEW K \in SUBSET CaseFormula, Sound(w, K)
          PROVE  Entails(Basis(below.w, K), phi)
      <4>1. IsState(u) /\ LinesHold(u, Basis(w, K))
        <5>1. u.labels = w.labels /\ u.seen = w.seen
          BY GivenIsAllThatGrew
        <5> QED BY <3>1, <5>1, GrownIsState DEF Sound, LinesHold
      <4>2. Cited(u, e.refs) \in Seq(Value) /\ AllHold(Cited(u, e.refs), Basis(w, K))
        BY <1>1, <1>5, <4>1, CitedHolds
      <4>3. AllHold(Cited(u, e.refs), Basis(below.w, K))
        BY <2>5, <4>2, HoldsMore DEF AllHold
      <4>4. below.records \in Seq(Value) /\ AllHold(below.records, Basis(below.w, K))
        BY <1>2, <1>5, <3>1 DEF BelowHolds
      <4>5. available \in Seq(Value) /\ AllHold(available, Basis(below.w, K))
        BY <4>2, <4>3, <4>4, ConcatHolds
      <4> HIDE DEF available
      <4>6. AsksARule(e)
        BY <2>8 DEF AsksARule
      <4> QED BY <1>1, <1>5, <2>5, <4>5, <4>6, JustifiedFollows DEF phi
    <3>2. \A K \in SUBSET CaseFormula : Sound(w, K) /\ x.ok =>
            \A i \in DOMAIN e.states : Entails(Basis(x, K), e.states[i])
      BY <1>1, <2>4, <3>1 DEF phi
    <3>3. Follows(w, Derived(x, e, e.states), S)
      BY <2>3, <2>6, <3>2, DerivedFollows
    <3> QED BY <2>1, <2>8, <3>3 DEF v
  <2> QED BY <2>7, <2>8
<1> QED BY <1>4, <1>5

-----------------------------------------------------------------------------
(* A subproof on its own.                                                  *)

LEMMA SubproofFollows ==
  ASSUME Assumed, NEW w, NEW u, IsState(w), Begun(w), InnerFollows(w.depth),
         Grown(w, u, <<>>, <<>>, {}), u.ok,
         NEW e \in Entry, e.tag = "block", NEW S, (\A f \in S : ~ Adds(f)) => ~ Adds(e)
  PROVE  Follows(w, SubproofBlock(u, e), S)
<1> DEFINE v == ReadBlock(Inside(u), e.blocks[1])
           r == RecordOf(u, v)
           x == Outside(u, v)
           y == [x EXCEPT !.seen = Append(@, r)]
           end == SubproofBlock(u, e)
           new == [label |-> e.label, value |-> r, source |-> NoEntry]
<1>1. e.label \in LabelName /\ e.blocks[1] \in Seq(Entry) /\ 1 \in DOMAIN e.blocks
  <2>1. EntryIsTyped(e)
    BY DEF Assumed, EntriesAreTyped
  <2>2. e.blocks \in Seq(Seq(Entry)) /\ Len(e.blocks) = 1
    BY <2>1 DEF EntryIsTyped
  <2> QED BY <2>1, <2>2 DEF EntryIsTyped
<1>2. IsState(u) /\ u.depth = w.depth /\ \A K : Sound(w, K) => Sound(u, K)
  BY GrownByGivenIsSound DEF Grown
<1>3. BlockFollows(Inside(u), v, e.blocks[1])
  BY <1>1, <1>2, InsideIsFresh DEF InnerFollows
<1>4. end = IF v.ok THEN Label(y, e, r, NoEntry) ELSE Refused(u)
  BY DEF SubproofBlock, ClosedBlock
<1> HIDE DEF v, end
<1>5. CASE ~ v.ok
  <2>1. Grown(w, Refused(u), <<>>, <<>>, {}) /\ ~ Refused(u).ok
    BY RefusedIsGrown
  <2> QED BY <1>4, <1>5, <2>1, GrownFollows DEF end
<1>6. CASE v.ok
  <2>1. /\ Grown(u, x, <<>>, <<>>, v.given)
        /\ (\A i \in DOMAIN e.blocks[1] : ~ Adds(e.blocks[1][i])) => v.given = u.given
        /\ r \in Value
        /\ \A K \in SUBSET CaseFormula : Sound(u, K) => Holds(r, Basis(x, K))
    BY <1>2, <1>3, <1>6, OutsideGrows
  <2> HIDE DEF r, x
  <2>2. Grown(w, x, <<>>, <<>>, v.given)
    <3>1. Grown(w, x, <<>>, <<>>, {} \cup v.given)
      BY <2>1, GrownGoesOn
    <3> QED BY <3>1
  <2>3. Grown(w, y, <<r>>, <<>>, v.given)
    <3>1. w.seen \in Seq(Value) /\ x.seen = w.seen \o <<>>
      BY <2>2 DEF Grown, IsState, IsPlainState
    <3>2. x.seen = w.seen
      BY <3>1
    <3>3. y.seen = Append(w.seen, r)
      BY <2>2, <3>2 DEF Grown, WalkFields
    <3>4. y.seen = w.seen \o <<r>> /\ <<r>> \in Seq(Value)
      BY <2>1, <3>1, <3>3
    <3> HIDE DEF r
    <3>5. /\ DOMAIN y = WalkFields /\ y.ok = x.ok /\ y.labels = x.labels /\ y.given = x.given
          /\ y.assumptions = x.assumptions /\ y.depth = x.depth /\ y.lines = x.lines
          /\ y.case = x.case /\ y.rest = x.rest
      BY <2>2 DEF Grown, WalkFields
    <3> HIDE DEF y
    <3> QED BY <2>2, <3>4, <3>5 DEF Grown
  <2> HIDE DEF y
  <2>4. PICK l \in {<<>>, <<new>>} : Grown(w, end, <<r>>, l, v.given)
    <3>1. r \in LabelValue /\ NoEntry \in Entry \cup {NoEntry} /\ NoEntry.tag \notin RuleTags
      BY <2>1 DEF LabelValue, NoEntry, RuleTags
    <3>2. \E l \in {<<>>, <<new>>} : Grown(w, Label(y, e, r, NoEntry), <<r>>, l, v.given)
      BY <1>1, <2>3, <3>1, LabelGrows
    <3> QED BY <1>4, <1>6, <3>2
  <2>5. (\A f \in S : ~ Adds(f)) => v.given \subseteq w.given
    <3>1. u.given = w.given
      BY GivenIsAllThatGrew
    <3>2. ~ Adds(e) => \A i \in DOMAIN e.blocks[1] : ~ Adds(e.blocks[1][i])
      BY <1>1, QuietBelow
    <3> QED BY <2>1, <3>1, <3>2
  <2>6. ASSUME NEW K \in SUBSET CaseFormula, Sound(w, K)
        PROVE  /\ \A i \in DOMAIN <<r>> : <<r>>[i] \in Formula => Entails(Basis(end, K), <<r>>[i])
               /\ \A i \in DOMAIN l : Holds(l[i].value, Basis(end, K))
    <3>1. Holds(r, Basis(x, K))
      BY <1>2, <2>1, <2>6
    <3>2. Basis(x, K) = Basis(end, K)
      BY <2>2, <2>4 DEF Basis, Before, ChosenOf, FirstCase, Grown
    <3>3. Holds(r, Basis(end, K))
      BY <3>1, <3>2
    <3>4. r \in Formula => Entails(Basis(end, K), r)
      BY <3>3, FormulaHolds DEF Assumed
    <3>5. \A i \in DOMAIN l : l[i].value = r
      BY <2>4
    <3> QED BY <3>3, <3>4, <3>5
  <2>7. Follows(w, end, S)
    BY <2>4, <2>5, <2>6, GrownFollows
  <2> QED BY <2>7 DEF end
<1> QED BY <1>5, <1>6

-----------------------------------------------------------------------------
(* One line, whatever it is.                                               *)

(* What a Mutatis mutandis line is read as.                                *)
IsRepeatable(x) == x \in Entry /\ x.tag \in RuleTags /\ ~ IsCaseLine(x) /\ ~ Adds(x)

LEMMA RewrittenIsTyped ==
  ASSUME Assumed, NEW e \in Entry, NEW sigma \in Substitution, NEW exchange \in Substitution,
         NEW labels \in Seq(Labelled), NEW policy \in {"WLOG", "MutatisMutandis"}
  PROVE  LET again == Reread(e, sigma, exchange, labels, policy)
         IN  again \in Entry /\ again.tag = e.tag /\ again.rule = e.rule /\ (Adds(again) => Adds(e))
<1>1. RewritingKeepsEntries
  BY DEF Assumed
<1> QED BY <1>1 DEF RewritingKeepsEntries

LEMMA ExpansionIsTyped ==
  ASSUME Assumed, NEW w, IsState(w), NEW e \in Entry, IsRepetition(e)
  PROVE  Expansion(w, e) = NoEntry \/ IsRepeatable(Expansion(w, e))
<1> DEFINE end   == Last(e.refs)
           model == SourceOf(w.labels, end)
           value == ValueOf(w.labels, end)
           sigma == StandIn(value, e.states[1])
           again == Reread(model, sigma, sigma, w.labels, "MutatisMutandis")
           x     == [again EXCEPT !.label = e.label, !.states = e.states]
<1>1. SUFFICES ASSUME Expansion(w, e) # NoEntry PROVE IsRepeatable(Expansion(w, e))
  OBVIOUS
<1>2. /\ Expansion(w, e) = x
      /\ Len(e.refs) \in 1 .. 2
      /\ ToSet(e.refs) \subseteq Visible(w.labels)
      /\ model.tag \in RuleTags
      /\ model.rule # "WLOG"
      /\ ~ Adds(model)
  BY <1>1 DEF Expansion
<1>3. /\ e.refs \in Seq(LabelName) /\ e.states \in Seq(Formula) /\ Len(e.states) = 1
      /\ e.states[1] \in Formula
  <2>1. EntryIsTyped(e)
    BY DEF Assumed, EntriesAreTyped
  <2>2. e.refs \in Seq(LabelName) /\ e.states \in Seq(Formula) /\ Len(e.states) = 1
    BY <2>1 DEF EntryIsTyped
  <2> QED BY <2>2
<1>4. end \in Visible(w.labels)
  <2>1. end = e.refs[Len(e.refs)] /\ Len(e.refs) \in DOMAIN e.refs
    BY <1>2, <1>3 DEF Last
  <2> QED BY <1>2, <2>1 DEF ToSet
<1>5. model \in Entry /\ value \in Formula
  <2>1. model \in Entry \cup {NoEntry} /\ (model.tag \in RuleTags => value \in Formula)
    BY <1>4, ValuesHold
  <2>2. NoEntry.tag \notin RuleTags
    BY DEF NoEntry, RuleTags
  <2> QED BY <1>2, <2>1, <2>2
<1>6. sigma \in Substitution
  BY <1>3, <1>5 DEF Assumed, RewritingKeepsEntries
<1> HIDE DEF model, value, sigma
<1>7. w.labels \in Seq(Labelled)
  BY DEF IsState, IsPlainState
<1>8. again \in Entry /\ again.tag = model.tag /\ again.rule = model.rule /\ ~ Adds(again)
  BY <1>2, <1>5, <1>6, <1>7, RewrittenIsTyped
<1> HIDE DEF again
<1>9. x \in Entry
  <2>1. again.tag \in RuleTags /\ ~ IsCaseLine(again)
    BY <1>2, <1>8 DEF IsCaseLine
  <2> QED BY <1>8, <2>1 DEF Assumed, RepeatingKeepsEntries
<1>10. /\ x.tag = again.tag /\ x.rule = again.rule /\ x.names = again.names
      /\ x.about = again.about /\ x.blocks = again.blocks
  <2>1. EntryIsTyped(again)
    BY <1>8 DEF Assumed, EntriesAreTyped
  <2> QED BY <2>1 DEF EntryIsTyped, EntryFields
<1> HIDE DEF x
<1>11. ~ Adds(x)
  <2>1. AddsHypothesis(x) => AddsHypothesis(again)
    BY <1>2, <1>8, <1>10 DEF AddsHypothesis, RuleTags
  <2> QED BY <1>8, <1>9, <1>10, <2>1 DEF Assumed, AddsLooksBelow
<1> QED BY <1>2, <1>8, <1>9, <1>10, <1>11 DEF IsRepeatable, IsCaseLine

(* The declarations of the line are made.                                  *)
Declaring(w, u) == Grown(w, u, <<>>, <<>>, {}) /\ u.ok = w.ok

LEMMA ValidatedCases ==
  ASSUME Assumed, NEW w, IsState(w), NEW x \in Entry
  PROVE  LET v == Validated(w, x)
         IN  \/ v = Refused(w)
             \/ x.tag = "block" /\ v = SubproofBlock(w, x)
             \/ \E u : /\ Declaring(w, u)
                       /\ \/ x.tag = "declare" /\ x.states = <<>> /\ v = DeclareOnly(u, x)
                          \/ x.tag = "declare" /\ x.states # <<>> /\ v = TakenForGranted(u, x)
                          \/ x.tag = "premise" /\ v = TakenForGranted(u, x)
                          \/ x.tag \in {"assume", "arbitrary"} /\ v = Opening(u, x)
                          \/ IsCaseLine(x) /\ v = CaseLine(u, x)
                          \/ x.tag \in RuleTags /\ ~ IsCaseLine(x) /\ v = RuleLine(u, x)
<1> DEFINE inferred == IF x.tag = "declare" THEN UNION {Stated(f) : f \in ToSet(x.states)} ELSE {}
           u == [w EXCEPT !.declared = @ \cup x.names \cup inferred, !.constrained = @ \cup x.about]
           v == Validated(w, x)
<1>1. x.tag \in {"premise", "declare", "assume", "arbitrary", "block"} \cup RuleTags
  BY DEF Assumed, EntriesAreTyped, EntryIsTyped
<1>2. x # NoEntry
  BY <1>1 DEF NoEntry, RuleTags
<1>3. Declaring(w, u)
  <2>1. Grown(w, w, <<>>, <<>>, {})
    BY GrownByNothing
  <2>2. \A d, c : Grown(w, [w EXCEPT !.declared = d, !.constrained = c], <<>>, <<>>, {})
    BY <2>1, OtherFieldsAreFree
  <2>3. Grown(w, u, <<>>, <<>>, {})
    BY <2>2
  <2> QED BY <2>3 DEF Declaring, IsState, IsPlainState, WalkFields
<1>4. CASE x.tag = "block"
  BY <1>2, <1>4 DEF Validated
<1>5. CASE x.tag # "block"
  <2>1. \/ v = Refused(w)
        \/ v = CASE x.tag = "declare" /\ x.states = <<>> -> DeclareOnly(u, x)
                 [] x.tag = "declare" /\ x.states # <<>> -> TakenForGranted(u, x)
                 [] x.tag = "premise"                    -> TakenForGranted(u, x)
                 [] x.tag \in {"assume", "arbitrary"}    -> Opening(u, x)
                 [] x.tag \in RuleTags -> IF x.rule = "WLOG" THEN CaseLine(u, x) ELSE RuleLine(u, x)
    BY <1>2, <1>5 DEF Validated
  <2> HIDE DEF u, v
  <2>2. \/ v = Refused(w)
        \/ x.tag = "declare" /\ x.states = <<>> /\ v = DeclareOnly(u, x)
        \/ x.tag = "declare" /\ x.states # <<>> /\ v = TakenForGranted(u, x)
        \/ x.tag = "premise" /\ v = TakenForGranted(u, x)
        \/ x.tag \in {"assume", "arbitrary"} /\ v = Opening(u, x)
        \/ IsCaseLine(x) /\ v = CaseLine(u, x)
        \/ x.tag \in RuleTags /\ ~ IsCaseLine(x) /\ v = RuleLine(u, x)
    BY <1>1, <1>5, <2>1 DEF IsCaseLine, RuleTags
  <2> QED BY <1>3, <2>2 DEF v
<1> QED BY <1>4, <1>5

LEMMA ValidatedFollows ==
  ASSUME Assumed, NEW w, IsState(w), Begun(w), w.ok, InnerFollows(w.depth),
         NEW x \in Entry, NEW S, (\A f \in S : ~ Adds(f)) => ~ Adds(x), IsCaseLine(x) => S = {x}
  PROVE  Follows(w, Validated(w, x), S)
<1> DEFINE v == Validated(w, x)
<1> SUFFICES Follows(w, v, S)
  OBVIOUS
<1> HIDE DEF v
<1>1. CASE v = Refused(w)
  BY <1>1, RefusedFollows
<1>2. CASE x.tag = "block" /\ v = SubproofBlock(w, x)
  <2>1. Grown(w, w, <<>>, <<>>, {})
    BY GrownByNothing
  <2> QED BY <1>2, <2>1, SubproofFollows
<1>3. ASSUME NEW u, Declaring(w, u),
             \/ x.tag = "declare" /\ x.states = <<>> /\ v = DeclareOnly(u, x)
             \/ x.tag = "declare" /\ x.states # <<>> /\ v = TakenForGranted(u, x)
             \/ x.tag = "premise" /\ v = TakenForGranted(u, x)
             \/ x.tag \in {"assume", "arbitrary"} /\ v = Opening(u, x)
             \/ IsCaseLine(x) /\ v = CaseLine(u, x)
             \/ x.tag \in RuleTags /\ ~ IsCaseLine(x) /\ v = RuleLine(u, x)
      PROVE  Follows(w, v, S)
  <2>1. Grown(w, u, <<>>, <<>>, {}) /\ u.ok
    BY <1>3 DEF Declaring
  <2>2. CASE v = DeclareOnly(u, x)
    BY <2>1, <2>2, DeclareOnlyFollows
  <2>3. CASE AddsHypothesis(x) /\ v = TakenForGranted(u, x)
    <3>1. Adds(x)
      BY <2>3, QuietBelow
    <3> QED BY <2>1, <2>3, <3>1, TakenForGrantedFollows
  <2>4. CASE v = Opening(u, x)
    <3>1. Begun(u) /\ u.lines \in Nat
      BY <2>1, GrownIsState DEF IsState, IsPlainState
    <3>2. v = Refused(u)
      BY <2>4, <3>1, BegunRefusesOpening
    <3>3. Grown(w, v, <<>>, <<>>, {}) /\ ~ v.ok
      BY <2>1, <3>2, RefusedIsGrown
    <3> QED BY <3>3, GrownFollows
  <2>5. CASE IsCaseLine(x) /\ v = CaseLine(u, x)
    BY <2>1, <2>5, CaseLineFollows
  <2>6. CASE x.tag \in RuleTags /\ ~ IsCaseLine(x) /\ v = RuleLine(u, x)
    BY <2>1, <2>6, RuleLineFollows DEF IsCaseLine
  <2>7. (x.tag = "declare" /\ x.states # <<>>) \/ x.tag = "premise" => AddsHypothesis(x)
    BY DEF AddsHypothesis
  <2> QED BY <1>3, <2>2, <2>3, <2>4, <2>5, <2>6, <2>7
<1>4. Follows(w, v, S)
  <2>1. \/ v = Refused(w)
        \/ x.tag = "block" /\ v = SubproofBlock(w, x)
        \/ \E u : /\ Declaring(w, u)
                  /\ \/ x.tag = "declare" /\ x.states = <<>> /\ v = DeclareOnly(u, x)
                     \/ x.tag = "declare" /\ x.states # <<>> /\ v = TakenForGranted(u, x)
                     \/ x.tag = "premise" /\ v = TakenForGranted(u, x)
                     \/ x.tag \in {"assume", "arbitrary"} /\ v = Opening(u, x)
                     \/ IsCaseLine(x) /\ v = CaseLine(u, x)
                     \/ x.tag \in RuleTags /\ ~ IsCaseLine(x) /\ v = RuleLine(u, x)
    BY ValidatedCases DEF v
  <2> QED BY <1>1, <1>2, <1>3, <2>1, Zenon
<1> QED BY <1>4

-----------------------------------------------------------------------------
(* An entry of a block.                                                    *)

(* A block has one WLOG line.                                              *)
LEMMA SecondCaseIsRefused ==
  ASSUME Assumed, NEW w, IsState(w), ~ FirstCase(w), NEW e \in Entry, IsCaseLine(e)
  PROVE  Grown(w, Validated(w, e), <<>>, <<>>, {}) /\ ~ Validated(w, e).ok
<1> DEFINE v == Validated(w, e)
<1>1. Grown(w, w, <<>>, <<>>, {})
  BY GrownByNothing
<1>2. \A u : Declaring(w, u) => CaseLine(u, e) = Refused(u)
  BY DEF Declaring, Grown, FirstCase, CaseLine
<1>3. v = Refused(w) \/ \E u : Declaring(w, u) /\ v = Refused(u)
  BY <1>2, ValidatedCases DEF IsCaseLine, RuleTags
<1> HIDE DEF v
<1>4. Grown(w, v, <<>>, <<>>, {}) /\ ~ v.ok
  <2>1. \A u : Grown(w, u, <<>>, <<>>, {}) =>
          Grown(w, Refused(u), <<>>, <<>>, {}) /\ ~ Refused(u).ok
    BY RefusedIsGrown
  <2> QED BY <1>1, <1>3, <2>1 DEF Declaring
<1> QED BY <1>4 DEF v

(* What is read in the place of an entry.                                  *)
ReadAs(w, e) == IF IsRepetition(e) THEN Expansion(w, e) ELSE e

LEMMA ReadAsFollows ==
  ASSUME Assumed, NEW w, IsState(w), Begun(w), w.ok, InnerFollows(w.depth), NEW e \in Entry
  PROVE  Follows(w, Validated(w, ReadAs(w, e)), {e})
<1>1. CASE IsRepetition(e)
  <2> DEFINE x == Expansion(w, e)
  <2>1. ReadAs(w, e) = x
    BY <1>1 DEF ReadAs
  <2>2. x = NoEntry \/ IsRepeatable(x)
    BY <1>1, ExpansionIsTyped
  <2> HIDE DEF x
  <2>3. CASE x = NoEntry
    <3>1. Validated(w, x) = Refused(w)
      BY <2>3 DEF Validated, NoEntry
    <3> QED BY <2>1, <3>1, RefusedFollows
  <2>4. CASE IsRepeatable(x)
    BY <2>1, <2>4, ValidatedFollows DEF IsRepeatable
  <2> QED BY <2>2, <2>3, <2>4
<1>2. CASE ~ IsRepetition(e)
  <2>1. ReadAs(w, e) = e
    BY <1>2 DEF ReadAs
  <2>2. Follows(w, Validated(w, e), {e})
    BY ValidatedFollows
  <2> QED BY <2>1, <2>2
<1> QED BY <1>1, <1>2

LEMMA NextLineFollows ==
  ASSUME NEW w, NEW v, NEW e \in Entry, Follows(w, v, {e}),
         NEW rest, rest = IF FirstCase(w) THEN <<>> ELSE Append(v.rest, e),
         ~ FirstCase(w) => v.case = w.case,
         ~ FirstCase(w) /\ v.ok => ~ IsCaseLine(e),
         FirstCase(v) => FirstCase(w)
  PROVE  Follows(w, NextLine(v, rest), {e})
<1> DEFINE n == NextLine(v, rest)
<1>1. IsState(v)
  BY DEF Follows
<1>2. /\ rest \in Seq(Entry)
      /\ FirstCase(v) => rest = <<>>
      /\ v.ok => \A i \in DOMAIN rest : ~ IsCaseLine(rest[i])
  <2>1. CASE FirstCase(w)
    BY <2>1
  <2>2. CASE ~ FirstCase(w)
    <3>1. v.rest \in Seq(Entry) /\ rest = Append(v.rest, e)
      BY <1>1, <2>2 DEF IsState
    <3>2. \A i \in DOMAIN rest : (i \in DOMAIN v.rest /\ rest[i] = v.rest[i]) \/ rest[i] = e
      BY <3>1
    <3>3. v.ok => \A i \in DOMAIN v.rest : ~ IsCaseLine(v.rest[i])
      BY <1>1 DEF IsState
    <3>4. rest \in Seq(Entry)
      BY <3>1
    <3> QED BY <2>2, <3>2, <3>3, <3>4
  <2> QED BY <2>1, <2>2
<1>3. /\ IsState(n) /\ Begun(n)
      /\ n.ok = v.ok /\ n.seen = v.seen /\ n.labels = v.labels /\ n.given = v.given
      /\ n.assumptions = v.assumptions /\ n.depth = v.depth /\ n.case = v.case
      /\ n.rest = rest
      /\ \A K : Sound(n, K) <=> Sound(v, K)
  BY <1>1, <1>2, NextLineIsState
<1> HIDE DEF n
<1>4. ASSUME ~ Adds(e), Quiet(w) PROVE Quiet(n)
  <2>1. Quiet(v) /\ v.given = w.given
    BY <1>4 DEF Follows
  <2>2. CASE FirstCase(w)
    BY <1>3, <2>1, <2>2 DEF Quiet, FirstCase
  <2>3. CASE ~ FirstCase(w)
    <3>1. v.rest \in Seq(Entry) /\ rest = Append(v.rest, e)
      BY <1>1, <2>3 DEF IsState
    <3>2. \A i \in DOMAIN rest : (i \in DOMAIN v.rest /\ rest[i] = v.rest[i]) \/ rest[i] = e
      BY <3>1
    <3> QED BY <1>3, <1>4, <2>1, <2>3, <3>2 DEF Quiet, FirstCase
  <2> QED BY <2>2, <2>3
<1>5. Follows(w, n, {e})
  BY <1>3, <1>4 DEF Follows
<1> QED BY <1>5 DEF n

LEMMA ReadIsNextLine ==
  ASSUME NEW w, w.ok, NEW e, IsState(Validated(w, ReadAs(w, e)))
  PROVE  Read(w, e) = NextLine(Validated(w, ReadAs(w, e)),
                               IF FirstCase(w) THEN <<>>
                               ELSE Append(Validated(w, ReadAs(w, e)).rest, e))
<1> DEFINE v == Validated(w, ReadAs(w, e))
<1>1. Read(w, e) = [v EXCEPT !.lines = @ + 1, !.rest = IF FirstCase(w) THEN <<>> ELSE Append(@, e)]
  BY DEF Read, ReadAs
<1>2. DOMAIN v = WalkFields
  BY DEF IsState, IsPlainState
<1> HIDE DEF v
<1> QED BY <1>1, <1>2 DEF NextLine, WalkFields, v

LEMMA ReadFollows ==
  ASSUME Assumed, NEW w, IsState(w), Begun(w), InnerFollows(w.depth), NEW e \in Entry
  PROVE  Follows(w, Read(w, e), {e})
<1>1. CASE ~ w.ok
  <2>1. Read(w, e) = w
    BY <1>1 DEF Read
  <2>2. Grown(w, w, <<>>, <<>>, {})
    BY GrownByNothing
  <2>3. Follows(w, w, {e})
    BY <1>1, <2>2, GrownFollows
  <2> QED BY <2>1, <2>3
<1>2. CASE w.ok
  <2> DEFINE v == Validated(w, ReadAs(w, e))
             rest == IF FirstCase(w) THEN <<>> ELSE Append(v.rest, e)
  <2>1. Follows(w, v, {e})
    BY <1>2, ReadAsFollows
  <2>2. Read(w, e) = NextLine(v, rest)
    BY <1>2, <2>1, ReadIsNextLine DEF Follows
  <2>3. /\ ~ FirstCase(w) => v.case = w.case
        /\ ~ FirstCase(w) /\ v.ok => ~ IsCaseLine(e)
    <3>1. CASE IsCaseLine(e) /\ ~ FirstCase(w)
      <4>1. ~ IsRepetition(e)
        BY <3>1 DEF IsCaseLine, IsRepetition
      <4>2. v = Validated(w, e)
        BY <4>1 DEF ReadAs
      <4>3. Grown(w, v, <<>>, <<>>, {}) /\ ~ v.ok
        BY <3>1, <4>2, SecondCaseIsRefused
      <4> QED BY <4>3 DEF Grown
    <3>2. CASE ~ IsCaseLine(e)
      BY <2>1, <3>2 DEF Follows
    <3> QED BY <3>1, <3>2
  <2>4. FirstCase(v) => FirstCase(w)
    BY <2>3 DEF FirstCase
  <2> HIDE DEF v
  <2>5. Follows(w, NextLine(v, rest), {e})
    BY <2>1, <2>3, <2>4, NextLineFollows
  <2> QED BY <2>2, <2>5
<1> QED BY <1>1, <1>2 DEF IsState, IsPlainState

(* The first line of a subproof.                                           *)
LEMMA OpeningIsRead ==
  ASSUME Assumed, NEW w, IsFresh(w), w.ok, NEW e \in Entry, e.tag \in {"assume", "arbitrary"}
  PROVE  Opened(w, Read(w, e)) /\ Begun(Read(w, e))
<1> DEFINE v == Validated(w, e)
<1>1. ~ IsRepetition(e) /\ ReadAs(w, e) = e
  BY DEF ReadAs, Assumed, EntriesAreTyped, EntryIsTyped, RuleTags
<1>2. IsState(w) /\ FirstCase(w) /\ w.seen = <<>>
  BY DEF IsFresh
<1>3. Opened(w, v)
  <2>1. v = Refused(w) \/ \E u : Declaring(w, u) /\ v = Opening(u, e)
    BY <1>2, ValidatedCases DEF IsCaseLine, RuleTags
  <2> HIDE DEF v
  <2>2. CASE v = Refused(w)
    <3>1. Grown(w, v, <<>>, <<>>, {}) /\ ~ v.ok
      BY <1>2, <2>2, GrownByNothing, RefusedIsGrown
    <3>2. IsState(v) /\ FirstCase(v)
      BY <1>2, <3>1, GrownIsState
    <3> QED BY <3>1, <3>2 DEF Opened, Grown
  <2>3. ASSUME NEW u, Declaring(w, u), v = Opening(u, e) PROVE Opened(w, v)
    BY <2>3, OpeningOpens DEF Declaring
  <2> QED BY <2>1, <2>2, <2>3
<1>4. Read(w, e) = NextLine(v, <<>>)
  BY <1>1, <1>2, <1>3, ReadIsNextLine DEF Opened
<1> DEFINE n == NextLine(v, <<>>)
<1> HIDE DEF v
<1>5. /\ IsState(n) /\ Begun(n)
      /\ n.ok = v.ok /\ n.seen = v.seen /\ n.labels = v.labels /\ n.given = v.given
      /\ n.assumptions = v.assumptions /\ n.depth = v.depth /\ n.case = v.case
      /\ \A K : Sound(n, K) <=> Sound(v, K)
  <2>1. <<>> \in Seq(Entry) /\ DOMAIN <<>> = {}
    BY EmptyIsTyped
  <2> QED BY <1>3, <2>1, NextLineIsState DEF Opened
<1> HIDE DEF n
<1>6. Opened(w, n)
  BY <1>3, <1>5 DEF Opened, FirstCase
<1> QED BY <1>4, <1>5, <1>6 DEF n

-----------------------------------------------------------------------------
(* The entries of a block, one after the other.                            *)

LEMMA FollowsItself ==
  ASSUME NEW w, IsState(w), Begun(w), NEW S
  PROVE  Follows(w, w, S)
<1>1. Grown(w, w, <<>>, <<>>, {})
  BY GrownByNothing
<1> QED BY <1>1, GrownFollows

LEMMA ReadingFollows ==
  ASSUME Assumed, NEW r, NEW w, NEW s \in Seq(Entry), Reads!IsTrace(r, w, s),
         NEW k \in 0 .. Len(s), IsState(r[k]), Begun(r[k]), InnerFollows(r[k].depth)
  PROVE  Follows(r[k], r[Len(s)], {s[i] : i \in k + 1 .. Len(s)})
<1> DEFINE n == Len(s)
           S == {s[i] : i \in k + 1 .. n}
           T == {i \in k .. n : Follows(r[k], r[i], S)}
<1>1. n \in Nat /\ k \in 0 .. n /\ k \in k .. n /\ n \in k .. n
  OBVIOUS
<1>2. k \in T
  <2>1. Follows(r[k], r[k], S)
    BY FollowsItself
  <2> QED BY <1>1, <2>1
<1>3. ASSUME NEW i \in k + 1 .. n, i - 1 \in T
      PROVE  i \in T
  <2>1. i \in DOMAIN s /\ i \in 1 .. Len(s) /\ i \in k .. n
    BY <1>1
  <2>2. r[i] = Read(r[i - 1], s[i])
    BY <2>1, Zenon DEF Reads!IsTrace
  <2>3. Follows(r[k], r[i - 1], S)
    BY <1>3
  <2>4. s[i] \in Entry /\ s[i] \in S
    BY <2>1
  <2> HIDE DEF S
  <2>5. Follows(r[i - 1], r[i], {s[i]})
    <3>1. IsState(r[i - 1]) /\ Begun(r[i - 1]) /\ r[i - 1].depth = r[k].depth
      BY <2>3 DEF Follows
    <3>2. InnerFollows(r[i - 1].depth)
      BY <3>1
    <3> QED BY <2>2, <2>4, <3>1, <3>2, ReadFollows
  <2>6. Follows(r[k], r[i], S)
    <3>1. {s[i]} \subseteq S
      BY <2>4
    <3> QED BY <2>3, <2>5, <3>1, FollowsGoesOn
  <2> QED BY <2>1, <2>6
<1>4. \A i \in k .. n : i \in T
  <2> HIDE DEF T, n
  <2> QED BY <1>1, <1>2, <1>3, Reads!PlaceInduction
<1> QED BY <1>1, <1>4

(* Nothing is read after a refusal.                                        *)
LEMMA RefusedReadsNothing ==
  ASSUME NEW r, NEW w, NEW s \in Seq(Entry), Reads!IsTrace(r, w, s), ~ w.ok
  PROVE  r[Len(s)] = w
<1> DEFINE n == Len(s)
           T == {i \in 0 .. n : r[i] = w}
<1>1. n \in Nat /\ 0 \in 0 .. n /\ n \in 0 .. n
  OBVIOUS
<1>2. 0 \in T
  <2>1. r[0] = w
    BY Zenon DEF Reads!IsTrace
  <2> QED BY <1>1, <2>1
<1>3. ASSUME NEW i \in 0 + 1 .. n, i - 1 \in T
      PROVE  i \in T
  <2>1. i \in 1 .. Len(s) /\ i \in 0 .. n
    BY <1>1
  <2>2. r[i] = Read(r[i - 1], s[i])
    BY <2>1, Zenon DEF Reads!IsTrace
  <2>3. r[i - 1] = w
    BY <1>3
  <2>4. r[i] = w
    BY <2>2, <2>3 DEF Read
  <2> QED BY <2>1, <2>4
<1>4. \A i \in 0 .. n : i \in T
  <2> HIDE DEF T, n
  <2> QED BY <1>1, <1>2, <1>3, Reads!PlaceInduction
<1> QED BY <1>1, <1>4

-----------------------------------------------------------------------------
(* A case read again.                                                      *)

LEMMA ReplayStarts ==
  ASSUME Assumed, NEW w, NEW case, IsCase(w, case), NEW other \in CaseFormula
  PROVE  LET v == ReplayStart(case, other)
         IN  /\ IsState(v) /\ Begun(v) /\ FirstCase(v) /\ v.seen # <<>>
             /\ v.depth = w.depth /\ v.assumptions = w.assumptions /\ v.given = case.before.given
             /\ \A K \in SUBSET CaseFormula : CasesCover(case, K) => Sound(v, K \cup {other})
<1> DEFINE v == ReplayStart(case, other)
           u == case.before
           new == [label |-> case.label, value |-> other, source |-> NoEntry]
<1>1. IsPlainState(u) /\ FirstCase(u) /\ u.rest = <<>> /\ Begun(u)
  BY DEF IsCase
<1>2. IsState(u)
  BY <1>1, EmptyIsTyped DEF IsState
<1>3. other \in Formula /\ other \in Value
  BY DEF Assumed, EntriesAreTyped, ValuesAreTyped
<1>4. Grown(u, v, <<other>>, <<new>>, {})
  <2>1. v = [u EXCEPT !.seen = Append(@, other), !.labels = Append(@, new)]
    BY DEF ReplayStart
  <2>2. new \in Labelled /\ FormulaWhereRuled(new)
    <3>1. NoEntry.tag \notin RuleTags
      BY DEF NoEntry, RuleTags
    <3> QED BY <1>3, <3>1 DEF Labelled, FormulaWhereRuled, LabelValue, IsCase
  <2> HIDE DEF new, u, v
  <2>3. u.seen \in Seq(Value) /\ u.labels \in Seq(Labelled) /\ DOMAIN u = WalkFields
    BY <1>1 DEF IsPlainState
  <2>4. /\ DOMAIN v = WalkFields /\ v.seen = Append(u.seen, other) /\ v.labels = Append(u.labels, new)
        /\ v.ok = u.ok /\ v.given = u.given /\ v.assumptions = u.assumptions /\ v.depth = u.depth
        /\ v.lines = u.lines /\ v.case = u.case /\ v.rest = u.rest
    BY <2>1, <2>3 DEF WalkFields
  <2>5. /\ v.seen = u.seen \o <<other>> /\ <<other>> \in Seq(Value)
        /\ v.labels = u.labels \o <<new>> /\ <<new>> \in Seq(Labelled)
        /\ \A i \in DOMAIN <<new>> : FormulaWhereRuled(<<new>>[i])
    BY <1>3, <2>2, <2>3, <2>4
  <2> QED BY <1>1, <2>4, <2>5 DEF Grown, IsPlainState
<1>5. IsState(v) /\ Begun(v) /\ FirstCase(v)
  BY <1>1, <1>2, <1>4, GrownIsState
<1> HIDE DEF v, new
<1>6. v.seen # <<>>
  <2>1. u.seen \in Seq(Value) /\ v.seen = u.seen \o <<other>>
    BY <1>1, <1>4 DEF Grown, IsPlainState
  <2> QED BY <2>1
<1>7. v.depth = w.depth /\ v.assumptions = w.assumptions /\ v.given = u.given
  BY <1>4 DEF Grown, IsCase
<1>8. ASSUME NEW K \in SUBSET CaseFormula, CasesCover(case, K)
      PROVE  Sound(v, K \cup {other})
  <2> DEFINE L == K \cup {other}
  <2>1. Basis(u, L) = Before(u, L) /\ Before(u, K) \subseteq Before(u, L)
    BY <1>1 DEF Basis, Before, ChosenOf
  <2>2. Sound(u, L)
    <3>1. LinesHold(u, Before(u, K))
      BY <1>8 DEF CasesCover
    <3>2. LinesHold(u, Before(u, L))
      BY <2>1, <3>1, LinesHoldMore
    <3> QED BY <1>1, <2>1, <3>2 DEF Sound
  <2>3. Entails(Basis(v, L), other)
    <3>1. other \in Basis(v, L)
      BY DEF Basis, Before
    <3> QED BY <3>1, HypothesisFollows
  <2>4. Holds(other, Basis(v, L))
    BY <1>3, <2>3, FormulaHolds DEF Assumed
  <2>5. /\ \A i \in DOMAIN <<other>> : <<other>>[i] \in Formula => Entails(Basis(v, L), <<other>>[i])
        /\ \A i \in DOMAIN <<new>> : Holds(<<new>>[i].value, Basis(v, L))
    BY <2>3, <2>4 DEF new
  <2> HIDE DEF L
  <2>6. Sound(v, L)
    BY <1>2, <1>4, <2>2, <2>5, GrownIsSound
  <2> QED BY <2>6 DEF L
<1> QED BY <1>5, <1>6, <1>7, <1>8 DEF v

LEMMA ReplayFollows ==
  ASSUME Assumed, NEW w, IsState(w), ~ FirstCase(w), w.ok, InnerFollows(w.depth),
         NEW other \in CaseFormula, NEW changes, changes = CaseChange(w.case.chosen, other),
         IsRenaming(changes)
  PROVE  LET v == ReplayWith(w, other, changes)
         IN  /\ v.seen \in Seq(Value) /\ v.seen # <<>>
             /\ v.given \in SUBSET Formula
             /\ (\A i \in DOMAIN w.rest : ~ Adds(w.rest[i])) => v.given = w.case.before.given
             /\ \A K \in SUBSET CaseFormula : CasesCover(w.case, K) /\ v.ok =>
                  LinesHold(v, v.given \cup w.assumptions \cup K \cup {other})
<1> DEFINE v == ReplayWith(w, other, changes)
           u == ReplayStart(w.case, other)
           again == [i \in DOMAIN w.rest |->
              Reread(w.rest[i], Renaming(changes), Exchange(changes), w.case.before.labels, "WLOG")]
           S == {again[i] : i \in 0 + 1 .. Len(again)}
<1>1. v = FoldLeft(Read, u, again)
  BY DEF ReplayWith
<1>2. w.rest \in Seq(Entry) /\ IsCase(w, w.case) /\ \A i \in DOMAIN w.rest : ~ IsCaseLine(w.rest[i])
  BY DEF IsState
<1>3. \A i \in DOMAIN w.rest :
        /\ again[i] \in Entry /\ again[i].tag = w.rest[i].tag /\ again[i].rule = w.rest[i].rule
        /\ Adds(again[i]) => Adds(w.rest[i])
  <2>1. Renaming(changes) \in Substitution /\ Exchange(changes) \in Substitution
    BY <1>2 DEF IsCase, Assumed, RewritingKeepsEntries
  <2>2. \A i \in DOMAIN w.rest : w.rest[i] \in Entry
    BY <1>2
  <2>3. w.case.before.labels \in Seq(Labelled)
    BY <1>2 DEF IsCase, IsPlainState
  <2> QED BY <2>1, <2>2, <2>3, RewrittenIsTyped
<1>4. again \in Seq(Entry) /\ DOMAIN again = DOMAIN w.rest
  <2>1. DOMAIN w.rest = 1 .. Len(w.rest) /\ Len(w.rest) \in Nat
    BY <1>2
  <2>2. again \in [1 .. Len(w.rest) -> Entry]
    BY <1>3, <2>1
  <2> HIDE DEF again
  <2> QED BY <2>1, <2>2
<1>5. \A i \in DOMAIN again : ~ IsCaseLine(again[i])
  BY <1>2, <1>3, <1>4 DEF IsCaseLine
<1> HIDE DEF again, u, v
<1>6. \A e \in S : ~ IsCaseLine(e)
  BY <1>4, <1>5
<1>7. /\ IsState(u) /\ Begun(u) /\ FirstCase(u) /\ u.seen # <<>>
      /\ u.depth = w.depth /\ u.assumptions = w.assumptions /\ u.given = w.case.before.given
      /\ \A K \in SUBSET CaseFormula : CasesCover(w.case, K) => Sound(u, K \cup {other})
  BY <1>2, ReplayStarts DEF u
<1>8. PICK r : Reads!IsTrace(r, u, again) /\ FoldLeft(Read, u, again) = r[Len(again)]
  BY <1>4, ReadingIsTraced, Zenon
<1>9. r[0] = u /\ r[Len(again)] = v
  BY <1>1, <1>8, Zenon DEF Reads!IsTrace
<1>10. Follows(u, v, S)
  <2>1. 0 \in 0 .. Len(again)
    BY <1>4
  <2>2. Follows(r[0], r[Len(again)], {again[i] : i \in 0 + 1 .. Len(again)})
    BY <1>4, <1>7, <1>8, <1>9, <2>1, ReadingFollows
  <2> QED BY <1>9, <2>2
<1>11. /\ IsState(v) /\ FirstCase(v) /\ v.seen # <<>> /\ v.assumptions = w.assumptions
  BY <1>6, <1>7, <1>10 DEF Follows, FirstCase
<1>12. (\A i \in DOMAIN w.rest : ~ Adds(w.rest[i])) => v.given = w.case.before.given
  <2>1. (\A i \in DOMAIN w.rest : ~ Adds(w.rest[i])) => \A e \in S : ~ Adds(e)
    BY <1>3, <1>4
  <2> HIDE DEF S
  <2> QED BY <1>7, <1>10, <2>1 DEF Follows
<1>13. ASSUME NEW K \in SUBSET CaseFormula, CasesCover(w.case, K), v.ok
       PROVE  LinesHold(v, v.given \cup w.assumptions \cup K \cup {other})
  <2>1. K \cup {other} \in SUBSET CaseFormula
    OBVIOUS
  <2>2. Sound(v, K \cup {other})
    BY <1>7, <1>10, <1>13, <2>1 DEF Follows
  <2>3. Basis(v, K \cup {other}) = v.given \cup w.assumptions \cup K \cup {other}
    BY <1>11 DEF Basis, Before, ChosenOf
  <2> QED BY <2>2, <2>3 DEF Sound
<1> QED BY <1>11, <1>12, <1>13 DEF v, IsState, IsPlainState

-----------------------------------------------------------------------------
(* The end of a block.                                                     *)

(* The cases read again so far, of those that w left.                      *)
SettledTo(w, acc, i) ==
  /\ Grown(w, acc, <<>>, <<>>, acc.given)
  /\ Quiet(w) => acc.given = w.given
  /\ \A K \in SUBSET CaseFormula :
       Sound(w, K) /\ acc.ok /\ Last(w.seen) \in Formula =>
         \A j \in 1 .. i : Entails(Before(acc, K) \cup {w.case.cases[j]}, Last(w.seen))

LEMMA CaseIsSettled ==
  ASSUME Assumed, NEW w, IsState(w), ~ FirstCase(w), InnerFollows(w.depth),
         NEW i \in 1 .. Len(w.case.cases), NEW acc, SettledTo(w, acc, i - 1)
  PROVE  SettledTo(w, Replay(acc, w.case.cases[i]), i)
<1> DEFINE other == w.case.cases[i]
           changes == CaseChange(acc.case.chosen, other)
           replay == ReplayWith(acc, other, changes)
           v == Replay(acc, other)
           last == Last(w.seen)
<1>1. IsCase(w, w.case) /\ w.seen \in Seq(Value) /\ w.seen # <<>> /\ last \in Value /\ i \in Nat
  <2>1. IsCase(w, w.case) /\ w.seen \in Seq(Value) /\ w.seen # <<>>
    BY DEF IsState, IsPlainState
  <2> QED BY <2>1, LastIsMember
<1>2. other \in CaseFormula
  BY <1>1 DEF IsCase
<1>3. Grown(w, acc, <<>>, <<>>, acc.given)
  BY DEF SettledTo
<1>4. /\ IsState(acc) /\ ~ FirstCase(acc)
      /\ acc.case = w.case /\ acc.rest = w.rest /\ acc.depth = w.depth /\ acc.assumptions = w.assumptions
      /\ w.given \subseteq acc.given
  BY <1>3, GrownIsState DEF Grown
<1>5. acc.seen = w.seen
  <2>1. acc.seen = w.seen \o <<>>
    BY <1>3 DEF Grown
  <2> QED BY <1>1, <2>1
<1> SUFFICES SettledTo(w, v, i)
  OBVIOUS
<1>6. \/ other = w.case.chosen /\ v = acc
      \/ v = Refused(acc)
      \/ /\ acc.ok /\ IsRenaming(changes) /\ replay.ok /\ SaysSame(last, Last(replay.seen))
         /\ v = MergeBooks(acc, replay)
  BY <1>4, <1>5, Zenon DEF Replay, Replayed, EndsAlike
<1> HIDE DEF v, replay, changes, other
<1>7. CASE other = w.case.chosen /\ v = acc
  <2>1. ASSUME NEW K \in SUBSET CaseFormula, Sound(w, K), acc.ok, last \in Formula, NEW j \in 1 .. i
        PROVE  Entails(Before(acc, K) \cup {w.case.cases[j]}, last)
    <3>1. CASE j \in 1 .. i - 1
      BY <2>1, <3>1 DEF SettledTo
    <3>2. CASE j = i
      <4>1. Entails(Basis(w, K), last)
        BY <1>1, <2>1, LastIsMember DEF Sound, LinesHold
      <4>2. Basis(w, K) \subseteq Before(acc, K) \cup {w.case.cases[j]}
        BY <1>4, <1>7, <3>2 DEF Basis, Before, ChosenOf, other
      <4> QED BY <4>1, <4>2, EntailsMore
    <3> QED BY <1>1, <3>1, <3>2
  <2> QED BY <1>7, <2>1 DEF SettledTo
<1>8. CASE v = Refused(acc)
  <2>1. Grown(w, v, <<>>, <<>>, acc.given) /\ ~ v.ok
    BY <1>3, <1>8, RefusedIsGrown
  <2>2. v.given = acc.given
    BY <1>8, <1>4 DEF Refused
  <2> QED BY <2>1, <2>2 DEF SettledTo
<1>9. CASE /\ acc.ok /\ IsRenaming(changes) /\ replay.ok /\ SaysSame(last, Last(replay.seen))
           /\ v = MergeBooks(acc, replay)
  <2>1. /\ replay.seen \in Seq(Value) /\ replay.seen # <<>>
        /\ replay.given \in SUBSET Formula
        /\ (\A k \in DOMAIN w.rest : ~ Adds(w.rest[k])) => replay.given = w.case.before.given
        /\ \A K \in SUBSET CaseFormula : CasesCover(w.case, K) =>
             LinesHold(replay, replay.given \cup w.assumptions \cup K \cup {other})
    <3>1. InnerFollows(acc.depth)
      BY <1>4
    <3>2. changes = CaseChange(acc.case.chosen, other)
      BY DEF changes
    <3> QED BY <1>2, <1>4, <1>9, <3>1, <3>2, ReplayFollows DEF replay
  <2>2. /\ DOMAIN v = WalkFields /\ v.given = acc.given \cup replay.given
        /\ v.ok = acc.ok /\ v.seen = acc.seen /\ v.labels = acc.labels
        /\ v.assumptions = acc.assumptions /\ v.depth = acc.depth /\ v.lines = acc.lines
        /\ v.case = acc.case /\ v.rest = acc.rest
    BY <1>4, <1>9 DEF MergeBooks, IsState, IsPlainState, WalkFields
  <2>3. Grown(w, v, <<>>, <<>>, v.given)
    <3>1. v.given \in SUBSET Formula /\ v.given = w.given \cup v.given
      BY <1>4, <2>1, <2>2 DEF IsState, IsPlainState
    <3> QED BY <1>3, <2>2, <3>1 DEF Grown
  <2>4. Quiet(w) => v.given = w.given
    BY <2>1, <2>2 DEF SettledTo, Quiet
  <2>5. ASSUME NEW K \in SUBSET CaseFormula, Sound(w, K), last \in Formula, NEW j \in 1 .. i
        PROVE  Entails(Before(v, K) \cup {w.case.cases[j]}, last)
    <3>1. CASE j \in 1 .. i - 1
      <4>1. Entails(Before(acc, K) \cup {w.case.cases[j]}, last)
        BY <1>9, <2>5, <3>1 DEF SettledTo
      <4>2. Before(acc, K) \subseteq Before(v, K)
        BY <2>2 DEF Before
      <4> QED BY <4>1, <4>2, EntailsMore
    <3>2. CASE j = i
      <4> DEFINE other2 == Last(replay.seen)
      <4>1. /\ other2 \in Formula
            /\ \A m \in Structure : m \in Models(last) <=> m \in Models(other2)
        <5>1. other2 \in Value
          BY <2>1, LastIsMember
        <5> QED BY <1>1, <1>9, <2>5, <5>1 DEF Assumed, SameIsTrueAlike
      <4>2. Entails(replay.given \cup w.assumptions \cup K \cup {other}, other2)
        <5>1. CasesCover(w.case, K)
          BY <2>5 DEF Sound
        <5>2. LinesHold(replay, replay.given \cup w.assumptions \cup K \cup {other})
          BY <2>1, <5>1
        <5> QED BY <2>1, <4>1, <5>2, LastIsMember DEF LinesHold
      <4> HIDE DEF other2
      <4>3. Entails(replay.given \cup w.assumptions \cup K \cup {other}, last)
        BY <4>1, <4>2, EntailsWherever
      <4>4. replay.given \cup w.assumptions \cup K \cup {other} \subseteq Before(v, K) \cup {w.case.cases[j]}
        BY <1>4, <2>2, <3>2 DEF Before, other
      <4> QED BY <4>3, <4>4, EntailsMore
    <3> QED BY <1>1, <3>1, <3>2
  <2> QED BY <2>3, <2>4, <2>5 DEF SettledTo
<1> QED BY <1>6, <1>7, <1>8, <1>9

(* Whichever case holds, the last line follows.                            *)
LEMMA SettledFollows ==
  ASSUME Assumed, NEW w, IsState(w), InnerFollows(w.depth)
  PROVE  LET v == Settled(w)
         IN  /\ Grown(w, v, <<>>, <<>>, v.given)
             /\ Quiet(w) => v.given = w.given
             /\ \A K \in SUBSET CaseFormula :
                  Sound(w, K) /\ v.ok /\ w.seen # <<>> /\ Last(w.seen) \in Formula =>
                    Entails(Before(v, K), Last(w.seen))
<1> DEFINE v == Settled(w)
           last == Last(w.seen)
<1>1. w.seen \in Seq(Value) /\ w.given \in SUBSET Formula
  BY DEF IsState, IsPlainState
<1>2. Grown(w, w, <<>>, <<>>, w.given)
  <2>1. Grown(w, w, <<>>, <<>>, {})
    BY GrownByNothing
  <2> QED BY <1>1, <2>1 DEF Grown
<1>3. CASE FirstCase(w) \/ ~ w.ok
  <2>1. v = w
    BY <1>3 DEF Settled
  <2>2. ASSUME NEW K \in SUBSET CaseFormula, Sound(w, K), w.ok, w.seen # <<>>, last \in Formula
        PROVE  Entails(Before(w, K), last)
    <3>1. Entails(Basis(w, K), last)
      BY <1>1, <2>2, LastIsMember DEF Sound, LinesHold
    <3>2. Basis(w, K) = Before(w, K)
      BY <1>3, <2>2 DEF Basis, ChosenOf
    <3> QED BY <3>1, <3>2
  <2> QED BY <1>2, <2>1, <2>2
<1>4. CASE ~ FirstCase(w) /\ w.ok
  <2> DEFINE cases == w.case.cases
             n == Len(cases)
  <2>1. cases \in Seq(Formula) /\ IsCase(w, w.case)
    BY <1>4 DEF IsState, IsCase
  <2>2. v = FoldLeft(Replay, w, cases)
    BY <1>4 DEF Settled, AllCases
  <2>3. PICK r : Replays!IsTrace(r, w, cases) /\ FoldLeft(Replay, w, cases) = r[Len(cases)]
    BY <2>1, ReplayingIsTraced, Zenon
  <2> DEFINE T == {i \in 0 .. n : SettledTo(w, r[i], i)}
  <2>4. n \in Nat /\ 0 \in 0 .. n /\ n \in 0 .. n
    BY <2>1
  <2>5. 0 \in T
    <3>1. r[0] = w
      BY <2>3, Zenon DEF Replays!IsTrace
    <3>2. SettledTo(w, w, 0)
      <4>1. \A j \in 1 .. 0 : FALSE
        OBVIOUS
      <4> QED BY <1>2, <4>1 DEF SettledTo
    <3> QED BY <2>4, <3>1, <3>2
  <2> HIDE DEF cases
  <2>6. ASSUME NEW i \in 0 + 1 .. n, i - 1 \in T
        PROVE  i \in T
    <3>1. i \in 1 .. Len(cases) /\ i \in 0 .. n
      BY <2>4
    <3>2. r[i] = Replay(r[i - 1], cases[i])
      BY <2>3, <3>1, Zenon DEF Replays!IsTrace
    <3>3. SettledTo(w, r[i - 1], i - 1)
      BY <2>6
    <3>4. SettledTo(w, r[i], i)
      BY <1>4, <3>1, <3>2, <3>3, CaseIsSettled DEF cases
    <3> QED BY <3>1, <3>4
  <2>7. \A i \in 0 .. n : i \in T
    <3> HIDE DEF T, n
    <3> QED BY <2>4, <2>5, <2>6, Replays!PlaceInduction
  <2>8. SettledTo(w, v, n)
    <3>1. SettledTo(w, r[n], n)
      BY <2>4, <2>7
    <3> QED BY <2>2, <2>3, <3>1
  <2> HIDE DEF v, T
  <2>9. ASSUME NEW K \in SUBSET CaseFormula, Sound(w, K), v.ok, last \in Formula
        PROVE  Entails(Before(v, K), last)
    <3>1. \A j \in 1 .. n : Entails(Before(v, K) \cup {cases[j]}, last)
      BY <2>8, <2>9 DEF SettledTo, cases
    <3>2. Before(w.case.before, K) \subseteq Before(v, K)
      BY <2>1, <2>8 DEF SettledTo, Grown, IsCase, Before
    <3> SUFFICES ASSUME NEW m \in Structure, \A h \in Before(v, K) : m \in Models(h)
                 PROVE  m \in Models(last)
      BY EntailsWherever
    <3>3. PICK j \in DOMAIN cases : m \in Models(cases[j])
      <4>1. CasesCover(w.case, K)
        BY <1>4, <2>9 DEF Sound
      <4> QED BY <3>2, <4>1 DEF CasesCover, cases
    <3>4. j \in 1 .. n
      BY <2>1
    <3> QED BY <3>1, <3>3, <3>4, EntailsWherever
  <2>10. Grown(w, v, <<>>, <<>>, v.given) /\ (Quiet(w) => v.given = w.given)
    BY <2>8 DEF SettledTo
  <2> QED BY <2>9, <2>10 DEF v
<1> QED BY <1>3, <1>4 DEF IsState, IsPlainState

-----------------------------------------------------------------------------
(* A subproof.                                                             *)

LEMMA RefusedBlockFollows ==
  ASSUME NEW w, IsFresh(w), NEW v, Grown(w, v, <<>>, <<>>, {}), ~ v.ok, NEW entries
  PROVE  BlockFollows(w, v, entries)
BY DEF IsFresh, IsState, IsPlainState, Grown, BlockFollows

LEMMA NestedBlockFollows ==
  ASSUME Assumed, NEW w, IsFresh(w), w.depth <= MaxNesting => InnerFollows(w.depth),
         NEW entries \in Seq(Entry)
  PROVE  BlockFollows(w, NestedBlock(w, entries), entries)
<1> DEFINE v == NestedBlock(w, entries)
           last == FoldLeft(Read, w, entries)
<1>1. IsState(w) /\ w.depth \in Nat /\ MaxNesting \in Nat
  BY BoundAssumption DEF IsFresh, IsState, IsPlainState
<1>2. CASE v = Refused(w)
  <2>1. Grown(w, v, <<>>, <<>>, {}) /\ ~ v.ok
    BY <1>1, <1>2, GrownByNothing, RefusedIsGrown
  <2> QED BY <2>1, RefusedBlockFollows
<1>3. CASE v # Refused(w)
  <2>1. /\ w.depth <= MaxNesting /\ entries # <<>>
        /\ entries[1].tag \in {"assume", "arbitrary"}
        /\ v = Settled(last)
    BY <1>1, <1>3 DEF NestedBlock
  <2> HIDE DEF v
  <2>2. InnerFollows(w.depth)
    BY <2>1
  <2>3. PICK r : Reads!IsTrace(r, w, entries) /\ last = r[Len(entries)]
    BY ReadingIsTraced, Zenon
  <2>4. CASE ~ w.ok
    <3>1. last = w
      BY <2>3, <2>4, RefusedReadsNothing
    <3>2. v = w
      BY <2>1, <2>4, <3>1 DEF Settled
    <3>3. Grown(w, v, <<>>, <<>>, {})
      BY <1>1, <3>2, GrownByNothing
    <3>4. BlockFollows(w, v, entries)
      BY <2>4, <3>2, <3>3, RefusedBlockFollows
    <3> QED BY <3>4 DEF v
  <2>5. CASE w.ok
    <3> HIDE DEF last
    <3> DEFINE S == {entries[i] : i \in 1 + 1 .. Len(entries)}
               u == r[1]
    <3>1. 1 \in DOMAIN entries /\ 1 \in 1 .. Len(entries) /\ 1 \in 0 .. Len(entries) /\ entries[1] \in Entry
      BY <2>1
    <3>2. u = Read(w, entries[1])
      <4>1. r[0] = w /\ r[1] = Read(r[1 - 1], entries[1])
        BY <2>3, <3>1, Zenon DEF Reads!IsTrace
      <4> QED BY <4>1
    <3>3. Opened(w, u) /\ Begun(u)
      BY <2>1, <2>5, <3>1, <3>2, OpeningIsRead
    <3> HIDE DEF u
    <3>4. Follows(u, last, S)
      <4>1. IsState(r[1]) /\ Begun(r[1]) /\ InnerFollows(r[1].depth)
        BY <2>2, <3>3 DEF Opened, u
      <4>2. Follows(r[1], r[Len(entries)], {entries[i] : i \in 1 + 1 .. Len(entries)})
        BY <2>3, <3>1, <4>1, ReadingFollows
      <4> QED BY <2>3, <4>2 DEF u
    <3>5. /\ IsState(last) /\ InnerFollows(last.depth)
          /\ last.given \subseteq v.given /\ v.given \in SUBSET Formula /\ v.ok \in BOOLEAN
          /\ v.seen = last.seen /\ v.assumptions = last.assumptions
          /\ v.ok => last.ok
          /\ Quiet(last) => v.given = last.given
          /\ \A K \in SUBSET CaseFormula :
               Sound(last, K) /\ v.ok /\ last.seen # <<>> /\ Last(last.seen) \in Formula =>
                 Entails(Before(v, K), Last(last.seen))
      <4>1. IsState(last) /\ InnerFollows(last.depth)
        BY <2>2, <3>3, <3>4 DEF Follows, Opened
      <4>2. /\ Grown(last, v, <<>>, <<>>, v.given)
            /\ Quiet(last) => v.given = last.given
            /\ \A K \in SUBSET CaseFormula :
                 Sound(last, K) /\ v.ok /\ last.seen # <<>> /\ Last(last.seen) \in Formula =>
                   Entails(Before(v, K), Last(last.seen))
        BY <2>1, <4>1, SettledFollows
      <4>3. v.seen = last.seen
        <5>1. last.seen \in Seq(Value) /\ v.seen = last.seen \o <<>>
          BY <4>1, <4>2 DEF Grown, IsState, IsPlainState
        <5> QED BY <5>1
      <4>4. /\ last.given \subseteq v.given /\ v.given \in SUBSET Formula /\ v.ok \in BOOLEAN
            /\ v.assumptions = last.assumptions /\ (v.ok => last.ok)
        BY <4>2 DEF Grown
      <4> QED BY <4>1, <4>2, <4>3, <4>4
    <3>6. /\ v.ok => u.ok
          /\ w.given \subseteq v.given
          /\ v.assumptions = u.assumptions
          /\ v.ok => v.seen \in Seq(Value) /\ v.seen # <<>> /\ Head(v.seen) = Head(u.seen)
                     /\ Head(v.seen) \in Formula
      BY <3>3, <3>4, <3>5 DEF Follows, Opened, IsState, IsPlainState
    <3>7. ASSUME \A i \in DOMAIN entries : ~ Adds(entries[i])
          PROVE  v.given = w.given
      <4>1. \A e \in S : ~ Adds(e)
        BY <3>7
      <4>2. Quiet(u) /\ u.given = w.given
        BY <3>3 DEF Opened, Quiet
      <4> HIDE DEF S
      <4> QED BY <3>4, <3>5, <4>1, <4>2 DEF Follows
    <3>8. ASSUME NEW K \in SUBSET CaseFormula, Sound(w, K), v.ok
          PROVE  ConcludesUnder(v, v.given \cup w.assumptions \cup K)
      <4>1. Sound(u, K)
        BY <3>3, <3>6, <3>8 DEF Opened
      <4>2. Sound(last, K)
        BY <3>4, <3>5, <3>8, <4>1 DEF Follows
      <4>3. Before(v, K) \subseteq (v.given \cup w.assumptions \cup K) \cup {Head(v.seen)}
        BY <3>3, <3>6, <3>8 DEF Before, Opened
      <4> SUFFICES ASSUME Last(v.seen) \in Formula
                   PROVE  Entails((v.given \cup w.assumptions \cup K) \cup {Head(v.seen)}, Last(v.seen))
        BY DEF ConcludesUnder
      <4>4. Entails(Before(v, K), Last(v.seen))
        BY <3>5, <3>6, <3>8, <4>2
      <4> QED BY <4>3, <4>4, EntailsMore
    <3>9. BlockFollows(w, v, entries)
      BY <3>5, <3>6, <3>7, <3>8 DEF BlockFollows
    <3> QED BY <3>9 DEF v
  <2> QED BY <2>4, <2>5 DEF IsFresh, IsState, IsPlainState
<1> QED BY <1>2, <1>3

(* Subproofs are read as they should be, at any depth: what _validate_block*)
(* returns for the entries of a subproof follows from the hypotheses in    *)
(* force there, and a subproof that adds no hypothesis takes none for      *)
(* granted.  By induction on how many more may stand inside.               *)
THEOREM SubproofsFollow ==
  ASSUME Assumed, BlocksAreRead, NEW d \in Nat
  PROVE  InnerFollows(d)
<1> DEFINE T == {n \in Nat : \A c \in Nat : c + n >= MaxNesting => InnerFollows(c)}
<1>1. ASSUME NEW c \in Nat, c + 1 <= MaxNesting => InnerFollows(c + 1)
      PROVE  InnerFollows(c)
  <2> SUFFICES ASSUME NEW w, NEW entries, IsFresh(w), w.depth = c + 1, entries \in Seq(Entry)
               PROVE  BlockFollows(w, ReadBlock(w, entries), entries)
    BY DEF InnerFollows
  <2>1. ReadBlock(w, entries) = NestedBlock(w, entries)
    BY DEF BlocksAreRead, IsFresh
  <2>2. w.depth <= MaxNesting => InnerFollows(w.depth)
    BY <1>1
  <2> QED BY <2>1, <2>2, NestedBlockFollows
<1>2. 0 \in T
  <2> SUFFICES ASSUME NEW c \in Nat, c + 0 >= MaxNesting PROVE InnerFollows(c)
    OBVIOUS
  <2>1. ~ (c + 1 <= MaxNesting)
    BY BoundAssumption
  <2> QED BY <1>1, <2>1
<1>3. ASSUME NEW n \in Nat, n \in T
      PROVE  n + 1 \in T
  <2> SUFFICES ASSUME NEW c \in Nat, c + (n + 1) >= MaxNesting PROVE InnerFollows(c)
    OBVIOUS
  <2>1. c + 1 \in Nat /\ (c + 1) + n >= MaxNesting
    BY BoundAssumption
  <2>2. InnerFollows(c + 1)
    BY <1>3, <2>1
  <2> QED BY <1>1, <2>2
<1>4. \A n \in Nat : n \in T
  <2> HIDE DEF T
  <2> QED BY <1>2, <1>3, Reads!NaturalInduction
<1>5. MaxNesting \in T /\ d + MaxNesting >= MaxNesting
  BY <1>4, BoundAssumption
<1> QED BY <1>5

-----------------------------------------------------------------------------
(* The proof.                                                              *)

(* The lines that a proof may consist of are entries, and those offered as *)
(* repetitions are.                                                        *)
LinesAreEntries ==
  /\ Premise \cup Declaration \cup Derivation \cup Subproof \cup Case \cup Repetition \subseteq Entry
  /\ \A e \in Repetition : IsRepetition(e)

WalkInvariant ==
  /\ IsState(walk)
  /\ walk.depth = 0
  /\ walk.assumptions = {}
  /\ status \in {"reading", "accepted", "refused"}
  /\ status # "refused" => Sound(walk, {})

ConclusionInvariant ==
  status = "accepted" =>
    /\ walk.seen # <<>>
    /\ Last(walk.seen) \in Formula => Entails(walk.given, Last(walk.seen))

LEMMA StartIsSound ==
  ASSUME Init
  PROVE  WalkInvariant /\ ConclusionInvariant
<1>1. walk = Start /\ status = "reading"
  BY DEF Init
<1>2. /\ DOMAIN walk = WalkFields /\ walk.ok = TRUE /\ walk.seen = <<>> /\ walk.labels = <<>>
      /\ walk.given = {} /\ walk.assumptions = {} /\ walk.depth = 0 /\ walk.lines = 0
      /\ walk.case = NoCase /\ walk.rest = <<>>
  BY <1>1 DEF Start, WalkFields
<1>3. FirstCase(walk)
  BY <1>2 DEF FirstCase
<1>4. IsState(walk)
  <2>1. /\ walk.seen \in Seq(Value) /\ walk.labels \in Seq(Labelled) /\ walk.rest \in Seq(Entry)
        /\ DOMAIN walk.labels = {} /\ DOMAIN walk.rest = {}
    BY <1>2
  <2>2. IsPlainState(walk)
    <3>1. walk.depth \in Nat /\ walk.lines \in Nat
      BY <1>2
    <3>2. walk.ok \in BOOLEAN
      BY <1>2, Zenon
    <3>3. walk.given \in SUBSET Formula /\ walk.assumptions \in SUBSET Formula
      BY <1>2
    <3>4. \A i \in DOMAIN walk.labels : FormulaWhereRuled(walk.labels[i])
      BY <2>1
    <3> QED BY <1>2, <2>1, <3>1, <3>3, <3>4, <3>2, Zenon DEF IsPlainState
  <2> QED BY <1>2, <1>3, <2>1, <2>2 DEF IsState
<1>5. Sound(walk, {})
  BY <1>2, <1>3 DEF Sound, LinesHold
<1> QED BY <1>1, <1>2, <1>4, <1>5 DEF WalkInvariant, ConclusionInvariant

LEMMA LineIsSound ==
  ASSUME Assumed, BlocksAreRead, WalkInvariant, NEW e \in Entry, Line(e)
  PROVE  WalkInvariant' /\ ConclusionInvariant'
<1>1. /\ status = "reading" /\ walk' = Read(walk, e)
      /\ status' = IF walk'.ok THEN "reading" ELSE "refused"
  BY DEF Line
<1>2. /\ IsState(walk) /\ Begun(walk) /\ Sound(walk, {}) /\ walk.depth = 0 /\ walk.assumptions = {}
  BY <1>1 DEF WalkInvariant, Begun
<1>3. Follows(walk, Read(walk, e), {e})
  <2>1. InnerFollows(walk.depth)
    BY <1>2, SubproofsFollow
  <2> QED BY <1>2, <2>1, ReadFollows
<1>4. /\ IsState(walk') /\ walk'.depth = 0 /\ walk'.assumptions = {}
      /\ walk'.ok => Sound(walk', {})
  BY <1>1, <1>2, <1>3 DEF Follows
<1> QED BY <1>1, <1>4 DEF WalkInvariant, ConclusionInvariant

LEMMA ConclusionIsSound ==
  ASSUME Assumed, BlocksAreRead, WalkInvariant, Conclude
  PROVE  WalkInvariant' /\ ConclusionInvariant'
<1>1. /\ status = "reading" /\ walk.seen # <<>> /\ walk' = Settled(walk)
      /\ status' = IF walk'.ok THEN "accepted" ELSE "refused"
  BY DEF Conclude
<1>2. IsState(walk) /\ Sound(walk, {}) /\ walk.depth = 0 /\ walk.assumptions = {}
  BY <1>1 DEF WalkInvariant
<1>3. /\ Grown(walk, walk', <<>>, <<>>, walk'.given)
      /\ \A K \in SUBSET CaseFormula :
           Sound(walk, K) /\ walk'.ok /\ walk.seen # <<>> /\ Last(walk.seen) \in Formula =>
             Entails(Before(walk', K), Last(walk.seen))
  <2>1. InnerFollows(walk.depth)
    BY <1>2, SubproofsFollow
  <2> QED BY <1>1, <1>2, <2>1, SettledFollows
<1>4. IsState(walk') /\ Sound(walk', {}) /\ walk'.depth = 0 /\ walk'.assumptions = {}
  BY <1>2, <1>3, GrownByGivenIsSound DEF Grown
<1>5. walk'.seen = walk.seen
  <2>1. walk.seen \in Seq(Value) /\ walk'.seen = walk.seen \o <<>>
    BY <1>2, <1>3 DEF Grown, IsState, IsPlainState
  <2> QED BY <2>1
<1>6. ASSUME walk'.ok, Last(walk'.seen) \in Formula
      PROVE  Entails(walk'.given, Last(walk'.seen))
  <2>1. Entails(Before(walk', {}), Last(walk'.seen))
    BY <1>1, <1>2, <1>3, <1>5, <1>6
  <2>2. Before(walk', {}) = walk'.given
    BY <1>4 DEF Before
  <2> QED BY <2>1, <2>2
<1> QED BY <1>1, <1>4, <1>5, <1>6 DEF WalkInvariant, ConclusionInvariant

LEMMA StepIsSound ==
  ASSUME Assumed, BlocksAreRead, LinesAreEntries, WalkInvariant, ConclusionInvariant, [Next]_vars
  PROVE  WalkInvariant' /\ ConclusionInvariant'
<1>1. ASSUME NEW e \in Entry, Line(e) PROVE WalkInvariant' /\ ConclusionInvariant'
  BY <1>1, LineIsSound
<1>2. CASE Conclude
  BY <1>2, ConclusionIsSound
<1>3. CASE UNCHANGED vars
  BY <1>3 DEF vars, WalkInvariant, ConclusionInvariant
<1>4. \/ \E e \in Entry : Line(e)
      \/ Conclude
      \/ UNCHANGED vars
  BY DEF Next, LinesAreEntries, TakeForGranted, Declare, Derive, Enclose, ChooseCase, Repeat, Done
<1> QED BY <1>1, <1>2, <1>3, <1>4

LEMMA ProofIsSound ==
  ASSUME Assumed, BlocksAreRead, LinesAreEntries
  PROVE  Spec => [](WalkInvariant /\ ConclusionInvariant)
<1>1. Init => WalkInvariant /\ ConclusionInvariant
  BY StartIsSound
<1>2. WalkInvariant /\ ConclusionInvariant /\ [Next]_vars => WalkInvariant' /\ ConclusionInvariant'
  BY StepIsSound
<1> QED BY <1>1, <1>2, PTL DEF Spec

(* Every line of a proof, and of the case that a WLOG line chose, follows  *)
(* from what the proof takes for granted: a Mutatis mutandis line proves   *)
(* what it says as the argument would that it stands for                   *)
(* (_expand_mutatis_mutandis, _validate_line, _validate_block).            *)
THEOREM EveryLineFollows ==
  ASSUME Assumed, BlocksAreRead, LinesAreEntries
  PROVE  Spec => []LinesFollow
<1>1. WalkInvariant => LinesFollow
  <2> SUFFICES ASSUME WalkInvariant, status # "refused",
                      NEW i \in DOMAIN walk.seen, ~ IsRecord(walk.seen[i])
               PROVE  Entails(walk.given \cup ChosenCase, walk.seen[i])
    BY DEF LinesFollow
  <2>1. walk.seen \in Seq(Value) /\ LinesHold(walk, Basis(walk, {})) /\ walk.assumptions = {}
    BY DEF WalkInvariant, IsState, IsPlainState, Sound
  <2>2. walk.seen[i] \in Formula
    <3>1. walk.seen[i] \in Value
      BY <2>1
    <3> QED BY <3>1 DEF Assumed, ValuesAreTyped, IsRecord
  <2>3. Basis(walk, {}) = walk.given \cup ChosenCase
    BY <2>1 DEF Basis, Before, ChosenOf, ChosenCase
  <2> QED BY <2>1, <2>2, <2>3 DEF LinesHold
<1> QED BY <1>1, ProofIsSound, PTL

(* What an accepted proof ends with follows from what it takes for granted *)
(* in every case of the disjunction it chose from: the cases read again    *)
(* are the other ones, each ends with the same, and what they take for     *)
(* granted is counted (_validate_wlog_replays).                            *)
THEOREM NoGeneralityIsLost ==
  ASSUME Assumed, BlocksAreRead, LinesAreEntries
  PROVE  Spec => []ConclusionFollows
<1>1. ASSUME WalkInvariant, ConclusionInvariant PROVE ConclusionFollows
  <2> SUFFICES ASSUME status = "accepted", ~ IsRecord(Last(walk.seen))
               PROVE  Entails(walk.given, Last(walk.seen))
    BY DEF ConclusionFollows
  <2>1. walk.seen \in Seq(Value) /\ walk.seen # <<>>
    BY <1>1 DEF WalkInvariant, IsState, IsPlainState, ConclusionInvariant
  <2>2. Last(walk.seen) \in Formula
    <3>1. Last(walk.seen) \in Value
      BY <2>1, LastIsMember
    <3> QED BY <3>1 DEF Assumed, ValuesAreTyped, IsRecord
  <2> QED BY <1>1, <2>2 DEF ConclusionInvariant
<1> QED BY <1>1, ProofIsSound, PTL

(* A Mutatis mutandis line takes nothing for granted, whatever it states   *)
(* and declares: what it is read as adds no hypothesis, and nor do the     *)
(* subproofs below that (_mm_blocked_line).                                *)
LEMMA RepetitionTakesNothingForGranted ==
  ASSUME Assumed, NEW w, IsState(w), Begun(w), InnerFollows(w.depth), NEW e \in Entry, IsRepetition(e)
  PROVE  Read(w, e).given = w.given
<1> DEFINE x == Expansion(w, e)
           v == Validated(w, x)
<1>1. ReadAs(w, e) = x
  BY DEF ReadAs
<1>2. CASE ~ w.ok
  BY <1>2 DEF Read
<1>3. CASE w.ok
  <2>1. Follows(w, v, {})
    <3>1. x = NoEntry \/ IsRepeatable(x)
      BY ExpansionIsTyped
    <3> HIDE DEF x
    <3>2. CASE x = NoEntry
      <4>1. v = Refused(w)
        BY <3>2 DEF Validated, NoEntry
      <4> QED BY <4>1, RefusedFollows
    <3>3. CASE IsRepeatable(x)
      BY <1>3, <3>3, ValidatedFollows DEF IsRepeatable
    <3> QED BY <3>1, <3>2, <3>3
  <2>2. IsState(v) /\ v.given = w.given
    <3>1. \A f \in {} : ~ Adds(f)
      OBVIOUS
    <3> HIDE DEF v
    <3> QED BY <2>1, <3>1 DEF Follows
  <2> DEFINE rest == IF FirstCase(w) THEN <<>> ELSE Append(v.rest, e)
  <2>3. Read(w, e) = NextLine(v, rest)
    BY <1>1, <1>3, <2>2, ReadIsNextLine
  <2> HIDE DEF v, rest
  <2> QED BY <2>2, <2>3 DEF NextLine, IsState, IsPlainState, WalkFields
<1> QED BY <1>2, <1>3 DEF IsState, IsPlainState

(* A repeated argument may not add a hypothesis: no Mutatis mutandis line  *)
(* of a proof, accepted or refused, takes anything for granted             *)
(* (_expand_mutatis_mutandis, _mm_blocked_line).                           *)
THEOREM RepetitionsAddNothing ==
  ASSUME Assumed, BlocksAreRead, LinesAreEntries
  PROVE  Spec => RepeatsAddNoHypothesis
<1>1. ASSUME WalkInvariant, Repeat
      PROVE  walk'.given = walk.given
  <2>1. PICK e \in Repetition : Line(e)
    BY <1>1 DEF Repeat
  <2>2. e \in Entry /\ IsRepetition(e) /\ walk' = Read(walk, e)
    BY <2>1 DEF LinesAreEntries, Line
  <2>3. IsState(walk) /\ Begun(walk) /\ InnerFollows(walk.depth)
    BY <1>1, SubproofsFollow DEF WalkInvariant, Begun
  <2> QED BY <2>2, <2>3, RepetitionTakesNothingForGranted
<1>2. WalkInvariant /\ [Next]_vars => [Repeat => walk'.given = walk.given]_vars
  BY <1>1
<1> QED BY <1>2, ProofIsSound, PTL DEF Spec, RepeatsAddNoHypothesis

-----------------------------------------------------------------------------
(* The rules that compare whole formulas satisfy the hypothesis on rules.  *)

(* Truth of a formula in terms of its parts, in each structure.            *)
FormulasHaveTruth ==
  /\ AreBuiltUp(Formula)
  /\ \A m \in Structure : IsTruth({f \in Formula : m \in Models(f)}, Formula)
  /\ ~ Contradictory(NoConclusion)

(* The rule is one of GroundRules.                                         *)
RuleIsGround(rule) ==
  \A cs \in Seq(Candidate), phi \in Formula : \A ctx :
    Justifies(rule, cs, phi, ctx) => rule \in GroundRule /\ AskGround(rule, cs, phi)

(* A candidate that holds under H holds in each structure where H does.    *)
LEMMA CandidateHoldsThere ==
  ASSUME ValuesAreTyped, FormulasHaveTruth,
         NEW c \in Candidate, NEW H, Holds(c, H),
         NEW m \in Structure, \A h \in H : m \in Models(h)
  PROVE  CandidateHolds(c, Formula, Formula, {f \in Formula : m \in Models(f)})
<1> DEFINE T == {f \in Formula : m \in Models(f)}
<1>1. CASE c \in Formula
  <2>1. ~ IsRecord(c) /\ ~ Is("bundle", c)
    BY <1>1 DEF ValuesAreTyped
  <2>2. m \in Models(c)
    BY <2>1 DEF Holds, Entails
  <2>3. c.op \in Connective => \A i \in DOMAIN c.kids : c.kids[i] \in Formula
    BY <1>1 DEF FormulasHaveTruth, AreBuiltUp
  <2> QED BY <1>1, <2>1, <2>2, <2>3 DEF CandidateHolds, SaysSomething
<1>2. CASE c \notin Formula
  <2>1. PICK v \in Value : c = ForRule(v)
    BY <1>2 DEF Candidate
  <2>2. v \notin Formula
    BY <1>2, <2>1 DEF ForRule, ValuesAreTyped
  <2>3. /\ DOMAIN v = {"assumption", "conclusion", "inner", "outer"}
        /\ v.assumption \in Formula /\ v.conclusion \in Formula \cup {NoConclusion}
    BY <2>2 DEF ValuesAreTyped
  <2>4. IsRecord(c) /\ c.assumption = v.assumption /\ c.conclusion = v.conclusion
    BY <2>1, <2>3 DEF ForRule, IsRecord
  <2>5. c.conclusion \in Formula => Entails(H \cup {c.assumption}, c.conclusion)
    BY <2>4 DEF Holds, ValuesAreTyped
  <2>6. c.conclusion \in Formula /\ c.assumption \in T => c.conclusion \in T
    BY <2>5 DEF Entails
  <2> HIDE DEF T
  <2>7. CandidateHolds(c, Formula, Formula, T)
    BY <2>3, <2>4, <2>6 DEF CandidateHolds, FormulasHaveTruth
  <2> QED BY <2>7 DEF T
<1> QED BY <1>1, <1>2

(* Each of the seventeen rules that compare whole formulas claims what     *)
(* follows, whatever cases were chosen around its line: it does not ask    *)
(* what is assumed there (default_rules, _ask_rule).                       *)
THEOREM GroundRulesHoldInEachCase ==
  ASSUME ValuesAreTyped, FormulasHaveTruth, NEW rule, RuleIsGround(rule)
  PROVE  RuleIsSound(rule)
<1> SUFFICES ASSUME NEW cs \in Seq(Candidate), NEW phi \in Formula,
                    NEW cases \in SUBSET CaseFormula, NEW ctx,
                    \A i \in DOMAIN cs : Holds(cs[i], ctx.hypotheses \cup cases),
                    Justifies(rule, cs, phi, ctx)
             PROVE  Entails(ctx.hypotheses \cup cases, phi)
  BY DEF RuleIsSound
<1> SUFFICES ASSUME NEW m \in Structure, \A h \in ctx.hypotheses \cup cases : m \in Models(h)
             PROVE  m \in Models(phi)
  BY EntailsWherever
<1> DEFINE T == {f \in Formula : m \in Models(f)}
<1>1. rule \in GroundRule /\ AskGround(rule, cs, phi)
  BY DEF RuleIsGround
<1>2. \A i \in DOMAIN cs : cs[i] \in Candidate /\ CandidateHolds(cs[i], Formula, Formula, T)
  BY CandidateHoldsThere
<1>3. AreBuiltUp(Formula) /\ IsTruth(T, Formula)
  BY DEF FormulasHaveTruth
<1>4. SaysSomething(phi, Formula)
  BY <1>3 DEF SaysSomething, AreBuiltUp
<1>5. Len(cs) \in Nat /\ DOMAIN cs = 1 .. Len(cs) /\ \A f \in Formula : ~ IsRecord(f)
  BY DEF ValuesAreTyped
<1> HIDE DEF T
<1>6. Asked(cs, phi, Formula, Formula, T)
  BY <1>2, <1>3, <1>4, <1>5 DEF Asked
<1>7. phi \in T
  BY <1>1, <1>6, GroundVerdictsAreTrue, Zenon
<1> QED BY <1>7 DEF T

-----------------------------------------------------------------------------
(* So do the rules about quantified formulas, as far as no case mentions   *)
(* the constants they generalize.                                          *)

(* Truth of a quantified formula in terms of its body, and of a formula    *)
(* that reads as the body.                                                 *)
QuantifiersHaveTruth ==
  \A q \in Formula : IsQuantifier(q) =>
    /\ \A m \in Structure :
         /\ Is("forall", q) => (m \in Models(q) <=> \A v \in Domain(m) : BodyTrue(q, v, m))
         /\ Is("exists", q) => (m \in Models(q) <=> \E v \in Domain(m) : BodyTrue(q, v, m))
    /\ ~ BodyMatches(q, NoConclusion)
    /\ \A f \in Formula : BodyMatches(q, f) =>
         /\ \A m \in Structure : \E v \in Domain(m) : BodyTrue(q, v, m) <=> m \in Models(f)
         /\ ReadsAs(q, f) = {} =>
              \A m \in Structure : \A v \in Domain(m) : BodyTrue(q, v, m) <=> m \in Models(f)
    /\ \A f, g \in Formula : BodyMatches(q, Implies(f, g)) =>
         \A m \in Structure :
           \E v \in Domain(m) : BodyTrue(q, v, m) <=> (m \in Models(f) => m \in Models(g))

(* A constant may stand for any object, and a formula depends on it only   *)
(* if it occurs there.  The flag that declares a constant says nothing.    *)
ConstantsHaveObjects ==
  /\ \A c : \A m \in Structure : \A v \in Domain(m) :
       /\ Reinterpreted(m, c, v) \in Structure
       /\ \A f \in Formula : ~ Occurs(c, f) => (Reinterpreted(m, c, v) \in Models(f) <=> m \in Models(f))
  /\ \A q, f \in Formula : IsQuantifier(q) /\ BodyMatches(q, f) =>
       \A t \in ReadsAs(q, f) : Is("const", t) =>
         /\ \A m \in Structure : m \in Models(Atom(t.sym, <<>>))
         /\ ~ Occurs(t.sym, q) =>
              \A m \in Structure : \A v \in Domain(m) :
                Reinterpreted(m, t.sym, v) \in Models(f) <=> BodyTrue(q, v, m)

InNoCase(t) == \A f \in CaseFormula : ~ Occurs(t.sym, f)

(* The rule is one of QuantifierRules, the constants it takes for          *)
(* arbitrary are in no case, and universal generalization leaves none in   *)
(* the claim.                                                              *)
RuleIsQuantifier(rule) ==
  \A cs \in Seq(Candidate), phi \in Formula : \A ctx :
    Justifies(rule, cs, phi, ctx) =>
      /\ rule \in QuantifierRule /\ AskQuantifier(rule, cs, phi, ctx)
      /\ rule = "ExistentialElimination" =>
           \A i, j \in DOMAIN cs : IsA("exists", cs[i]) /\ IsRecord(cs[j]) =>
             \A t \in ReadsAs(cs[i], cs[j].assumption) : InNoCase(t)
      /\ rule = "UniversalGeneralization" =>
           \A t \in ReadsAs(phi, cs[1].conclusion) : InNoCase(t) /\ ~ Occurs(t.sym, phi)

(* What is in force at the line holds also where such a constant stands    *)
(* for some other object.                                                  *)
LEMMA InForceElsewhere ==
  ASSUME ConstantsHaveObjects, NEW ctx, ctx.hypotheses \in SUBSET Formula,
         NEW cases \in SUBSET CaseFormula, CaseFormula \subseteq Formula,
         NEW t, SaidNothingAbout(t.sym, ctx), InNoCase(t),
         NEW m \in Structure, \A h \in ctx.hypotheses \cup cases : m \in Models(h),
         NEW v \in Domain(m)
  PROVE  LET n == Reinterpreted(m, t.sym, v)
         IN  n \in Structure /\ \A h \in ctx.hypotheses \cup cases : n \in Models(h)
<1>1. \A h \in ctx.hypotheses \cup cases : h \in Formula /\ ~ Occurs(t.sym, h)
  BY DEF SaidNothingAbout, InNoCase
<1> QED BY <1>1 DEF ConstantsHaveObjects

(* A record that holds, and its conclusion where its assumption is true.   *)
LEMMA RecordConcludes ==
  ASSUME ValuesAreTyped, NEW c \in Candidate, IsRecord(c), NEW H, Holds(c, H)
  PROVE  /\ c.assumption \in Formula /\ c.conclusion \in Formula \cup {NoConclusion}
         /\ c.conclusion \in Formula =>
              \A m \in Structure :
                (\A h \in H : m \in Models(h)) /\ m \in Models(c.assumption) => m \in Models(c.conclusion)
<1>1. PICK v \in Value : c = ForRule(v) /\ v \notin Formula
  BY DEF Candidate, ValuesAreTyped, ForRule
<1>2. /\ DOMAIN v = {"assumption", "conclusion", "inner", "outer"}
      /\ v.assumption \in Formula /\ v.conclusion \in Formula \cup {NoConclusion}
  BY <1>1 DEF ValuesAreTyped
<1>3. c.assumption = v.assumption /\ c.conclusion = v.conclusion
  BY <1>1, <1>2 DEF ForRule, IsRecord
<1>4. c.conclusion \in Formula => Entails(H \cup {c.assumption}, c.conclusion)
  BY DEF Holds, ValuesAreTyped
<1> QED BY <1>2, <1>3, <1>4, EntailsWherever

(* The witness of the existential formula is what the constant may as well *)
(* stand for.                                                              *)
LEMMA WitnessIsSomeObject ==
  ASSUME ValuesAreTyped, QuantifiersHaveTruth, ConstantsHaveObjects,
         NEW ctx, ctx.hypotheses \in SUBSET Formula,
         NEW cases \in SUBSET CaseFormula, CaseFormula \subseteq Formula,
         NEW m \in Structure, \A h \in ctx.hypotheses \cup cases : m \in Models(h),
         NEW q \in Formula, Is("exists", q), m \in Models(q),
         NEW r \in Candidate, IsRecord(r), Holds(r, ctx.hypotheses \cup cases),
         NEW phi \in Formula, r.conclusion = phi, BodyMatches(q, r.assumption),
         \A t \in ReadsAs(q, r.assumption) :
           /\ Is("const", t) /\ InNoCase(t)
           /\ ~ Occurs(t.sym, phi)
           /\ ~ Occurs(t.sym, q)
           /\ SaidNothingAbout(t.sym, ctx)
  PROVE  m \in Models(phi)
<1> DEFINE H == ctx.hypotheses \cup cases
<1>1. /\ r.assumption \in Formula /\ IsQuantifier(q)
      /\ \A n \in Structure :
           (\A h \in H : n \in Models(h)) /\ n \in Models(r.assumption) => n \in Models(phi)
  BY RecordConcludes DEF Is, IsQuantifier
<1>2. PICK v \in Domain(m) : BodyTrue(q, v, m)
  BY <1>1 DEF QuantifiersHaveTruth
<1>3. CASE ReadsAs(q, r.assumption) = {}
  <2>1. m \in Models(r.assumption)
    BY <1>1, <1>2, <1>3 DEF QuantifiersHaveTruth
  <2> QED BY <1>1, <2>1
<1>4. CASE ReadsAs(q, r.assumption) # {}
  <2>1. PICK t \in ReadsAs(q, r.assumption) : TRUE
    BY <1>4
  <2> DEFINE n == Reinterpreted(m, t.sym, v)
  <2>2. n \in Structure /\ \A h \in H : n \in Models(h)
    BY <2>1, InForceElsewhere
  <2>3. n \in Models(r.assumption)
    BY <1>1, <1>2, <2>1 DEF ConstantsHaveObjects
  <2>4. n \in Models(phi)
    BY <1>1, <2>2, <2>3
  <2> QED BY <2>1, <2>4 DEF ConstantsHaveObjects
<1> QED BY <1>3, <1>4

(* A subproof that a flag opened concluded the body of each object.        *)
LEMMA ArbitraryIsEveryObject ==
  ASSUME ValuesAreTyped, QuantifiersHaveTruth, ConstantsHaveObjects,
         NEW ctx, ctx.hypotheses \in SUBSET Formula,
         NEW cases \in SUBSET CaseFormula, CaseFormula \subseteq Formula,
         NEW m \in Structure, \A h \in ctx.hypotheses \cup cases : m \in Models(h),
         NEW r \in Candidate, IsRecord(r), Holds(r, ctx.hypotheses \cup cases),
         NEW phi \in Formula, Is("forall", phi), BodyMatches(phi, r.conclusion),
         NEW t \in ReadsAs(phi, r.conclusion), Is("const", t),
         r.assumption = Atom(t.sym, <<>>), SaidNothingAbout(t.sym, ctx),
         InNoCase(t), ~ Occurs(t.sym, phi)
  PROVE  m \in Models(phi)
<1> DEFINE H == ctx.hypotheses \cup cases
<1>1. r.conclusion \in Formula /\ IsQuantifier(phi)
  BY RecordConcludes DEF Is, IsQuantifier, QuantifiersHaveTruth
<1>2. \A n \in Structure : (\A h \in H : n \in Models(h)) => n \in Models(r.conclusion)
  BY <1>1, RecordConcludes DEF ConstantsHaveObjects
<1>3. ASSUME NEW v \in Domain(m)
      PROVE  BodyTrue(phi, v, m)
  <2> DEFINE n == Reinterpreted(m, t.sym, v)
  <2>1. n \in Structure /\ \A h \in H : n \in Models(h)
    BY InForceElsewhere
  <2>2. n \in Models(r.conclusion)
    BY <1>2, <2>1
  <2> QED BY <1>1, <2>2 DEF ConstantsHaveObjects
<1> QED BY <1>1, <1>3 DEF QuantifiersHaveTruth

(* A candidate that is a formula is true where what it rests on is.        *)
LEMMA FormulasAreTrueThere ==
  ASSUME ValuesAreTyped, NEW c \in Candidate, ~ IsRecord(c), NEW H, Holds(c, H),
         NEW m \in Structure, \A h \in H : m \in Models(h)
  PROVE  c \in Formula /\ m \in Models(c)
<1>1. ASSUME NEW v \in Value, v \notin Formula
      PROVE  IsRecord(ForRule(v))
  BY <1>1 DEF ForRule, ValuesAreTyped, IsRecord
<1>2. c \in Formula
  <2> SUFFICES ASSUME c \notin Formula
               PROVE  FALSE
    OBVIOUS
  <2>1. PICK v \in Value : c = ForRule(v)
    BY DEF Candidate
  <2>2. v \in Formula
    BY <1>1, <2>1
  <2> QED BY <2>1, <2>2 DEF ForRule, ValuesAreTyped
<1>3. Entails(H, c)
  BY <1>2 DEF Holds, ValuesAreTyped
<1> QED BY <1>2, <1>3, EntailsWherever

(* Instantiation and existential introduction, and detachment from a       *)
(* universal formula, claim what follows in each case; so do existential   *)
(* elimination and universal generalization, when the constants they take  *)
(* for arbitrary are in no case (default_rules, _hypothesis_reasons).      *)
THEOREM QuantifierRulesHoldInEachCase ==
  ASSUME ValuesAreTyped, CaseFormula \subseteq Formula, QuantifiersHaveTruth, ConstantsHaveObjects,
         NEW rule, RuleIsQuantifier(rule)
  PROVE  RuleIsSound(rule)
<1> SUFFICES ASSUME NEW cs \in Seq(Candidate), NEW phi \in Formula,
                    NEW cases \in SUBSET CaseFormula, NEW ctx, ctx.hypotheses \in SUBSET Formula,
                    \A i \in DOMAIN cs : Holds(cs[i], ctx.hypotheses \cup cases),
                    Justifies(rule, cs, phi, ctx)
             PROVE  Entails(ctx.hypotheses \cup cases, phi)
  BY DEF RuleIsSound
<1> SUFFICES ASSUME NEW m \in Structure, \A h \in ctx.hypotheses \cup cases : m \in Models(h)
             PROVE  m \in Models(phi)
  BY EntailsWherever
<1>1. /\ rule \in QuantifierRule /\ AskQuantifier(rule, cs, phi, ctx)
      /\ rule = "ExistentialElimination" =>
           \A i, j \in DOMAIN cs : IsA("exists", cs[i]) /\ IsRecord(cs[j]) =>
             \A t \in ReadsAs(cs[i], cs[j].assumption) : InNoCase(t)
      /\ rule = "UniversalGeneralization" =>
           \A t \in ReadsAs(phi, cs[1].conclusion) : InNoCase(t) /\ ~ Occurs(t.sym, phi)
  BY DEF RuleIsQuantifier
<1>2. \A i \in DOMAIN cs : cs[i] \in Candidate /\ Holds(cs[i], ctx.hypotheses \cup cases)
  <2>1. \A i \in DOMAIN cs : cs[i] \in Candidate
    OBVIOUS
  <2> QED BY <2>1, Zenon
<1>3. \A i \in DOMAIN cs : ~ IsRecord(cs[i]) => cs[i] \in Formula /\ m \in Models(cs[i])
  BY <1>2, FormulasAreTrueThere
<1>4. Len(cs) \in Nat /\ DOMAIN cs = 1 .. Len(cs)
  OBVIOUS
<1>5. CASE rule = "UniversalInstantiation"
  <2>1. UniversalInstantiation(cs, phi) /\ 1 \in DOMAIN cs
    BY <1>1, <1>4, <1>5 DEF AskQuantifier, PremiseArity, OnePremise
  <2>2. cs[1] \in Formula /\ Is("forall", cs[1]) /\ IsQuantifier(cs[1]) /\ m \in Models(cs[1])
    BY <1>3, <2>1 DEF UniversalInstantiation, IsA, Is, IsQuantifier
  <2> QED BY <2>1, <2>2 DEF UniversalInstantiation, QuantifiersHaveTruth
<1>6. CASE rule = "UniversalModusPonens"
  <2>1. PICK i, j \in DOMAIN cs :
          IsA("forall", cs[i]) /\ ~ IsRecord(cs[j]) /\ BodyMatches(cs[i], Implies(cs[j], phi))
    BY <1>1, <1>4, <1>6 DEF AskQuantifier, UniversalModusPonens, InSomeOrder
  <2>2. cs[i] \in Formula /\ Is("forall", cs[i]) /\ IsQuantifier(cs[i]) /\ m \in Models(cs[i])
    BY <1>3, <2>1 DEF IsA, Is, IsQuantifier
  <2>3. cs[j] \in Formula /\ m \in Models(cs[j])
    BY <1>3, <2>1
  <2> QED BY <2>1, <2>2, <2>3 DEF QuantifiersHaveTruth
<1>7. CASE rule = "ExistentialIntroduction"
  <2>1. ExistentialIntroduction(cs, phi) /\ 1 \in DOMAIN cs
    BY <1>1, <1>4, <1>7 DEF AskQuantifier, PremiseArity, OnePremise
  <2>2. cs[1] \in Formula /\ m \in Models(cs[1])
    BY <1>3, <2>1 DEF ExistentialIntroduction
  <2>3. Is("exists", phi) /\ IsQuantifier(phi) /\ BodyMatches(phi, cs[1])
    BY <2>1 DEF ExistentialIntroduction, Is, IsQuantifier
  <2> QED BY <2>2, <2>3 DEF QuantifiersHaveTruth
<1>8. CASE rule = "ExistentialElimination"
  <2>1. PICK i, j \in DOMAIN cs :
          /\ IsA("exists", cs[i]) /\ IsRecord(cs[j]) /\ cs[j].conclusion = phi
          /\ BodyMatches(cs[i], cs[j].assumption)
          /\ \A t \in ReadsAs(cs[i], cs[j].assumption) :
               /\ Is("const", t)
               /\ ~ Occurs(t.sym, phi)
               /\ ~ Occurs(t.sym, cs[i])
               /\ SaidNothingAbout(t.sym, ctx)
    BY <1>1, <1>4, <1>8 DEF AskQuantifier, ExistentialElimination, InSomeOrder
  <2>2. cs[i] \in Formula /\ Is("exists", cs[i]) /\ m \in Models(cs[i])
    BY <1>3, <2>1 DEF IsA
  <2>3. \A t \in ReadsAs(cs[i], cs[j].assumption) : InNoCase(t)
    BY <1>1, <1>8, <2>1
  <2> QED BY <1>2, <2>1, <2>2, <2>3, WitnessIsSomeObject
<1>9. CASE rule = "UniversalGeneralization"
  <2>1. UniversalGeneralization(cs, phi, ctx) /\ 1 \in DOMAIN cs
    BY <1>1, <1>4, <1>9 DEF AskQuantifier, PremiseArity, OnePremise
  <2>2. PICK t \in ReadsAs(phi, cs[1].conclusion) :
          Is("const", t) /\ cs[1].assumption = Atom(t.sym, <<>>) /\ SaidNothingAbout(t.sym, ctx)
    BY <2>1 DEF UniversalGeneralization
  <2>3. InNoCase(t) /\ ~ Occurs(t.sym, phi)
    BY <1>1, <1>9
  <2>4. IsRecord(cs[1]) /\ Is("forall", phi) /\ BodyMatches(phi, cs[1].conclusion)
    BY <2>1 DEF UniversalGeneralization
  <2> QED BY <1>2, <2>1, <2>2, <2>3, <2>4, ArbitraryIsEveryObject
<1> QED BY <1>1, <1>5, <1>6, <1>7, <1>8, <1>9 DEF QuantifierRule

-----------------------------------------------------------------------------
(* So for proofs whose rules are these, or are sound, no generality is     *)
(* lost by WLOG lines, and what Mutatis mutandis lines say follows.        *)
THEOREM StandardProofsLoseNoGenerality ==
  ASSUME ValuesAreTyped, DisjunctionsSplit, EntriesAreTyped, AddsLooksBelow,
         RewritingKeepsEntries, RepeatingKeepsEntries, SameIsTrueAlike,
         FormulasHaveTruth, QuantifiersHaveTruth, ConstantsHaveObjects,
         \A e \in Entry : AsksARule(e) =>
           RuleIsGround(e.rule) \/ RuleIsQuantifier(e.rule) \/ RuleIsSound(e.rule),
         BlocksAreRead, LinesAreEntries
  PROVE  Spec => [](LinesFollow /\ ConclusionFollows)
<1>1. CaseFormula \subseteq Formula
  BY DEF EntriesAreTyped
<1>2. RulesAreSound
  BY <1>1, GroundRulesHoldInEachCase, QuantifierRulesHoldInEachCase DEF RulesAreSound
<1>3. Assumed
  BY <1>2 DEF Assumed
<1>4. Spec => []LinesFollow
  BY <1>3, EveryLineFollows
<1>5. Spec => []ConclusionFollows
  BY <1>3, NoGeneralityIsLost
<1> QED BY <1>4, <1>5, PTL
=============================================================================
