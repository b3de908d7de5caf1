-------------------------- MODULE RepeatedArguments --------------------------
(***************************************************************************)
(* Proofs with WLOG and Mutatis mutandis lines (source/ProofLogic.py).     *)
(* Neither is a rule: after a WLOG line the kernel goes on with the chosen *)
(* case and, at the end of the block, reads the rest of the block again    *)
(* for each other case from the state it had before the line; a Mutatis    *)
(* mutandis line is read as the argument it repeats, rewritten.            *)
(*                                                                         *)
(* ProofValidator has one action for each line at any depth.  Here a line  *)
(* of the proof's top level is an action and what stands below it is read  *)
(* by functions, since the kernel calls itself on entries it has rewritten.*)
(* The kind and arity of symbols, and the rules used, are left to          *)
(* ProofValidator; labels may not be empty.  The recursions over formulas  *)
(* and entries, and the rules, are parameters: those of ReplayRules.       *)
(***************************************************************************)
EXTENDS LabelledLines

CONSTANTS
  Justifies(_, _, _, _),   \* the rule, its candidates, the claim: AskRule
  Stated(_),               \* the names a formula mentions: Mentioned
  IsSentence(_),           \* no variable is free in it: IsClosed
  SaysSame(_, _),          \* the two values say the same: ValueMatches
  CaseChange(_, _),        \* the names two cases differ in: CaseChanges
  StandIn(_, _),           \* what the claim has for the model's: Replacement
  SaidAgain(_, _, _),      \* a line says the value of the others: SaysItAgain
  Reread(_, _, _, _, _),   \* the entry rewritten: Rewritten
  Unread(_),               \* ... with no line to cite: Unresolved
  Adds(_),                 \* it adds a hypothesis: Blocked
  ReadBlock(_, _)          \* a subproof read inside: NestedBlock below

CONSTANTS
  Premise, Declaration, Derivation, Subproof, Case, Repetition,
              \* the entries a proof may consist of, by kind
  Declared,   \* the names declared before the first line
  MaxLines,   \* the number of lines at the top level
  MaxNesting, \* the number of subproofs around a line (bounds the model;
              \* the code has no such limit)
  Structure,  \* the structures in which formulas are true or false
  Models(_)   \* those in which the formula is true

ASSUME BoundAssumption == MaxLines \in Nat /\ MaxNesting \in Nat

VARIABLES walk, status
vars == <<walk, status>>

(* The state of the kernel in one block: the formulas and records derived, *)
(* the labels visible, the names declared; formulas taken for granted,     *)
(* assumptions in force, arbitrary and constrained names.  lines counts    *)
(* the entries read.  case is what a WLOG line leaves behind and rest the  *)
(* entries read after it; derived is the last line justified by a rule.    *)
NoCase == [chosen |-> NoConclusion]

Start ==
  [ok |-> TRUE, seen |-> <<>>, labels |-> <<>>, declared |-> Declared,
   given |-> {}, assumptions |-> {}, arbitrary |-> {}, constrained |-> {},
   depth |-> 0, lines |-> 0, case |-> NoCase, rest |-> <<>>, derived |-> NoConclusion]

Refused(w) == [w EXCEPT !.ok = FALSE]

(* labels.child(), declarations.child(), and an empty seen.                *)
Inside(w) == [w EXCEPT !.seen = <<>>, !.depth = @ + 1, !.lines = 0, !.case = NoCase, !.rest = <<>>]

(* A subproof that ended in state v, read from w: what it took for granted *)
(* and the names its structure mentions stay on the books.  Mutant: they   *)
(* are struck off like its assumption.                                     *)
OffTheBooks(w, v) == [w EXCEPT !.ok = v.ok]
Outside(w, v) == [w EXCEPT !.given = v.given, !.constrained = v.constrained, !.ok = v.ok]
RecordOf(w, v) ==
  [assumption |-> Head(v.seen), conclusion |-> IF IsRecord(Last(v.seen)) THEN NoConclusion ELSE Last(v.seen),
   inner |-> v.seen, outer |-> w.seen]

ForRule(v) == IF IsRecord(v) THEN [v EXCEPT !.outer = ToSet(SelectSeq(@, LAMBDA x : ~ IsRecord(x)))] ELSE v

ContextOf(w) ==
  [hypotheses |-> w.given \cup w.assumptions, arbitrary |-> w.arbitrary, constrained |-> w.constrained]

(* labels[label] = value, and set_source.                                  *)
Label(w, e, value, source) ==
  IF e.label \in Visible(w.labels) THEN Refused(w)
  ELSE [w EXCEPT !.labels = Append(@, [label |-> e.label, value |-> value, source |-> source])]

(* What a line states is derived; one formula stands for itself.           *)
Derived(w, e, fs) ==
  LET value == IF Len(fs) = 1 THEN fs[1] ELSE Bundle(fs)
  IN  Label([w EXCEPT !.seen = @ \o fs], e, value, e)

WellFormed(w, e) ==
  \A f \in ToSet(e.states) : (e.tag # "arbitrary" => Stated(f) \subseteq w.declared) /\ IsSentence(f)

-----------------------------------------------------------------------------
(* _expand_mutatis_mutandis: the entry read in the line's place, if any.   *)
RuleTags == {"rule", "below", "hybrid"}
Skipped  == {"none", "assume", "arbitrary", "premise"}

Expansion(w, e) ==
  LET start == Head(e.refs)
      end   == Last(e.refs)
      model == SourceOf(w.labels, end)
      value == ValueOf(w.labels, end)
      sigma == StandIn(value, e.states[1])
      Again(f) == Reread(f, sigma, sigma, w.labels, "MutatisMutandis")
      InRange(i) == i >= PlaceOf(w.labels, start) /\ i <= PlaceOf(w.labels, end)
      Repeatable ==
        /\ Len(e.refs) \in 1 .. 2
        /\ ToSet(e.refs) \subseteq Visible(w.labels)
        /\ Len(e.refs) = 2 => PlaceOf(w.labels, start) < PlaceOf(w.labels, end)
        /\ model.tag \in RuleTags
        /\ model.rule # "WLOG"
        /\ ~ Adds(model)
      RangeRepeats ==
        /\ SaidAgain(w.labels, sigma, ValueOf(w.labels, start))
        /\ \A i \in DOMAIN w.labels : InRange(i) /\ w.labels[i].source.tag \notin Skipped
             => ~ Unread(Again(w.labels[i].source))
  IN  IF /\ Repeatable
         /\ DOMAIN sigma # {}
         /\ Len(e.refs) = 2 => RangeRepeats
         /\ ~ Unread(Again(model))
      THEN [Again(model) EXCEPT !.label = e.label, !.states = e.states]
      ELSE NoEntry

IsRepetition(e) == e.rule = "MutatisMutandis"

-----------------------------------------------------------------------------
(* Entries.                                                                *)

Combinations(available, n) ==
  {[i \in 1 .. n |-> available[pick[i]]] :
     pick \in {p \in [1 .. n -> DOMAIN available] : \A i, j \in 1 .. n : i < j => p[i] < p[j]}}

(* The candidates that the cited labels offer, one after the other.        *)
Offer(offered, v) == offered \o (IF IsA("bundle", v) THEN v.kids ELSE <<v>>)
Cited(w, refs)    == FoldLeft(Offer, <<>>, [i \in DOMAIN refs |-> ValueOf(w.labels, refs[i])])

DeclareOnly(w, e) ==
  [w EXCEPT !.arbitrary = IF e.about = {} THEN @ \cup e.names ELSE @]

TakenForGranted(w, e) ==
  Derived([w EXCEPT !.given = @ \cup ToSet(e.states)], e, e.states)

(* _validate_assume_or_arbitrary.                                          *)
Opening(w, e) ==
  IF w.depth = 0 \/ w.lines > 0 THEN Refused(w)
  ELSE IF e.tag = "assume"
  THEN Derived([w EXCEPT !.assumptions = @ \cup ToSet(e.states)], e, e.states)
  ELSE Derived([w EXCEPT !.arbitrary = @ \cup {e.states[1].sym}, !.declared = @ \cup {e.states[1].sym}],
               e, e.states)

(* A WLOG line asserts one case of a cited disjunction; a block has one.   *)
FirstCase(w) == w.case = NoCase
CaseLine(w, e) ==
  LET disjunction == ValueOf(w.labels, e.refs[1])
      phi         == e.states[1]
  IN  IF /\ FirstCase(w)
         /\ Len(e.refs) = 1
         /\ e.refs[1] \in Visible(w.labels)
         /\ IsA("or", disjunction)
         /\ Len(disjunction.kids) >= 2
         /\ Cardinality({i \in DOMAIN disjunction.kids : disjunction.kids[i] = phi}) = 1
      THEN [Derived(w, e, e.states) EXCEPT
              !.derived = phi,
              !.case = [chosen |-> phi, label |-> e.label, before |-> w,
                        cases |-> disjunction.kids]]
      ELSE Refused(w)

(* One case read again: the state before the WLOG line with the other case *)
(* in the place of the chosen one.                                         *)
ReplayStart(case, other) ==
  LET w == case.before
  IN  [w EXCEPT !.seen = Append(@, other),
                !.labels = Append(@, [label |-> case.label, value |-> other, source |-> NoEntry])]

(* The books of the replay are added to the proof's.  Mutant: they are     *)
(* dropped with it.                                                        *)
KeepOwnBooks(w, replay) == w
MergeBooks(w, replay) ==
  [w EXCEPT !.given = @ \cup replay.given, !.constrained = @ \cup replay.constrained]

(* Every case must end with the same.  Mutant: the last line of a replay   *)
(* is not looked at.                                                       *)
EndsSomehow(w, replay) == replay.ok
EndsAlike(w, replay)   == replay.ok /\ SaysSame(Last(w.seen), Last(replay.seen))

(* The cases, of which those not chosen are read again.  Mutant: the first *)
(* two alone.                                                              *)
FirstTwo(case) == SubSeq(case.cases, 1, 2)
AllCases(case) == case.cases

(* A line justified by a rule from cited lines and the subproofs below it, *)
(* read one after the other.                                               *)
After(acc, v) ==
  IF acc.w.ok /\ v.ok
  THEN [w |-> Outside(acc.w, v), records |-> Append(acc.records, RecordOf(acc.w, v))]
  ELSE [w |-> Refused(acc.w), records |-> <<>>]

Attached(e) ==
  LET n == PremiseArity(e.rule)
  IN  CASE e.tag = "rule"   -> e.blocks = <<>> /\ Len(e.refs) <= n
        [] e.tag = "below"  -> Len(e.blocks) = 1 /\ e.refs = <<>>
        [] e.tag = "hybrid" -> e.blocks # <<>> /\ Len(e.blocks) + Len(e.refs) = n

Justified(w, e, available) ==
  \E cs \in Combinations(available, PremiseArity(e.rule)) :
    Justifies(e.rule, [i \in DOMAIN cs |-> ForRule(cs[i])], e.states[1], ContextOf(w))

Judged(w, e, below) ==
  IF /\ Attached(e)
     /\ ToSet(e.refs) \subseteq Visible(w.labels)
     /\ below.w.ok
     /\ Justified(below.w, e, Cited(w, e.refs) \o below.records)
  THEN LET after == [below.w EXCEPT !.derived = e.states[1]]
       IN  IF e.tag = "rule" /\ e.names # {} THEN TakenForGranted(after, e) ELSE Derived(after, e, e.states)
  ELSE Refused(w)

ReadBelow(acc, entries) == After(acc, ReadBlock(Inside(acc.w), entries))
RuleLine(w, e) == Judged(w, e, FoldLeft(ReadBelow, [w |-> w, records |-> <<>>], e.blocks))

(* A standalone subproof; no entry is kept for its label.                  *)
ClosedBlock(w, e, v) ==
  LET r == RecordOf(w, v)
  IN  IF v.ok THEN Label([Outside(w, v) EXCEPT !.seen = Append(@, r)], e, r, NoEntry) ELSE Refused(w)
SubproofBlock(w, e) == ClosedBlock(w, e, ReadBlock(Inside(w), e.blocks[1]))

(* _validate_line, after the declarations of the line are made.            *)
Validated(w, e) ==
  LET free     == e.names \cap w.declared = {}
      inferred == IF e.tag = "declare" THEN UNION {Stated(f) : f \in ToSet(e.states)} ELSE {}
      v        == [w EXCEPT !.declared = @ \cup e.names \cup inferred, !.constrained = @ \cup e.about]
  IN  CASE e = NoEntry                          -> Refused(w)
        [] e.tag = "block"                      -> SubproofBlock(w, e)
        [] e.tag # "block" /\ (~ free \/ ~ WellFormed(v, e)) -> Refused(w)
        [] OTHER ->
           CASE e.tag = "declare" /\ e.states = <<>> -> DeclareOnly(v, e)
             [] e.tag = "declare" /\ e.states # <<>> -> TakenForGranted(v, e)
             [] e.tag = "premise"                    -> TakenForGranted(v, e)
             [] e.tag \in {"assume", "arbitrary"}    -> Opening(v, e)
             [] e.tag \in RuleTags                   -> IF e.rule = "WLOG" THEN CaseLine(v, e) ELSE RuleLine(v, e)

(* One entry of a block; entries after a WLOG line are kept as written.    *)
Read(w, e) ==
  LET v == Validated(w, IF IsRepetition(e) THEN Expansion(w, e) ELSE e)
  IN  IF ~ w.ok THEN w
      ELSE [v EXCEPT !.lines = @ + 1, !.rest = IF FirstCase(w) THEN <<>> ELSE Append(@, e)]

(* _validate_wlog_replays, at the end of the block: acc is the block's     *)
(* state, with the books of the cases read so far.                         *)
Replayed(acc, changes, replay) ==
  IF /\ acc.ok
     /\ IsRenaming(changes)
     /\ UNION {{p[1], p[2]} : p \in changes} \subseteq acc.case.before.declared
     /\ EndsAlike(acc, replay)
  THEN MergeBooks(acc, replay)
  ELSE Refused(acc)

ReplayWith(acc, other, changes) ==
  FoldLeft(Read, ReplayStart(acc.case, other),
           [i \in DOMAIN acc.rest |->
              Reread(acc.rest[i], Renaming(changes), Exchange(changes), acc.case.before.labels, "WLOG")])

Replay(acc, other) ==
  LET changes == CaseChange(acc.case.chosen, other)
  IN  IF other = acc.case.chosen THEN acc
      ELSE Replayed(acc, changes, ReplayWith(acc, other, changes))

Settled(w) == IF FirstCase(w) \/ ~ w.ok THEN w ELSE FoldLeft(Replay, w, AllCases(w.case))

(* _validate_block on the entries of a subproof, which ReadBlock stands    *)
(* for.                                                                    *)
NestedBlock(w, entries) ==
  LET opens == w.depth <= MaxNesting /\ entries # <<>> /\ entries[1].tag \in {"assume", "arbitrary"}
  IN  IF opens THEN Settled(FoldLeft(Read, w, entries)) ELSE Refused(w)

-----------------------------------------------------------------------------
(* The proof, line by line.                                                *)

Init == walk = Start /\ status = "reading"

Line(e) ==
  LET next == Read(walk, e)
  IN  /\ status = "reading"
      /\ walk.lines < MaxLines
      /\ e.label \notin Visible(walk.labels)
      /\ walk' = next
      /\ status' = IF next.ok THEN "reading" ELSE "refused"

TakeForGranted == \E e \in Premise     : Line(e)
Declare        == \E e \in Declaration : Line(e)
Derive         == \E e \in Derivation  : Line(e)
Enclose        == \E e \in Subproof    : Line(e)
ChooseCase     == \E e \in Case        : Line(e)
Repeat         == \E e \in Repetition  : Line(e)

(* The end of the proof: the other cases of its WLOG line are read.        *)
Conclude ==
  LET last == Settled(walk)
  IN  /\ status = "reading"
      /\ walk.seen # <<>>
      /\ walk' = last
      /\ status' = IF last.ok THEN "accepted" ELSE "refused"

(* Nothing follows a verdict.                                              *)
Done == status # "reading" /\ UNCHANGED vars

Next ==
  \/ TakeForGranted \/ Declare \/ Derive \/ Enclose \/ ChooseCase \/ Repeat
  \/ Conclude \/ Done

Spec == Init /\ [][Next]_vars

-----------------------------------------------------------------------------
Entails(H, f) ==
  LET granted == {Models(h) : h \in H}
      stated  == Models(f)
  IN  \A m \in Structure : (\A M \in granted : m \in M) => m \in stated

(* Under the case chosen, if one is, every line follows from what the      *)
(* proof has taken for granted: a repeated argument proves what the line   *)
(* says, as if it had been written out.                                    *)
ChosenCase == IF FirstCase(walk) THEN {} ELSE {walk.case.chosen}
LinesFollow ==
  status # "refused" =>
    \A i \in DOMAIN walk.seen :
      ~ IsRecord(walk.seen[i]) => Entails(walk.given \cup ChosenCase, walk.seen[i])

(* What a proof ends with follows from its own hypotheses, whichever case  *)
(* of the disjunction holds: "WLOG" loses no generality.                   *)
ConclusionFollows ==
  status = "accepted" /\ ~ IsRecord(Last(walk.seen)) => Entails(walk.given, Last(walk.seen))

(* "a repeated argument may not add a hypothesis".                         *)
RepeatsAddNoHypothesis == [][Repeat => walk'.given = walk.given]_vars

(* promote_theorem: the conclusion of the theorem, the last line a rule    *)
(* justified, follows from the theorem's premises.                         *)
TheoremFollows ==
  status = "accepted" /\ walk.derived # NoConclusion => Entails(walk.given, walk.derived)
=============================================================================
