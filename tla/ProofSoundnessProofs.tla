------------------------ MODULE ProofSoundnessProofs ------------------------
(***************************************************************************)
(* The walk is sound if its rules are: from RulesAreSound, a statement     *)
(* about one citation, follows Sound, a promise about every line of every  *)
(* proof, for all formulas, rules, structures and bounds.  What the walk   *)
(* contributes is that a rule is asked with candidates that hold under the *)
(* hypotheses of the line, and in a context that fits; and that what a     *)
(* subproof established under its assumption leaves it with that           *)
(* assumption.                                                             *)
(*                                                                         *)
(* The second part discharges RulesAreSound for the rules of GroundRules,  *)
(* QuantifierRules and RelationRules.  A rule that cites formulas is       *)
(* judged in one structure: candidates that hold there make its claim hold *)
(* there.  The two that consume the record of a subproof about a constant  *)
(* are judged also in the structures in which that constant stands for     *)
(* another object.                                                         *)
(***************************************************************************)
EXTENDS RelationTruth, ProofValidatorProofs, GroundVerdicts

-----------------------------------------------------------------------------
(* What follows from less follows from more.                               *)

LEMMA EntailmentGrows ==
  ASSUME NEW C, NEW D, C \subseteq D, NEW G, NEW H, G \subseteq H, NEW f, Entails(C, G, f)
  PROVE  Entails(D, H, f)
BY DEF Entails

LEMMA HypothesesFollow ==
  ASSUME NEW D, NEW H, NEW f \in H
  PROVE  Entails(D, H, f)
BY DEF Entails

LEMMA RecordsHoldOn ==
  ASSUME NEW C, NEW D, C \subseteq D, NEW G, NEW H, G \subseteq H, NEW r, RecordHolds(r, C, G)
  PROVE  RecordHolds(r, D, H)
<1>1. G \cup Assumption(r) \subseteq H \cup Assumption(r)
  OBVIOUS
<1>2. Entails(C, G \cup Assumption(r), r.conclusion) => Entails(D, H \cup Assumption(r), r.conclusion)
  BY <1>1, EntailmentGrows
<1> QED BY <1>2 DEF RecordHolds

LEMMA EstablishedOn ==
  ASSUME NEW C, NEW D, C \subseteq D, NEW G, NEW H, G \subseteq H, NEW c, Established(c, C, G)
  PROVE  Established(c, D, H)
<1>1. Entails(C, G, c) => Entails(D, H, c)
  BY EntailmentGrows
<1>2. RecordHolds(c, C, G) => RecordHolds(c, D, H)
  BY RecordsHoldOn
<1> QED BY <1>1, <1>2 DEF Established

-----------------------------------------------------------------------------
(* The inductive invariant.                                                *)

RecordsOf(b) == (b.seen \ Formula) \cup ToSet(b.pending.records)

(* The block has only lines that follow from D and H, and records of       *)
(* subproofs that do, those it keeps for a line that awaits them included. *)
BlockHolds(b, D, H) ==
  /\ \A f \in b.seen \cap Formula :
       (b.fresh /\ f = b.opener /\ IsFlag(f)) \/ Entails(D, H, f)
  /\ \A r \in RecordsOf(b) : Established(r, D, H)
  /\ b.last \in b.seen \cup {NoFormula}

BlocksHold == \A i \in DOMAIN blocks : BlockHolds(blocks[i], Made, Hypotheses(i))

OpenersAreLines == \A i \in DOMAIN blocks : i > 1 => blocks[i].opener \in blocks[i].seen

(* The name of a flag is an object in the subproof it opens.               *)
FlagIsDeclared(b, table) ==
  b.fresh => /\ b.opener \in FreshLines
             /\ \A c \in Name : b.opener = Flag(c) => c \in DOMAIN table /\ table[c].kind = "object"
FlagsAreDeclared == \A i \in DOMAIN blocks : FlagIsDeclared(blocks[i], declarations[i])

(* A visible declaration stands under its name, and says something only    *)
(* if the proof made it or the theory did.                                 *)
TableIsMade(table, D) ==
  \A n \in DOMAIN table : table[n].name = n /\ (table[n] \in D \/ SaysNothing(table[n]))
VisibleAreMade == \A i \in DOMAIN declarations : TableIsMade(declarations[i], Made)

(* What a line cites is in reach as long as it awaits its subproofs.       *)
CitesReach(b, chain, i) ==
  \A k \in DOMAIN b.pending.cites : \E j \in 1 .. i : b.pending.cites[k] \in DOMAIN chain[j]
CitesStayInReach == \A i \in DOMAIN blocks : CitesReach(blocks[i], labels, i)

(* Nothing was arbitrary before the first line.                            *)
RootIsBare == blocks[1].arbitraryInForce = 0

Grounded ==
  /\ BlocksHold
  /\ OpenersAreLines
  /\ FlagsAreDeclared
  /\ VisibleAreMade
  /\ CitesStayInReach
  /\ RootIsBare

(* What the walk was shown to keep, whatever the rules.                    *)
Kernel ==
  /\ Invariant
  /\ NamesAreUnique
  /\ CitableLinesAreOpen
  /\ SymbolsOK
  /\ BooksBalance
  /\ ArbitraryAreInScope

LEMMA KernelHolds == Spec => []Kernel
<1>1. Init => SymbolsOK
  BY DEF Init, Root, NothingPending, Entry, SymbolsOK, SymbolsAreDeclared, WaitingLinesAreRead
<1>2. /\ Invariant /\ Invariant' /\ NamesAreUnique /\ NamesAreUnique' /\ SymbolsOK /\ [Next]_vars
      => SymbolsOK'
  BY StepsHaveEffects, StepsKeepSymbols DEF Invariant
<1>3. Spec => []SymbolsOK
  BY <1>1, <1>2, InvariantHolds, NamesStayUnique, PTL DEF Spec
<1> QED
  BY <1>3, InvariantHolds, NamesStayUnique, ClosedLinesAreOutOfReach, BooksAlwaysBalance,
     ArbitraryStayInScope, PTL DEF Kernel

-----------------------------------------------------------------------------
(* The hypotheses that a rule is shown are those of the open subproofs.    *)

LEMMA StackIsAround ==
  ASSUME Invariant
  PROVE  ToSet(assumptionStack) = AssumptionsAround(Depth)
<1> DEFINE n == Len(blocks)
<1>1. /\ n \in Nat /\ n > 0 /\ DOMAIN blocks = 1 .. n /\ Depth = n
      /\ Len(assumptionStack) \in Nat /\ DOMAIN assumptionStack = 1 .. Len(assumptionStack)
      /\ \A i \in 1 .. n : blocks[i].assumptionsInForce \in Nat
  BY SequencesAreTyped DEF Invariant, Depth
<1> HIDE DEF n
<1>2. \A i \in 1 .. n : /\ blocks[i].assumptionsInForce <= InForceAfter(i)
                        /\ InForceAfter(i) \in Nat
                        /\ InForceAfter(i) <= Len(assumptionStack)
  <2> SUFFICES ASSUME NEW i \in 1 .. n
               PROVE  /\ blocks[i].assumptionsInForce <= InForceAfter(i)
                      /\ InForceAfter(i) \in Nat
                      /\ InForceAfter(i) <= Len(assumptionStack)
    OBVIOUS
  <2>1. InForceAfter(i) \in {blocks[i].assumptionsInForce, blocks[i].assumptionsInForce + 1}
    BY <1>1 DEF InForceAfter
  <2>2. InForceAfter(i) = IF i = n THEN Len(assumptionStack) ELSE blocks[i + 1].assumptionsInForce
    BY <1>1 DEF Invariant, InForce, AssumptionsAreInForce
  <2>3. i # n => i + 1 \in DOMAIN blocks
    BY <1>1
  <2>4. i # n => blocks[i + 1].assumptionsInForce <= Len(assumptionStack)
    BY <2>3 DEF Invariant, InForce, StacksReachBack
  <2> QED BY <1>1, <2>1, <2>2, <2>4
<1>3. ASSUME NEW j \in 2 .. n, ~ blocks[j].fresh
      PROVE  blocks[j].opener \in ToSet(assumptionStack)
  <2>1. j \in 1 .. n /\ j # 1
    BY <1>1
  <2>2. InForceAfter(j) = blocks[j].assumptionsInForce + 1
    BY <1>3, <2>1 DEF InForceAfter
  <2>3. InForceAfter(j) > blocks[j].assumptionsInForce /\ InForceAfter(j) \in 1 .. Len(assumptionStack)
    BY <1>1, <1>2, <2>1, <2>2
  <2>4. assumptionStack[InForceAfter(j)] = blocks[j].opener
    BY <1>1, <2>1, <2>3 DEF Invariant, InForce, AssumptionsAreInForce
  <2> QED BY <1>1, <2>3, <2>4 DEF ToSet
<1>4. ASSUME NEW k \in 1 .. Len(assumptionStack)
      PROVE  \E j \in 2 .. n : ~ blocks[j].fresh /\ blocks[j].opener = assumptionStack[k]
  <2> DEFINE Beyond == {i \in 1 .. n : k <= InForceAfter(i)}
  <2>1. n \in 1 .. n /\ InForceAfter(n) = Len(assumptionStack)
    BY <1>1 DEF Invariant, InForce, AssumptionsAreInForce
  <2>2. Beyond \in SUBSET Nat /\ n \in Beyond
    BY <1>1, <2>1
  <2>3. PICK i \in Beyond : \A j \in Beyond : i <= j
    <3> HIDE DEF Beyond
    <3> QED BY <2>2, FirstIndex
  <2>4. i \in 1 .. n /\ k <= InForceAfter(i)
    OBVIOUS
  <2>5. i # 1
    <3>1. InForceAfter(1) = blocks[1].assumptionsInForce + 0 /\ blocks[1].assumptionsInForce = 0
      BY DEF InForceAfter, Invariant, InForce, AssumptionsAreInForce
    <3> QED BY <2>4, <3>1
  <2>6. i - 1 \in 1 .. n /\ i - 1 # n /\ ~ i <= i - 1 /\ (i - 1) + 1 = i /\ i \in 2 .. n
    BY <1>1, <2>4, <2>5
  <2>7. InForceAfter(i - 1) = blocks[i].assumptionsInForce
    <3>1. \A m \in 1 .. n : m # n => InForceAfter(m) = blocks[m + 1].assumptionsInForce
      BY <1>1 DEF Invariant, InForce, AssumptionsAreInForce
    <3> QED BY <2>6, <3>1
  <2>8. ~ k <= InForceAfter(i - 1)
    BY <2>3, <2>6
  <2>9. blocks[i].assumptionsInForce < k /\ blocks[i].assumptionsInForce \in Nat
    BY <1>1, <1>2, <2>4, <2>6, <2>7, <2>8
  <2>10. InForceAfter(i) > blocks[i].assumptionsInForce
    BY <1>2, <2>4, <2>9
  <2>11. ~ blocks[i].fresh /\ InForceAfter(i) = blocks[i].assumptionsInForce + 1
    BY <2>5, <2>9, <2>10 DEF InForceAfter
  <2>12. k = InForceAfter(i)
    BY <2>4, <2>9, <2>11
  <2>13. assumptionStack[InForceAfter(i)] = blocks[i].opener
    BY <1>1, <2>4, <2>10 DEF Invariant, InForce, AssumptionsAreInForce
  <2> QED BY <2>6, <2>11, <2>12, <2>13
<1>5. ToSet(assumptionStack) \subseteq AssumptionsAround(n)
  BY <1>1, <1>4 DEF ToSet, AssumptionsAround
<1>6. AssumptionsAround(n) \subseteq ToSet(assumptionStack)
  BY <1>3 DEF AssumptionsAround
<1> QED BY <1>1, <1>5, <1>6

(* A block has the hypotheses of the blocks around it.                     *)
LEMMA HypothesesGrowInwards ==
  ASSUME NEW i \in Nat, NEW j \in Nat, i <= j
  PROVE  Hypotheses(i) \subseteq Hypotheses(j)
<1>1. 2 .. i \subseteq 2 .. j
  OBVIOUS
<1> QED BY <1>1 DEF Hypotheses, AssumptionsAround
-----------------------------------------------------------------------------
(* Sequences of sequences.                                                 *)

(* g[i] is what the first i of the sequences ss are flattened to, up to m. *)
Flattens(g, ss, m) ==
  \A i \in 1 .. m : /\ g[i] = IF i = 1 THEN ss[i] ELSE g[i - 1] \o ss[i]
                    /\ \A k \in DOMAIN g[i] : \E j \in 1 .. i : g[i][k] \in ToSet(ss[j])

(* One more sequence.                                                      *)
LEMMA FlatteningGoesOn ==
  ASSUME NEW S, NEW ss \in Seq(Seq(S)), NEW m \in 1 .. Len(ss), m # 1,
         NEW g \in [1 .. m - 1 -> Seq(S)], Flattens(g, ss, m - 1)
  PROVE  \E h \in [1 .. m -> Seq(S)] : Flattens(h, ss, m)
<1> DEFINE new == g[m - 1] \o ss[m]
           h   == [i \in 1 .. m |-> IF i = m THEN new ELSE g[i]]
<1>1. /\ m \in Nat /\ m - 1 \in 1 .. m - 1 /\ m \in 1 .. m
      /\ \A i \in 1 .. m : i = m \/ i \in 1 .. m - 1
      /\ \A i \in 1 .. m - 1 : i \in 1 .. m /\ i # m /\ (i # 1 => i - 1 \in 1 .. m - 1)
  OBVIOUS
<1>2. g[m - 1] \in Seq(S) /\ ss[m] \in Seq(S)
  BY <1>1
<1>3. new \in Seq(S)
  BY <1>2
<1>4. \A k \in DOMAIN new : \E j \in 1 .. m : new[k] \in ToSet(ss[j])
  <2> DEFINE a == g[m - 1]
             b == ss[m]
  <2> SUFFICES ASSUME NEW k \in DOMAIN new PROVE \E j \in 1 .. m : new[k] \in ToSet(ss[j])
    OBVIOUS
  <2>1. \A k1 \in DOMAIN a : \E j \in 1 .. m - 1 : a[k1] \in ToSet(ss[j])
    BY <1>1 DEF Flattens
  <2>2. \A k1 \in DOMAIN b : b[k1] \in ToSet(b)
    BY DEF ToSet
  <2>3. a \in Seq(S) /\ b \in Seq(S) /\ new = a \o b /\ b = ss[m]
    BY <1>2
  <2> HIDE DEF a, b, new
  <2>4. (k \in DOMAIN a /\ new[k] = a[k]) \/ \E i \in DOMAIN b : new[k] = b[i]
    <3>1. /\ Len(new) = Len(a) + Len(b) /\ DOMAIN new = 1 .. Len(new) /\ DOMAIN a = 1 .. Len(a)
          /\ DOMAIN b = 1 .. Len(b) /\ Len(a) \in Nat /\ Len(b) \in Nat
          /\ \A i \in 1 .. Len(new) : new[i] = IF i <= Len(a) THEN a[i] ELSE b[i - Len(a)]
      BY <2>3
    <3>2. CASE k <= Len(a)
      BY <3>1, <3>2
    <3>3. CASE ~ k <= Len(a)
      <4>1. k - Len(a) \in DOMAIN b /\ new[k] = b[k - Len(a)]
        BY <3>1, <3>3
      <4> QED BY <4>1
    <3> QED BY <3>2, <3>3
  <2> QED BY <1>1, <2>1, <2>2, <2>3, <2>4
<1> HIDE DEF new
<1>5. h \in [1 .. m -> Seq(S)]
  BY <1>1, <1>3
<1>6. h[m] = new /\ \A i \in 1 .. m - 1 : h[i] = g[i]
  BY <1>1
<1> HIDE DEF h
<1>7. \A i \in 1 .. m : h[i] = IF i = 1 THEN ss[i] ELSE h[i - 1] \o ss[i]
  <2>1. h[m] = h[m - 1] \o ss[m]
    BY <1>1, <1>6 DEF new
  <2>2. ASSUME NEW i \in 1 .. m - 1 PROVE h[i] = IF i = 1 THEN ss[i] ELSE h[i - 1] \o ss[i]
    <3>1. g[i] = IF i = 1 THEN ss[i] ELSE g[i - 1] \o ss[i]
      BY DEF Flattens
    <3> QED BY <1>1, <1>6, <3>1
  <2> QED BY <1>1, <2>1, <2>2
<1>8. \A i \in 1 .. m : \A k \in DOMAIN h[i] : \E j \in 1 .. i : h[i][k] \in ToSet(ss[j])
  <2>1. ASSUME NEW i \in 1 .. m - 1, NEW k \in DOMAIN h[i] PROVE \E j \in 1 .. i : h[i][k] \in ToSet(ss[j])
    BY <1>6 DEF Flattens
  <2> QED BY <1>1, <1>4, <1>6, <2>1
<1>9. Flattens(h, ss, m)
  BY <1>7, <1>8 DEF Flattens
<1> QED BY <1>5, <1>9

(* The recursion by which sequences are flattened has a solution up to any *)
(* length.                                                                 *)
LEMMA FlatteningExists ==
  ASSUME NEW S, NEW ss \in Seq(Seq(S)), NEW n \in 1 .. Len(ss)
  PROVE  \E g \in [1 .. n -> Seq(S)] : Flattens(g, ss, n)
<1> DEFINE Unsolved == {m \in 1 .. Len(ss) : ~ \E g \in [1 .. m -> Seq(S)] : Flattens(g, ss, m)}
<1>1. SUFFICES ASSUME Unsolved # {} PROVE FALSE
  OBVIOUS
<1>2. PICK m \in Unsolved : \A k \in Unsolved : m <= k
  <2>1. Unsolved \in SUBSET Nat
    OBVIOUS
  <2> HIDE DEF Unsolved
  <2> QED BY <1>1, <2>1, FirstIndex
<1>3. m \in 1 .. Len(ss) /\ ~ \E g \in [1 .. m -> Seq(S)] : Flattens(g, ss, m)
  OBVIOUS
<1>4. CASE m = 1
  <2> DEFINE g == [i \in 1 .. 1 |-> ss[1]]
  <2>1. g \in [1 .. m -> Seq(S)] /\ g[1] = ss[1]
    BY <1>3, <1>4
  <2>2. \A k \in DOMAIN ss[1] : ss[1][k] \in ToSet(ss[1])
    BY DEF ToSet
  <2> HIDE DEF g
  <2>3. \A i \in 1 .. m : i = 1
    BY <1>4
  <2>4. Flattens(g, ss, m)
    BY <1>4, <2>1, <2>2, <2>3 DEF Flattens
  <2> QED BY <1>3, <2>1, <2>4
<1>5. CASE m # 1
  <2>1. m - 1 \in 1 .. Len(ss) /\ ~ m <= m - 1
    BY <1>3, <1>5
  <2>2. m - 1 \notin Unsolved
    BY <1>2, <2>1
  <2>3. PICK g \in [1 .. m - 1 -> Seq(S)] : Flattens(g, ss, m - 1)
    BY <2>1, <2>2
  <2> QED BY <1>3, <1>5, <2>3, FlatteningGoesOn
<1> QED BY <1>4, <1>5

(* What a sequence of sequences is flattened to has the elements of its    *)
(* parts.                                                                  *)
LEMMA FlattenedParts ==
  ASSUME NEW S, NEW ss \in Seq(Seq(S))
  PROVE  /\ FlattenSeq(ss) \in Seq(S)
         /\ \A k \in DOMAIN FlattenSeq(ss) : \E j \in DOMAIN ss : FlattenSeq(ss)[k] \in ToSet(ss[j])
<1>1. CASE Len(ss) = 0
  BY <1>1 DEF FlattenSeq
<1>2. CASE Len(ss) # 0
  <2> DEFINE n == Len(ss)
  <2>1. n \in 1 .. n /\ DOMAIN ss = 1 .. n
    BY <1>2
  <2> DEFINE Recursion(g) == g = [i \in 1 .. n |-> IF i = 1 THEN ss[i] ELSE g[i - 1] \o ss[i]]
             flatten == CHOOSE g : Recursion(g)
  <2>2. PICK g \in [1 .. n -> Seq(S)] : Flattens(g, ss, n)
    BY <2>1, FlatteningExists
  <2>3. Recursion(g)
    BY <2>2 DEF Flattens
  <2>4. Recursion(flatten)
    BY <2>3
  <2>5. FlattenSeq(ss) = flatten[n]
    BY <1>2 DEF FlattenSeq
  <2> HIDE DEF flatten
  <2>6. \A i \in 1 .. n : flatten[i] = g[i]
    <3> DEFINE Differ == {i \in 1 .. n : flatten[i] # g[i]}
    <3> SUFFICES ASSUME Differ # {} PROVE FALSE
      OBVIOUS
    <3>1. PICK m \in Differ : \A k \in Differ : m <= k
      <4>1. Differ \in SUBSET Nat
        OBVIOUS
      <4> HIDE DEF Differ
      <4> QED BY <4>1, FirstIndex
    <3>2. m \in 1 .. n /\ flatten[m] # g[m]
      OBVIOUS
    <3>3. m # 1 => m - 1 \in 1 .. n /\ ~ m <= m - 1
      BY <3>2
    <3>4. m # 1 => flatten[m - 1] = g[m - 1]
      BY <3>1, <3>3
    <3>5. flatten[m] = IF m = 1 THEN ss[m] ELSE flatten[m - 1] \o ss[m]
      BY <2>4, <3>2
    <3>6. g[m] = IF m = 1 THEN ss[m] ELSE g[m - 1] \o ss[m]
      BY <2>2, <3>2 DEF Flattens
    <3> QED BY <3>2, <3>4, <3>5, <3>6
  <2>7. FlattenSeq(ss) = g[n] /\ g[n] \in Seq(S)
    BY <2>1, <2>5, <2>6
  <2>8. \A k \in DOMAIN g[n] : \E j \in 1 .. n : g[n][k] \in ToSet(ss[j])
    BY <2>1, <2>2 DEF Flattens
  <2> QED BY <2>1, <2>7, <2>8
<1> QED BY <1>1, <1>2

-----------------------------------------------------------------------------
(* What a rule is asked with.                                              *)

(* What labels in reach name are lines of the open blocks.                 *)
LEMMA CitedAreLines ==
  ASSUME TypeOK, NamesAreUnique, CitableLinesAreOpen, NEW cites \in Seq(Label),
         \A k \in DOMAIN cites : IsBound(labels, cites[k])
  PROVE  /\ Candidates(cites) \in Seq(Item)
         /\ \A c \in ToSet(Candidates(cites)) : \E j \in DOMAIN blocks : c \in blocks[j].seen
<1> DEFINE ss == [k \in DOMAIN cites |-> Lookup(labels, cites[k])]
<1>1. /\ labels \in Seq(Tables(Label, Seq(Item))) /\ NoShadowing(labels)
      /\ DOMAIN labels = DOMAIN blocks
  <2>1. labels \in Seq(Tables(Label, Seq(Item))) /\ Len(labels) = Len(blocks) /\ DOMAIN blocks = 1 .. Len(blocks)
    BY ScopesAreTyped
  <2> QED BY <2>1 DEF NamesAreUnique
<1>2. ASSUME NEW k \in DOMAIN cites
      PROVE  /\ Lookup(labels, cites[k]) \in Seq(Item)
             /\ \E j \in DOMAIN blocks : ToSet(Lookup(labels, cites[k])) \subseteq blocks[j].seen
  <2>1. PICK j \in DOMAIN labels : cites[k] \in DOMAIN labels[j]
    BY DEF IsBound
  <2>2. Lookup(labels, cites[k]) = labels[j][cites[k]]
    BY <1>1, <2>1, OnlyMeaning
  <2>3. labels[j][cites[k]] \in Seq(Item)
    BY <1>1, <2>1 DEF Tables
  <2>4. ToSet(labels[j][cites[k]]) \subseteq blocks[j].seen
    BY <2>1 DEF CitableLinesAreOpen
  <2> QED BY <1>1, <2>2, <2>3, <2>4
<1>3. ss \in Seq(Seq(Item)) /\ DOMAIN ss = DOMAIN cites /\ \A k \in DOMAIN cites : ss[k] = Lookup(labels, cites[k])
  BY <1>2
<1>4. Candidates(cites) = FlattenSeq(ss)
  BY DEF Candidates
<1> HIDE DEF ss
<1>5. /\ Candidates(cites) \in Seq(Item)
      /\ \A k \in DOMAIN Candidates(cites) : \E j \in DOMAIN ss : Candidates(cites)[k] \in ToSet(ss[j])
  BY <1>3, <1>4, FlattenedParts
<1>6. ASSUME NEW c \in ToSet(Candidates(cites)) PROVE \E j \in DOMAIN blocks : c \in blocks[j].seen
  <2>1. PICK k \in DOMAIN Candidates(cites) : c = Candidates(cites)[k]
    BY DEF ToSet
  <2>2. PICK j \in DOMAIN cites : c \in ToSet(Lookup(labels, cites[j]))
    BY <1>3, <1>5, <2>1
  <2> QED BY <1>2, <2>2
<1> QED BY <1>5, <1>6

(* itertools.combinations picks among what is available.                   *)
LEMMA CombinationsPick ==
  ASSUME NEW S, NEW available \in Seq(S), NEW n \in Nat, NEW cs \in Combinations(available, n)
  PROVE  cs \in Seq(S) /\ ToSet(cs) \subseteq ToSet(available)
<1>1. PICK d \in [1 .. n -> DOMAIN available] : cs = [k \in 1 .. n |-> available[d[k]]]
  BY DEF Combinations
<1>2. cs \in [1 .. n -> S] /\ DOMAIN cs = 1 .. n /\ \A k \in 1 .. n : cs[k] = available[d[k]]
  BY <1>1
<1>3. cs \in Seq(S)
  BY <1>2
<1>4. ToSet(cs) \subseteq ToSet(available)
  BY <1>2 DEF ToSet
<1> QED BY <1>3, <1>4

(* What is arbitrary came in while some open block was the innermost.      *)
LEMMA ArbitraryHaveBlocks ==
  ASSUME Invariant, RootIsBare, NEW k \in DOMAIN arbitraryNames
  PROVE  \E i \in DOMAIN blocks : k \in ArbitraryOf(i)
<1> DEFINE n == Len(blocks)
           Beyond == {i \in 1 .. n : k <= UpTo(i)}
<1>1. /\ n \in Nat /\ n > 0 /\ DOMAIN blocks = 1 .. n
      /\ Len(arbitraryNames) \in Nat /\ k \in 1 .. Len(arbitraryNames)
      /\ \A i \in 1 .. n : UpTo(i) \in Nat /\ blocks[i].arbitraryInForce \in Nat
      /\ \A i \in 1 .. n : i < n => UpTo(i) = blocks[i + 1].arbitraryInForce
      /\ UpTo(n) = Len(arbitraryNames)
  <2>1. arbitraryNames \in Seq(SUBSET Name)
    BY DEF Invariant, TypeOK
  <2>2. TypeOK /\ StacksReachBack
    BY DEF Invariant, InForce
  <2>3. UpTo(n) = Len(arbitraryNames)
    BY DEF UpTo
  <2>4. DOMAIN arbitraryNames = 1 .. Len(arbitraryNames)
    BY <2>1
  <2> QED BY <2>2, <2>3, <2>4, StacksAreOrdered
<1>2. Beyond \in SUBSET Nat /\ n \in Beyond
  BY <1>1
<1>3. PICK i \in Beyond : \A j \in Beyond : i <= j
  <2> HIDE DEF Beyond
  <2> QED BY <1>2, FirstIndex
<1>4. i \in 1 .. n /\ k <= UpTo(i)
  OBVIOUS
<1>5. blocks[i].arbitraryInForce < k
  <2>1. CASE i = 1
    BY <1>1, <2>1 DEF RootIsBare
  <2>2. CASE i # 1
    <3>1. i - 1 \in 1 .. n /\ ~ i <= i - 1 /\ i - 1 < n /\ (i - 1) + 1 = i
      BY <1>1, <1>4, <2>2
    <3>2. ~ k <= UpTo(i - 1)
      BY <1>3, <3>1
    <3>3. UpTo(i - 1) = blocks[i].arbitraryInForce
      <4>1. \A m \in 1 .. n : m < n => UpTo(m) = blocks[m + 1].arbitraryInForce
        BY <1>1
      <4> QED BY <3>1, <4>1
    <3> QED BY <1>1, <1>4, <3>2, <3>3
  <2> QED BY <2>1, <2>2
<1>6. k \in blocks[i].arbitraryInForce + 1 .. UpTo(i)
  BY <1>1, <1>4, <1>5
<1> QED BY <1>1, <1>4, <1>6 DEF ArbitraryOf

(* The context of a line fits what the proof declared.                     *)
LEMMA ContextIsFit ==
  ASSUME Kernel, Grounded
  PROVE  Context \in RuleContext /\ ContextFits(Context, Made) /\ Made \in SUBSET Declaration
<1>1. /\ declarations \in Seq(Tables(Name, Declaration)) /\ DOMAIN declarations = DOMAIN blocks
      /\ DOMAIN blocks = 1 .. Len(blocks) /\ Len(blocks) \in Nat /\ Len(blocks) > 0
  <2>1. TypeOK
    BY DEF Kernel, Invariant
  <2> QED BY <2>1, ScopesAreTyped
<1>2. /\ givenLines \subseteq Formula /\ constrainedNames \subseteq Name /\ ownDeclarations \subseteq Declaration
      /\ assumptionStack \in Seq(Formula) /\ arbitraryNames \in Seq(SUBSET Name)
  BY DEF Kernel, Invariant, TypeOK
<1>3. \A i \in DOMAIN blocks : DOMAIN declarations[i] \subseteq Name
                               /\ \A n \in DOMAIN declarations[i] : declarations[i][n] \in Declaration
  BY <1>1 DEF Tables
<1>4. VisibleDeclarations \subseteq Declaration
  BY <1>1, <1>3 DEF VisibleDeclarations
<1>5. ToSet(assumptionStack) \subseteq Formula /\ UNION ToSet(arbitraryNames) \subseteq Name
  BY <1>2 DEF ToSet
<1>6. Context \in RuleContext
  BY <1>2, <1>4, <1>5 DEF Context, ContextIn, RuleContext
<1>7. Made \in SUBSET Declaration
  BY <1>2, DeclarationAssumption DEF Made
<1>8. constrainedNames = Refers(Made)
  BY DEF Kernel, BooksBalance, Made
<1>9. ASSUME NEW k \in DOMAIN arbitraryNames, NEW c \in arbitraryNames[k]
      PROVE  \E d \in VisibleDeclarations : d.name = c /\ d.kind = "object" /\ SaysNothing(d)
  <2>1. PICK i \in DOMAIN blocks : k \in ArbitraryOf(i)
    BY ArbitraryHaveBlocks DEF Kernel, Grounded
  <2>2. PlainIn(declarations[i], c)
    BY <2>1, ScopeOfArbitrary DEF Kernel
  <2>3. TableIsMade(declarations[i], Made)
    BY <1>1 DEF Grounded, VisibleAreMade
  <2>4. declarations[i][c] \in VisibleDeclarations
    BY <1>1, <2>2 DEF VisibleDeclarations, PlainIn
  <2> QED BY <2>2, <2>3, <2>4 DEF PlainIn, Plain, TableIsMade, SaysNothing
<1>10. \A c \in UNION ToSet(arbitraryNames) :
         \E d \in VisibleDeclarations : d.name = c /\ d.kind = "object" /\ SaysNothing(d)
  BY <1>9 DEF ToSet
<1>11. \A d \in VisibleDeclarations : d \in Made \/ SaysNothing(d)
  BY DEF VisibleDeclarations, Grounded, VisibleAreMade, TableIsMade
<1>12. ASSUME NEW d \in VisibleDeclarations, NEW e \in VisibleDeclarations, d.name = e.name
       PROVE  d = e
  <2>1. /\ \A i \in DOMAIN declarations : \A n \in DOMAIN declarations[i] : declarations[i][n].name = n
        /\ NoShadowing(declarations)
    BY <1>1 DEF Grounded, VisibleAreMade, TableIsMade, Kernel, NamesAreUnique
  <2>2. PICK i \in DOMAIN declarations : \E n \in DOMAIN declarations[i] : d = declarations[i][n]
    BY DEF VisibleDeclarations
  <2>3. PICK j \in DOMAIN declarations : \E n \in DOMAIN declarations[j] : e = declarations[j][n]
    BY DEF VisibleDeclarations
  <2>4. d = declarations[i][d.name] /\ e = declarations[j][d.name]
        /\ d.name \in DOMAIN declarations[i] /\ d.name \in DOMAIN declarations[j]
    BY <1>12, <2>1, <2>2, <2>3
  <2>5. i = j
    BY <2>1, <2>4 DEF NoShadowing
  <2> QED BY <2>4, <2>5
<1>13. ContextFits(Context, Made)
  BY <1>8, <1>10, <1>11, <1>12 DEF Context, ContextIn, ContextFits
<1> QED BY <1>6, <1>7, <1>13

(* The lines that opened the "Fresh Variable" subproofs around.            *)
OpenFlags == {blocks[j].opener : j \in {k \in DOMAIN blocks : blocks[k].fresh}}

(* What is read in the current scope uses their names as objects.          *)
LEMMA FlagsAreObjects ==
  ASSUME Kernel, Grounded, NEW f \in Formula, SymbolErrors(declarations, f) = {}
  PROVE  FlagsAreObjectsIn(f, OpenFlags)
<1> SUFFICES ASSUME NEW u \in Uses(f), Flag(u.name) \in OpenFlags PROVE u.as = "object"
  BY DEF FlagsAreObjectsIn
<1>1. PICK j \in DOMAIN blocks : blocks[j].fresh /\ blocks[j].opener = Flag(u.name)
  BY DEF OpenFlags
<1>2. u.name \in Name /\ u.as \in {"object", "function", "predicate", "proposition"}
  BY FormulaAssumption
<1>3. u.name \in DOMAIN declarations[j] /\ declarations[j][u.name].kind = "object"
  BY <1>1, <1>2 DEF Grounded, FlagsAreDeclared, FlagIsDeclared
<1>4. declarations \in Seq(Tables(Name, Declaration)) /\ NoShadowing(declarations)
      /\ DOMAIN declarations = DOMAIN blocks
  <2>1. TypeOK /\ NoShadowing(declarations)
    BY DEF Kernel, Invariant, NamesAreUnique
  <2>2. /\ declarations \in Seq(Tables(Name, Declaration)) /\ Len(declarations) = Len(blocks)
        /\ DOMAIN blocks = 1 .. Len(blocks)
    BY <2>1, ScopesAreTyped
  <2> QED BY <2>1, <2>2
<1>5. IsBound(declarations, u.name) /\ Lookup(declarations, u.name) = declarations[j][u.name]
  BY <1>3, <1>4, OnlyMeaning
<1>6. UseErrors(declarations, u) = {}
  BY DEF SymbolErrors
<1>7. "object" \in KindsFor(u.as)
  BY <1>3, <1>5, <1>6, NothingFound DEF UseErrors, Check
<1> QED BY <1>2, <1>7 DEF KindsFor

(* A formula of an open block is read in the current scope.                *)
LEMMA ReadInwards ==
  ASSUME Kernel, NEW j \in DOMAIN blocks, NEW f, SymbolErrors(Outward(j), f) = {}
  PROVE  SymbolErrors(declarations, f) = {}
<1>1. /\ declarations \in Seq(Tables(Name, Declaration)) /\ NoShadowing(declarations)
      /\ j \in 1 .. Len(declarations) /\ DOMAIN declarations = 1 .. Len(declarations)
      /\ Len(declarations) \in Nat
  <2>1. TypeOK /\ NoShadowing(declarations)
    BY DEF Kernel, Invariant, NamesAreUnique
  <2>2. /\ declarations \in Seq(Tables(Name, Declaration)) /\ Len(declarations) = Len(blocks)
        /\ DOMAIN blocks = 1 .. Len(blocks)
    BY <2>1, ScopesAreTyped
  <2> QED BY <2>1, <2>2
<1>2. /\ Outward(j) \in Seq(Tables(Name, Declaration)) /\ DOMAIN Outward(j) = 1 .. j
      /\ \A i \in 1 .. j : Outward(j)[i] = declarations[i]
      /\ NoShadowing(Outward(j))
  BY <1>1, Beginnings DEF Outward
<1>3. \A i \in 1 .. j : i \in DOMAIN declarations
  BY <1>1
<1>4. \A i \in DOMAIN Outward(j) : \A k \in DOMAIN Outward(j)[i] :
        \E m \in DOMAIN declarations : k \in DOMAIN declarations[m] /\ declarations[m][k] = Outward(j)[i][k]
  BY <1>2, <1>3
<1> QED BY <1>1, <1>2, <1>4, ReadingIsInherited

(* A line that a rule was asked about follows from what the line may rest  *)
(* on, if the rule was shown lines of the open blocks and the records that *)
(* the line awaited.                                                       *)
LEMMA RuleYieldsTruth ==
  ASSUME Kernel, Grounded, RulesAreSound,
         NEW rule \in Registered, NEW cs \in Seq(Item), NEW phi \in Formula,
         \A c \in ToSet(cs) : \/ \E j \in DOMAIN blocks : c \in blocks[j].seen
                              \/ c \in ToSet(Top.pending.records),
         SymbolErrors(declarations, phi) = {},
         Justifies(rule, cs, phi, Context)
  PROVE  Entails(Made, Hypotheses(Depth), phi)
<1>1. /\ TypeOK /\ DOMAIN blocks = 1 .. Depth /\ Depth \in DOMAIN blocks /\ Depth \in Nat
      /\ \A j \in DOMAIN blocks : j \in Nat /\ j <= Depth
      /\ blocks \in Seq(Block)
  <2>1. TypeOK
    BY DEF Kernel, Invariant
  <2> QED BY <2>1, ScopesAreTyped
<1>2. Context.hypotheses = Hypotheses(Depth)
  BY StackIsAround DEF Kernel, Context, ContextIn, Hypotheses
<1>3. \A j \in DOMAIN blocks : Hypotheses(j) \subseteq Hypotheses(Depth)
  BY <1>1, HypothesesGrowInwards
<1>4. OpenFlags \in SUBSET FreshLines
  BY DEF OpenFlags, Grounded, FlagsAreDeclared, FlagIsDeclared
<1>5. \A r \in ToSet(Top.pending.records) : r \notin Formula
  <2>1. blocks[Depth] \in Block
    BY <1>1
  <2>2. blocks[Depth].pending.records \in Seq(SubproofRecord)
    BY <2>1 DEF Block, Pending
  <2>3. Top.pending.records \in Seq(SubproofRecord)
    BY <2>2 DEF Top
  <2> QED BY <2>3, RecordAssumption DEF ToSet
<1>6. ASSUME NEW c \in ToSet(cs)
      PROVE  c \in OpenFlags \/ Established(c, Made, Context.hypotheses)
  <2>1. ASSUME NEW j \in DOMAIN blocks, c \in RecordsOf(blocks[j]), c \notin Formula
        PROVE  Established(c, Made, Hypotheses(Depth))
    <3>1. Established(c, Made, Hypotheses(j))
      BY <2>1 DEF Grounded, BlocksHold, BlockHolds
    <3> QED BY <1>3, <3>1, EstablishedOn
  <2>2. ASSUME NEW j \in DOMAIN blocks, c \in blocks[j].seen, c \in Formula
        PROVE  c \in OpenFlags \/ Established(c, Made, Hypotheses(Depth))
    <3>1. (blocks[j].fresh /\ c = blocks[j].opener) \/ Entails(Made, Hypotheses(j), c)
      BY <2>2 DEF Grounded, BlocksHold, BlockHolds
    <3>2. Entails(Made, Hypotheses(j), c) => Established(c, Made, Hypotheses(j))
      BY <2>2 DEF Established
    <3> QED BY <1>3, <3>1, <3>2, EstablishedOn DEF OpenFlags
  <2>3. \A j \in DOMAIN blocks : c \in blocks[j].seen /\ c \notin Formula => c \in RecordsOf(blocks[j])
    BY DEF RecordsOf
  <2>4. c \in ToSet(Top.pending.records) => c \in RecordsOf(blocks[Depth])
    BY DEF RecordsOf, Top
  <2> QED BY <1>1, <1>2, <1>5, <2>1, <2>2, <2>3, <2>4
<1>7. ASSUME NEW f \in {phi} \cup ((ToSet(cs) \cap Formula) \ OpenFlags)
      PROVE  FlagsAreObjectsIn(f, OpenFlags)
  <2>1. CASE f = phi
    BY <2>1, FlagsAreObjects
  <2>2. CASE f \in (ToSet(cs) \cap Formula) \ OpenFlags
    <3>1. PICK j \in DOMAIN blocks : f \in blocks[j].seen
      BY <1>5, <2>2
    <3>2. ~ (blocks[j].fresh /\ f = blocks[j].opener)
      BY <2>2 DEF OpenFlags
    <3>3. SymbolErrors(Outward(j), f) = {}
      BY <2>2, <3>1, <3>2 DEF Kernel, SymbolsOK, SymbolsAreDeclared, Outward
    <3> QED BY <2>2, <3>3, ReadInwards, FlagsAreObjects
  <2> QED BY <2>1, <2>2
<1>8. Context \in RuleContext /\ ContextFits(Context, Made) /\ Made \in SUBSET Declaration
  BY ContextIsFit
<1>9. Entails(Made, Context.hypotheses, phi)
  BY <1>4, <1>6, <1>7, <1>8 DEF RulesAreSound, RuleIsSound
<1> QED BY <1>2, <1>9

-----------------------------------------------------------------------------
(* What a step may do, for the promise to go on.                           *)

(* What the proof has taken for granted or declared stays so.              *)
Grown == Made \subseteq Made' /\ givenLines \subseteq givenLines'

(* What a step makes of a block that stays open.                           *)
GoesOn(i) ==
  /\ blocks'[i].opener = blocks[i].opener
  /\ blocks'[i].fresh = blocks[i].fresh
  /\ blocks'[i].arbitraryInForce = blocks[i].arbitraryInForce
  /\ \A f \in blocks'[i].seen \cap Formula :
       f \in blocks[i].seen \cup givenLines' \/ Entails(Made, Hypotheses(i), f)
  /\ \A r \in RecordsOf(blocks'[i]) :
       r \in RecordsOf(blocks[i]) \/ Established(r, Made, Hypotheses(i))
  /\ blocks'[i].last \in blocks'[i].seen \cup {NoFormula}
  /\ \/ blocks'[i].pending.cites = blocks[i].pending.cites
     \/ CitesReach(blocks'[i], labels', i)

(* A block as a step opens it.                                             *)
Opened(b, table) ==
  /\ b.opener \in Formula
  /\ b.seen = {b.opener}
  /\ b.last = b.opener
  /\ b.pending = NothingPending
  /\ FlagIsDeclared(b, table)

Moves ==
  /\ \A i \in DOMAIN blocks \cap DOMAIN blocks' : GoesOn(i)
  /\ \A i \in DOMAIN blocks' \ DOMAIN blocks : Opened(blocks'[i], declarations'[i])

(* No step forgets what it rests on.                                       *)
LEMMA StepsGrow ==
  ASSUME Grants, Registers
  PROVE  Grown
<1>1. givenLines \subseteq givenLines'
  BY DEF Grants, granted, TakeForGranted
<1>2. ownDeclarations \subseteq ownDeclarations'
  BY DEF Registers, Register
<1> QED BY <1>1, <1>2 DEF Grown, Made

(* The assumptions around a block are those it opened under.               *)
LEMMA AroundStays ==
  ASSUME TypeOK, TypeOK', Moves, NEW i \in DOMAIN blocks \cap DOMAIN blocks'
  PROVE  AssumptionsAround(i)' = AssumptionsAround(i)
<1>1. \A k \in 2 .. i : k \in DOMAIN blocks \cap DOMAIN blocks'
  <2>1. DOMAIN blocks = 1 .. Len(blocks) /\ Len(blocks) \in Nat
    BY ScopesAreTyped
  <2>2. DOMAIN blocks' = 1 .. Len(blocks') /\ Len(blocks') \in Nat
    BY DEF TypeOK
  <2> QED BY <2>1, <2>2
<1>2. \A k \in 2 .. i : blocks'[k].opener = blocks[k].opener /\ blocks'[k].fresh = blocks[k].fresh
  BY <1>1 DEF Moves, GoesOn
<1>3. {blocks'[j].opener : j \in {k \in 2 .. i : ~ blocks'[k].fresh}}
      = {blocks[j].opener : j \in {k \in 2 .. i : ~ blocks[k].fresh}}
  BY <1>2
<1> QED BY <1>3 DEF AssumptionsAround

LEMMA HypothesesStay ==
  ASSUME TypeOK, TypeOK', Moves, Grown, NEW i \in DOMAIN blocks \cap DOMAIN blocks'
  PROVE  Hypotheses(i) \subseteq Hypotheses(i)'
BY AroundStays DEF Hypotheses, Grown

(* A block that stays open goes on to hold.                                *)
LEMMA BlockHoldsOn ==
  ASSUME TypeOK, TypeOK', Moves, Grown, BlocksHold, NEW i \in DOMAIN blocks \cap DOMAIN blocks'
  PROVE  BlockHolds(blocks'[i], Made', Hypotheses(i)')
<1> DEFINE b == blocks[i]
           e == blocks'[i]
           H == Hypotheses(i)'
           D == Made'
<1>1. Hypotheses(i) \subseteq H /\ Made \subseteq D /\ givenLines' \subseteq H
  <2>1. Hypotheses(i) \subseteq H /\ Made \subseteq D
    BY HypothesesStay DEF Grown
  <2>2. givenLines' \subseteq H
    BY DEF Hypotheses
  <2> QED BY <2>1, <2>2
<1>2. BlockHolds(b, Made, Hypotheses(i)) /\ GoesOn(i)
  BY DEF BlocksHold, Moves
<1> HIDE DEF H, D
<1>3. ASSUME NEW f \in e.seen \cap Formula
      PROVE  (e.fresh /\ f = e.opener /\ IsFlag(f)) \/ Entails(D, H, f)
  <2>1. CASE f \in givenLines'
    BY <1>1, <2>1, HypothesesFollow
  <2>2. CASE Entails(Made, Hypotheses(i), f)
    BY <1>1, <2>2, EntailmentGrows
  <2>3. CASE f \in b.seen
    BY <1>2, <2>2, <2>3 DEF BlockHolds, GoesOn
  <2> QED BY <1>2, <2>1, <2>2, <2>3 DEF GoesOn
<1>4. ASSUME NEW r \in RecordsOf(e) PROVE Established(r, D, H)
  <2>1. Established(r, Made, Hypotheses(i))
    BY <1>2 DEF GoesOn, BlockHolds
  <2> QED BY <1>1, <2>1, EstablishedOn
<1>5. e.last \in e.seen \cup {NoFormula}
  BY <1>2 DEF GoesOn
<1>6. BlockHolds(e, D, H)
  BY <1>3, <1>4, <1>5 DEF BlockHolds
<1> QED BY <1>6 DEF H, D

(* A block holds as it opens: its first line is a flag, or an assumption.  *)
LEMMA OpenedBlockHolds ==
  ASSUME TypeOK, TypeOK', FreshLinesAreFlags, NEW i \in DOMAIN blocks' \ DOMAIN blocks,
         Opened(blocks'[i], declarations'[i])
  PROVE  BlockHolds(blocks'[i], Made', Hypotheses(i)')
<1> DEFINE e == blocks'[i]
           H == Hypotheses(i)'
           D == Made'
<1>1. i \in 2 .. i
  <2>1. DOMAIN blocks = 1 .. Len(blocks) /\ Len(blocks) \in Nat /\ Len(blocks) > 0
    BY ScopesAreTyped
  <2>2. DOMAIN blocks' = 1 .. Len(blocks') /\ Len(blocks') \in Nat
    BY DEF TypeOK
  <2> QED BY <2>1, <2>2
<1>2. e.fresh \/ e.opener \in H
  BY <1>1 DEF Hypotheses, AssumptionsAround
<1>3. e.fresh => IsFlag(e.opener)
  BY DEF Opened, FlagIsDeclared, FreshLinesAreFlags
<1>4. RecordsOf(e) = {}
  BY DEF RecordsOf, Opened, NothingPending, Entry, ToSet
<1>5. e.seen = {e.opener} /\ e.last = e.opener
  BY DEF Opened
<1> HIDE DEF e, H, D
<1>6. BlockHolds(e, D, H)
  BY <1>2, <1>3, <1>4, <1>5, HypothesesFollow DEF BlockHolds
<1> QED BY <1>6 DEF e, H, D

(* So a step that moves in these ways keeps what is grounded in the blocks.*)
LEMMA MovesStayGrounded ==
  ASSUME TypeOK, TypeOK', Grounded, Grown, LinesStay, FreshLinesAreFlags, Moves
  PROVE  BlocksHold' /\ OpenersAreLines' /\ FlagsAreDeclared' /\ CitesStayInReach' /\ RootIsBare'
<1>1. /\ DOMAIN blocks = 1 .. Len(blocks) /\ Len(blocks) \in Nat /\ Len(blocks) > 0
      /\ DOMAIN blocks' = 1 .. Len(blocks') /\ Len(blocks') \in Nat /\ Len(blocks') > 0
  <2>1. DOMAIN blocks = 1 .. Len(blocks) /\ Len(blocks) \in Nat /\ Len(blocks) > 0
    BY ScopesAreTyped
  <2>2. DOMAIN blocks' = 1 .. Len(blocks') /\ Len(blocks') \in Nat /\ Len(blocks') > 0
    BY BoundAssumption DEF TypeOK
  <2> QED BY <2>1, <2>2
<1>2. \A i \in DOMAIN blocks' : \/ i \in DOMAIN blocks \cap DOMAIN blocks' /\ GoesOn(i)
                                \/ /\ i \in DOMAIN blocks' \ DOMAIN blocks
                                   /\ Opened(blocks'[i], declarations'[i])
  BY DEF Moves
<1>3. BlocksHold'
  <2>1. \A i \in DOMAIN blocks' : BlockHolds(blocks'[i], Made', Hypotheses(i)')
    BY <1>2, BlockHoldsOn, OpenedBlockHolds DEF Grounded
  <2> QED BY <2>1 DEF BlocksHold
<1>4. OpenersAreLines'
  <2>1. \A i \in DOMAIN blocks' : i > 1 => blocks'[i].opener \in blocks'[i].seen
    BY <1>2 DEF Grounded, OpenersAreLines, GoesOn, Opened, LinesStay
  <2> QED BY <2>1 DEF OpenersAreLines
<1>5. FlagsAreDeclared'
  <2>1. ASSUME NEW i \in DOMAIN blocks \cap DOMAIN blocks', GoesOn(i)
        PROVE  FlagIsDeclared(blocks'[i], declarations'[i])
    <3>1. FlagIsDeclared(blocks[i], declarations[i]) /\ Kept(declarations[i], declarations'[i])
      BY DEF Grounded, FlagsAreDeclared, LinesStay
    <3>2. blocks'[i].opener = blocks[i].opener /\ blocks'[i].fresh = blocks[i].fresh
      BY <2>1 DEF GoesOn
    <3> QED BY <3>1, <3>2 DEF FlagIsDeclared, Kept
  <2>2. \A i \in DOMAIN blocks' : FlagIsDeclared(blocks'[i], declarations'[i])
    BY <1>2, <2>1 DEF Opened
  <2> QED BY <2>2 DEF FlagsAreDeclared
<1>6. CitesStayInReach'
  <2>1. ASSUME NEW i \in DOMAIN blocks \cap DOMAIN blocks', GoesOn(i)
        PROVE  CitesReach(blocks'[i], labels', i)
    <3>1. \A j \in 1 .. i : j \in DOMAIN blocks \cap DOMAIN blocks'
      BY <1>1
    <3>2. \A j \in 1 .. i : DOMAIN labels[j] \subseteq DOMAIN labels'[j]
      BY <3>1 DEF LinesStay, Kept
    <3>3. CitesReach(blocks[i], labels, i)
      BY DEF Grounded, CitesStayInReach
    <3> QED BY <2>1, <3>2, <3>3 DEF CitesReach, GoesOn
  <2>2. \A b, table, chain, i : Opened(b, table) => CitesReach(b, chain, i)
    BY DEF Opened, NothingPending, Entry, CitesReach
  <2>3. \A i \in DOMAIN blocks' : CitesReach(blocks'[i], labels', i)
    BY <1>2, <2>1, <2>2
  <2> QED BY <2>3 DEF CitesStayInReach
<1>7. RootIsBare'
  BY <1>1, <1>2 DEF Grounded, RootIsBare, GoesOn
<1> QED BY <1>3, <1>4, <1>5, <1>6, <1>7

(* Nothing moves.                                                          *)
LEMMA RestingMoves ==
  ASSUME TypeOK, BlocksHold, UNCHANGED blocks
  PROVE  Moves
<1>1. \A i \in DOMAIN blocks : blocks[i].last \in blocks[i].seen \cup {NoFormula}
  BY DEF BlocksHold, BlockHolds
<1>2. DOMAIN blocks' \ DOMAIN blocks = {}
  OBVIOUS
<1> QED BY <1>1, <1>2 DEF Moves, GoesOn

(* A block that a step leaves alone goes on.                               *)
LEMMA UntouchedGoesOn ==
  ASSUME BlocksHold, NEW i \in DOMAIN blocks, Same(blocks'[i], blocks[i]),
         blocks'[i].arbitraryInForce = blocks[i].arbitraryInForce
  PROVE  GoesOn(i)
<1>1. blocks[i].last \in blocks[i].seen \cup {NoFormula}
  BY DEF BlocksHold, BlockHolds
<1>2. RecordsOf(blocks'[i]) = RecordsOf(blocks[i])
  BY DEF Same, RecordsOf
<1> QED BY <1>1, <1>2 DEF Same, GoesOn

(* A line is stated that was taken for granted or follows.                 *)
LEMMA StatingMoves ==
  ASSUME TypeOK, BlocksHold, NEW l, NEW fs \in Seq(Formula), fs # <<>>, Derive(l, fs),
         \A f \in ToSet(fs) : f \in givenLines' \/ Entails(Made, Hypotheses(Depth), f)
  PROVE  Moves
<1>1. /\ DOMAIN blocks' = DOMAIN blocks
      /\ \A i \in DOMAIN blocks : i # Depth => Same(blocks'[i], blocks[i])
      /\ blocks'[Depth].seen = blocks[Depth].seen \cup ToSet(fs)
      /\ blocks'[Depth].opener = blocks[Depth].opener
      /\ blocks'[Depth].fresh = blocks[Depth].fresh
      /\ blocks'[Depth].last = fs[Len(fs)]
      /\ blocks'[Depth].pending = NothingPending
  BY DerivingAdds
<1>2. \A i \in DOMAIN blocks : blocks'[i].arbitraryInForce = blocks[i].arbitraryInForce
  BY LinesKeepFrames DEF SameFrames
<1>3. ToSet(fs) \subseteq Formula /\ fs[Len(fs)] \in ToSet(fs)
  <2>1. Len(fs) \in DOMAIN fs
    OBVIOUS
  <2> QED BY <2>1 DEF ToSet
<1>4. RecordsOf(blocks'[Depth]) \subseteq RecordsOf(blocks[Depth])
  BY <1>1, <1>3 DEF RecordsOf, NothingPending, Entry, ToSet
<1>5. CitesReach(blocks'[Depth], labels', Depth)
  BY <1>1 DEF CitesReach, NothingPending, Entry
<1>6. Depth \in DOMAIN blocks => GoesOn(Depth)
  BY <1>1, <1>2, <1>3, <1>4, <1>5 DEF GoesOn
<1>7. \A i \in DOMAIN blocks : GoesOn(i)
  BY <1>1, <1>2, <1>6, UntouchedGoesOn
<1> QED BY <1>1, <1>7 DEF Moves

(* A line waits for its subproofs.                                         *)
LEMMA WaitingMoves ==
  ASSUME TypeOK, BlocksHold, NEW entry, Await(entry), entry.records = <<>>,
         \A k \in DOMAIN entry.cites : IsBound(labels, entry.cites[k])
  PROVE  Moves
<1>1. /\ DOMAIN blocks' = DOMAIN blocks
      /\ \A i \in DOMAIN blocks : i # Depth => Same(blocks'[i], blocks[i])
      /\ blocks'[Depth].seen = blocks[Depth].seen
      /\ blocks'[Depth].opener = blocks[Depth].opener
      /\ blocks'[Depth].fresh = blocks[Depth].fresh
      /\ blocks'[Depth].last = blocks[Depth].last
      /\ blocks'[Depth].pending = entry
  BY AwaitingMarks
<1>2. \A i \in DOMAIN blocks : blocks'[i].arbitraryInForce = blocks[i].arbitraryInForce
  BY LinesKeepFrames DEF SameFrames
<1>3. RecordsOf(blocks'[Depth]) \subseteq RecordsOf(blocks[Depth])
  BY <1>1 DEF RecordsOf, ToSet
<1>4. CitesReach(blocks'[Depth], labels', Depth)
  <2>1. labels' = labels /\ DOMAIN labels = 1 .. Depth
    BY ScopesAreTyped DEF Await
  <2> QED BY <1>1, <2>1 DEF CitesReach, IsBound
<1>5. Depth \in DOMAIN blocks => GoesOn(Depth)
  BY <1>1, <1>2, <1>3, <1>4 DEF GoesOn, BlocksHold, BlockHolds
<1>6. \A i \in DOMAIN blocks : GoesOn(i)
  BY <1>1, <1>2, <1>5, UntouchedGoesOn
<1> QED BY <1>1, <1>6 DEF Moves

(* A subproof opens.                                                       *)
LEMMA OpeningMoves ==
  ASSUME TypeOK, BlocksHold, NEW l, NEW phi \in Formula, NEW fresh, NEW chain,
         Open(l, phi, fresh, chain),
         fresh => phi \in FreshLines
                  /\ \A c \in Name : phi = Flag(c) =>
                       c \in DOMAIN chain[Depth + 1] /\ chain[Depth + 1][c].kind = "object"
  PROVE  Moves
<1> DEFINE n == Len(blocks) + 1
           e == blocks'[n]
<1>1. /\ DOMAIN blocks = 1 .. Len(blocks) /\ Len(blocks) \in Nat
      /\ DOMAIN blocks' = 1 .. n
      /\ \A i \in DOMAIN blocks : blocks'[i] = blocks[i]
      /\ e.seen = {phi} /\ e.opener = phi /\ e.fresh = fresh /\ e.last = phi
      /\ e.pending = NothingPending
      /\ declarations' = chain /\ n = Depth + 1
  BY ScopesAreTyped, OpeningAdds DEF Open, Depth
<1>2. \A i \in DOMAIN blocks' : i \in DOMAIN blocks \/ i = n
  BY <1>1
<1>3. \A i \in DOMAIN blocks : GoesOn(i)
  BY <1>1, UntouchedGoesOn DEF Same
<1> HIDE DEF n
<1>4. Opened(e, declarations'[n])
  BY <1>1 DEF Opened, FlagIsDeclared
<1> QED BY <1>2, <1>3, <1>4 DEF Moves

(* The record that the innermost subproof leaves.                          *)
TheRecord ==
  [assumption |-> Top.opener, conclusion |-> Top.last, fresh |-> Top.fresh,
   inner |-> Flatten(Top.seen), outer |-> Flatten(blocks[Depth - 1].seen)]

(* Two formulas read in one scope use each name in ways that agree.        *)
LEMMA OneReading ==
  ASSUME NEW chain, NEW f, NEW g, SymbolErrors(chain, f) = {}, SymbolErrors(chain, g) = {}
  PROVE  ReadTogether(f, g)
<1> SUFFICES ASSUME NEW u \in Uses(f), NEW v \in Uses(g), u.name = v.name
             PROVE  KindsFor(u.as) \cap KindsFor(v.as) # {}
  BY DEF ReadTogether
<1>1. UseErrors(chain, u) = {} /\ UseErrors(chain, v) = {}
  BY DEF SymbolErrors
<1>2. \A w : UseErrors(chain, w) = {} =>
        IsBound(chain, w.name) /\ Lookup(chain, w.name).kind \in KindsFor(w.as)
  BY NothingFound DEF UseErrors, Check
<1> QED BY <1>1, <1>2

(* What the innermost subproof concludes follows from its assumption and   *)
(* what the block around it may rest on.                                   *)
LEMMA RecordIsEstablished ==
  ASSUME Kernel, Grounded, Depth > 1
  PROVE  TheRecord \in SubproofRecord /\ Established(TheRecord, Made, Hypotheses(Depth - 1))
<1> DEFINE n == Depth - 1
           b == blocks[Depth]
<1>1. /\ TypeOK /\ DOMAIN blocks = 1 .. Depth /\ Depth \in Nat
      /\ n \in DOMAIN blocks /\ Depth \in DOMAIN blocks /\ blocks \in Seq(Block)
      /\ declarations \in Seq(Tables(Name, Declaration))
  <2>1. TypeOK
    BY DEF Kernel, Invariant
  <2> QED BY <2>1, ScopesAreTyped
<1>2. /\ blocks[n] \in Block /\ b \in Block /\ b.opener \in Formula /\ Top = b
  BY <1>1, TypeParts DEF BlocksOK, Top
<1>3. TheRecord \in SubproofRecord
  <2>1. b.seen \in SUBSET Item /\ blocks[n].seen \in SUBSET Item
    BY <1>2 DEF Block
  <2>2. Flatten(b.seen) \subseteq Formula /\ Flatten(blocks[n].seen) \subseteq Formula
    BY <2>1, FlattenedAreFormulas
  <2>3. b.last \in Formula \cup {NoFormula} /\ b.fresh \in BOOLEAN
    BY <1>2 DEF Block
  <2> QED BY <1>2, <2>2, <2>3 DEF SubproofRecord, TheRecord
<1>4. /\ TheRecord.assumption = b.opener /\ TheRecord.conclusion = b.last
      /\ TheRecord.fresh = b.fresh
  BY <1>2 DEF TheRecord
<1>5. CASE b.last = NoFormula
  BY <1>3, <1>4, <1>5, RecordAssumption DEF Established, RecordHolds
<1>6. CASE b.last # NoFormula
  <2>1. b.last \in b.seen \cap Formula /\ b.opener \in b.seen \cap Formula
    <3>1. b.last \in b.seen \cup {NoFormula} /\ b.last \in Formula \cup {NoFormula}
      BY <1>1, <1>2 DEF Grounded, BlocksHold, BlockHolds, Block
    <3>2. b.opener \in b.seen
      BY <1>1 DEF Grounded, OpenersAreLines
    <3> QED BY <1>2, <1>6, <3>1, <3>2
  <2>2. Hypotheses(Depth) \subseteq Hypotheses(n) \cup Assumption(TheRecord)
    <3>1. \A j \in 2 .. Depth : j \in 2 .. n \/ j = Depth
      BY <1>1
    <3>2. ~ b.fresh => b.opener \in Assumption(TheRecord)
      BY <1>4 DEF Assumption
    <3> QED BY <3>1, <3>2 DEF Hypotheses, AssumptionsAround
  <2>3. (b.fresh /\ b.last = b.opener /\ IsFlag(b.opener)) \/ Entails(Made, Hypotheses(Depth), b.last)
    BY <1>1, <2>1 DEF Grounded, BlocksHold, BlockHolds
  <2>4. RecordHolds(TheRecord, Made, Hypotheses(n))
    <3>1. Entails(Made, Hypotheses(Depth), b.last)
          => Entails(Made, Hypotheses(n) \cup Assumption(TheRecord), b.last)
      BY <2>2, EntailmentGrows
    <3> QED BY <1>4, <2>3, <3>1 DEF RecordHolds
  <2>5. ASSUME ~ b.fresh PROVE ReadTogether(b.opener, b.last)
    <3>1. SymbolErrors(Outward(Depth), b.opener) = {} /\ SymbolErrors(Outward(Depth), b.last) = {}
      BY <1>1, <2>1, <2>5 DEF Kernel, SymbolsOK, SymbolsAreDeclared, Outward
    <3> QED BY <3>1, OneReading
  <2> QED BY <1>3, <1>4, <2>4, <2>5, RecordAssumption DEF Established
<1> QED BY <1>3, <1>5, <1>6

(* A subproof closes.                                                      *)
LEMMA ClosingMoves ==
  ASSUME Kernel, Grounded, CloseBlock
  PROVE  Moves
<1> DEFINE n == Depth - 1
           alone == blocks[n].pending.tag = "subproof"
<1>1. /\ TypeOK /\ DOMAIN blocks = 1 .. Depth /\ Depth \in Nat /\ Depth > 1
      /\ n \in Nat \ {0} /\ n + 1 = Len(blocks) /\ n \in 1 .. n /\ blocks \in Seq(Block)
      /\ 1 .. n \subseteq DOMAIN blocks
  <2>1. TypeOK
    BY DEF Kernel, Invariant
  <2> QED BY <2>1, ScopesAreTyped DEF CloseBlock
<1>2. \/ \E errors : Refuse(errors)
      \/ blocks' = IF alone THEN TakenAsLine(n, TheRecord) ELSE TakenBelow(n, TheRecord)
  BY Zenon DEF CloseBlock, TakenAsLine, TakenBelow, TheRecord
<1>3. CASE \E errors : Refuse(errors)
  BY <1>1, <1>3, RestingMoves DEF Refuse, Grounded
<1>4. CASE blocks' = IF alone THEN TakenAsLine(n, TheRecord) ELSE TakenBelow(n, TheRecord)
  <2>1. /\ DOMAIN blocks' = 1 .. n
        /\ \A i \in 1 .. n : blocks'[i].arbitraryInForce = blocks[i].arbitraryInForce
    BY <1>1, <1>4, ClosingKeepsFrames DEF TakenAsLine, TakenBelow
  <2>2. \A i \in 1 .. n : i # n => Same(blocks'[i], blocks[i])
    BY <1>1, <1>4, TakingAsLine, TakingBelow
  <2>3. TheRecord \in SubproofRecord /\ Established(TheRecord, Made, Hypotheses(n))
        /\ TheRecord \notin Formula
    BY <1>1, RecordIsEstablished, RecordAssumption
  <2>4. blocks[n].last \in blocks[n].seen \cup {NoFormula}
    BY <1>1 DEF Grounded, BlocksHold, BlockHolds
  <2>5. CASE alone
    <3>1. /\ blocks'[n].opener = blocks[n].opener
          /\ blocks'[n].fresh = blocks[n].fresh
          /\ blocks'[n].seen = blocks[n].seen \cup {TheRecord}
          /\ blocks'[n].last = NoFormula
          /\ blocks'[n].pending = NothingPending
      BY <1>1, <1>4, <2>5, TakingAsLine
    <3>2. RecordsOf(blocks'[n]) \subseteq RecordsOf(blocks[n]) \cup {TheRecord}
      BY <3>1 DEF RecordsOf, NothingPending, Entry, ToSet
    <3>3. CitesReach(blocks'[n], labels', n)
      BY <3>1 DEF CitesReach, NothingPending, Entry
    <3>4. GoesOn(n)
      BY <1>1, <2>1, <2>3, <3>1, <3>2, <3>3 DEF GoesOn
    <3>5. \A i \in 1 .. n : GoesOn(i)
      BY <1>1, <2>1, <2>2, <3>4, UntouchedGoesOn DEF Grounded
    <3> QED BY <1>1, <2>1, <3>5 DEF Moves
  <2>6. CASE ~ alone
    <3>1. /\ blocks'[n].opener = blocks[n].opener
          /\ blocks'[n].fresh = blocks[n].fresh
          /\ blocks'[n].seen = blocks[n].seen
          /\ blocks'[n].last = blocks[n].last
          /\ blocks'[n].pending.cites = blocks[n].pending.cites
          /\ blocks'[n].pending.records = Append(blocks[n].pending.records, TheRecord)
      BY <1>1, <1>4, <2>6, TakingBelow
    <3>2. blocks[n].pending.records \in Seq(SubproofRecord)
      <4>1. blocks[n] \in Block
        BY <1>1
      <4> QED BY <4>1 DEF Block, Pending
    <3>3. ToSet(Append(blocks[n].pending.records, TheRecord))
          \subseteq ToSet(blocks[n].pending.records) \cup {TheRecord}
      BY <2>3, <3>2 DEF ToSet
    <3>4. RecordsOf(blocks'[n]) \subseteq RecordsOf(blocks[n]) \cup {TheRecord}
      BY <3>1, <3>3 DEF RecordsOf
    <3>5. GoesOn(n)
      BY <1>1, <2>1, <2>3, <2>4, <3>1, <3>4 DEF GoesOn
    <3>6. \A i \in 1 .. n : GoesOn(i)
      BY <1>1, <2>1, <2>2, <3>5, UntouchedGoesOn DEF Grounded
    <3> QED BY <1>1, <2>1, <3>6 DEF Moves
  <2> QED BY <2>5, <2>6
<1> QED BY <1>2, <1>3, <1>4

-----------------------------------------------------------------------------
(* Each action moves so.                                                   *)

(* What a line was allowed to take for granted is among its hypotheses.    *)
LEMMA GivenLinesMove ==
  ASSUME TypeOK, BlocksHold,
         \/ \E tag, ds : DeclareOnly(tag, ds)
         \/ \E l, ds : \E phi \in Formula : DeclareFormula(l, phi, ds)
         \/ \E l, ds : \E fs \in Seq(Formula) : fs # <<>> /\ PremiseLine(l, fs, ds)
         \/ \E l : \E phi \in Formula : AxiomLine(l, phi)
  PROVE  Moves
<1>1. \A errors : Refuse(errors) => UNCHANGED blocks
  BY DEF Refuse
<1>2. ASSUME NEW l, NEW fs \in Seq(Formula), fs # <<>>, NEW theory,
             TakeForGranted(fs, theory), Derive(l, fs)
      PROVE  Moves
  <2>1. ToSet(fs) \subseteq givenLines'
    BY <1>2 DEF TakeForGranted
  <2> QED BY <1>2, <2>1, StatingMoves
<1>3. \A phi \in Formula : <<phi>> \in Seq(Formula) /\ <<phi>> # <<>>
  OBVIOUS
<1>4. CASE \E tag, ds : DeclareOnly(tag, ds)
  BY <1>1, <1>4, RestingMoves, Zenon DEF DeclareOnly
<1>5. CASE \E l, ds : \E phi \in Formula : DeclareFormula(l, phi, ds)
  <2>1. PICK l, ds : \E phi \in Formula : DeclareFormula(l, phi, ds)
    BY <1>5
  <2>2. PICK phi \in Formula : DeclareFormula(l, phi, ds)
    BY <2>1
  <2>3. \/ \E errors : Refuse(errors)
        \/ TakeForGranted(<<phi>>, FALSE) /\ Derive(l, <<phi>>)
    BY <2>2, Zenon DEF DeclareFormula
  <2> QED BY <1>1, <1>2, <1>3, <2>3, RestingMoves
<1>6. CASE \E l, ds : \E fs \in Seq(Formula) : fs # <<>> /\ PremiseLine(l, fs, ds)
  <2>1. PICK l, ds : \E fs \in Seq(Formula) : fs # <<>> /\ PremiseLine(l, fs, ds)
    BY <1>6
  <2>2. PICK fs \in Seq(Formula) : fs # <<>> /\ PremiseLine(l, fs, ds)
    BY <2>1
  <2>3. \/ \E errors : Refuse(errors)
        \/ TakeForGranted(fs, FALSE) /\ Derive(l, fs)
    BY <2>2, Zenon DEF PremiseLine
  <2> QED BY <1>1, <1>2, <2>2, <2>3, RestingMoves
<1>7. CASE \E l : \E phi \in Formula : AxiomLine(l, phi)
  <2>1. PICK l : \E phi \in Formula : AxiomLine(l, phi)
    BY <1>7
  <2>2. PICK phi \in Formula : AxiomLine(l, phi)
    BY <2>1
  <2>3. \/ \E errors : Refuse(errors)
        \/ TakeForGranted(<<phi>>, ListClosed) /\ Derive(l, <<phi>>)
    BY <2>2, Zenon DEF AxiomLine
  <2> QED BY <1>1, <1>2, <1>3, <2>3, RestingMoves
<1> QED BY <1>4, <1>5, <1>6, <1>7

(* A line that declares nothing is judged in the context as it stands.     *)
LEMMA DeclaringNothing ==
  ASSUME TypeOK
  PROVE  /\ Declare(declarations, ToSet(<<>>)) = declarations
         /\ [ContextIn(VisibleDeclarations \cup ToSet(<<>>)) EXCEPT
               !.constrained = @ \cup Refers(ToSet(<<>>))] = Context
<1>1. ToSet(<<>>) = {} /\ Refers({}) = {}
  BY DEF ToSet, Refers
<1>2. DOMAIN TableOf({}) = {}
  BY DEF TableOf
<1>3. declarations \in Seq(Tables(Name, Declaration)) /\ Len(declarations) > 0
  BY ScopesAreTyped
<1>4. BindAll(declarations, TableOf({})) = declarations
  <2> DEFINE n == Len(declarations)
             t == declarations[n]
             new == [k \in DOMAIN t \cup DOMAIN TableOf({}) |->
                       IF k \in DOMAIN TableOf({}) THEN TableOf({})[k] ELSE t[k]]
  <2>1. n \in DOMAIN declarations /\ t \in Tables(Name, Declaration)
    BY <1>3
  <2>2. t = [k \in DOMAIN t |-> t[k]]
    BY <2>1 DEF Tables
  <2>3. new = t
    BY <1>2, <2>2
  <2>4. BindAll(declarations, TableOf({})) = [declarations EXCEPT ![n] = new]
    BY <2>1 DEF BindAll
  <2> HIDE DEF new
  <2> QED BY <1>3, <2>1, <2>3, <2>4
<1>5. [Context EXCEPT !.constrained = @ \cup {}] = Context
  BY DEF Context, ContextIn
<1>6. VisibleDeclarations \cup {} = VisibleDeclarations
  OBVIOUS
<1> QED BY <1>1, <1>4, <1>5, <1>6 DEF Declare, Context

LEMMA PartsOfBoth ==
  ASSUME NEW S, NEW a \in Seq(S), NEW b \in Seq(S)
  PROVE  ToSet(a \o b) \subseteq ToSet(a) \cup ToSet(b)
<1> DEFINE c == a \o b
<1>1. /\ DOMAIN c = 1 .. Len(a) + Len(b) /\ DOMAIN a = 1 .. Len(a) /\ DOMAIN b = 1 .. Len(b)
      /\ Len(a) \in Nat /\ Len(b) \in Nat
      /\ \A i \in 1 .. Len(a) + Len(b) : c[i] = IF i <= Len(a) THEN a[i] ELSE b[i - Len(a)]
  OBVIOUS
<1> HIDE DEF c
<1>2. ASSUME NEW i \in DOMAIN c PROVE c[i] \in ToSet(a) \cup ToSet(b)
  <2>1. CASE i <= Len(a)
    BY <1>1, <2>1 DEF ToSet
  <2>2. CASE ~ i <= Len(a)
    <3>1. i - Len(a) \in DOMAIN b /\ c[i] = b[i - Len(a)]
      BY <1>1, <2>2
    <3> QED BY <3>1 DEF ToSet
  <2> QED BY <2>1, <2>2
<1>3. ToSet(c) \subseteq ToSet(a) \cup ToSet(b)
  BY <1>2 DEF ToSet
<1> QED BY <1>3 DEF c

(* What was cited and the records awaited are what a rule is asked with.   *)
LEMMA CombinedAreAtHand ==
  ASSUME Kernel, NEW cites \in Seq(Label), \A k \in DOMAIN cites : IsBound(labels, cites[k]),
         NEW records \in Seq(SubproofRecord),
         ToSet(records) \subseteq ToSet(Top.pending.records),
         NEW n \in Nat, NEW cs \in Combinations(Candidates(cites) \o records, n)
  PROVE  /\ cs \in Seq(Item)
         /\ \A c \in ToSet(cs) : \/ \E j \in DOMAIN blocks : c \in blocks[j].seen
                                 \/ c \in ToSet(Top.pending.records)
<1> DEFINE a == Candidates(cites)
<1>1. /\ a \in Seq(Item)
      /\ \A c \in ToSet(a) : \E j \in DOMAIN blocks : c \in blocks[j].seen
  BY CitedAreLines DEF Kernel, Invariant
<1> HIDE DEF a
<1>2. records \in Seq(Item)
  BY DEF Item
<1>3. a \o records \in Seq(Item) /\ ToSet(a \o records) \subseteq ToSet(a) \cup ToSet(records)
  BY <1>1, <1>2, PartsOfBoth
<1>4. cs \in Seq(Item) /\ ToSet(cs) \subseteq ToSet(a \o records)
  BY <1>3, CombinationsPick DEF a
<1> QED BY <1>1, <1>3, <1>4

(* A rule justifies a line, from labels.                                   *)
LEMMA RuleLineMoves ==
  ASSUME Kernel, Grounded, RulesAreSound, NEW l, NEW phi \in Formula, NEW rule \in Rule,
         NEW cites \in Seq(Label), NEW ds, RuleLine(l, phi, rule, cites, ds)
  PROVE  Moves
<1> DEFINE available == Candidates(cites)
           ctx       == [ContextIn(VisibleDeclarations \cup ToSet(ds)) EXCEPT
                           !.constrained = @ \cup Refers(ToSet(ds))]
           chain     == Declare(declarations, ToSet(ds))
<1>1. TypeOK /\ BlocksHold
  BY DEF Kernel, Invariant, Grounded
<1>2. <<phi>> \in Seq(Formula) /\ <<phi>> # <<>> /\ ToSet(<<phi>>) = {phi}
  BY DEF ToSet
<1>3. \/ \E errors : Refuse(errors)
      \/ /\ StatementErrors(chain, phi) = {} /\ RegisteredErrors(rule) = {}
         /\ ReferenceErrors(cites) = {}
         /\ MatchErrors(rule, Combinations(available, Arity(rule)), phi, ctx) = {}
         /\ IF ds = <<>> THEN UNCHANGED granted ELSE TakeForGranted(<<phi>>, FALSE)
         /\ Derive(l, <<phi>>)
  BY Zenon DEF RuleLine, RuleLineErrors, ??
<1>4. CASE \E errors : Refuse(errors)
  BY <1>1, <1>4, RestingMoves DEF Refuse
<1>5. CASE /\ StatementErrors(chain, phi) = {} /\ RegisteredErrors(rule) = {}
           /\ ReferenceErrors(cites) = {}
           /\ MatchErrors(rule, Combinations(available, Arity(rule)), phi, ctx) = {}
           /\ IF ds = <<>> THEN UNCHANGED granted ELSE TakeForGranted(<<phi>>, FALSE)
           /\ Derive(l, <<phi>>)
  <2>1. CASE ds # <<>>
    <3>1. phi \in givenLines'
      BY <1>2, <1>5, <2>1 DEF TakeForGranted
    <3> QED BY <1>1, <1>2, <1>5, <3>1, StatingMoves
  <2>2. CASE ds = <<>>
    <3>1. chain = declarations /\ ctx = Context
      BY <1>1, <2>2, DeclaringNothing
    <3>2. SymbolErrors(declarations, phi) = {}
      BY <1>5, <3>1, NothingFound DEF StatementErrors
    <3>3. rule \in Registered /\ \A k \in DOMAIN cites : IsBound(labels, cites[k])
      BY <1>5 DEF RegisteredErrors, ReferenceErrors, Check
    <3>4. PICK cs \in Combinations(available, Arity(rule)) : Justifies(rule, cs, phi, Context)
      BY <1>5, <3>1 DEF MatchErrors, Check
    <3>5. /\ cs \in Seq(Item)
          /\ \A c \in ToSet(cs) : \/ \E j \in DOMAIN blocks : c \in blocks[j].seen
                                  \/ c \in ToSet(Top.pending.records)
      <4>1. available \in Seq(Item)
            /\ \A c \in ToSet(available) : \E j \in DOMAIN blocks : c \in blocks[j].seen
        BY <1>1, <3>3, CitedAreLines DEF Kernel
      <4>2. Arity(rule) \in Nat
        BY RuleAssumption
      <4> HIDE DEF available
      <4> QED BY <4>1, <4>2, CombinationsPick
    <3>6. Entails(Made, Hypotheses(Depth), phi)
      BY <3>2, <3>3, <3>4, <3>5, RuleYieldsTruth
    <3> QED BY <1>1, <1>2, <1>5, <3>6, StatingMoves
  <2> QED BY <2>1, <2>2
<1> QED BY <1>3, <1>4, <1>5

(* A rule justifies a line from the subproofs below it, and labels.        *)
LEMMA JudgingMoves ==
  ASSUME Kernel, Grounded, RulesAreSound, JudgeBelow \/ JudgeHybrid
  PROVE  Moves
<1> DEFINE p == Top.pending
<1>1. TypeOK /\ BlocksHold
  BY DEF Kernel, Invariant, Grounded
<1>2. /\ p.phi \in Formula /\ p.tag \in {"rule_below", "rule_hybrid"}
      /\ p.tag = "rule_hybrid" => p.rule \in Registered
  BY <1>1, PendingLine DEF JudgeBelow, JudgeHybrid, Judging
<1>3. /\ Depth \in DOMAIN blocks /\ p.records \in Seq(SubproofRecord) /\ p.cites \in Seq(Label)
  <2>1. Depth \in DOMAIN blocks /\ blocks[Depth] \in Block
    BY <1>1, ScopesAreTyped
  <2>2. blocks[Depth].pending \in Pending
    BY <2>1 DEF Block
  <2>3. p \in Pending
    BY <2>2 DEF Top
  <2> HIDE DEF p
  <2> QED BY <2>1, <2>3 DEF Pending
<1>4. SymbolErrors(declarations, p.phi) = {}
  <2>1. SymbolErrors(Outward(Depth), p.phi) = {}
    BY <1>2, <1>3 DEF Kernel, SymbolsOK, WaitingLinesAreRead, Top
  <2> QED BY <1>1, <2>1, WholeScope
<1>5. ASSUME NEW rule \in Registered, NEW cs \in Seq(Item), rule = p.rule,
             \A c \in ToSet(cs) : \/ \E j \in DOMAIN blocks : c \in blocks[j].seen
                                  \/ c \in ToSet(p.records),
             Justifies(rule, cs, p.phi, Context), Derive(p.label, <<p.phi>>)
      PROVE  Moves
  <2>1. Entails(Made, Hypotheses(Depth), p.phi)
    BY <1>2, <1>4, <1>5, RuleYieldsTruth
  <2>2. <<p.phi>> \in Seq(Formula) /\ <<p.phi>> # <<>> /\ ToSet(<<p.phi>>) = {p.phi}
    BY <1>2 DEF ToSet
  <2> QED BY <1>1, <1>5, <2>1, <2>2, StatingMoves
<1>6. CASE \E errors : Refuse(errors)
  BY <1>1, <1>6, RestingMoves DEF Refuse
<1>7. CASE JudgeBelow /\ ~ \E errors : Refuse(errors)
  <2>1. /\ RegisteredErrors(p.rule) = {}
        /\ MatchErrors(p.rule, {p.records}, p.phi, Context) = {}
        /\ Derive(p.label, <<p.phi>>)
    BY <1>7, Zenon DEF JudgeBelow, ??
  <2>2. p.rule \in Registered /\ Justifies(p.rule, p.records, p.phi, Context)
    BY <2>1 DEF RegisteredErrors, MatchErrors, Check
  <2>3. p.records \in Seq(Item)
    BY <1>3 DEF Item
  <2> HIDE DEF p
  <2> QED BY <1>5, <2>1, <2>2, <2>3
<1>8. CASE JudgeHybrid /\ ~ \E errors : Refuse(errors)
  <2> DEFINE available == Candidates(p.cites) \o p.records
  <2>1. /\ MatchErrors(p.rule, Combinations(available, Arity(p.rule)), p.phi, Context) = {}
        /\ Derive(p.label, <<p.phi>>) /\ p.tag = "rule_hybrid"
    BY <1>8, Zenon DEF JudgeHybrid, Judging, ??
  <2>2. p.rule \in Registered /\ Arity(p.rule) \in Nat
    BY <1>2, <2>1, RuleAssumption
  <2>3. PICK cs \in Combinations(available, Arity(p.rule)) : Justifies(p.rule, cs, p.phi, Context)
    BY <2>1 DEF MatchErrors, Check
  <2>4. \A k \in DOMAIN p.cites : IsBound(labels, p.cites[k])
    <3>1. CitesReach(blocks[Depth], labels, Depth)
      BY <1>3 DEF Grounded, CitesStayInReach
    <3>2. 1 .. Depth = DOMAIN labels
      BY <1>1, ScopesAreTyped
    <3> QED BY <3>1, <3>2 DEF CitesReach, IsBound, Top
  <2>5. /\ cs \in Seq(Item)
        /\ \A c \in ToSet(cs) : \/ \E j \in DOMAIN blocks : c \in blocks[j].seen
                                \/ c \in ToSet(p.records)
    BY <1>3, <2>2, <2>3, <2>4, CombinedAreAtHand
  <2> HIDE DEF p
  <2> QED BY <1>5, <2>1, <2>2, <2>3, <2>5
<1> QED BY <1>6, <1>7, <1>8

(* A line begins to wait for what stands below it.                         *)
LEMMA BeginningMoves ==
  ASSUME TypeOK, BlocksHold,
         \/ \E l : BeginSubproof(l)
         \/ \E l, phi, rule, count : BeginBelow(l, phi, rule, count)
         \/ \E l, phi, rule, cites, count : BeginHybrid(l, phi, rule, cites, count)
  PROVE  Moves
<1>1. \A errors : Refuse(errors) => UNCHANGED blocks
  BY DEF Refuse
<1>2. \A tag, l, phi, rule, cites, count :
        /\ Entry(tag, l, phi, rule, cites, count).records = <<>>
        /\ Entry(tag, l, phi, rule, cites, count).cites = cites
  BY DEF Entry
<1>3. \A k \in DOMAIN <<>> : IsBound(labels, <<>>[k])
  OBVIOUS
<1>4. CASE \E l : BeginSubproof(l)
  <2>1. PICK l : Await(Entry("subproof", l, NoFormula, "none", <<>>, 1))
    BY <1>4 DEF BeginSubproof
  <2> QED BY <1>2, <1>3, <2>1, WaitingMoves
<1>5. CASE \E l, phi, rule, count : BeginBelow(l, phi, rule, count)
  <2>1. PICK l, phi, rule, count : BeginBelow(l, phi, rule, count)
    BY <1>5
  <2>2. (\E errors : Refuse(errors)) \/ Await(Entry("rule_below", l, phi, rule, <<>>, 1))
    BY <2>1, Zenon DEF BeginBelow
  <2> QED BY <1>1, <1>2, <1>3, <2>2, WaitingMoves, RestingMoves
<1>6. CASE \E l, phi, rule, cites, count : BeginHybrid(l, phi, rule, cites, count)
  <2>1. PICK l, phi, rule, cites, count : BeginHybrid(l, phi, rule, cites, count)
    BY <1>6
  <2>2. \/ \E errors : Refuse(errors)
        \/ ReferenceErrors(cites) = {} /\ Await(Entry("rule_hybrid", l, phi, rule, cites, count))
    BY <2>1, Zenon DEF BeginHybrid, ??
  <2>3. ReferenceErrors(cites) = {} => \A k \in DOMAIN cites : IsBound(labels, cites[k])
    BY DEF ReferenceErrors, Check
  <2> QED BY <1>1, <1>2, <2>2, <2>3, WaitingMoves, RestingMoves
<1> QED BY <1>4, <1>5, <1>6

(* The name of a flag is declared in the subproof the flag opens.          *)
LEMMA FlagsDeclareObjects ==
  ASSUME TypeOK, NEW phi, NEW c \in FlagNames(phi)
  PROVE  LET chain == Declare(Child(declarations), {FlagDeclaration(a) : a \in FlagNames(phi)})
         IN  c \in DOMAIN chain[Depth + 1] /\ chain[Depth + 1][c].kind = "object"
<1> DEFINE flags == {FlagDeclaration(a) : a \in FlagNames(phi)}
           child == Child(declarations)
<1>1. /\ child \in Seq(Tables(Name, Declaration)) /\ Len(child) = Depth + 1 /\ Len(child) > 0
  BY ScopesAreTyped, SmallTables DEF Child
<1>2. /\ FlagDeclaration(c) \in flags
      /\ \A e \in flags : e.name = FlagDeclaration(c).name => e = FlagDeclaration(c)
      /\ FlagDeclaration(c).name = c
      /\ FlagDeclaration(c).kind = "object"
  <2>1. \A a : FlagDeclaration(a).name = a /\ FlagDeclaration(a).kind = "object"
    BY DEF FlagDeclaration
  <2>2. \A e \in flags : e = FlagDeclaration(e.name)
    BY <2>1
  <2> QED BY <2>1, <2>2
<1> HIDE DEF flags, child
<1>3. c \in DOMAIN TableOf(flags) /\ TableOf(flags)[c] = FlagDeclaration(c)
  BY <1>2, DeclaredIsFound
<1>4. /\ c \in DOMAIN Declare(child, flags)[Depth + 1]
      /\ Declare(child, flags)[Depth + 1][c] = FlagDeclaration(c)
  BY <1>1, <1>3, DeclaredHere DEF Declare
<1> QED BY <1>2, <1>4 DEF flags, child

LEMMA OpeningLinesMove ==
  ASSUME TypeOK, BlocksHold,
         \/ \E l : \E phi \in AssumeLines : OpenAssuming(l, phi)
         \/ \E l : \E phi \in FreshLines : OpenFresh(l, phi)
  PROVE  Moves
<1>1. \A errors : Refuse(errors) => Moves
  BY RestingMoves DEF Refuse
<1>2. CASE \E l : \E phi \in AssumeLines : OpenAssuming(l, phi)
  <2>1. PICK l : \E phi \in AssumeLines : OpenAssuming(l, phi)
    BY <1>2
  <2>2. PICK phi \in AssumeLines : OpenAssuming(l, phi)
    BY <2>1
  <2>3. (\E errors : Refuse(errors)) \/ Open(l, phi, FALSE, Child(declarations))
    BY <2>2, Zenon DEF OpenAssuming
  <2>4. phi \in Formula
    BY FormulaAssumption
  <2> QED BY <1>1, <2>3, <2>4, OpeningMoves
<1>3. CASE \E l : \E phi \in FreshLines : OpenFresh(l, phi)
  <2>1. PICK l : \E phi \in FreshLines : OpenFresh(l, phi)
    BY <1>3
  <2>2. PICK phi \in FreshLines : OpenFresh(l, phi)
    BY <2>1
  <2> DEFINE chain == Declare(Child(declarations), {FlagDeclaration(c) : c \in FlagNames(phi)})
  <2>3. (\E errors : Refuse(errors)) \/ Open(l, phi, TRUE, chain)
    BY <2>2, Zenon DEF OpenFresh
  <2>4. phi \in Formula
    BY FormulaAssumption
  <2>5. \A c \in Name : phi = Flag(c) =>
          c \in DOMAIN chain[Depth + 1] /\ chain[Depth + 1][c].kind = "object"
    BY FlagsDeclareObjects DEF FlagNames
  <2> HIDE DEF chain
  <2> QED BY <1>1, <2>3, <2>4, <2>5, OpeningMoves
<1> QED BY <1>2, <1>3

(* Every step of the walk moves in one of these ways.                      *)
LEMMA StepsMove ==
  ASSUME Kernel, Grounded, RulesAreSound, [Next]_vars
  PROVE  Moves
<1>1. TypeOK /\ BlocksHold
  BY DEF Kernel, Invariant, Grounded
<1>2. \A errors : Refuse(errors) => Moves
  BY <1>1, RestingMoves DEF Refuse
<1>3. CASE GivenStep
  <2>1. \/ \E tag, ds : DeclareOnly(tag, ds)
        \/ \E l, ds : \E phi \in DeclareLines : DeclareFormula(l, phi, ds)
        \/ \E l, ds : \E fs \in PremiseLists : PremiseLine(l, fs, ds)
    BY <1>3, Zenon DEF GivenStep
  <2>2. DeclareLines \subseteq Formula /\ \A fs \in PremiseLists : fs \in Seq(Formula) /\ fs # <<>>
    BY FormulaAssumption
  <2>3. \/ \E tag, ds : DeclareOnly(tag, ds)
        \/ \E l, ds : \E phi \in Formula : DeclareFormula(l, phi, ds)
        \/ \E l, ds : \E fs \in Seq(Formula) : fs # <<>> /\ PremiseLine(l, fs, ds)
    BY <2>1, <2>2
  <2> QED BY <1>1, <2>3, GivenLinesMove
<1>4. CASE \E phi \in Formula : \E l \in LabelsOf(<<phi>>, Depth) : AxiomLine(l, phi)
  <2>1. \E l : \E phi \in Formula : AxiomLine(l, phi)
    BY <1>4
  <2> QED BY <1>1, <2>1, GivenLinesMove
<1>5. CASE RuleStep
  <2>1. PICK rule \in Rule : \E phi \in Claims(rule), cites \in Cites(rule) : \E l :
          \/ \E ds : RuleLine(l, phi, rule, cites, ds)
          \/ \E count : BeginHybrid(l, phi, rule, cites, count)
    BY <1>5, Zenon DEF RuleStep
  <2>2. PICK phi \in Claims(rule), cites \in Cites(rule) : \E l :
          \/ \E ds : RuleLine(l, phi, rule, cites, ds)
          \/ \E count : BeginHybrid(l, phi, rule, cites, count)
    BY <2>1
  <2>3. phi \in Formula
    BY RuleAssumption
  <2>4. cites \in Seq(Label)
    BY <1>1, CitesAreLabels
  <2> QED BY <1>1, <2>2, <2>3, <2>4, RuleLineMoves, BeginningMoves
<1>6. CASE BelowStep
  <2>1. \E l, phi, rule, count : BeginBelow(l, phi, rule, count)
    BY <1>6, Zenon DEF BelowStep
  <2> QED BY <1>1, <2>1, BeginningMoves
<1>7. CASE JudgeBelow \/ JudgeHybrid
  BY <1>7, JudgingMoves
<1>8. CASE SubproofStep
  <2>1. \/ \E l : BeginSubproof(l)
        \/ \E l : \E phi \in AssumeLines : OpenAssuming(l, phi)
        \/ \E l : \E phi \in FreshLines : OpenFresh(l, phi)
        \/ OpenBadly
        \/ \E phi : MisplacedOpening(phi)
        \/ CloseBlock
    BY <1>8, Zenon DEF SubproofStep
  <2>2. OpenBadly \/ (\E phi : MisplacedOpening(phi)) => Moves
    BY <1>2 DEF OpenBadly, MisplacedOpening
  <2> QED BY <1>1, <2>1, <2>2, BeginningMoves, OpeningLinesMove, ClosingMoves
<1>9. CASE Finish \/ Done \/ UNCHANGED vars
  <2>1. UNCHANGED blocks
    BY <1>9 DEF Finish, Done, vars
  <2> QED BY <1>1, <2>1, RestingMoves
<1> QED BY <1>3, <1>4, <1>5, <1>6, <1>7, <1>8, <1>9 DEF Next

-----------------------------------------------------------------------------
(* What is visible was declared.                                           *)

TablesAreMade(chain, D) == \A i \in DOMAIN chain : TableIsMade(chain[i], D)

LEMMA MadeGrows ==
  ASSUME NEW chain, NEW C, NEW D, C \subseteq D, TablesAreMade(chain, C)
  PROVE  TablesAreMade(chain, D)
BY DEF TablesAreMade, TableIsMade

(* Declarations are entered under their names.                             *)
LEMMA DeclaringMakes ==
  ASSUME NEW T, NEW chain \in Seq(T), Len(chain) > 0, NEW D, TablesAreMade(chain, D),
         NEW E, \A e \in E : e \in D \/ SaysNothing(e)
  PROVE  TablesAreMade(Declare(chain, E), D)
<1> DEFINE n == Len(chain)
           table == TableOf(E)
           new == [k \in DOMAIN chain[n] \cup DOMAIN table |->
                     IF k \in DOMAIN table THEN table[k] ELSE chain[n][k]]
<1>1. n \in DOMAIN chain
  OBVIOUS
<1>2. /\ DOMAIN Declare(chain, E) = DOMAIN chain
      /\ \A i \in DOMAIN chain : Declare(chain, E)[i] = IF i = n THEN new ELSE chain[i]
  BY <1>1 DEF Declare, BindAll
<1>3. TableIsMade(table, D)
  <2>1. ASSUME NEW k \in DOMAIN table PROVE table[k] \in E /\ table[k].name = k
    <3>1. \E e \in E : e.name = k
      BY DEF TableOf
    <3>2. table[k] = CHOOSE e \in E : e.name = k
      BY DEF TableOf
    <3> QED BY <3>1, <3>2
  <2> QED BY <2>1 DEF TableIsMade
<1> HIDE DEF table
<1>4. TableIsMade(new, D)
  BY <1>1, <1>3 DEF TablesAreMade, TableIsMade
<1> HIDE DEF new
<1> QED BY <1>2, <1>4 DEF TablesAreMade

LEMMA InferredSayNothing ==
  \A chain, fs : \A d \in Inferred(chain, fs) : SaysNothing(d)
BY DEF Inferred, SaysNothing

(* A line declares what it declares, and what its formulas imply.          *)
LEMMA RegisteringMakes ==
  ASSUME TypeOK, VisibleAreMade, Grown, NEW ds \in Seq(Declaration), NEW chain, Register(ds, chain),
         LET explicit == Declare(declarations, ToSet(ds))
         IN  \/ chain = explicit
             \/ \E fs : chain = Declare(explicit, Inferred(explicit, fs))
             \/ chain = Declare(explicit, {})
  PROVE  VisibleAreMade'
<1> DEFINE explicit == Declare(declarations, ToSet(ds))
<1>1. declarations \in Seq(Tables(Name, Declaration)) /\ Len(declarations) > 0
  BY ScopesAreTyped
<1>2. ToSet(ds) \in SUBSET Declaration
  BY DEF ToSet
<1>3. explicit \in Seq(Tables(Name, Declaration)) /\ Len(explicit) > 0
  BY <1>1, <1>2, DeclareKeepsScope
<1>4. TablesAreMade(declarations, Made')
  BY MadeGrows DEF Grown, VisibleAreMade, TablesAreMade
<1>5. \A d \in ToSet(ds) : d \in Made'
  BY DEF Register, Made
<1>6. TablesAreMade(explicit, Made')
  BY <1>1, <1>4, <1>5, DeclaringMakes
<1> HIDE DEF explicit
<1>7. \A fs : TablesAreMade(Declare(explicit, Inferred(explicit, fs)), Made')
  BY <1>3, <1>6, DeclaringMakes, InferredSayNothing
<1>8. TablesAreMade(Declare(explicit, {}), Made')
  BY <1>3, <1>6, DeclaringMakes
<1>9. TablesAreMade(chain, Made')
  BY <1>6, <1>7, <1>8 DEF explicit
<1> QED BY <1>9 DEF Register, TablesAreMade, VisibleAreMade

(* A subproof opens on an empty scope, or on its flag's declaration.       *)
LEMMA OpeningMakes ==
  ASSUME TypeOK, VisibleAreMade, Grown, NEW phi,
         \/ declarations' = Child(declarations)
         \/ declarations' = Declare(Child(declarations), {FlagDeclaration(c) : c \in FlagNames(phi)})
  PROVE  VisibleAreMade'
<1> DEFINE child == Child(declarations)
<1>1. declarations \in Seq(Tables(Name, Declaration)) /\ Len(declarations) \in Nat
  BY ScopesAreTyped
<1>2. TablesAreMade(declarations, Made')
  BY MadeGrows DEF Grown, VisibleAreMade, TablesAreMade
<1>3. child \in Seq(Tables(Name, Declaration)) /\ Len(child) > 0
  BY <1>1, SmallTables DEF Child
<1>4. TablesAreMade(child, Made')
  <2>1. TableIsMade(EmptyTable, Made')
    BY DEF TableIsMade, EmptyTable
  <2>2. \A i \in DOMAIN child : child[i] = EmptyTable \/ (i \in DOMAIN declarations /\ child[i] = declarations[i])
    BY <1>1 DEF Child
  <2> HIDE DEF child
  <2> QED BY <1>2, <2>1, <2>2 DEF TablesAreMade
<1>5. \A d \in {FlagDeclaration(c) : c \in FlagNames(phi)} : SaysNothing(d)
  BY DEF FlagDeclaration, SaysNothing
<1> HIDE DEF child
<1>6. TablesAreMade(Declare(child, {FlagDeclaration(c) : c \in FlagNames(phi)}), Made')
  BY <1>3, <1>4, <1>5, DeclaringMakes
<1> QED BY <1>4, <1>6 DEF child, TablesAreMade, VisibleAreMade

(* What a line or a subproof leaves of the scopes.                         *)
LEMMA StepsMake ==
  ASSUME TypeOK, VisibleAreMade, Grown, [Next]_vars
  PROVE  VisibleAreMade'
<1>1. UNCHANGED declarations => VisibleAreMade'
  BY MadeGrows DEF Grown, VisibleAreMade, TablesAreMade
<1>2. \A errors : Refuse(errors) => VisibleAreMade'
  BY <1>1 DEF Refuse, declared
<1>3. \A ds \in DeclarationLists \cup {<<>>} : ds \in Seq(Declaration)
  BY Inputs
<1>4. CASE GivenStep
  <2>1. PICK ds \in DeclarationLists \cup {<<>>} :
          \/ \E tag : DeclareOnly(tag, ds)
          \/ \E l, phi : DeclareFormula(l, phi, ds)
          \/ \E l, fs : PremiseLine(l, fs, ds)
    BY <1>4, Zenon DEF GivenStep
  <2> DEFINE explicit == Declare(declarations, ToSet(ds))
  <2>2. \A tag : DeclareOnly(tag, ds) => (\E errors : Refuse(errors)) \/ Register(ds, explicit)
    BY Zenon DEF DeclareOnly
  <2>3. ASSUME NEW l, NEW phi, DeclareFormula(l, phi, ds)
        PROVE  (\E errors : Refuse(errors)) \/ Register(ds, Declare(explicit, Inferred(explicit, {phi})))
    BY <2>3, Zenon DEF DeclareFormula
  <2>4. ASSUME NEW l, NEW fs, PremiseLine(l, fs, ds)
        PROVE  \/ \E errors : Refuse(errors)
               \/ Register(ds, Declare(explicit, IF ds = <<>> THEN {} ELSE Inferred(explicit, ToSet(fs))))
    BY <2>4, Zenon DEF PremiseLine
  <2>5. \A chain : /\ Register(ds, chain)
                   /\ \/ chain = explicit
                      \/ \E fs : chain = Declare(explicit, Inferred(explicit, fs))
                      \/ chain = Declare(explicit, {})
                   => VisibleAreMade'
    BY <1>3, RegisteringMakes
  <2> HIDE DEF explicit
  <2>6. CASE \E l, fs : PremiseLine(l, fs, ds)
    <3>1. PICK l, fs : PremiseLine(l, fs, ds)
      BY <2>6
    <3>2. CASE ds = <<>>
      BY <1>2, <2>4, <2>5, <3>1, <3>2
    <3>3. CASE ds # <<>>
      BY <1>2, <2>4, <2>5, <3>1, <3>3
    <3> QED BY <3>2, <3>3
  <2> QED BY <1>2, <2>1, <2>2, <2>3, <2>5, <2>6
<1>5. CASE \E phi \in Formula : \E l \in LabelsOf(<<phi>>, Depth) : AxiomLine(l, phi)
  <2>1. PICK phi, l : AxiomLine(l, phi)
    BY <1>5
  <2>2. (\E errors : Refuse(errors)) \/ UNCHANGED declared
    BY <2>1, Zenon DEF AxiomLine
  <2> QED BY <1>1, <1>2, <2>2 DEF declared
<1>6. \A entry : Await(entry) => VisibleAreMade'
  BY <1>1 DEF Await, declared
<1>7. CASE RuleStep
  <2>1. PICK ds \in DeclarationLists \cup {<<>>} :
          \/ \E l, phi, rule, cites : RuleLine(l, phi, rule, cites, ds)
          \/ \E l, phi, rule, cites, count : BeginHybrid(l, phi, rule, cites, count)
    BY <1>7, Zenon DEF RuleStep
  <2>2. CASE \E l, phi, rule, cites : RuleLine(l, phi, rule, cites, ds)
    <3>1. (\E errors : Refuse(errors)) \/ Register(ds, Declare(declarations, ToSet(ds)))
      BY <2>2, Zenon DEF RuleLine
    <3> QED BY <1>2, <1>3, <3>1, RegisteringMakes
  <2>3. CASE \E l, phi, rule, cites, count : BeginHybrid(l, phi, rule, cites, count)
    <3>1. (\E errors : Refuse(errors)) \/ \E entry : Await(entry)
      BY <2>3, Zenon DEF BeginHybrid
    <3> QED BY <1>2, <1>6, <3>1
  <2> QED BY <2>1, <2>2, <2>3
<1>8. CASE BelowStep
  <2>1. (\E errors : Refuse(errors)) \/ \E entry : Await(entry)
    BY <1>8, Zenon DEF BelowStep, BeginBelow
  <2> QED BY <1>2, <1>6, <2>1
<1>9. CASE JudgeBelow \/ JudgeHybrid
  <2>1. (\E errors : Refuse(errors)) \/ UNCHANGED declared
    BY <1>9, Zenon DEF JudgeBelow, JudgeHybrid
  <2> QED BY <1>1, <1>2, <2>1 DEF declared
<1>10. CASE SubproofStep
  <2>1. \/ \E l : BeginSubproof(l)
        \/ \E l, phi : OpenAssuming(l, phi)
        \/ \E l, phi : OpenFresh(l, phi)
        \/ OpenBadly
        \/ \E phi : MisplacedOpening(phi)
        \/ CloseBlock
    BY <1>10, Zenon DEF SubproofStep
  <2>2. CASE \E l : BeginSubproof(l)
    BY <1>6, <2>2 DEF BeginSubproof
  <2>3. CASE \E l, phi : OpenAssuming(l, phi)
    <3>1. (\E errors : Refuse(errors)) \/ declarations' = Child(declarations)
      BY <2>3, Zenon DEF OpenAssuming, Open
    <3> QED BY <1>2, <3>1, OpeningMakes
  <2>4. CASE \E l, phi : OpenFresh(l, phi)
    <3>1. PICK l, phi : OpenFresh(l, phi)
      BY <2>4
    <3>2. \/ \E errors : Refuse(errors)
          \/ declarations' = Declare(Child(declarations), {FlagDeclaration(c) : c \in FlagNames(phi)})
      BY <3>1, Zenon DEF OpenFresh, Open
    <3> QED BY <1>2, <3>2, OpeningMakes
  <2>5. CASE OpenBadly \/ \E phi : MisplacedOpening(phi)
    BY <1>2, <2>5 DEF OpenBadly, MisplacedOpening
  <2>6. CASE CloseBlock
    <3>1. (\E errors : Refuse(errors)) \/ declarations' = Parent(declarations)
      BY <2>6, Zenon DEF CloseBlock
    <3>2. ASSUME declarations' = Parent(declarations) PROVE VisibleAreMade'
      <4>1. /\ declarations \in Seq(Tables(Name, Declaration)) /\ Len(declarations) > 1
            /\ Len(declarations) \in Nat
        BY <2>6, ScopesAreTyped DEF CloseBlock
      <4>2. /\ Parent(declarations) \in Seq(Tables(Name, Declaration))
            /\ Len(Parent(declarations)) = Len(declarations) - 1
            /\ \A i \in 1 .. Len(declarations) - 1 : Parent(declarations)[i] = declarations[i]
        BY <4>1, ParentLeaves
      <4>3. \A i \in DOMAIN declarations' : i \in DOMAIN declarations /\ declarations'[i] = declarations[i]
        BY <3>2, <4>1, <4>2
      <4>4. TablesAreMade(declarations, Made')
        BY MadeGrows DEF Grown, VisibleAreMade, TablesAreMade
      <4> QED BY <4>3, <4>4 DEF TablesAreMade, VisibleAreMade
    <3> QED BY <1>2, <3>1, <3>2
  <2> QED BY <2>1, <2>2, <2>3, <2>4, <2>5, <2>6
<1>11. CASE Finish \/ Done \/ UNCHANGED vars
  BY <1>1, <1>11 DEF Finish, Done, vars, declared
<1> QED BY <1>4, <1>5, <1>7, <1>8, <1>9, <1>10, <1>11 DEF Next

-----------------------------------------------------------------------------
(* Theorems.                                                               *)

LEMMA InitIsGrounded == Init => Grounded
<1> SUFFICES ASSUME Init PROVE Grounded
  OBVIOUS
<1>1. /\ blocks = <<Root>> /\ DOMAIN blocks = {1} /\ blocks[1] = Root
      /\ declarations = <<TableOf(InitialDeclarations)>> /\ DOMAIN declarations = {1}
      /\ declarations[1] = TableOf(InitialDeclarations)
  BY DEF Init
<1>2. Root.seen = {} /\ Root.last = NoFormula /\ Root.fresh = FALSE /\ Root.arbitraryInForce = 0
      /\ RecordsOf(Root) = {} /\ Root.pending.cites = <<>>
  BY DEF Root, RecordsOf, NothingPending, Entry, ToSet
<1>3. BlocksHold
  BY <1>1, <1>2 DEF BlocksHold, BlockHolds
<1>4. OpenersAreLines /\ FlagsAreDeclared /\ RootIsBare
  BY <1>1, <1>2 DEF OpenersAreLines, FlagsAreDeclared, FlagIsDeclared, RootIsBare
<1>5. VisibleAreMade
  <2>1. ASSUME NEW k \in DOMAIN TableOf(InitialDeclarations)
        PROVE  /\ TableOf(InitialDeclarations)[k] \in InitialDeclarations
               /\ TableOf(InitialDeclarations)[k].name = k
    <3>1. \E e \in InitialDeclarations : e.name = k
      BY DEF TableOf
    <3>2. TableOf(InitialDeclarations)[k] = CHOOSE e \in InitialDeclarations : e.name = k
      BY DEF TableOf
    <3> QED BY <3>1, <3>2
  <2> QED BY <1>1, <2>1 DEF VisibleAreMade, TableIsMade, Made
<1>6. CitesStayInReach
  BY <1>1, <1>2 DEF CitesStayInReach, CitesReach
<1> QED BY <1>3, <1>4, <1>5, <1>6 DEF Grounded

(* Every step keeps what a line rests on.                                  *)
LEMMA StepsStayGrounded ==
  ASSUME RulesAreSound, FreshLinesAreFlags, Kernel, Kernel', Grounded, [Next]_vars
  PROVE  Grounded'
<1>1. TypeOK /\ TypeOK'
  BY DEF Kernel, Invariant
<1>2. LinesStay
  BY <1>1, StepsHaveEffects, StepsKeepLines
<1>3. Grown
  BY StepsKeepBooks, StepsGrow
<1>4. Moves
  BY StepsMove
<1>5. VisibleAreMade'
  BY <1>1, <1>3, StepsMake DEF Grounded
<1> QED BY <1>1, <1>2, <1>3, <1>4, <1>5, MovesStayGrounded DEF Grounded

LEMMA GroundedIsSound == Grounded => Sound
<1> SUFFICES ASSUME Grounded, NEW i \in DOMAIN blocks
             PROVE  LinesFollow(i, Made) /\ RecordsFollow(i, Made)
  BY DEF Sound
<1>1. BlockHolds(blocks[i], Made, Hypotheses(i))
  BY DEF Grounded, BlocksHold
<1>2. LinesFollow(i, Made)
  BY <1>1 DEF BlockHolds, LinesFollow
<1>3. \A r \in blocks[i].seen \ Formula : Established(r, Made, Hypotheses(i)) /\ r \notin Formula
  BY <1>1 DEF BlockHolds, RecordsOf
<1>4. RecordsFollow(i, Made)
  BY <1>3 DEF RecordsFollow, Established
<1> QED BY <1>2, <1>4

(* The promise about truth: if each rule a proof may cite is sound where   *)
(* the walk can ask it, every line of every proof follows, in every state  *)
(* of the walk, from what was taken for granted and the assumptions of the *)
(* subproofs open around it, and what a closed subproof concluded follows  *)
(* from its own assumption besides.                                        *)
THEOREM WalkIsSound ==
  ASSUME RulesAreSound, FreshLinesAreFlags
  PROVE  Spec => []Sound
<1>1. Init => Grounded
  BY InitIsGrounded
<1>2. Kernel /\ Kernel' /\ Grounded /\ [Next]_vars => Grounded'
  BY StepsStayGrounded
<1>3. Grounded => Sound
  BY GroundedIsSound
<1> QED BY <1>1, <1>2, <1>3, KernelHolds, PTL DEF Spec

RootIsNoSubproof == ~ blocks[1].fresh
TopLevelFollows == \A f \in blocks[1].seen \cap Formula : Entails(Made, givenLines, f)

(* So the lines outside every subproof follow from what the proof took for *)
(* granted alone: no assumption of a subproof is behind a finished proof.  *)
THEOREM FinishedProofsFollow ==
  ASSUME RulesAreSound, FreshLinesAreFlags
  PROVE  Spec => []TopLevelFollows
<1>1. Init => Grounded /\ RootIsNoSubproof
  BY InitIsGrounded DEF Init, Root, RootIsNoSubproof
<1>2. Kernel /\ Kernel' /\ Grounded /\ RootIsNoSubproof /\ [Next]_vars
      => Grounded' /\ RootIsNoSubproof'
  <2> SUFFICES ASSUME Kernel, Kernel', Grounded, RootIsNoSubproof, [Next]_vars
               PROVE  Grounded' /\ RootIsNoSubproof'
    OBVIOUS
  <2>1. TypeOK /\ TypeOK'
    BY DEF Kernel, Invariant
  <2>2. 1 \in DOMAIN blocks /\ 1 \in DOMAIN blocks'
    <3>1. DOMAIN blocks' = 1 .. Len(blocks') /\ Len(blocks') \in Nat /\ Len(blocks') > 0
      BY <2>1, BoundAssumption DEF TypeOK
    <3> QED BY <2>1, <3>1, ScopesAreTyped
  <2>3. GoesOn(1)
    BY <2>2, StepsMove DEF Moves
  <2> QED BY <2>3, StepsStayGrounded DEF GoesOn, RootIsNoSubproof
<1>3. Kernel /\ Grounded /\ RootIsNoSubproof => TopLevelFollows
  <2> SUFFICES ASSUME Kernel, Grounded, RootIsNoSubproof, NEW f \in blocks[1].seen \cap Formula
               PROVE  Entails(Made, givenLines, f)
    BY DEF TopLevelFollows
  <2>1. 1 \in DOMAIN blocks
    BY ScopesAreTyped DEF Kernel, Invariant
  <2>2. Entails(Made, Hypotheses(1), f)
    BY <2>1 DEF Grounded, BlocksHold, BlockHolds, RootIsNoSubproof
  <2>3. AssumptionsAround(1) = {}
    BY DEF AssumptionsAround
  <2> QED BY <2>2, <2>3 DEF Hypotheses
<1> QED BY <1>1, <1>2, <1>3, KernelHolds, PTL DEF Spec

-----------------------------------------------------------------------------
(* The rules that compare whole formulas.                                  *)

(* What a candidate comes to in a structure that is as the declarations    *)
(* say and in which the hypotheses are true.                               *)
HoldsAt(c, m, flags) ==
  IF c \in Formula THEN c \in flags \/ TrueIn(c, m)
  ELSE c.conclusion = NoFormula \/ (TrueIn(c.assumption, m) => TrueIn(c.conclusion, m))

-----------------------------------------------------------------------------
(* Formulas and records.                                                   *)

LEMMA FormulasAreNoRecords ==
  /\ \A f \in Formula : ~ IsRecord(f)
  /\ \A r \in SubproofRecord : IsRecord(r) /\ r \notin Formula
  /\ \A c \in Item : IsRecord(c) <=> c \in SubproofRecord
<1>1. ASSUME NEW f \in Formula
      PROVE  ~ IsRecord(f)
  <2>1. f = [op |-> f.op, sym |-> f.sym, kids |-> f.kids]
    BY ShapeAssumption DEF Node
  <2> QED BY <2>1 DEF IsRecord
<1>2. \A r \in SubproofRecord : IsRecord(r) /\ r \notin Formula
  BY RecordAssumption DEF SubproofRecord, IsRecord
<1> QED BY <1>1, <1>2 DEF Item

(* A name that is an object is in no formula as its flag.                  *)
LEMMA FlagsAreNoParts ==
  ASSUME FreshLinesAreFlags, NEW flags \in SUBSET FreshLines,
         NEW f \in Formula, FlagsAreObjectsIn(f, flags)
  PROVE  /\ f \notin flags
         /\ f.op \in Connective => \A i \in DOMAIN f.kids : f.kids[i] \notin flags
<1>1. ASSUME NEW g \in flags, Uses(g) \subseteq Uses(f)
      PROVE  FALSE
  <2>1. PICK c \in Name : g = Flag(c)
    BY DEF FreshLinesAreFlags, IsFlag
  <2>2. PICK u \in Uses(g) : u.name = c /\ u.as # "object"
    BY <2>1, UsesAssumption
  <2> QED BY <1>1, <2>1, <2>2 DEF FlagsAreObjectsIn
<1> QED BY <1>1, UsesAssumption

LEMMA CompoundsAreNoFlags ==
  ASSUME FreshLinesAreFlags, NEW flags \in SUBSET FreshLines, NEW f \in flags
  PROVE  Is("atom", f)
BY UsesAssumption DEF FreshLinesAreFlags, IsFlag

-----------------------------------------------------------------------------
(* A rule is asked in a structure in which its candidates hold.            *)

AskedIn(cs, phi, m, flags) ==
  /\ cs \in Seq(Item) /\ phi \in Formula /\ m \in Structure /\ flags \in SUBSET FreshLines
  /\ \A i \in DOMAIN cs : HoldsAt(cs[i], m, flags)
  /\ \A i \in DOMAIN cs : cs[i] \in Formula /\ cs[i] \notin flags => FlagsAreObjectsIn(cs[i], flags)
  /\ FlagsAreObjectsIn(phi, flags)

(* A candidate that is a connective or an equation is true, and none of    *)
(* its parts, nor of the parts of the claim, is a flag.                    *)
LEMMA CompoundsHold ==
  ASSUME FreshLinesAreFlags, NEW cs, NEW phi, NEW m, NEW flags, AskedIn(cs, phi, m, flags),
         NEW i \in DOMAIN cs, NEW op \in Connective \cup {"equals"}, IsA(op, cs[i])
  PROVE  /\ cs[i] \in Formula /\ cs[i].op = op /\ TrueIn(cs[i], m)
         /\ op # "equals" => \A k \in DOMAIN cs[i].kids :
                               cs[i].kids[k] \in Formula /\ cs[i].kids[k] \notin flags
<1>1. cs[i] \in Item
  BY DEF AskedIn
<1>2. cs[i] \in Formula /\ cs[i].op = op
  BY <1>1, FormulasAreNoRecords DEF IsA, Item, Is
<1>3. cs[i] \notin flags
  BY <1>2, CompoundsAreNoFlags DEF AskedIn, Is, Connective
<1>4. TrueIn(cs[i], m)
  BY <1>2, <1>3 DEF AskedIn, HoldsAt
<1>5. op # "equals" => cs[i].kids \in Seq(Formula)
  BY <1>2, ShapeAssumption
<1> QED BY <1>2, <1>3, <1>4, <1>5, FlagsAreNoParts DEF AskedIn

LEMMA PartsOfTheClaim ==
  ASSUME FreshLinesAreFlags, NEW cs, NEW phi, NEW m, NEW flags, AskedIn(cs, phi, m, flags)
  PROVE  /\ phi \notin flags
         /\ phi.op \in Connective =>
              \A k \in DOMAIN phi.kids : phi.kids[k] \in Formula /\ phi.kids[k] \notin flags
<1>1. phi.op \in Connective => phi.kids \in Seq(Formula)
  BY ShapeAssumption DEF AskedIn
<1> QED BY <1>1, FlagsAreNoParts DEF AskedIn

(* Any other formula is true unless it is a flag.                          *)
LEMMA FormulasHold ==
  ASSUME NEW cs, NEW phi, NEW m, NEW flags, AskedIn(cs, phi, m, flags),
         NEW i \in DOMAIN cs, cs[i] \in Formula, cs[i] \notin flags
  PROVE  TrueIn(cs[i], m)
BY DEF AskedIn, HoldsAt

(* What a record concludes is true if its assumption is.                   *)
LEMMA RecordsHold ==
  ASSUME NEW cs, NEW phi, NEW m, NEW flags, AskedIn(cs, phi, m, flags),
         NEW i \in DOMAIN cs, IsRecord(cs[i])
  PROVE  /\ cs[i] \in SubproofRecord /\ cs[i].assumption \in Formula
         /\ cs[i].conclusion \in Formula \cup {NoFormula}
         /\ cs[i].conclusion \in Formula /\ TrueIn(cs[i].assumption, m) => TrueIn(cs[i].conclusion, m)
<1>1. cs[i] \in SubproofRecord
  BY FormulasAreNoRecords DEF AskedIn
<1>2. cs[i] \notin Formula
  BY <1>1, FormulasAreNoRecords
<1>3. cs[i].conclusion = NoFormula \/ (TrueIn(cs[i].assumption, m) => TrueIn(cs[i].conclusion, m))
  BY <1>2 DEF AskedIn, HoldsAt
<1> QED BY <1>1, <1>3, FormulaAssumption DEF SubproofRecord

-----------------------------------------------------------------------------
(* All of them, and the proofs that use them.                              *)

(* In one structure the candidates of a rule hold, as GroundVerdicts has    *)
(* it, and all formulas but flags state something.                         *)
LEMMA CandidatesHold ==
  ASSUME FreshLinesAreFlags, NEW cs, NEW phi, NEW m, NEW flags, AskedIn(cs, phi, m, flags)
  PROVE  Asked(cs, phi, Formula, Formula \ flags, {f \in Formula : TrueIn(f, m)})
<1> DEFINE S == Formula \ flags
           T == {f \in Formula : TrueIn(f, m)}
<1>1. cs \in Seq(Item) /\ Len(cs) \in Nat /\ DOMAIN cs = 1 .. Len(cs) /\ phi \in Formula /\ m \in Structure
  BY DEF AskedIn
<1>2. AreBuiltUp(Formula)
  BY ShapeAssumption DEF AreBuiltUp
<1>3. IsTruth(T, Formula)
  <2>1. ASSUME NEW f \in Formula
        PROVE  /\ f \in T <=> TrueIn(f, m)
               /\ f.op \in Connective => \A i \in DOMAIN f.kids : f.kids[i] \in T <=> TrueIn(f.kids[i], m)
               /\ Is("not", f) => 1 \in DOMAIN f.kids
               /\ Is("implies", f) \/ Is("iff", f) => 1 \in DOMAIN f.kids /\ 2 \in DOMAIN f.kids
    BY <1>2, PartsAreFormulas DEF Is
  <2>2. \A f \in Formula :
          /\ Is("not", f)     => (f \in T <=> f.kids[1] \notin T)
          /\ Is("and", f)     => (f \in T <=> \A i \in DOMAIN f.kids : f.kids[i] \in T)
          /\ Is("or", f)      => (f \in T <=> \E i \in DOMAIN f.kids : f.kids[i] \in T)
          /\ Is("implies", f) => (f \in T <=> (f.kids[1] \in T => f.kids[2] \in T))
          /\ Is("iff", f)     => (f \in T <=> (f.kids[1] \in T <=> f.kids[2] \in T))
    BY <1>1, <2>1, TruthAssumption DEF Is, Connective
  <2>3. \A f \in Formula :
          Is("equals", f) => (f \in T <=> Denotation(f.kids[1], m) = Denotation(f.kids[2], m))
    BY <1>1, TruthAssumption
  <2>4. \A f \in Formula : Contradictory(f) => f \notin T
    BY <1>1, ContradictionAssumption
  <2> HIDE DEF T
  <2>5. \A f, g \in {e \in Formula : Is("equals", e)} :
          f \in T /\ g.kids[1] = f.kids[2] /\ g.kids[2] = f.kids[1] => g \in T
    BY <2>3
  <2>6. \A f, g, h \in {e \in Formula : Is("equals", e)} :
          /\ f \in T /\ g \in T /\ f.kids[2] = g.kids[1]
          /\ h.kids[1] = f.kids[1] /\ h.kids[2] = g.kids[2]
          => h \in T
    BY <2>3
  <2>7. \A f \in Formula : Is("equals", f) /\ f.kids[1] = f.kids[2] => f \in T
    BY <2>3
  <2> QED BY <2>2, <2>4, <2>5, <2>6, <2>7, Zenon DEF IsTruth
<1>4. SaysSomething(phi, S)
  BY PartsOfTheClaim, <1>1 DEF SaysSomething
<1>5. ASSUME NEW i \in DOMAIN cs
      PROVE  CandidateHolds(cs[i], Formula, S, T)
  <2>1. CASE IsRecord(cs[i])
    BY <2>1, RecordsHold, ContradictionAssumption DEF CandidateHolds
  <2>2. CASE ~ IsRecord(cs[i])
    <3>1. cs[i] \in Formula
      BY <1>1, <2>2, FormulasAreNoRecords DEF Item
    <3>2. cs[i] \in S => cs[i] \in T
      BY FormulasHold
    <3>3. cs[i].op \in Connective \cup {"equals"} => SaysSomething(cs[i], S)
      BY <2>2, <3>1, CompoundsHold, CompoundsAreNoFlags DEF SaysSomething, IsA, Is, AskedIn, Connective
    <3> QED BY <2>2, <3>1, <3>2, <3>3 DEF CandidateHolds
  <2> QED BY <2>1, <2>2
<1>6. S \subseteq Formula
  OBVIOUS
<1> HIDE DEF S, T
<1>7. Asked(cs, phi, Formula, S, T)
  BY <1>1, <1>2, <1>3, <1>4, <1>5, <1>6, FormulasAreNoRecords DEF Asked
<1> QED BY <1>7 DEF S, T

LEMMA GroundVerdictsHold ==
  ASSUME FreshLinesAreFlags, NEW cs, NEW phi, NEW m, NEW flags, AskedIn(cs, phi, m, flags),
         NEW rule \in GroundRule, AskGround(rule, cs, phi)
  PROVE  TrueIn(phi, m)
<1>1. phi \in {f \in Formula : TrueIn(f, m)}
  BY CandidatesHold, GroundVerdictsAreTrue, Zenon
<1> QED BY <1>1

(* What a proof established holds in each structure it is about.           *)
LEMMA EstablishedHolds ==
  ASSUME NEW c, NEW D, NEW H, Established(c, D, H), NEW m \in Structure, NEW flags,
         \A d \in D : Means(d, m), \A h \in H : TrueIn(h, m)
  PROVE  HoldsAt(c, m, flags)
<1>1. CASE c \in Formula
  BY <1>1 DEF Established, Entails, HoldsAt
<1>2. CASE c \notin Formula
  <2>1. RecordHolds(c, D, H)
    BY <1>2 DEF Established
  <2>2. ASSUME TrueIn(c.assumption, m), Entails(D, H \cup Assumption(c), c.conclusion)
        PROVE  TrueIn(c.conclusion, m)
    <3>1. \A h \in H \cup Assumption(c) : TrueIn(h, m)
      BY <2>2 DEF Assumption
    <3> QED BY <2>2, <3>1 DEF Entails
  <2> QED BY <1>2, <2>1, <2>2 DEF RecordHolds, HoldsAt
<1> QED BY <1>1, <1>2

(* The rules of GroundRules claim what follows from candidates that a      *)
(* proof established, whatever they are and in whatever context.           *)
THEOREM GroundRulesAreSound ==
  ASSUME FreshLinesAreFlags, NEW rule, RuleIsGround(rule)
  PROVE  RuleIsSound(rule)
<1> SUFFICES ASSUME NEW cs \in Seq(Item), NEW phi \in Formula, NEW ctx \in RuleContext,
                    NEW D \in SUBSET Declaration, NEW flags \in SUBSET FreshLines,
                    \A c \in ToSet(cs) : c \in flags \/ Established(c, D, ctx.hypotheses),
                    \A f \in {phi} \cup ((ToSet(cs) \cap Formula) \ flags) : FlagsAreObjectsIn(f, flags),
                    Justifies(rule, cs, phi, ctx),
                    NEW m \in Structure,
                    \A d \in D : Means(d, m), \A h \in ctx.hypotheses : TrueIn(h, m)
             PROVE  TrueIn(phi, m)
  BY DEF RuleIsSound, Entails
<1>1. rule \in GroundRule /\ AskGround(rule, cs, phi)
  BY DEF RuleIsGround
<1>2. \A i \in DOMAIN cs : cs[i] \in ToSet(cs)
  BY DEF ToSet
<1>3. \A f \in flags : f \in Formula
  BY FormulaAssumption
<1>4. ASSUME NEW i \in DOMAIN cs
      PROVE  HoldsAt(cs[i], m, flags)
  <2>1. CASE cs[i] \in flags
    BY <1>3, <2>1 DEF HoldsAt
  <2>2. CASE cs[i] \notin flags
    BY <1>2, <2>2, EstablishedHolds
  <2> QED BY <2>1, <2>2
<1>5. AskedIn(cs, phi, m, flags)
  BY <1>2, <1>4 DEF AskedIn
<1> QED BY <1>1, <1>5, GroundVerdictsHold

(* So a line of a proof that uses such rules, and others that are sound,   *)
(* follows from what was taken for granted and the assumptions of the      *)
(* subproofs open around it.                                               *)
THEOREM GroundProofsAreSound ==
  ASSUME FreshLinesAreFlags, \A rule \in Registered : RuleIsGround(rule) \/ RuleIsSound(rule)
  PROVE  Spec => []Sound
<1>1. RulesAreSound
  BY GroundRulesAreSound DEF RulesAreSound
<1> QED BY <1>1, WalkIsSound

(* And what such a proof states outside its subproofs rests on no          *)
(* assumption of theirs.                                                   *)
THEOREM GroundProofsFollow ==
  ASSUME FreshLinesAreFlags, \A rule \in Registered : RuleIsGround(rule) \/ RuleIsSound(rule)
  PROVE  Spec => []TopLevelFollows
<1>1. RulesAreSound
  BY GroundRulesAreSound DEF RulesAreSound
<1> QED BY <1>1, FinishedProofsFollow

-----------------------------------------------------------------------------
(* The rules about quantified formulas.                                    *)

(* A flag among the candidates is not what the rule reads.                 *)
LEMMA FlagsAreNoInstances ==
  ASSUME FreshLinesAreFlags, NEW cs, NEW phi, NEW m, NEW flags, AskedIn(cs, phi, m, flags),
         NEW q \in Formula, IsQuantifier(q), FlagsAreObjectsIn(q, flags), NEW f,
         BodyMatches(q, f) \/ \E g \in Formula : BodyMatches(q, Implies(f, g))
  PROVE  f \notin flags
<1> SUFFICES ASSUME f \in flags
             PROVE  FALSE
  OBVIOUS
<1>1. PICK c \in Name : f = Flag(c)
  BY DEF AskedIn, FreshLinesAreFlags, IsFlag
<1>2. PICK u \in Uses(q) : u.name = c /\ u.as # "object"
  BY <1>1, FlagAssumption
<1> QED BY <1>1, <1>2 DEF FlagsAreObjectsIn

(* A candidate that is quantified is true.                                 *)
LEMMA QuantifiedHold ==
  ASSUME FreshLinesAreFlags, NEW cs, NEW phi, NEW m, NEW flags, AskedIn(cs, phi, m, flags),
         NEW i \in DOMAIN cs, NEW op \in {"forall", "exists"}, IsA(op, cs[i])
  PROVE  /\ cs[i] \in Formula /\ Is(op, cs[i]) /\ IsQuantifier(cs[i])
         /\ TrueIn(cs[i], m) /\ FlagsAreObjectsIn(cs[i], flags)
<1>1. cs[i] \in Item
  BY DEF AskedIn
<1>2. cs[i] \in Formula /\ Is(op, cs[i])
  BY <1>1, FormulasAreNoRecords DEF IsA, Item
<1>3. cs[i] \notin flags
  BY <1>2, CompoundsAreNoFlags DEF AskedIn, Is
<1> QED BY <1>2, <1>3, FormulasHold DEF AskedIn, Is, IsQuantifier

-----------------------------------------------------------------------------
(* The rules that cite formulas only.                                      *)

LEMMA UniversalInstantiationIsSound ==
  ASSUME FreshLinesAreFlags, NEW cs, NEW phi, NEW m, NEW flags, AskedIn(cs, phi, m, flags),
         Len(cs) = 1,
         UniversalInstantiation(cs, phi)
  PROVE  TrueIn(phi, m)
<1>1. 1 \in DOMAIN cs /\ phi \in Formula /\ m \in Structure
  BY DEF AskedIn
<1>2. cs[1] \in Formula /\ Is("forall", cs[1]) /\ IsQuantifier(cs[1]) /\ TrueIn(cs[1], m)
  BY <1>1, QuantifiedHold DEF UniversalInstantiation
<1>3. PICK v \in Domain(m) : BodyTrue(cs[1], v, m) <=> TrueIn(phi, m)
  BY <1>1, <1>2, MatchAssumption DEF UniversalInstantiation
<1> QED BY <1>1, <1>2, <1>3, QuantifierAssumption

LEMMA InstanceDetached ==
  ASSUME FreshLinesAreFlags, NEW cs, NEW phi, NEW m, NEW flags, AskedIn(cs, phi, m, flags),
         NEW i \in DOMAIN cs, NEW j \in DOMAIN cs,
         IsA("forall", cs[i]),
         ~ IsRecord(cs[j]),
         BodyMatches(cs[i], Implies(cs[j], phi))
  PROVE  TrueIn(phi, m)
<1>1. cs[j] \in Item /\ phi \in Formula /\ m \in Structure
  BY DEF AskedIn
<1>2. cs[j] \in Formula
  BY <1>1, FormulasAreNoRecords DEF Item
<1>3. /\ cs[i] \in Formula /\ Is("forall", cs[i]) /\ IsQuantifier(cs[i])
      /\ TrueIn(cs[i], m) /\ FlagsAreObjectsIn(cs[i], flags)
  BY QuantifiedHold
<1>4. cs[j] \notin flags
  BY <1>1, <1>3, FlagsAreNoInstances
<1>5. TrueIn(cs[j], m)
  BY <1>2, <1>4, FormulasHold
<1>6. PICK v \in Domain(m) : BodyTrue(cs[i], v, m) <=> (TrueIn(cs[j], m) => TrueIn(phi, m))
  BY <1>1, <1>2, <1>3, MatchAssumption
<1> QED BY <1>1, <1>3, <1>5, <1>6, QuantifierAssumption

LEMMA UniversalModusPonensIsSound ==
  ASSUME FreshLinesAreFlags, NEW cs, NEW phi, NEW m, NEW flags, AskedIn(cs, phi, m, flags),
         UniversalModusPonens(cs, phi)
  PROVE  TrueIn(phi, m)
<1>1. 1 \in DOMAIN cs /\ 2 \in DOMAIN cs
  BY DEF AskedIn, UniversalModusPonens, InSomeOrder
<1> QED BY <1>1, InstanceDetached DEF UniversalModusPonens, InSomeOrder

LEMMA ExistentialIntroductionIsSound ==
  ASSUME FreshLinesAreFlags, NEW cs, NEW phi, NEW m, NEW flags, AskedIn(cs, phi, m, flags),
         Len(cs) = 1,
         ExistentialIntroduction(cs, phi)
  PROVE  TrueIn(phi, m)
<1>1. /\ 1 \in DOMAIN cs /\ cs[1] \in Item /\ phi \in Formula /\ m \in Structure
      /\ FlagsAreObjectsIn(phi, flags)
  BY DEF AskedIn
<1>2. cs[1] \in Formula
  BY <1>1, FormulasAreNoRecords DEF ExistentialIntroduction, Item
<1>3. Is("exists", phi) /\ IsQuantifier(phi) /\ BodyMatches(phi, cs[1])
  BY DEF ExistentialIntroduction, Is, IsQuantifier
<1>4. cs[1] \notin flags
  BY <1>1, <1>3, FlagsAreNoInstances
<1>5. TrueIn(cs[1], m)
  BY <1>1, <1>2, <1>4, FormulasHold
<1>6. PICK v \in Domain(m) : BodyTrue(phi, v, m) <=> TrueIn(cs[1], m)
  BY <1>1, <1>2, <1>3, MatchAssumption
<1> QED BY <1>1, <1>3, <1>5, <1>6, QuantifierAssumption

-----------------------------------------------------------------------------
(* The rules that consume the record of a subproof.                        *)

(* What a proof established holds also where the constant stands for some  *)
(* other object, if nothing is said about the constant.                    *)
LEMMA EstablishedHoldsElsewhere ==
  ASSUME DeclarationsSayNoMore,
         NEW D \in SUBSET Declaration, NEW ctx \in RuleContext, ContextFits(ctx, D),
         NEW c \in Name, SaidNothingAbout(c, ctx),
         NEW m \in Structure, \A d \in D : Means(d, m), \A h \in ctx.hypotheses : TrueIn(h, m),
         NEW v \in Domain(m)
  PROVE  LET n == Reinterpreted(m, c, v)
         IN  /\ n \in Structure
             /\ \A d \in D : Means(d, n)
             /\ \A h \in ctx.hypotheses : TrueIn(h, n)
<1> DEFINE n == Reinterpreted(m, c, v)
<1>1. n \in Structure
  BY ReinterpretationAssumption
<1>2. ASSUME NEW d \in D
      PROVE  Means(d, n)
  <2>1. c \notin d.refers
    BY DEF SaidNothingAbout, ContextFits, Refers
  <2> QED BY <2>1 DEF DeclarationsSayNoMore
<1>3. ASSUME NEW h \in ctx.hypotheses
      PROVE  TrueIn(h, n)
  <2>1. h \in Formula /\ ~ Occurs(c, h)
    BY DEF RuleContext, SaidNothingAbout
  <2> QED BY <2>1, ReinterpretationAssumption
<1> QED BY <1>1, <1>2, <1>3

(* The witness of the existential formula is what the constant may as well *)
(* stand for.                                                              *)
LEMMA WitnessIsSomeObject ==
  ASSUME DeclarationsSayNoMore,
         NEW D \in SUBSET Declaration, NEW ctx \in RuleContext, ContextFits(ctx, D),
         NEW m \in Structure, \A d \in D : Means(d, m), \A h \in ctx.hypotheses : TrueIn(h, m),
         NEW q \in Formula, Is("exists", q), TrueIn(q, m),
         NEW r \in SubproofRecord, Established(r, D, ctx.hypotheses),
         NEW phi \in Formula, r.conclusion = phi,
         BodyMatches(q, r.assumption),
         \A t \in ReadsAs(q, r.assumption) :
           /\ Is("const", t)
           /\ ~ Occurs(t.sym, phi)
           /\ ~ Occurs(t.sym, q)
           /\ SaidNothingAbout(t.sym, ctx)
  PROVE  TrueIn(phi, m)
<1>1. r \notin Formula /\ r.assumption \in Formula /\ IsQuantifier(q) /\ phi # NoFormula
  BY FormulasAreNoRecords, FormulaAssumption DEF SubproofRecord, Is, IsQuantifier
<1>2. PICK v \in Domain(m) : BodyTrue(q, v, m)
  BY <1>1, QuantifierAssumption
<1>3. CASE ReadsAs(q, r.assumption) = {}
  <2>1. TrueIn(r.assumption, m)
    BY <1>1, <1>2, <1>3, MatchAssumption
  <2>2. HoldsAt(r, m, {})
    BY EstablishedHolds
  <2> QED BY <1>1, <2>1, <2>2 DEF HoldsAt
<1>4. CASE ReadsAs(q, r.assumption) # {}
  <2>1. PICK t \in ReadsAs(q, r.assumption) : TRUE
    BY <1>4
  <2> DEFINE n == Reinterpreted(m, t.sym, v)
  <2>2. t.sym \in Name /\ (TrueIn(r.assumption, n) <=> BodyTrue(q, v, m))
    BY <1>1, ConstantAssumption
  <2>3. /\ n \in Structure
        /\ \A d \in D : Means(d, n)
        /\ \A h \in ctx.hypotheses : TrueIn(h, n)
    BY <2>2, EstablishedHoldsElsewhere
  <2>4. HoldsAt(r, n, {})
    BY <2>3, EstablishedHolds
  <2>5. TrueIn(phi, n)
    BY <1>1, <1>2, <2>2, <2>4 DEF HoldsAt
  <2> QED BY <2>2, <2>5, ReinterpretationAssumption
<1> QED BY <1>3, <1>4

(* A subproof that a flag opened concluded the body of each object.        *)
LEMMA ArbitraryIsEveryObject ==
  ASSUME DeclarationsSayNoMore,
         NEW D \in SUBSET Declaration, NEW ctx \in RuleContext, ContextFits(ctx, D),
         NEW m \in Structure, \A d \in D : Means(d, m), \A h \in ctx.hypotheses : TrueIn(h, m),
         NEW r \in SubproofRecord, Established(r, D, ctx.hypotheses),
         NEW phi \in Formula, ctx \in RuleContext,
         UniversalGeneralization(<<r>>, phi, ctx), NothingIsLeft(<<r>>, phi)
  PROVE  TrueIn(phi, m)
<1>1. /\ r \notin Formula
      /\ r.assumption \in Formula
      /\ r.conclusion \in Formula \cup {NoFormula}
  BY FormulasAreNoRecords DEF SubproofRecord
<1>2. phi \in Formula /\ Is("forall", phi) /\ IsQuantifier(phi) /\ BodyMatches(phi, r.conclusion)
  BY DEF UniversalGeneralization, Is, IsQuantifier
<1>3. r.conclusion \in Formula /\ r.conclusion # NoFormula
  BY <1>1, <1>2, MatchAssumption, FormulaAssumption
<1>4. PICK t \in ReadsAs(phi, r.conclusion) : TRUE
  BY DEF UniversalGeneralization
<1>5. /\ Is("const", t)
      /\ r.assumption = Atom(t.sym, <<>>)
      /\ SaidNothingAbout(t.sym, ctx)
      /\ ~ Occurs(t.sym, phi)
  BY <1>4 DEF UniversalGeneralization, NothingIsLeft
<1>6. /\ t.sym \in Name
      /\ \E u \in Uses(r.conclusion) : u.name = t.sym /\ u.as = "object"
      /\ \A v \in Domain(m) :
           TrueIn(r.conclusion, Reinterpreted(m, t.sym, v)) <=> BodyTrue(phi, v, m)
  BY <1>2, <1>3, <1>4, <1>5, ConstantAssumption
<1>7. r.assumption = Flag(t.sym)
  BY <1>5, <1>6, FlagAssumption
<1>8. r.fresh
  <2> SUFFICES ASSUME ~ r.fresh
               PROVE  FALSE
    OBVIOUS
  <2>1. ReadTogether(r.assumption, r.conclusion)
    BY <1>1, <1>3 DEF Established
  <2>2. PICK u \in Uses(r.assumption) : u.name = t.sym /\ u.as # "object"
    BY <1>6, <1>7, UsesAssumption
  <2>3. PICK w \in Uses(r.conclusion) : w.name = t.sym /\ w.as = "object"
    BY <1>6
  <2>4. KindsFor(u.as) \cap KindsFor(w.as) # {}
    BY <2>1, <2>2, <2>3 DEF ReadTogether
  <2> QED BY <2>2, <2>3, <2>4 DEF KindsFor
<1>9. ~ IsFlag(r.conclusion)
  BY <1>2, <1>4, FlagAssumption DEF IsFlag
<1>10. Entails(D, ctx.hypotheses, r.conclusion)
  BY <1>1, <1>3, <1>8, <1>9 DEF Established, RecordHolds, Assumption
<1>11. ASSUME NEW v \in Domain(m)
       PROVE  BodyTrue(phi, v, m)
  <2> DEFINE n == Reinterpreted(m, t.sym, v)
  <2>1. /\ n \in Structure
        /\ \A d \in D : Means(d, n)
        /\ \A h \in ctx.hypotheses : TrueIn(h, n)
    BY <1>5, <1>6, EstablishedHoldsElsewhere
  <2> QED BY <1>6, <1>10, <2>1 DEF Entails
<1> QED BY <1>2, <1>11, QuantifierAssumption

-----------------------------------------------------------------------------
(* All of them, and the proofs that use them.                              *)

(* Candidates that a proof established are what a rule may ask about.       *)
LEMMA EstablishedIsAsked ==
  ASSUME NEW cs \in Seq(Item), NEW phi \in Formula, NEW ctx \in RuleContext,
         NEW D \in SUBSET Declaration, NEW flags \in SUBSET FreshLines,
         \A c \in ToSet(cs) : c \in flags \/ Established(c, D, ctx.hypotheses),
         \A f \in {phi} \cup ((ToSet(cs) \cap Formula) \ flags) : FlagsAreObjectsIn(f, flags),
         NEW m \in Structure,
         \A d \in D : Means(d, m), \A h \in ctx.hypotheses : TrueIn(h, m)
  PROVE  AskedIn(cs, phi, m, flags)
<1>1. \A i \in DOMAIN cs : cs[i] \in ToSet(cs)
  BY DEF ToSet
<1>2. \A i \in DOMAIN cs : cs[i] \in flags \/ Established(cs[i], D, ctx.hypotheses)
  BY <1>1
<1>3. \A f \in flags : f \in Formula
  BY FormulaAssumption
<1>4. ASSUME NEW i \in DOMAIN cs
      PROVE  HoldsAt(cs[i], m, flags)
  <2>1. CASE cs[i] \in flags
    BY <1>3, <2>1 DEF HoldsAt
  <2>2. CASE cs[i] \notin flags
    BY <1>2, <2>2, EstablishedHolds
  <2> QED BY <2>1, <2>2
<1> QED BY <1>1, <1>4 DEF AskedIn

LEMMA QuantifierVerdictsHold ==
  ASSUME FreshLinesAreFlags, DeclarationsSayNoMore,
         NEW cs, NEW phi, NEW m, NEW flags, AskedIn(cs, phi, m, flags),
         NEW D \in SUBSET Declaration, NEW ctx \in RuleContext, ContextFits(ctx, D),
         \A d \in D : Means(d, m), \A h \in ctx.hypotheses : TrueIn(h, m),
         \A i \in DOMAIN cs : cs[i] \in flags \/ Established(cs[i], D, ctx.hypotheses),
         NEW rule \in QuantifierRule, AskQuantifier(rule, cs, phi, ctx),
         rule = "UniversalGeneralization" => NothingIsLeft(cs, phi)
  PROVE  TrueIn(phi, m)
<1>1. cs \in Seq(Item) /\ phi \in Formula /\ m \in Structure /\ flags \in SUBSET FreshLines
  BY DEF AskedIn
<1>2. \A i \in DOMAIN cs : IsRecord(cs[i]) =>
        cs[i] \in SubproofRecord /\ Established(cs[i], D, ctx.hypotheses)
  <2>1. \A f \in flags : f \in Formula
    BY <1>1, FormulaAssumption
  <2> QED BY <1>1, <2>1, FormulasAreNoRecords
<1>3. CASE rule = "UniversalInstantiation"
  BY <1>3, UniversalInstantiationIsSound DEF AskQuantifier, PremiseArity, OnePremise
<1>4. CASE rule = "UniversalModusPonens"
  BY <1>4, UniversalModusPonensIsSound DEF AskQuantifier
<1>5. CASE rule = "ExistentialIntroduction"
  BY <1>5, ExistentialIntroductionIsSound DEF AskQuantifier, PremiseArity, OnePremise
<1>6. CASE rule = "ExistentialElimination"
  <2>1. PICK i, j \in {1, 2} :
          /\ 1 \in DOMAIN cs /\ 2 \in DOMAIN cs
          /\ IsA("exists", cs[i]) /\ IsRecord(cs[j]) /\ cs[j].conclusion = phi
          /\ BodyMatches(cs[i], cs[j].assumption)
          /\ \A t \in ReadsAs(cs[i], cs[j].assumption) :
               /\ Is("const", t)
               /\ ~ Occurs(t.sym, phi)
               /\ ~ Occurs(t.sym, cs[i])
               /\ SaidNothingAbout(t.sym, ctx)
    BY <1>1, <1>6 DEF AskQuantifier, ExistentialElimination, InSomeOrder
  <2>2. cs[i] \in Formula /\ Is("exists", cs[i]) /\ TrueIn(cs[i], m)
    BY <2>1, QuantifiedHold
  <2>3. cs[j] \in SubproofRecord /\ Established(cs[j], D, ctx.hypotheses)
    BY <1>2, <2>1
  <2> QED BY <1>1, <2>1, <2>2, <2>3, WitnessIsSomeObject
<1>7. CASE rule = "UniversalGeneralization"
  <2>1. UniversalGeneralization(cs, phi, ctx) /\ Len(cs) = 1 /\ NothingIsLeft(cs, phi)
    BY <1>7 DEF AskQuantifier, PremiseArity, OnePremise
  <2>2. 1 \in DOMAIN cs /\ cs = <<cs[1]>>
    BY <1>1, <2>1
  <2>3. cs[1] \in SubproofRecord /\ Established(cs[1], D, ctx.hypotheses)
    BY <1>2, <2>1, <2>2 DEF UniversalGeneralization
  <2> QED BY <1>1, <2>1, <2>2, <2>3, ArbitraryIsEveryObject
<1> QED BY <1>3, <1>4, <1>5, <1>6, <1>7 DEF QuantifierRule

(* Universal instantiation, universal modus ponens, existential            *)
(* introduction and elimination claim what follows from candidates that a  *)
(* proof established, and so does universal generalization if it           *)
(* generalizes every occurrence of its constant.                           *)
THEOREM QuantifierRulesAreSound ==
  ASSUME FreshLinesAreFlags, DeclarationsSayNoMore, NEW rule, RuleIsQuantifier(rule)
  PROVE  RuleIsSound(rule)
<1> SUFFICES ASSUME NEW cs \in Seq(Item), NEW phi \in Formula, NEW ctx \in RuleContext,
                    NEW D \in SUBSET Declaration, NEW flags \in SUBSET FreshLines,
                    ContextFits(ctx, D),
                    \A c \in ToSet(cs) : c \in flags \/ Established(c, D, ctx.hypotheses),
                    \A f \in {phi} \cup ((ToSet(cs) \cap Formula) \ flags) : FlagsAreObjectsIn(f, flags),
                    Justifies(rule, cs, phi, ctx),
                    NEW m \in Structure,
                    \A d \in D : Means(d, m), \A h \in ctx.hypotheses : TrueIn(h, m)
             PROVE  TrueIn(phi, m)
  BY DEF RuleIsSound, Entails
<1>1. /\ rule \in QuantifierRule /\ AskQuantifier(rule, cs, phi, ctx)
      /\ rule = "UniversalGeneralization" => NothingIsLeft(cs, phi)
  BY DEF RuleIsQuantifier
<1>2. \A i \in DOMAIN cs : cs[i] \in ToSet(cs)
  BY DEF ToSet
<1>3. \A i \in DOMAIN cs : cs[i] \in flags \/ Established(cs[i], D, ctx.hypotheses)
  BY <1>2
<1>4. AskedIn(cs, phi, m, flags)
  BY EstablishedIsAsked
<1> QED BY <1>1, <1>3, <1>4, QuantifierVerdictsHold

-----------------------------------------------------------------------------
(* The rules that read declarations.                                       *)

(* A candidate that is an atom with two terms is true.                     *)
LEMMA PairsHold ==
  ASSUME FreshLinesAreFlags, NEW cs, NEW phi, NEW m, NEW flags, AskedIn(cs, phi, m, flags),
         NEW i \in DOMAIN cs, IsPair(cs[i])
  PROVE  /\ cs[i] \in Formula /\ m \in Structure
         /\ cs[i] = Related(cs[i].sym, cs[i].kids[1], cs[i].kids[2])
         /\ \A k \in 1 .. 2 : /\ Denotation(cs[i].kids[k], m) \in Domain(m)
                              /\ Is("const", cs[i].kids[k]) => cs[i].kids[k] = Const(cs[i].kids[k].sym)
         /\ Holds(cs[i].sym, Denotation(cs[i].kids[1], m), Denotation(cs[i].kids[2], m), m)
<1>1. cs[i] \in Item /\ m \in Structure
  BY DEF AskedIn
<1>2. cs[i] \in Formula /\ Is("atom", cs[i]) /\ Len(cs[i].kids) = 2
  BY <1>1, FormulasAreNoRecords DEF IsPair, IsA, Item
<1>3. cs[i] \notin flags
  <2> SUFFICES ASSUME cs[i] \in flags
               PROVE  FALSE
    OBVIOUS
  <2>1. PICK c \in Name : cs[i] = Flag(c)
    BY DEF AskedIn, FreshLinesAreFlags, IsFlag
  <2>2. cs[i].kids = <<>>
    BY <2>1, FlagAssumption DEF Atom, Node
  <2> QED BY <1>2, <2>2
<1>4. TrueIn(cs[i], m)
  BY <1>2, <1>3, FormulasHold
<1>5. cs[i] = Related(cs[i].sym, cs[i].kids[1], cs[i].kids[2])
  <2>1. cs[i] = Node("atom", cs[i].sym, cs[i].kids) /\ cs[i].kids = <<cs[i].kids[1], cs[i].kids[2]>>
    BY <1>2, ShapeAssumption, PairAssumption DEF Is
  <2> QED BY <2>1 DEF Related, Atom
<1> QED BY <1>1, <1>2, <1>4, <1>5, PairAssumption

(* An atom that the claim states, or denies, or is one of two of.          *)
LEMMA PairsAreTrue ==
  ASSUME NEW f \in Formula, IsPair(f), NEW m \in Structure
  PROVE  TrueIn(f, m) <=> Holds(f.sym, Denotation(f.kids[1], m), Denotation(f.kids[2], m), m)
BY PairAssumption

(* The relation is as the declaration visible at the line says, on the     *)
(* carrier it names.                                                       *)
LEMMA DeclaredPropertyHolds ==
  ASSUME RelationsAreAsDeclared,
         NEW D \in SUBSET Declaration, NEW ctx \in RuleContext, ContextFits(ctx, D),
         NEW m \in Structure, \A d \in D : Means(d, m),
         NEW r, NEW p, Has(ctx, r, p)
  PROVE  \E d \in ctx.declared :
           /\ d.name = r /\ HasProperty(d, p, m)
           /\ \A X : On(ctx, r, X) => d.refers = {X}
<1>1. PICK d \in ctx.declared :
        d.name = r /\ d.kind = "predicate" /\ d.arity = 2 /\ p \in d.properties
  BY DEF Has
<1>2. d \in D /\ d \in Declaration
  BY <1>1 DEF ContextFits, SaysNothing, RuleContext
<1>3. HasProperty(d, p, m)
  BY <1>1, <1>2 DEF RelationsAreAsDeclared
<1>4. ASSUME NEW X, On(ctx, r, X)
      PROVE  d.refers = {X}
  <2>1. PICK e \in ctx.declared : e.name = r /\ e.refers = {X}
    BY <1>4 DEF On
  <2>2. e = d
    BY <1>1, <2>1 DEF ContextFits
  <2> QED BY <2>1, <2>2
<1> QED BY <1>1, <1>3, <1>4

LEMMA PropertyOnCarrier ==
  ASSUME RelationsAreAsDeclared,
         NEW D \in SUBSET Declaration, NEW ctx \in RuleContext, ContextFits(ctx, D),
         NEW m \in Structure, \A d \in D : Means(d, m),
         NEW r, NEW p, Has(ctx, r, p), NEW X, On(ctx, r, X)
  PROVE  \E d \in ctx.declared : d.name = r /\ HasProperty(d, p, m) /\ d.refers = {X}
<1>1. PICK d \in ctx.declared :
        d.name = r /\ HasProperty(d, p, m) /\ \A Y : On(ctx, r, Y) => d.refers = {Y}
  BY DeclaredPropertyHolds
<1> QED BY <1>1

(* The object that the candidate says is a member is one of the carrier.   *)
LEMMA MembersAreOnCarrier ==
  ASSUME FreshLinesAreFlags, NEW cs, NEW phi, NEW m, NEW flags, AskedIn(cs, phi, m, flags),
         NEW i \in DOMAIN cs, IsMembership(cs[i]),
         NEW d, d.refers = {cs[i].kids[2].sym}
  PROVE  Denotation(cs[i].kids[1], m) \in Domain(m) /\ OnCarrier(d, Denotation(cs[i].kids[1], m), m)
<1>1. /\ cs[i].sym = "In" /\ cs[i].kids[2] = Const(cs[i].kids[2].sym)
      /\ Denotation(cs[i].kids[1], m) \in Domain(m)
      /\ Holds("In", Denotation(cs[i].kids[1], m), Denotation(cs[i].kids[2], m), m)
  BY PairsHold DEF IsMembership
<1> QED BY <1>1 DEF OnCarrier

(* What is denied is a formula, and false.                                 *)
LEMMA DeniedPart ==
  ASSUME NEW phi \in Formula, Is("not", phi), NEW m \in Structure
  PROVE  phi.kids[1] \in Formula /\ (TrueIn(phi, m) <=> ~ TrueIn(phi.kids[1], m))
<1>1. phi.kids \in Seq(Formula) /\ Len(phi.kids) = 1
  BY ShapeAssumption DEF Is, Connective
<1> QED BY <1>1, TruthAssumption

LEMMA RelationReflexivityIsSound ==
  ASSUME FreshLinesAreFlags, RelationsAreAsDeclared,
         NEW cs, NEW phi, NEW m, NEW flags, AskedIn(cs, phi, m, flags), Len(cs) = 1,
         NEW D \in SUBSET Declaration, NEW ctx \in RuleContext, ContextFits(ctx, D),
         \A d \in D : Means(d, m),
         NEW f \in Formula,
         NEW p \in {"reflexive", "irreflexive"}, FromMember(cs, f, p, ctx)
  PROVE  IF p = "reflexive" THEN TrueIn(f, m) ELSE ~ TrueIn(f, m)
<1>1. 1 \in DOMAIN cs /\ m \in Structure
  BY DEF AskedIn
<1>2. PICK d \in ctx.declared :
        d.name = f.sym /\ HasProperty(d, p, m) /\ d.refers = {cs[1].kids[2].sym}
  <2>1. Has(ctx, f.sym, p) /\ On(ctx, f.sym, cs[1].kids[2].sym)
    BY DEF FromMember
  <2> QED BY <1>1, <2>1, PropertyOnCarrier
<1> DEFINE u == Denotation(cs[1].kids[1], m)
<1>3. u \in Domain(m) /\ OnCarrier(d, u, m)
  BY <1>1, <1>2, MembersAreOnCarrier DEF FromMember
<1>4. TrueIn(f, m) <=> Holds(f.sym, u, u, m)
  BY <1>1, PairsAreTrue DEF FromMember
<1> HIDE DEF u
<1> QED BY <1>2, <1>3, <1>4 DEF HasProperty

LEMMA RelationSymmetryIsSound ==
  ASSUME FreshLinesAreFlags, RelationsAreAsDeclared,
         NEW cs, NEW phi, NEW m, NEW flags, AskedIn(cs, phi, m, flags), Len(cs) = 1,
         NEW D \in SUBSET Declaration, NEW ctx \in RuleContext, ContextFits(ctx, D),
         \A d \in D : Means(d, m),
         NEW f \in Formula,
         NEW p \in {"symmetric", "asymmetric"}, Converse(cs, f, p, ctx)
  PROVE  IF p = "symmetric" THEN TrueIn(f, m) ELSE ~ TrueIn(f, m)
<1>1. 1 \in DOMAIN cs /\ m \in Structure /\ IsPair(cs[1])
  BY DEF AskedIn, Converse
<1> DEFINE r == cs[1].sym
           u == Denotation(cs[1].kids[1], m)
           v == Denotation(cs[1].kids[2], m)
<1>2. PICK d \in ctx.declared : d.name = r /\ HasProperty(d, p, m)
  BY <1>1, DeclaredPropertyHolds DEF Converse
<1>3. u \in Domain(m) /\ v \in Domain(m) /\ Holds(r, u, v, m)
  BY <1>1, PairsHold
<1>4. f = Related(r, cs[1].kids[2], cs[1].kids[1])
  BY DEF Converse
<1>5. f.op = "atom" /\ f.sym = r /\ f.kids = <<cs[1].kids[2], cs[1].kids[1]>> /\ ~ IsRecord(f)
  BY <1>4, FormulasAreNoRecords DEF Related, Atom, Node
<1>6. IsPair(f) /\ f.kids[1] = cs[1].kids[2] /\ f.kids[2] = cs[1].kids[1]
  BY <1>5 DEF IsPair, IsA, Is
<1>7. TrueIn(f, m) <=> Holds(r, v, u, m)
  BY <1>1, <1>5, <1>6, PairsAreTrue
<1> HIDE DEF r, u, v
<1> QED BY <1>2, <1>3, <1>7 DEF HasProperty

LEMMA RelationAntisymmetryIsSound ==
  ASSUME FreshLinesAreFlags, RelationsAreAsDeclared,
         NEW cs, NEW phi, NEW m, NEW flags, AskedIn(cs, phi, m, flags), Len(cs) = 2,
         NEW D \in SUBSET Declaration, NEW ctx \in RuleContext, ContextFits(ctx, D),
         \A d \in D : Means(d, m),
         RelationAntisymmetry(cs, phi, ctx)
  PROVE  TrueIn(phi, m)
<1>1. 1 \in DOMAIN cs /\ 2 \in DOMAIN cs /\ m \in Structure /\ phi \in Formula /\ IsPair(cs[1])
  BY DEF AskedIn, RelationAntisymmetry
<1> DEFINE r == cs[1].sym
           s == cs[1].kids[1]
           t == cs[1].kids[2]
           u == Denotation(s, m)
           v == Denotation(t, m)
<1>2. PICK d \in ctx.declared : d.name = r /\ HasProperty(d, "antisymmetric", m)
  BY <1>1, DeclaredPropertyHolds DEF RelationAntisymmetry
<1>3. u \in Domain(m) /\ v \in Domain(m) /\ Holds(r, u, v, m)
  BY <1>1, PairsHold
<1>4. cs[2] = Related(r, t, s)
  BY DEF RelationAntisymmetry
<1>5. cs[2].op = "atom" /\ cs[2].sym = r /\ cs[2].kids = <<t, s>> /\ ~ IsRecord(cs[2])
  BY <1>4 DEF Related, Atom, Node, IsRecord
<1>6. IsPair(cs[2]) /\ cs[2].kids[1] = t /\ cs[2].kids[2] = s
  BY <1>5 DEF IsPair, IsA, Is
<1>7. Holds(r, v, u, m)
  BY <1>1, <1>5, <1>6, PairsHold
<1>8. phi = Equals(s, t)
  BY DEF RelationAntisymmetry
<1>9. Is("equals", phi) /\ phi.kids[1] = s /\ phi.kids[2] = t
  BY <1>8 DEF Equals, Node, Is
<1>10. TrueIn(phi, m) <=> u = v
  BY <1>1, <1>9, TruthAssumption
<1> HIDE DEF r, u, v, s, t
<1> QED BY <1>2, <1>3, <1>7, <1>10 DEF HasProperty

LEMMA RelationTransitivityIsSound ==
  ASSUME FreshLinesAreFlags, RelationsAreAsDeclared,
         NEW cs, NEW phi, NEW m, NEW flags, AskedIn(cs, phi, m, flags), Len(cs) = 2,
         NEW D \in SUBSET Declaration, NEW ctx \in RuleContext, ContextFits(ctx, D),
         \A d \in D : Means(d, m),
         RelationTransitivity(cs, phi, ctx)
  PROVE  TrueIn(phi, m)
<1>1. 1 \in DOMAIN cs /\ 2 \in DOMAIN cs /\ m \in Structure /\ phi \in Formula
  BY DEF AskedIn
<1>2. IsPair(cs[1]) /\ IsPair(cs[2]) /\ cs[2].sym = cs[1].sym /\ cs[2].kids[1] = cs[1].kids[2]
  BY DEF RelationTransitivity
<1> DEFINE r == cs[1].sym
           u == Denotation(cs[1].kids[1], m)
           v == Denotation(cs[1].kids[2], m)
           w == Denotation(cs[2].kids[2], m)
<1>3. PICK d \in ctx.declared : d.name = r /\ HasProperty(d, "transitive", m)
  BY <1>1, DeclaredPropertyHolds DEF RelationTransitivity
<1>4. u \in Domain(m) /\ v \in Domain(m) /\ Holds(r, u, v, m)
  BY <1>1, <1>2, PairsHold
<1>5. w \in Domain(m) /\ Holds(r, v, w, m)
  BY <1>1, <1>2, PairsHold
<1>6. phi = Related(r, cs[1].kids[1], cs[2].kids[2])
  BY DEF RelationTransitivity
<1>7. /\ phi.op = "atom" /\ phi.sym = r /\ ~ IsRecord(phi)
      /\ phi.kids = <<cs[1].kids[1], cs[2].kids[2]>>
  BY <1>6 DEF Related, Atom, Node, IsRecord
<1>8. IsPair(phi) /\ phi.kids[1] = cs[1].kids[1] /\ phi.kids[2] = cs[2].kids[2]
  BY <1>7 DEF IsPair, IsA, Is
<1>9. TrueIn(phi, m) <=> Holds(r, u, w, m)
  BY <1>1, <1>7, <1>8, PairsAreTrue
<1> HIDE DEF r, u, v, w
<1> QED BY <1>3, <1>4, <1>5, <1>9 DEF HasProperty

LEMMA RelationTotalityIsSound ==
  ASSUME FreshLinesAreFlags, RelationsAreAsDeclared,
         NEW cs, NEW phi, NEW m, NEW flags, AskedIn(cs, phi, m, flags), Len(cs) = 2,
         NEW D \in SUBSET Declaration, NEW ctx \in RuleContext, ContextFits(ctx, D),
         \A d \in D : Means(d, m),
         RelationTotality(cs, phi, ctx)
  PROVE  TrueIn(phi, m)
<1> DEFINE r == phi.kids[1].sym
           s == phi.kids[1].kids[1]
           t == phi.kids[1].kids[2]
           u == Denotation(s, m)
           v == Denotation(t, m)
<1>1. /\ IsMembership(cs[1]) /\ IsMembership(cs[2]) /\ cs[1].kids[2] = cs[2].kids[2]
      /\ Is("or", phi) /\ Len(phi.kids) = 2 /\ IsPair(phi.kids[1])
      /\ phi.kids[2] = Related(r, t, s)
      /\ Has(ctx, r, "total") /\ On(ctx, r, cs[1].kids[2].sym)
      /\ <<s, t>> \in {<<cs[1].kids[1], cs[2].kids[1]>>, <<cs[2].kids[1], cs[1].kids[1]>>}
  BY DEF RelationTotality
<1>2. 1 \in DOMAIN cs /\ 2 \in DOMAIN cs /\ m \in Structure /\ phi \in Formula
  BY DEF AskedIn
<1>3. phi.kids \in Seq(Formula)
  BY <1>1, <1>2, ShapeAssumption DEF Is, Connective
<1>4. phi.kids[1] \in Formula /\ phi.kids[2] \in Formula
  BY <1>1, <1>3
<1>5. PICK d \in ctx.declared :
        /\ d.name = r /\ HasProperty(d, "total", m)
        /\ \A X : On(ctx, r, X) => d.refers = {X}
  BY <1>1, <1>2, DeclaredPropertyHolds
<1>6. \A i \in 1 .. 2 : Denotation(cs[i].kids[1], m) \in Domain(m)
                         /\ OnCarrier(d, Denotation(cs[i].kids[1], m), m)
  BY <1>1, <1>2, <1>5, MembersAreOnCarrier
<1>7. u \in Domain(m) /\ v \in Domain(m) /\ OnCarrier(d, u, m) /\ OnCarrier(d, v, m)
  BY <1>1, <1>6
<1>8. TrueIn(phi.kids[1], m) <=> Holds(r, u, v, m)
  BY <1>1, <1>2, <1>4, PairsAreTrue
<1>9. /\ phi.kids[2].op = "atom" /\ phi.kids[2].sym = r /\ ~ IsRecord(phi.kids[2])
      /\ phi.kids[2].kids = <<t, s>>
  BY <1>1 DEF Related, Atom, Node, IsRecord
<1>10. IsPair(phi.kids[2]) /\ phi.kids[2].kids[1] = t /\ phi.kids[2].kids[2] = s
  BY <1>9 DEF IsPair, IsA, Is
<1>11. TrueIn(phi.kids[2], m) <=> Holds(r, v, u, m)
  BY <1>2, <1>4, <1>9, <1>10, PairsAreTrue
<1>12. TrueIn(phi, m) <=> TrueIn(phi.kids[1], m) \/ TrueIn(phi.kids[2], m)
  <2>1. DOMAIN phi.kids = {1, 2}
    BY <1>1, <1>3
  <2> QED BY <1>1, <1>2, <2>1, TruthAssumption
<1> HIDE DEF r, u, v, s, t
<1> QED BY <1>5, <1>7, <1>8, <1>11, <1>12 DEF HasProperty

LEMMA RelationVerdictsHold ==
  ASSUME FreshLinesAreFlags, RelationsAreAsDeclared,
         NEW cs, NEW phi, NEW m, NEW flags, AskedIn(cs, phi, m, flags),
         NEW D \in SUBSET Declaration, NEW ctx \in RuleContext, ContextFits(ctx, D),
         \A d \in D : Means(d, m),
         NEW rule \in RelationRule, AskRelation(rule, cs, phi, ctx)
  PROVE  TrueIn(phi, m)
<1>1. phi \in Formula /\ m \in Structure
  BY DEF AskedIn
<1>2. CASE rule = "RelationReflexivity"
  <2>1. FromMember(cs, phi, "reflexive", ctx) /\ Len(cs) = 1
    BY <1>2 DEF AskRelation, RelationReflexivity, RelationArity
  <2> QED BY <1>1, <2>1, RelationReflexivityIsSound
<1>3. CASE rule = "RelationIrreflexivity"
  <2>1. Is("not", phi) /\ FromMember(cs, phi.kids[1], "irreflexive", ctx) /\ Len(cs) = 1
    BY <1>3 DEF AskRelation, RelationIrreflexivity, RelationArity
  <2>2. phi.kids[1] \in Formula /\ (TrueIn(phi, m) <=> ~ TrueIn(phi.kids[1], m))
    BY <1>1, <2>1, DeniedPart
  <2> QED BY <2>1, <2>2, RelationReflexivityIsSound
<1>4. CASE rule = "RelationSymmetry"
  <2>1. Converse(cs, phi, "symmetric", ctx) /\ Len(cs) = 1
    BY <1>4 DEF AskRelation, RelationSymmetry, RelationArity
  <2> QED BY <1>1, <2>1, RelationSymmetryIsSound
<1>5. CASE rule = "RelationAsymmetry"
  <2>1. Is("not", phi) /\ Converse(cs, phi.kids[1], "asymmetric", ctx) /\ Len(cs) = 1
    BY <1>5 DEF AskRelation, RelationAsymmetry, RelationArity
  <2>2. phi.kids[1] \in Formula /\ (TrueIn(phi, m) <=> ~ TrueIn(phi.kids[1], m))
    BY <1>1, <2>1, DeniedPart
  <2> QED BY <2>1, <2>2, RelationSymmetryIsSound
<1>6. CASE rule = "RelationAntisymmetry"
  BY <1>6, RelationAntisymmetryIsSound DEF AskRelation, RelationArity
<1>7. CASE rule = "RelationTransitivity"
  BY <1>7, RelationTransitivityIsSound DEF AskRelation, RelationArity
<1>8. CASE rule = "RelationTotality"
  BY <1>8, RelationTotalityIsSound DEF AskRelation, RelationArity
<1> QED BY <1>2, <1>3, <1>4, <1>5, <1>6, <1>7, <1>8 DEF RelationRule

(* A rule for a binary relation claims what follows from its candidates,   *)
(* if the relation is what its visible declaration says.                   *)
THEOREM RelationRulesAreSound ==
  ASSUME FreshLinesAreFlags, RelationsAreAsDeclared, NEW rule, RuleIsRelation(rule)
  PROVE  RuleIsSound(rule)
<1> SUFFICES ASSUME NEW cs \in Seq(Item), NEW phi \in Formula, NEW ctx \in RuleContext,
                    NEW D \in SUBSET Declaration, NEW flags \in SUBSET FreshLines,
                    ContextFits(ctx, D),
                    \A c \in ToSet(cs) : c \in flags \/ Established(c, D, ctx.hypotheses),
                    \A f \in {phi} \cup ((ToSet(cs) \cap Formula) \ flags) : FlagsAreObjectsIn(f, flags),
                    Justifies(rule, cs, phi, ctx),
                    NEW m \in Structure,
                    \A d \in D : Means(d, m), \A h \in ctx.hypotheses : TrueIn(h, m)
             PROVE  TrueIn(phi, m)
  BY DEF RuleIsSound, Entails
<1>1. rule \in RelationRule /\ AskRelation(rule, cs, phi, ctx)
  BY DEF RuleIsRelation
<1>2. AskedIn(cs, phi, m, flags)
  BY EstablishedIsAsked
<1> QED BY <1>1, <1>2, RelationVerdictsHold

-----------------------------------------------------------------------------
(* The proofs that use these rules.                                        *)

(* The rules a proof may cite: those of GroundRules, QuantifierRules and   *)
(* RelationRules, and others known to be sound.                            *)
RulesAreStandard ==
  \A rule \in Registered :
    \/ RuleIsGround(rule) \/ RuleIsQuantifier(rule) \/ RuleIsRelation(rule)
    \/ RuleIsSound(rule)

(* A proof by standard rules is sound: at every line of it each formula of *)
(* an open block follows from what was taken for granted, the assumptions  *)
(* of the subproofs around it and the declarations made.                   *)
THEOREM StandardProofsAreSound ==
  ASSUME FreshLinesAreFlags, DeclarationsSayNoMore, RelationsAreAsDeclared, RulesAreStandard
  PROVE  Spec => []Sound
<1>1. RulesAreSound
  BY GroundRulesAreSound, QuantifierRulesAreSound, RelationRulesAreSound DEF RulesAreSound, RulesAreStandard
<1> QED BY <1>1, WalkIsSound

(* And what it states outside every subproof rests on the assumptions of   *)
(* none, nor on the constants they introduced.                             *)
THEOREM StandardProofsFollow ==
  ASSUME FreshLinesAreFlags, DeclarationsSayNoMore, RelationsAreAsDeclared, RulesAreStandard
  PROVE  Spec => []TopLevelFollows
<1>1. RulesAreSound
  BY GroundRulesAreSound, QuantifierRulesAreSound, RelationRulesAreSound DEF RulesAreSound, RulesAreStandard
<1> QED BY <1>1, FinishedProofsFollow
===============================================================================
