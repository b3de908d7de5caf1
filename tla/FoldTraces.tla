----------------------------- MODULE FoldTraces ------------------------------
(***************************************************************************)
(* FoldLeft of the community modules, for any operator: a fold is the last *)
(* of the states that the operator passes through.  A module that folds an *)
(* operator of its own instantiates this one with it.                      *)
(***************************************************************************)
EXTENDS SequencesExt, Integers, WellFoundedInduction, TLAPS

CONSTANT Step(_, _)

(* r runs through s from the state base.                                   *)
IsTrace(r, base, s) ==
  /\ r = [i \in 0 .. Len(s) |-> r[i]]
  /\ r[0] = base
  /\ \A i \in 1 .. Len(s) : r[i] = Step(r[i - 1], s[i])

(* What iter of FoldLeft is on the first k places of s.                    *)
IterateAt(f, base, s, t) == IF t = {} THEN base ELSE Step(f[t \ {Max(t)}], s[Max(t)])
Iterates(f, base, s, k) == f = [t \in SUBSET (1 .. k) |-> IterateAt(f, base, s, t)]

(* Of several naturals one is the least.                                   *)
LEMMA LeastNatural ==
  ASSUME NEW T \in SUBSET Nat, T # {}
  PROVE  \E m \in T : \A i \in T : m <= i
<1> DEFINE less == OpToRel(<, Nat)
<1>1. IsWellFoundedOn(less, Nat)
  BY NatLessThanWellFounded, Zenon
<1>2. \A i, j \in Nat : <<j, i>> \notin less => i <= j
  BY DEF OpToRel
<1> HIDE DEF less
<1>3. \E i \in T : \A j \in T : <<j, i>> \notin less
  BY <1>1, WFMin
<1> QED BY <1>2, <1>3

LEMMA MaxIsMember ==
  ASSUME NEW k \in Nat, NEW t \in SUBSET (1 .. k), t # {}
  PROVE  Max(t) \in t /\ \A i \in t : i <= Max(t)
<1> DEFINE T == {j \in 0 .. k : \E i \in t : j = k - i}
<1>1. T \in SUBSET Nat /\ T # {}
  <2>1. PICK i \in t : TRUE
    OBVIOUS
  <2>2. k - i \in T
    OBVIOUS
  <2>3. T \in SUBSET Nat
    OBVIOUS
  <2> QED BY <2>2, <2>3
<1>2. PICK m \in T : \A j \in T : m <= j
  BY <1>1, LeastNatural
<1>3. k - m \in t /\ \A i \in t : k - m >= i
  <2>1. \A i \in t : k - i \in T
    OBVIOUS
  <2> QED BY <1>2, <2>1
<1> QED BY <1>3 DEF Max

(* The recursion of FoldLeft has a solution.                               *)
LEMMA IterateExists ==
  ASSUME NEW base, NEW s, NEW n \in Nat
  PROVE  \E f : Iterates(f, base, s, n)
<1> DEFINE bad == {k \in 0 .. n : ~ \E f : Iterates(f, base, s, k)}
<1>1. SUFFICES ASSUME bad # {} PROVE FALSE
  OBVIOUS
<1>2. PICK k \in bad : \A j \in bad : k <= j
  <2>1. bad \in SUBSET Nat
    <3>1. 0 .. n \subseteq Nat
      OBVIOUS
    <3> QED BY <3>1, Zenon
  <2> HIDE DEF bad
  <2> QED BY <1>1, <2>1, LeastNatural
<1> k \in 0 .. n
  BY Zenon
<1>3. k # 0
  <2>1. Iterates([t \in SUBSET (1 .. 0) |-> base], base, s, 0)
    <3>1. 1 .. 0 = {}
      OBVIOUS
    <3>2. \A t \in SUBSET (1 .. 0) : t = {}
      BY <3>1
    <3> QED BY <3>2 DEF Iterates, IterateAt
  <2> QED BY <2>1
<1>4. PICK f : Iterates(f, base, s, k - 1)
  BY <1>2, <1>3
<1> DEFINE g == [t \in SUBSET (1 .. k) |->
                   IF k \in t THEN Step(f[t \ {k}], s[k]) ELSE f[t]]
<1>5. ASSUME NEW t \in SUBSET (1 .. k), k \notin t
      PROVE  g[t] = IterateAt(g, base, s, t)
  <2>1. t \in SUBSET (1 .. k - 1)
    BY <1>2, <1>5
  <2>2. f[t] = IterateAt(f, base, s, t)
    BY <2>1, <1>4, Zenon DEF Iterates
  <2>3. t # {} => t \ {Max(t)} \in SUBSET (1 .. k) /\ k \notin t \ {Max(t)}
    BY <1>5
  <2> QED BY <1>5, <2>2, <2>3 DEF IterateAt
<1>6. ASSUME NEW t \in SUBSET (1 .. k), k \in t
      PROVE  g[t] = IterateAt(g, base, s, t)
  <2>1. Max(t) = k
    <3>1. k \in Nat /\ t # {}
      BY <1>6
    <3>2. Max(t) \in t /\ \A i \in t : i <= Max(t)
      BY <3>1, MaxIsMember
    <3>3. Max(t) \in 1 .. k /\ k <= Max(t)
      BY <1>6, <3>2
    <3> QED BY <3>1, <3>3
  <2>2. t \ {k} \in SUBSET (1 .. k) /\ k \notin t \ {k}
    OBVIOUS
  <2> QED BY <1>6, <2>1, <2>2 DEF IterateAt
<1>7. Iterates(g, base, s, k)
  BY <1>5, <1>6, Zenon DEF Iterates
<1> QED BY <1>2, <1>7

(* A fold is the end of a trace.                                           *)
LEMMA FoldLeftIsTrace ==
  ASSUME NEW S, NEW s \in Seq(S), NEW base
  PROVE  \E r : IsTrace(r, base, s) /\ FoldLeft(Step, base, s) = r[Len(s)]
<1> DEFINE n == Len(s)
<1>1. n \in Nat /\ DOMAIN s = 1 .. n
  OBVIOUS
<1> HIDE DEF n
<1> DEFINE Iterate == CHOOSE f : f = [t \in SUBSET (1 .. n) |-> IterateAt(f, base, s, t)]
<1>2. Iterate = [t \in SUBSET (1 .. n) |-> IterateAt(Iterate, base, s, t)]
  <2>1. PICK f : Iterates(f, base, s, n)
    BY <1>1, IterateExists
  <2>2. f = [t \in SUBSET (1 .. n) |-> IterateAt(f, base, s, t)]
    BY <2>1, Zenon DEF Iterates
  <2> QED BY <2>2, Zenon
<1>3. FoldLeft(Step, base, s) = Iterate[1 .. n]
  BY <1>1, Zenon DEF FoldLeft, MapThenFoldSet, IterateAt
<1> HIDE DEF Iterate
<1> DEFINE r == [i \in 0 .. n |-> Iterate[1 .. i]]
<1>4. r[0] = base
  <2>1. 1 .. 0 = {} /\ {} \in SUBSET (1 .. n) /\ 0 \in 0 .. n
    BY <1>1
  <2>2. Iterate[{}] = IterateAt(Iterate, base, s, {})
    BY <2>1, <1>2
  <2> QED BY <2>1, <2>2 DEF IterateAt
<1>5. ASSUME NEW i \in 1 .. n
      PROVE  r[i] = Step(r[i - 1], s[i])
  <2>1. 1 .. i \in SUBSET (1 .. n) /\ 1 .. i # {} /\ i - 1 \in 0 .. n /\ i \in 0 .. n /\ i \in Nat
    BY <1>1
  <2>2. Max(1 .. i) = i
    <3>1. Max(1 .. i) \in 1 .. i /\ \A j \in 1 .. i : j <= Max(1 .. i)
      BY <2>1, MaxIsMember
    <3> QED BY <3>1
  <2>3. (1 .. i) \ {i} = 1 .. i - 1
    OBVIOUS
  <2>4. Iterate[1 .. i] = IterateAt(Iterate, base, s, 1 .. i)
    BY <2>1, <1>2
  <2>5. IterateAt(Iterate, base, s, 1 .. i) = Step(Iterate[1 .. i - 1], s[i])
    BY <2>1, <2>2, <2>3, Zenon DEF IterateAt
  <2>6. r[i] = Iterate[1 .. i] /\ r[i - 1] = Iterate[1 .. i - 1]
    BY <2>1
  <2> QED BY <2>4, <2>5, <2>6
<1>6. r[n] = Iterate[1 .. n] /\ r = [i \in 0 .. n |-> r[i]]
  BY <1>1
<1> HIDE DEF r
<1>7. IsTrace(r, base, s)
  BY <1>4, <1>5, <1>6 DEF IsTrace, n
<1> QED BY <1>3, <1>6, <1>7 DEF n

(* What holds at a place of a sequence and goes on from place to place     *)
(* holds from there to the end; T are the places where it holds.           *)
LEMMA PlaceInduction ==
  ASSUME NEW n \in Nat, NEW T, NEW k \in 0 .. n, k \in T,
         \A i \in k + 1 .. n : i - 1 \in T => i \in T
  PROVE  \A i \in k .. n : i \in T
<1> DEFINE bad == {i \in k .. n : i \notin T}
<1>1. SUFFICES ASSUME bad # {} PROVE FALSE
  OBVIOUS
<1>2. bad \in SUBSET Nat
  OBVIOUS
<1>3. PICK i \in bad : \A j \in bad : i <= j
  <2> HIDE DEF bad
  <2> QED BY <1>1, <1>2, LeastNatural
<1>4. i - 1 \in k .. n /\ i - 1 \notin bad /\ i \in k + 1 .. n
  BY <1>3
<1> QED BY <1>3, <1>4

LEMMA NaturalInduction ==
  ASSUME NEW T, 0 \in T, \A n \in Nat : n \in T => n + 1 \in T
  PROVE  \A n \in Nat : n \in T
<1> SUFFICES ASSUME NEW n \in Nat PROVE n \in T
  OBVIOUS
<1>1. \A i \in 0 + 1 .. n : i - 1 \in T => i \in T
  <2> SUFFICES ASSUME NEW i \in 1 .. n, i - 1 \in T PROVE i \in T
    OBVIOUS
  <2>1. i - 1 \in Nat /\ (i - 1) + 1 = i
    OBVIOUS
  <2> QED BY <2>1
<1> QED BY <1>1, PlaceInduction

=============================================================================
