----------------------- MODULE CongruenceClosureProofs -----------------------
(***************************************************************************)
(* What holds of the search of AlgebraRule for every set of terms, every   *)
(* problem and every meaning of "equal": walks along the union-find end,   *)
(* its links follow from the equations cited, and when the search is over  *)
(* its classes are a congruence that has these equations.  The first part  *)
(* is about the union-find alone, p being the parents of the elements of   *)
(* D; the second about a call.                                             *)
(***************************************************************************)
EXTENDS CongruenceClosure, TLAPS

-----------------------------------------------------------------------------
(* A walk has where it starts and, with every element, the element's       *)
(* parent; and it is least.                                                *)
LEMMA WalkIsClosed ==
  ASSUME NEW D, NEW p \in [D -> D], NEW t \in D
  PROVE  /\ Walks(p)[t] \subseteq D
         /\ t \in Walks(p)[t]
         /\ \A u \in Walks(p)[t] : p[u] \in Walks(p)[t]
<1>1. DOMAIN p = D
  OBVIOUS
<1> DEFINE closed == {S \in SUBSET D : \A u \in S : p[u] \in S}
           W      == {u \in D : \A S \in closed : t \in S => u \in S}
<1>2. Walks(p)[t] = W
  BY <1>1 DEF Walks
<1>3. W \subseteq D /\ t \in W
  OBVIOUS
<1>4. ASSUME NEW u \in W PROVE p[u] \in W
  OBVIOUS
<1> HIDE DEF W
<1>5. QED
  BY <1>2, <1>3, <1>4

LEMMA WalkIsLeast ==
  ASSUME NEW D, NEW p \in [D -> D], NEW t \in D,
         NEW S \in SUBSET D, t \in S, \A u \in S : p[u] \in S
  PROVE  Walks(p)[t] \subseteq S
<1>1. DOMAIN p = D
  OBVIOUS
<1> DEFINE closed == {X \in SUBSET D : \A u \in X : p[u] \in X}
<1>2. Walks(p)[t] = {u \in D : \A X \in closed : t \in X => u \in X}
  BY <1>1 DEF Walks
<1>3. S \in closed
  OBVIOUS
<1> HIDE DEF closed
<1>4. QED
  BY <1>2, <1>3

(* The walk of an element of a walk is part of it.                         *)
LEMMA WalkOfWalk ==
  ASSUME NEW D, NEW p \in [D -> D], NEW t \in D, NEW u \in Walks(p)[t]
  PROVE  u \in D /\ Walks(p)[u] \subseteq Walks(p)[t]
<1>1. /\ Walks(p)[t] \in SUBSET D
      /\ \A v \in Walks(p)[t] : p[v] \in Walks(p)[t]
  BY WalkIsClosed
<1>2. QED
  BY <1>1, WalkIsLeast

(* What find returns is a root, is on the walk, and is the only root there.*)
LEMMA RootIsFound ==
  ASSUME NEW D, NEW p \in [D -> D], Found(p), NEW t \in D
  PROVE  /\ Roots(p)[t] \in Walks(p)[t]
         /\ Roots(p)[t] \in D
         /\ p[Roots(p)[t]] = Roots(p)[t]
<1>1. \E r \in Walks(p)[t] : p[r] = r
  BY DEF Found
<1>2. Roots(p)[t] = CHOOSE r \in Walks(p)[t] : p[r] = r
  BY DEF Roots
<1>3. Roots(p)[t] \in Walks(p)[t] /\ p[Roots(p)[t]] = Roots(p)[t]
  BY <1>1, <1>2
<1>4. QED
  BY <1>3, WalkIsClosed

LEMMA RootIsUnique ==
  ASSUME NEW D, NEW p \in [D -> D], Found(p), NEW t \in D,
         NEW r \in Walks(p)[t], p[r] = r
  PROVE  r = Roots(p)[t]
<1> DEFINE W == Walks(p)[t]
           S == {u \in W : r \in Walks(p)[u]}
           o == Roots(p)[t]
<1>1. W \subseteq D /\ t \in W /\ \A u \in W : p[u] \in W
  BY WalkIsClosed
<1>2. ASSUME NEW u \in S PROVE p[u] \in S
  <2>1. u \in D /\ p[u] \in W /\ p[u] \in D
    BY <1>1
  <2>2. CASE r = u
    BY <2>1, <2>2
  <2>3. CASE r # u
    <3> DEFINE X == {u} \cup Walks(p)[p[u]]
    <3>1. /\ Walks(p)[p[u]] \subseteq D
          /\ p[u] \in Walks(p)[p[u]]
          /\ \A v \in Walks(p)[p[u]] : p[v] \in Walks(p)[p[u]]
      BY <2>1, WalkIsClosed
    <3>2. X \in SUBSET D /\ u \in X /\ \A v \in X : p[v] \in X
      BY <2>1, <3>1
    <3>3. Walks(p)[u] \subseteq X
      <4> HIDE DEF X
      <4>1. QED
        BY <2>1, <3>2, WalkIsLeast
    <3>4. r \in Walks(p)[p[u]]
      BY <2>3, <3>3
    <3>5. QED
      BY <2>1, <3>4
  <2>4. QED
    BY <2>2, <2>3
<1>3. S \in SUBSET D /\ t \in S
  BY <1>1
<1>4. W \subseteq S
  <2> HIDE DEF S
  <2>1. QED
    BY <1>2, <1>3, WalkIsLeast
<1>5. o \in W /\ o \in D /\ p[o] = o
  BY RootIsFound
<1>6. r \in Walks(p)[o]
  BY <1>4, <1>5
<1>7. Walks(p)[o] \subseteq {o}
  <2> DEFINE X == {o}
  <2>1. X \in SUBSET D /\ o \in X /\ \A u \in X : p[u] \in X
    BY <1>5
  <2> HIDE DEF X, o
  <2>2. Walks(p)[o] \subseteq X
    BY <1>5, <2>1, WalkIsLeast
  <2>3. QED
    BY <2>2 DEF X
<1>8. QED
  BY <1>6, <1>7

(* An element has the root of its parent, and that of all on its walk.     *)
LEMMA RootOfWalk ==
  ASSUME NEW D, NEW p \in [D -> D], Found(p), NEW t \in D, NEW u \in Walks(p)[t]
  PROVE  Roots(p)[u] = Roots(p)[t]
<1>1. u \in D /\ Walks(p)[u] \subseteq Walks(p)[t]
  BY WalkOfWalk
<1>2. Roots(p)[u] \in Walks(p)[u] /\ p[Roots(p)[u]] = Roots(p)[u]
  BY <1>1, RootIsFound
<1>3. QED
  BY <1>1, <1>2, RootIsUnique

LEMMA RootOfParent ==
  ASSUME NEW D, NEW p \in [D -> D], Found(p), NEW t \in D
  PROVE  /\ Roots(p)[p[t]] = Roots(p)[t]
         /\ Roots(p)[Roots(p)[t]] = Roots(p)[t]
<1>1. p[t] \in Walks(p)[t] /\ Roots(p)[t] \in Walks(p)[t]
  BY WalkIsClosed, RootIsFound
<1>2. QED
  BY <1>1, RootOfWalk

(* What holds of the roots, and of an element when it holds of its parent, *)
(* holds of all.                                                           *)
LEMMA FromTheRoots ==
  ASSUME NEW D, NEW p \in [D -> D], Found(p), NEW G \in SUBSET D,
         \A t \in D : Roots(p)[t] \in G,
         \A t \in D : p[t] \in G => t \in G
  PROVE  G = D
<1> SUFFICES ASSUME NEW t \in D \ G PROVE FALSE
  OBVIOUS
<1> DEFINE B == D \ G
<1>1. B \in SUBSET D /\ t \in B /\ \A u \in B : p[u] \in B
  OBVIOUS
<1>2. Walks(p)[t] \subseteq B
  BY <1>1, WalkIsLeast
<1>3. QED
  BY <1>2, RootIsFound

(* Roots that can be reached are the roots.                                *)
LEMMA TheseAreTheRoots ==
  ASSUME NEW D, NEW q \in [D -> D], NEW R \in [D -> D],
         \A t \in D : q[R[t]] = R[t],
         \A t \in D : R[t] \in Walks(q)[t]
  PROVE  Found(q) /\ Roots(q) = R
<1>1. Found(q)
  BY DEF Found
<1>2. \A t \in D : Roots(q)[t] = R[t]
  BY <1>1, RootIsUnique
<1>3. Roots(q) = [t \in D |-> Roots(q)[t]]
  BY DEF Roots
<1>4. QED
  BY <1>1, <1>2, <1>3

(* Path compression leaves every root as it is.                            *)
LEMMA CompressedType ==
  ASSUME NEW D, NEW p \in [D -> D], Found(p), NEW X
  PROVE  /\ Roots(p) \in [D -> D]
         /\ Compressed(p, X) \in [D -> D]
         /\ \A t \in D : Compressed(p, X)[t] \in {p[t], Roots(p)[t]}
<1>1. Roots(p) \in [D -> D]
  <2>1. Roots(p) = [t \in D |-> CHOOSE r \in Walks(p)[t] : p[r] = r]
    BY DEF Roots
  <2>2. \A t \in D : Roots(p)[t] \in D
    BY RootIsFound
  <2>3. QED
    BY <2>1, <2>2
<1>2. Compressed(p, X) =
        [u \in D |-> IF \E t \in X : u \in Walks(p)[t] THEN Roots(p)[u] ELSE p[u]]
  BY DEF Compressed
<1>3. QED
  BY <1>1, <1>2

LEMMA CompressedKeepsRoots ==
  ASSUME NEW D, NEW p \in [D -> D], Found(p), NEW X
  PROVE  Found(Compressed(p, X)) /\ Roots(Compressed(p, X)) = Roots(p)
<1> DEFINE q == Compressed(p, X)
           R == Roots(p)
           G == {t \in D : R[t] \in Walks(q)[t]}
<1>1. R \in [D -> D] /\ q \in [D -> D] /\ \A t \in D : q[t] \in {p[t], R[t]}
  BY CompressedType
<1>2. \A t \in D : /\ p[R[t]] = R[t]
                   /\ R[p[t]] = R[t] /\ R[R[t]] = R[t]
  BY RootIsFound, RootOfParent
<1> HIDE DEF q, R
<1>3. \A t \in D : q[R[t]] = R[t]
  BY <1>1, <1>2
<1>4. \A t \in D : t \in Walks(q)[t] /\ q[t] \in Walks(q)[t]
  BY <1>1, WalkIsClosed
<1>5. G = D
  <2>1. \A t \in D : R[t] \in G
    BY <1>1, <1>2, <1>4
  <2>2. ASSUME NEW t \in D, p[t] \in G PROVE t \in G
    <3>1. CASE q[t] = R[t]
      BY <1>4, <3>1
    <3>2. CASE q[t] = p[t]
      <4>1. Walks(q)[q[t]] \subseteq Walks(q)[t]
        BY <1>1, <1>4, WalkOfWalk
      <4>2. R[t] \in Walks(q)[p[t]]
        BY <1>2, <2>2
      <4>3. QED
        BY <3>2, <4>1, <4>2
    <3>3. QED
      BY <1>1, <3>1, <3>2
  <2> HIDE DEF G
  <2>3. G \in SUBSET D
    BY DEF G
  <2>4. QED
    BY <2>1, <2>2, <2>3, FromTheRoots DEF R
<1>6. Found(q) /\ Roots(q) = R
  BY <1>1, <1>3, <1>5, TheseAreTheRoots
<1>7. QED
  BY <1>6 DEF q, R

(* A union gives the class of s the root of the class of t.                *)
LEMMA LinkedMergesClasses ==
  ASSUME NEW D, NEW p \in [D -> D], Found(p), NEW X, NEW s \in D, NEW t \in D
  PROVE  /\ Linked(p, X, s, t) \in [D -> D]
         /\ Found(Linked(p, X, s, t))
         /\ \A u \in D : Roots(Linked(p, X, s, t))[u] =
              IF Roots(p)[u] = Roots(p)[s] THEN Roots(p)[t] ELSE Roots(p)[u]
<1> DEFINE c == Compressed(p, X)
           R == Roots(p)
           a == R[s]
           b == R[t]
           q == Linked(p, X, s, t)
           M == [u \in D |-> IF R[u] = a THEN b ELSE R[u]]
           G == {u \in D : M[u] \in Walks(q)[u]}
<1>1. R \in [D -> D] /\ c \in [D -> D]
  BY CompressedType
<1>2. Found(c) /\ Roots(c) = R
  BY CompressedKeepsRoots
<1>3. q = [c EXCEPT ![a] = b]
  BY DEF Linked
<1> HIDE DEF c, R, q
<1>4. \A u \in D : c[R[u]] = R[u] /\ R[c[u]] = R[u] /\ R[R[u]] = R[u]
  BY <1>1, <1>2, RootIsFound, RootOfParent
<1>5. a \in D /\ b \in D /\ R[a] = a /\ R[b] = b /\ c[a] = a /\ c[b] = b
  BY <1>1, <1>4
<1> HIDE DEF a, b
<1>6. q \in [D -> D] /\ M \in [D -> D]
  BY <1>1, <1>3, <1>5
<1>7. \A u \in D : q[u] = IF u = a THEN b ELSE c[u]
  BY <1>1, <1>3, <1>5
<1>8. \A u \in D : q[M[u]] = M[u]
  BY <1>1, <1>4, <1>5, <1>7
<1>9. \A u \in D : u \in Walks(q)[u] /\ q[u] \in Walks(q)[u]
  BY <1>6, WalkIsClosed
<1>10. G = D
  <2>1. a \in G
    BY <1>5, <1>7, <1>9
  <2>2. \A u \in D : R[u] \in G
    BY <1>1, <1>4, <1>9, <2>1
  <2>3. ASSUME NEW u \in D, c[u] \in G PROVE u \in G
    <3>1. CASE u = a
      BY <2>1, <3>1
    <3>2. CASE u # a
      <4>1. q[u] = c[u] /\ M[c[u]] = M[u]
        BY <1>1, <1>4, <1>7, <3>2
      <4>2. Walks(q)[q[u]] \subseteq Walks(q)[u]
        BY <1>6, <1>9, WalkOfWalk
      <4>3. QED
        BY <2>3, <4>1, <4>2
    <3>3. QED
      BY <3>1, <3>2
  <2> HIDE DEF G
  <2>4. G \in SUBSET D
    BY DEF G
  <2>5. QED
    BY <1>1, <1>2, <2>2, <2>3, <2>4, FromTheRoots
<1> HIDE DEF M
<1>11. \A u \in D : M[u] \in Walks(q)[u]
  BY <1>10
<1>12. Found(q) /\ Roots(q) = M
  BY <1>6, <1>8, <1>11, TheseAreTheRoots
<1>13. QED
  BY <1>6, <1>12 DEF M, q, R, a, b

(* If the links are among the equations, so are root and element of a      *)
(* walk, what compression links, and what a union of equals links.         *)
LEMMA WalksAreEquations ==
  ASSUME NEW D \in SUBSET Term, NEW p \in [D -> D], NEW E, IsEquivalence(E),
         \A t \in D : <<t, p[t]>> \in E,
         NEW t \in D, NEW u \in Walks(p)[t]
  PROVE  <<t, u>> \in E
<1> DEFINE S == {v \in D : <<t, v>> \in E}
<1>1. S \in SUBSET D /\ t \in S /\ \A v \in S : p[v] \in S
  BY DEF IsEquivalence
<1> HIDE DEF S
<1>2. Walks(p)[t] \subseteq S
  BY <1>1, WalkIsLeast
<1>3. QED
  BY <1>2 DEF S

LEMMA RootsAreEquations ==
  ASSUME NEW D \in SUBSET Term, NEW p \in [D -> D], Found(p), NEW E, IsEquivalence(E),
         \A t \in D : <<t, p[t]>> \in E
  PROVE  \A t \in D : <<t, Roots(p)[t]>> \in E /\ <<Roots(p)[t], t>> \in E
<1> SUFFICES ASSUME NEW t \in D
             PROVE  <<t, Roots(p)[t]>> \in E /\ <<Roots(p)[t], t>> \in E
  OBVIOUS
<1>1. Roots(p)[t] \in Walks(p)[t] /\ Roots(p)[t] \in D
  BY RootIsFound
<1>2. <<t, Roots(p)[t]>> \in E
  BY <1>1, WalksAreEquations
<1>3. QED
  BY <1>1, <1>2 DEF IsEquivalence

LEMMA SameClassIsEquation ==
  ASSUME NEW D \in SUBSET Term, NEW p \in [D -> D], Found(p), NEW E, IsEquivalence(E),
         \A t \in D : <<t, p[t]>> \in E,
         NEW s \in D, NEW t \in D, SameClass(Roots(p), s, t)
  PROVE  <<s, t>> \in E
<1>1. /\ <<s, Roots(p)[s]>> \in E
      /\ <<Roots(p)[t], t>> \in E
      /\ Roots(p)[s] = Roots(p)[t]
  BY RootsAreEquations DEF SameClass
<1>2. Roots(p)[s] \in Term
  BY RootIsFound
<1>3. QED
  BY <1>1, <1>2 DEF IsEquivalence

LEMMA CompressedLinksAreEquations ==
  ASSUME NEW D \in SUBSET Term, NEW p \in [D -> D], Found(p), NEW E, IsEquivalence(E),
         \A t \in D : <<t, p[t]>> \in E,
         NEW X
  PROVE  \A t \in D : <<t, Compressed(p, X)[t]>> \in E
<1>1. \A t \in D : Compressed(p, X)[t] \in {p[t], Roots(p)[t]}
  BY CompressedType
<1>2. QED
  BY <1>1, RootsAreEquations

LEMMA LinkedLinksAreEquations ==
  ASSUME NEW D \in SUBSET Term, NEW p \in [D -> D], Found(p), NEW E, IsEquivalence(E),
         \A t \in D : <<t, p[t]>> \in E,
         NEW X, NEW s \in D, NEW t \in D, <<s, t>> \in E
  PROVE  \A u \in D : <<u, Linked(p, X, s, t)[u]>> \in E
<1> DEFINE a == Roots(p)[s]
           b == Roots(p)[t]
           c == Compressed(p, X)
<1>1. a \in D /\ b \in D /\ c \in [D -> D]
  BY RootIsFound, CompressedType
<1>2. <<a, s>> \in E /\ <<t, b>> \in E
  BY RootsAreEquations
<1>3. <<a, b>> \in E
  <2>1. a \in Term /\ b \in Term /\ s \in Term /\ t \in Term
    BY <1>1
  <2> HIDE DEF a, b
  <2>2. <<a, t>> \in E
    BY <1>2, <2>1 DEF IsEquivalence
  <2>3. QED
    BY <1>2, <2>1, <2>2 DEF IsEquivalence
<1>4. \A u \in D : <<u, c[u]>> \in E
  BY CompressedLinksAreEquations
<1>5. Linked(p, X, s, t) = [c EXCEPT ![a] = b]
  BY DEF Linked
<1> HIDE DEF a, b, c
<1>6. QED
  BY <1>1, <1>3, <1>4, <1>5

-----------------------------------------------------------------------------
(* A call.  The invariant: between calls and during one, the parents are   *)
(* those of the terms of the problem; the walks end; the links follow; and *)
(* what the search has dealt with is dealt with for good: the equations    *)
(* united are in the classes, and so is, as long as a pass has merged      *)
(* nothing, every pair of alike applications it has compared.              *)
CitedAgree(n) == SameClass(Roots(parent), problem.cited[n][1], problem.cited[n][2])
PairAgrees(pair) ==
  LET s == problem.terms[pair[1]]
      t == problem.terms[pair[2]]
  IN  ArgumentsAgree(Roots(parent), s, t) => SameClass(Roots(parent), s, t)

TypeInv ==
  /\ stage \in {"idle", "uniting", "closing"}
  /\ next \in Nat \ {0}
  /\ changed \in BOOLEAN /\ equal \in BOOLEAN
  /\ waiting \subseteq Pairs(problem)
  /\ \/ problem \in Problems /\ parent \in [About(problem) -> About(problem)]
     \/ problem = NoProblem /\ parent = NoTerms /\ stage = "idle" /\ ~ equal

DealtWith ==
  /\ \A n \in DOMAIN problem.cited : n < next => CitedAgree(n)
  /\ stage = "uniting" => changed /\ waiting = {}
  /\ stage # "uniting" => \A n \in DOMAIN problem.cited : CitedAgree(n)
  /\ stage = "closing" /\ ~ changed => \A pair \in Pairs(problem) \ waiting : PairAgrees(pair)
  /\ ClosedWhenDone

ClosureInv == TypeInv /\ WalksEnd /\ LinksAreEquations /\ DealtWith

(* The terms of a problem, and the arguments of its applications.          *)
LEMMA ProblemTerms ==
  ASSUME NEW p \in Problems
  PROVE  /\ About(p) \in SUBSET Term
         /\ \A n \in DOMAIN p.cited : /\ p.cited[n][1] \in About(p)
                                       /\ p.cited[n][2] \in About(p)
                                       /\ p.cited[n] = <<p.cited[n][1], p.cited[n][2]>>
         /\ p.claimed[1] \in About(p) /\ p.claimed[2] \in About(p)
         /\ p.claimed = <<p.claimed[1], p.claimed[2]>>
         /\ \A pair \in Pairs(p) : /\ p.terms[pair[1]] \in About(p)
                                    /\ p.terms[pair[2]] \in About(p)
                                    /\ Alike(p.terms[pair[1]], p.terms[pair[2]])
         /\ \A t \in About(p) : IsApplication(t) =>
              \A n \in DOMAIN Arguments(t) : Arguments(t)[n] \in About(p)
         /\ DOMAIN p.cited = 1 .. Len(p.cited)
<1>1. /\ p.cited \in Seq(Equation)
      /\ p.terms \in Seq(Term)
      /\ \A n \in DOMAIN p.cited : p.cited[n] \in About(p) \X About(p)
      /\ p.claimed \in About(p) \X About(p)
  BY ProblemAssumption
<1>2. About(p) \in SUBSET Term
  BY <1>1 DEF About
<1>3. \A pair \in Pairs(p) : /\ p.terms[pair[1]] \in About(p)
                             /\ p.terms[pair[2]] \in About(p)
                             /\ Alike(p.terms[pair[1]], p.terms[pair[2]])
  BY DEF Pairs, About
<1>4. \A t \in About(p) : IsApplication(t) =>
        \A n \in DOMAIN Arguments(t) : Arguments(t)[n] \in About(p)
  BY ProblemAssumption
<1>5. DOMAIN p.cited = 1 .. Len(p.cited)
  BY <1>1
<1>6. QED
  BY <1>1, <1>2, <1>3, <1>4, <1>5

(* Alike applications have as many arguments.                              *)
LEMMA AlikeArguments ==
  ASSUME NEW s \in Term, NEW t \in Term, Alike(s, t)
  PROVE  IsApplication(s) /\ IsApplication(t) /\ DOMAIN Arguments(s) = DOMAIN Arguments(t)
<1>1. IsApplication(s) /\ IsApplication(t) /\ Len(Arguments(s)) = Len(Arguments(t))
  BY DEF Alike
<1>2. Arguments(s) \in Seq(Term) /\ Arguments(t) \in Seq(Term)
  BY <1>1, TermAssumption
<1>3. QED
  BY <1>1, <1>2

LEMMA InitInv == ClosureInit => ClosureInv
<1> SUFFICES ASSUME ClosureInit PROVE ClosureInv
  OBVIOUS
<1> USE DEF ClosureInit
<1>1. TypeInv
  <2>1. next \in Nat \ {0} /\ waiting \subseteq Pairs(problem)
    OBVIOUS
  <2>2. stage \in {"idle", "uniting", "closing"} /\ changed \in BOOLEAN /\ equal \in BOOLEAN /\ ~ equal
    OBVIOUS
  <2>3. QED
    BY <2>1, <2>2 DEF TypeInv
<1>2. DOMAIN parent = {} /\ DOMAIN problem.cited = {}
  BY DEF NoTerms, NoProblem
<1>3. WalksEnd /\ LinksAreEquations
  BY <1>2 DEF WalksEnd, Found, LinksAreEquations
<1>4. DealtWith
  BY <1>2 DEF DealtWith, ClosedWhenDone
<1>5. QED
  BY <1>1, <1>3, <1>4 DEF ClosureInv

(* The two steps a search makes along the union-find: a union of two terms *)
(* that every admissible meaning holds equal, or none.                     *)
LEMMA UnionStep ==
  ASSUME ClosureInv, stage # "idle",
         NEW s \in About(problem), NEW t \in About(problem), NEW X,
         parent' = Linked(parent, X, s, t), UNCHANGED problem,
         \A E \in Admissible : <<s, t>> \in E, stage' # "idle"
  PROVE  /\ parent' \in [About(problem) -> About(problem)]
         /\ WalksEnd' /\ LinksAreEquations'
         /\ \A u, v \in About(problem) :
              SameClass(Roots(parent), u, v) => SameClass(Roots(parent'), u, v)
         /\ SameClass(Roots(parent'), s, t)
<1> DEFINE D == About(problem)
           R == Roots(parent)
<1>1. /\ problem \in Problems /\ D \in SUBSET Term
      /\ parent \in [D -> D] /\ Found(parent)
      /\ s \in D /\ t \in D
  BY ProblemTerms DEF ClosureInv, TypeInv, WalksEnd
<1> HIDE DEF D
<1>2. /\ parent' \in [D -> D]
      /\ Found(parent')
      /\ \A u \in D : Roots(parent')[u] = IF R[u] = R[s] THEN R[t] ELSE R[u]
  <2> DEFINE q == Linked(parent, X, s, t)
  <2>1. /\ q \in [D -> D]
        /\ Found(q)
        /\ \A u \in D : Roots(q)[u] = IF R[u] = R[s] THEN R[t] ELSE R[u]
    BY <1>1, LinkedMergesClasses
  <2>2. parent' = q
    OBVIOUS
  <2> HIDE DEF q
  <2>3. QED
    BY <2>1, <2>2
<1>3. ASSUME NEW E \in Admissible PROVE \A u \in D : <<u, parent'[u]>> \in E
  <2>1. IsEquivalence(E) /\ <<s, t>> \in E
    BY MeaningAssumption DEF Admissible, IsCongruence
  <2>2. \A u \in D : <<u, parent[u]>> \in E
    BY <1>1, <1>3 DEF ClosureInv, LinksAreEquations
  <2>3. \A u \in D : <<u, Linked(parent, X, s, t)[u]>> \in E
    BY <1>1, <2>1, <2>2, LinkedLinksAreEquations
  <2>4. QED
    BY <2>3
<1>4. LinksAreEquations'
  <2>1. Admissible' = Admissible
    BY DEF Admissible
  <2>2. QED
    BY <1>2, <1>3, <2>1 DEF LinksAreEquations
<1>5. \A u, v \in D : SameClass(R, u, v) => SameClass(Roots(parent'), u, v)
  BY <1>2 DEF SameClass
<1>6. SameClass(Roots(parent'), s, t)
  BY <1>1, <1>2 DEF SameClass
<1>7. QED
  BY <1>2, <1>4, <1>5, <1>6 DEF D, WalksEnd

LEMMA FindStep ==
  ASSUME ClosureInv, stage # "idle", NEW X,
         parent' = Compressed(parent, X), UNCHANGED problem,
         stage' = "idle" /\ equal' => \A E \in Admissible : problem.claimed \in E
  PROVE  /\ parent' \in [About(problem) -> About(problem)]
         /\ WalksEnd' /\ LinksAreEquations'
         /\ Roots(parent') = Roots(parent)
<1> DEFINE D == About(problem)
<1>1. /\ problem \in Problems /\ D \in SUBSET Term
      /\ parent \in [D -> D] /\ Found(parent)
  BY ProblemTerms DEF ClosureInv, TypeInv, WalksEnd
<1> HIDE DEF D
<1>2. /\ parent' \in [D -> D]
      /\ Found(parent') /\ Roots(parent') = Roots(parent)
  BY <1>1, CompressedType, CompressedKeepsRoots
<1>3. ASSUME NEW E \in Admissible PROVE \A u \in D : <<u, parent'[u]>> \in E
  <2>1. IsEquivalence(E)
    BY MeaningAssumption DEF Admissible, IsCongruence
  <2>2. \A u \in D : <<u, parent[u]>> \in E
    BY <1>1, <1>3 DEF ClosureInv, LinksAreEquations
  <2>3. \A u \in D : <<u, Compressed(parent, X)[u]>> \in E
    BY <1>1, <2>1, <2>2, CompressedLinksAreEquations
  <2>4. QED
    BY <2>3
<1>4. LinksAreEquations'
  <2>1. Admissible' = Admissible
    BY DEF Admissible
  <2>2. QED
    BY <1>2, <1>3, <2>1 DEF LinksAreEquations
<1>5. QED
  BY <1>2, <1>4 DEF D, WalksEnd

LEMMA BeginStep ==
  ASSUME ClosureInv, NEW p \in Problems, Begin(p)
  PROVE  ClosureInv'
<1> USE DEF Begin
<1> DEFINE D == About(p)
<1>1. parent' = [t \in D |-> t] /\ problem' = p
  OBVIOUS
<1>2. D \in SUBSET Term
  BY ProblemTerms
<1> HIDE DEF D
<1>3. parent' \in [D -> D] /\ \A t \in D : parent'[t] = t
  BY <1>1
<1>4. WalksEnd'
  <2>1. \A t \in D : t \in Walks(parent')[t]
    BY <1>3, WalkIsClosed
  <2>2. QED
    BY <1>3, <2>1 DEF WalksEnd, Found
<1>5. LinksAreEquations'
  <2>1. SUFFICES ASSUME NEW E \in Admissible', NEW t \in D
                 PROVE  <<t, parent'[t]>> \in E
    BY <1>3 DEF LinksAreEquations
  <2>2. IsEquivalence(E)
    BY MeaningAssumption DEF Admissible, IsCongruence
  <2>3. QED
    BY <1>2, <1>3, <2>2 DEF IsEquivalence
<1>6. TypeInv'
  <2>1. next' \in Nat \ {0} /\ waiting' \subseteq Pairs(problem')
    OBVIOUS
  <2>2. stage' \in {"idle", "uniting", "closing"} /\ changed' \in BOOLEAN /\ equal' \in BOOLEAN
    BY DEF ClosureInv, TypeInv
  <2>3. parent' \in [About(problem') -> About(problem')]
    BY <1>1, <1>3 DEF D
  <2>4. QED
    BY <1>1, <2>1, <2>2, <2>3 DEF TypeInv
<1>7. DealtWith'
  <2>1. \A n \in DOMAIN p.cited : ~ (n < 1)
    BY ProblemTerms
  <2>2. QED
    BY <2>1 DEF DealtWith, ClosedWhenDone
<1>8. QED
  BY <1>4, <1>5, <1>6, <1>7 DEF ClosureInv

LEMMA UniteCitedStep ==
  ASSUME ClosureInv, UniteCited
  PROVE  ClosureInv'
<1> DEFINE D == About(problem)
           s == problem.cited[next][1]
           t == problem.cited[next][2]
<1>1. /\ stage = "uniting" /\ stage' = "uniting"
      /\ next <= Len(problem.cited) /\ next' = next + 1
      /\ parent' = Linked(parent, {s, t}, s, t)
      /\ problem' = problem /\ waiting' = waiting /\ changed' = changed /\ equal' = equal
  BY DEF UniteCited
<1>2. /\ problem \in Problems /\ next \in Nat \ {0}
      /\ changed /\ waiting = {} /\ changed \in BOOLEAN /\ equal \in BOOLEAN
      /\ \A n \in DOMAIN problem.cited : n < next => CitedAgree(n)
  BY <1>1 DEF ClosureInv, TypeInv, DealtWith
<1>3. next \in DOMAIN problem.cited
  <2>1. problem.cited \in Seq(Equation)
    BY <1>2, ProblemAssumption
  <2>2. QED
    BY <1>1, <1>2, <2>1
<1>4. s \in D /\ t \in D /\ problem.cited[next] = <<s, t>>
  BY <1>2, <1>3, ProblemTerms
<1>5. \A E \in Admissible : <<s, t>> \in E
  BY <1>3, <1>4 DEF Admissible
<1> HIDE DEF s, t
<1>6. /\ parent' \in [D -> D]
      /\ WalksEnd' /\ LinksAreEquations'
      /\ \A u, v \in D : SameClass(Roots(parent), u, v) => SameClass(Roots(parent'), u, v)
      /\ SameClass(Roots(parent'), s, t)
  BY <1>1, <1>4, <1>5, UnionStep
<1>7. TypeInv'
  <2>1. next' \in Nat \ {0} /\ waiting' \subseteq Pairs(problem')
    BY <1>1, <1>2
  <2>2. stage' \in {"idle", "uniting", "closing"} /\ changed' \in BOOLEAN /\ equal' \in BOOLEAN
    BY <1>1, <1>2
  <2>3. QED
    BY <1>1, <1>2, <1>6, <2>1, <2>2 DEF TypeInv
<1>8. \A n \in DOMAIN problem.cited : n < next' => CitedAgree(n)'
  <2>1. SUFFICES ASSUME NEW n \in DOMAIN problem.cited, n < next'
                 PROVE  SameClass(Roots(parent'), problem.cited[n][1], problem.cited[n][2])
    BY <1>1 DEF CitedAgree
  <2>2. CASE n = next
    BY <1>6, <2>2 DEF s, t
  <2>3. CASE n # next
    <3>1. n < next
      <4>1. n \in Nat
        BY <1>2, ProblemTerms
      <4>2. QED
        BY <1>1, <1>2, <2>1, <2>3, <4>1
    <3>2. SameClass(Roots(parent), problem.cited[n][1], problem.cited[n][2])
      BY <1>2, <3>1 DEF CitedAgree
    <3>3. problem.cited[n][1] \in D /\ problem.cited[n][2] \in D
      BY <1>2, ProblemTerms
    <3>4. QED
      BY <1>6, <3>2, <3>3
  <2>4. QED
    BY <2>2, <2>3
<1>9. DealtWith'
  BY <1>1, <1>2, <1>8 DEF DealtWith, ClosedWhenDone
<1>10. QED
  BY <1>6, <1>7, <1>9 DEF ClosureInv

LEMMA PassStep ==
  ASSUME ClosureInv, Pass
  PROVE  ClosureInv'
<1>1. /\ stage' = "closing" /\ waiting' = Pairs(problem) /\ changed' = FALSE
      /\ problem' = problem /\ next' = next /\ parent' = parent /\ equal' = equal
      /\ stage # "idle"
      /\ stage = "uniting" => next > Len(problem.cited)
      /\ stage \in {"uniting", "closing"}
  BY DEF Pass
<1>2. /\ problem \in Problems /\ next \in Nat \ {0} /\ equal \in BOOLEAN
      /\ parent \in [About(problem) -> About(problem)]
      /\ WalksEnd /\ LinksAreEquations
  BY <1>1 DEF ClosureInv, TypeInv
<1>3. TypeInv'
  <2>1. stage' \in {"idle", "uniting", "closing"} /\ changed' \in BOOLEAN /\ equal' \in BOOLEAN
    BY <1>1, <1>2
  <2>2. QED
    BY <1>1, <1>2, <2>1 DEF TypeInv
<1>4. \A n \in DOMAIN problem.cited : CitedAgree(n)
  <2>1. CASE stage = "closing"
    BY <2>1 DEF ClosureInv, DealtWith
  <2>2. CASE stage = "uniting"
    <3>1. \A n \in DOMAIN problem.cited : n < next
      <4>1. problem.cited \in Seq(Equation)
        BY <1>2, ProblemAssumption
      <4>2. QED
        BY <1>1, <1>2, <2>2, <4>1
    <3>2. QED
      BY <3>1 DEF ClosureInv, DealtWith
  <2>3. QED
    BY <1>1, <2>1, <2>2
<1>5. DealtWith'
  BY <1>1, <1>4 DEF DealtWith, ClosedWhenDone, CitedAgree
<1>6. WalksEnd' /\ LinksAreEquations'
  BY <1>1, <1>2 DEF WalksEnd, LinksAreEquations, Admissible
<1>7. QED
  BY <1>3, <1>5, <1>6 DEF ClosureInv

(* Arguments that agree are equal whatever equal means; hence so are the   *)
(* applications.                                                           *)
LEMMA MergedAreEquations ==
  ASSUME ClosureInv, stage # "idle", NEW pair \in Pairs(problem), NEW E \in Admissible,
         ArgumentsAgree(Roots(parent), problem.terms[pair[1]], problem.terms[pair[2]])
  PROVE  <<problem.terms[pair[1]], problem.terms[pair[2]]>> \in E
<1> DEFINE D == About(problem)
           s == problem.terms[pair[1]]
           t == problem.terms[pair[2]]
<1>1. /\ problem \in Problems /\ parent \in [D -> D] /\ Found(parent)
      /\ \A u \in D : <<u, parent[u]>> \in E
  <2>1. problem \in Problems /\ parent \in [D -> D]
    BY DEF ClosureInv, TypeInv
  <2>2. \A u \in DOMAIN parent : <<u, parent[u]>> \in E
    BY DEF ClosureInv, LinksAreEquations
  <2>3. QED
    BY <2>1, <2>2 DEF ClosureInv, WalksEnd
<1>2. /\ D \in SUBSET Term /\ s \in D /\ t \in D /\ Alike(s, t)
      /\ \A u \in D : IsApplication(u) =>
           \A n \in DOMAIN Arguments(u) : Arguments(u)[n] \in D
  BY <1>1, ProblemTerms
<1> HIDE DEF D, s, t
<1>3. IsEquivalence(E) /\ IsCongruence(E)
  BY MeaningAssumption DEF Admissible, IsCongruence
<1>4. IsApplication(s) /\ IsApplication(t) /\ DOMAIN Arguments(s) = DOMAIN Arguments(t)
  BY <1>2, AlikeArguments
<1>5. ASSUME NEW n \in DOMAIN Arguments(s)
      PROVE  <<Arguments(s)[n], Arguments(t)[n]>> \in E
  <2>1. Arguments(s)[n] \in D /\ Arguments(t)[n] \in D
    BY <1>2, <1>4
  <2>2. SameClass(Roots(parent), Arguments(s)[n], Arguments(t)[n])
    BY DEF ArgumentsAgree, s, t
  <2>3. QED
    BY <1>1, <1>2, <1>3, <2>1, <2>2, SameClassIsEquation
<1>6. s \in Term /\ t \in Term
  BY <1>2
<1>7. <<s, t>> \in E
  BY <1>2, <1>3, <1>5, <1>6 DEF IsCongruence
<1>8. QED
  BY <1>7 DEF s, t

LEMMA CompareStep ==
  ASSUME ClosureInv, NEW pair \in waiting, Compare(pair[1], pair[2])
  PROVE  ClosureInv'
<1> DEFINE D == About(problem)
           s == problem.terms[pair[1]]
           t == problem.terms[pair[2]]
           R == Roots(parent)
           X == LookedUp(R, s, t)
<1>1. /\ stage = "closing" /\ stage' = "closing"
      /\ waiting' = waiting \ {<<pair[1], pair[2]>>}
      /\ problem' = problem /\ next' = next /\ equal' = equal
      /\ \/ Merged(R, s, t) /\ parent' = Linked(parent, X, s, t) /\ changed' = TRUE
         \/ ~ Merged(R, s, t) /\ parent' = Compressed(parent, X) /\ changed' = changed
  BY DEF Compare
<1>2. /\ problem \in Problems /\ next \in Nat \ {0} /\ changed \in BOOLEAN /\ equal \in BOOLEAN
      /\ waiting \subseteq Pairs(problem)
      /\ \A n \in DOMAIN problem.cited : CitedAgree(n)
      /\ ~ changed => \A q \in Pairs(problem) \ waiting : PairAgrees(q)
  BY <1>1 DEF ClosureInv, TypeInv, DealtWith
<1>3. pair \in Pairs(problem) /\ pair = <<pair[1], pair[2]>>
  BY <1>2 DEF Pairs
<1>4. s \in D /\ t \in D
  BY <1>2, <1>3, ProblemTerms
<1> HIDE DEF X, R, s, t
<1>5. CASE Merged(R, s, t) /\ parent' = Linked(parent, X, s, t) /\ changed' = TRUE
  <2>1. \A E \in Admissible : <<s, t>> \in E
    BY <1>1, <1>3, <1>5, MergedAreEquations DEF Merged, R, s, t
  <2>2. /\ parent' \in [D -> D]
        /\ WalksEnd' /\ LinksAreEquations'
        /\ \A u, v \in D : SameClass(R, u, v) => SameClass(Roots(parent'), u, v)
    BY <1>1, <1>4, <1>5, <2>1, UnionStep DEF R
  <2>3. TypeInv'
    <3>1. stage' \in {"idle", "uniting", "closing"} /\ changed' \in BOOLEAN /\ equal' \in BOOLEAN
      BY <1>1, <1>2, <1>5
    <3>2. waiting' \subseteq Pairs(problem')
      BY <1>1, <1>2
    <3>3. QED
      BY <1>1, <1>2, <2>2, <3>1, <3>2 DEF TypeInv
  <2>4. \A n \in DOMAIN problem.cited : CitedAgree(n)'
    <3>1. \A n \in DOMAIN problem.cited : problem.cited[n][1] \in D /\ problem.cited[n][2] \in D
      BY <1>2, ProblemTerms
    <3>2. QED
      BY <1>1, <1>2, <2>2, <3>1 DEF CitedAgree, R
  <2>5. DealtWith'
    BY <1>1, <1>5, <2>4 DEF DealtWith, ClosedWhenDone
  <2>6. QED
    BY <2>2, <2>3, <2>5 DEF ClosureInv
<1>6. CASE ~ Merged(R, s, t) /\ parent' = Compressed(parent, X) /\ changed' = changed
  <2>1. /\ parent' \in [D -> D]
        /\ WalksEnd' /\ LinksAreEquations'
        /\ Roots(parent') = R
    BY <1>1, <1>6, FindStep DEF R
  <2>2. TypeInv'
    <3>1. stage' \in {"idle", "uniting", "closing"} /\ changed' \in BOOLEAN /\ equal' \in BOOLEAN
      BY <1>1, <1>2, <1>6
    <3>2. waiting' \subseteq Pairs(problem')
      BY <1>1, <1>2
    <3>3. QED
      BY <1>1, <1>2, <2>1, <3>1, <3>2 DEF TypeInv
  <2>3. \A n \in DOMAIN problem.cited : CitedAgree(n)'
    BY <1>1, <1>2, <2>1 DEF CitedAgree, R
  <2>4. PairAgrees(pair)
    BY <1>6 DEF PairAgrees, Merged, R, s, t
  <2>5. ~ changed' => \A q \in (Pairs(problem) \ waiting)' : PairAgrees(q)'
    <3>1. ~ changed => \A q \in Pairs(problem) \ waiting' : PairAgrees(q)
      BY <1>1, <1>2, <1>3, <2>4
    <3>2. QED
      BY <1>1, <1>6, <2>1, <3>1 DEF PairAgrees, R
  <2>6. DealtWith'
    BY <1>1, <2>3, <2>5 DEF DealtWith, ClosedWhenDone
  <2>7. QED
    BY <2>1, <2>2, <2>6 DEF ClosureInv
<1>7. QED
  BY <1>1, <1>5, <1>6

LEMMA AnswerStep ==
  ASSUME ClosureInv, Answer
  PROVE  ClosureInv'
<1> DEFINE D == About(problem)
           s == problem.claimed[1]
           t == problem.claimed[2]
           R == Roots(parent)
<1>1. /\ stage = "closing" /\ waiting = {} /\ ~ changed /\ stage' = "idle"
      /\ parent' = Compressed(parent, {s, t})
      /\ equal' = SameClass(R, s, t)
      /\ problem' = problem /\ next' = next /\ waiting' = waiting /\ changed' = changed
  BY DEF Answer, Again
<1>2. /\ problem \in Problems /\ next \in Nat \ {0} /\ changed \in BOOLEAN
      /\ parent \in [D -> D] /\ Found(parent)
      /\ \A n \in DOMAIN problem.cited : CitedAgree(n)
      /\ \A q \in Pairs(problem) : PairAgrees(q)
  BY <1>1 DEF ClosureInv, TypeInv, DealtWith, WalksEnd
<1>3. D \in SUBSET Term /\ s \in D /\ t \in D /\ problem.claimed = <<s, t>>
  BY <1>2, ProblemTerms
<1> HIDE DEF s, t, R
<1>4. ASSUME equal', NEW E \in Admissible PROVE problem.claimed \in E
  <2>1. IsEquivalence(E)
    BY MeaningAssumption DEF Admissible, IsCongruence
  <2>2. \A u \in D : <<u, parent[u]>> \in E
    BY <1>2 DEF ClosureInv, LinksAreEquations
  <2>3. SameClass(Roots(parent), s, t)
    BY <1>1, <1>4 DEF R
  <2>4. <<s, t>> \in E
    BY <1>2, <1>3, <2>1, <2>2, <2>3, SameClassIsEquation
  <2>5. QED
    BY <1>3, <2>4
<1>5. /\ parent' \in [D -> D]
      /\ WalksEnd' /\ LinksAreEquations'
      /\ Roots(parent') = R
  BY <1>1, <1>4, FindStep DEF R
<1>6. TypeInv'
  <2>1. stage' \in {"idle", "uniting", "closing"} /\ changed' \in BOOLEAN
    BY <1>1, <1>2
  <2>2. equal' \in BOOLEAN
    BY <1>1 DEF SameClass
  <2>3. QED
    BY <1>1, <1>2, <1>5, <2>1, <2>2 DEF TypeInv
<1>7. \A n \in DOMAIN problem.cited : CitedAgree(n)'
  BY <1>1, <1>2, <1>5 DEF CitedAgree, R
<1>8. ASSUME NEW u \in D, NEW v \in D, Alike(u, v), ArgumentsAgree(R, u, v)
      PROVE  SameClass(R, u, v)
  <2>1. PICK i \in DOMAIN problem.terms, j \in DOMAIN problem.terms :
          u = problem.terms[i] /\ v = problem.terms[j]
    BY DEF About
  <2>2. i \in Nat /\ j \in Nat
    BY <1>2, ProblemAssumption
  <2>3. CASE i < j
    <3>1. <<i, j>> \in Pairs(problem)
      BY <1>8, <2>1, <2>3 DEF Pairs
    <3>2. QED
      BY <1>2, <1>8, <2>1, <3>1 DEF PairAgrees, R
  <2>4. CASE j < i
    <3>1. Alike(v, u)
      BY <1>8 DEF Alike
    <3>2. <<j, i>> \in Pairs(problem)
      BY <2>1, <2>4, <3>1 DEF Pairs
    <3>3. ArgumentsAgree(R, v, u)
      <4>1. DOMAIN Arguments(u) = DOMAIN Arguments(v)
        BY <1>3, <1>8, AlikeArguments
      <4>2. QED
        BY <1>8, <4>1 DEF ArgumentsAgree, SameClass
    <3>4. SameClass(R, v, u)
      BY <1>2, <2>1, <3>2, <3>3 DEF PairAgrees, R
    <3>5. QED
      BY <3>4 DEF SameClass
  <2>5. CASE i = j
    BY <2>1, <2>5 DEF SameClass
  <2>6. QED
    BY <2>2, <2>3, <2>4, <2>5
<1>9. ClosedWhenDone'
  BY <1>1, <1>5, <1>7, <1>8 DEF ClosedWhenDone, CitedAgree
<1>10. DealtWith'
  BY <1>1, <1>7, <1>9 DEF DealtWith
<1>11. QED
  BY <1>5, <1>6, <1>10 DEF ClosureInv

LEMMA DropStep ==
  ASSUME Drop
  PROVE  ClosureInv'
<1>1. /\ stage' = "idle" /\ problem' = NoProblem /\ next' = 1
      /\ parent' = NoTerms /\ waiting' = {} /\ changed' = FALSE /\ equal' = FALSE
  BY DEF Drop
<1>2. TypeInv'
  <2>1. next' \in Nat \ {0} /\ waiting' \subseteq Pairs(problem')
    BY <1>1
  <2>2. stage' \in {"idle", "uniting", "closing"} /\ changed' \in BOOLEAN /\ equal' \in BOOLEAN /\ ~ equal'
    BY <1>1
  <2>3. QED
    BY <1>1, <2>1, <2>2 DEF TypeInv
<1>3. DOMAIN parent' = {} /\ DOMAIN problem'.cited = {}
  BY <1>1 DEF NoTerms, NoProblem
<1>4. WalksEnd' /\ LinksAreEquations'
  BY <1>1, <1>3 DEF WalksEnd, Found, LinksAreEquations
<1>5. DealtWith'
  BY <1>1, <1>3 DEF DealtWith, ClosedWhenDone
<1>6. QED
  BY <1>2, <1>4, <1>5 DEF ClosureInv

LEMMA StutterStep ==
  ASSUME ClosureInv, UNCHANGED closureVars
  PROVE  ClosureInv'
BY DEF closureVars, ClosureInv, TypeInv, WalksEnd, LinksAreEquations, Admissible, DealtWith,
       ClosedWhenDone, CitedAgree, PairAgrees

(* Every reachable state of a call is as the invariant says.               *)
THEOREM ClosureInvariant == ClosureSpec => []ClosureInv
<1>1. ClosureInit => ClosureInv
  BY InitInv
<1>2. ClosureInv /\ [ClosureNext]_closureVars => ClosureInv'
  <2> SUFFICES ASSUME ClosureInv, [ClosureNext]_closureVars PROVE ClosureInv'
    OBVIOUS
  <2>1. ASSUME NEW p \in Problems, Begin(p) PROVE ClosureInv'
    BY <2>1, BeginStep
  <2>2. CASE UniteCited
    BY <2>2, UniteCitedStep
  <2>3. CASE Pass
    BY <2>3, PassStep
  <2>4. ASSUME NEW pair \in waiting, Compare(pair[1], pair[2]) PROVE ClosureInv'
    BY <2>4, CompareStep
  <2>5. CASE Answer
    BY <2>5, AnswerStep
  <2>6. CASE Drop
    BY <2>6, DropStep
  <2>7. CASE UNCHANGED closureVars
    BY <2>7, StutterStep
  <2>8. QED
    BY <2>1, <2>2, <2>3, <2>4, <2>5, <2>6, <2>7 DEF ClosureNext, Search
<1>3. QED
  BY <1>1, <1>2, PTL DEF ClosureSpec

(* find always returns: the walk from any term, at any moment of any       *)
(* search, ends in a root (the loops of _UnionFind.find).                  *)
THEOREM FindReturns == ClosureSpec => []WalksEnd
<1>1. ClosureInv => WalksEnd
  BY DEF ClosureInv
<1>2. QED
  BY <1>1, ClosureInvariant, PTL

(* Soundness: whatever congruence has the cited equations has every link   *)
(* of the union-find and, if the answer is yes, the equation claimed       *)
(* (AlgebraRule: "closure of Reflexivity, Symmetry, Transitivity,          *)
(* congruence under the cited equations").                                 *)
THEOREM AlgebraIsSound == ClosureSpec => []LinksAreEquations
<1>1. ClosureInv => LinksAreEquations
  BY DEF ClosureInv
<1>2. QED
  BY <1>1, ClosureInvariant, PTL

(* Completeness: when a call has returned, its classes are a congruence    *)
(* that has the cited equations, so that what it refuses need not hold     *)
(* ("a well-known, complete decision procedure").                          *)
THEOREM AlgebraIsComplete == ClosureSpec => []ClosedWhenDone
<1>1. ClosureInv => ClosedWhenDone
  BY DEF ClosureInv, DealtWith
<1>2. QED
  BY <1>1, ClosureInvariant, PTL
=============================================================================
