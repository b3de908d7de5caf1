------------------------- MODULE CongruenceClosure -------------------------
(***************************************************************************)
(* The search of AlgebraRule for a chain of equations                      *)
(* (source/ProofLogic.py, _congruence_closure_equates): a union-find over  *)
(* the subterms of the cited equations and of the equation claimed.  The   *)
(* cited equations are united first; then every two applications of one    *)
(* symbol are compared, again and again until a pass changes nothing; then *)
(* the two sides of the claim are looked up.                               *)
(***************************************************************************)
EXTENDS Integers, Sequences, FiniteSets

CONSTANTS
  Term,               \* the terms equations may be about
  IsApplication(_),   \* a FunctionTerm
  Symbol(_),          \* its symbol
  Arguments(_),       \* and its arguments
  Problems,           \* at a call the equations cited, the one claimed, and the terms
                      \* of both in the order of their registration
  Meanings            \* what "equal" may mean: relations between terms

(* An equation is the pair of its sides.                                   *)
Equation == Term \X Term

(* s and t are applications of one symbol to as many arguments.            *)
Alike(s, t) ==
  /\ IsApplication(s) /\ IsApplication(t)
  /\ Symbol(s) = Symbol(t)
  /\ Len(Arguments(s)) = Len(Arguments(t))

(* A congruence: an equivalence that alike applications inherit from their *)
(* arguments.                                                              *)
IsEquivalence(E) ==
  /\ \A t \in Term : <<t, t>> \in E
  /\ \A s, t \in Term : <<s, t>> \in E => <<t, s>> \in E
  /\ \A s, t, u \in Term : <<s, t>> \in E /\ <<t, u>> \in E => <<s, u>> \in E

IsCongruence(E) ==
  /\ IsEquivalence(E)
  /\ \A s, t \in Term :
       /\ Alike(s, t)
       /\ \A n \in DOMAIN Arguments(s) : <<Arguments(s)[n], Arguments(t)[n]>> \in E
       => <<s, t>> \in E

ASSUME TermAssumption ==
  \A t \in Term : IsApplication(t) => Arguments(t) \in Seq(Term)

(* Everything an equation mentions is registered, arguments included.      *)
About(p) == {p.terms[n] : n \in DOMAIN p.terms}
ASSUME ProblemAssumption ==
  \A p \in Problems :
    /\ p.cited \in Seq(Equation) /\ p.claimed \in Equation
    /\ p.terms \in Seq(Term)
    /\ \A n \in DOMAIN p.cited : p.cited[n] \in About(p) \X About(p)
    /\ p.claimed \in About(p) \X About(p)
    /\ \A t \in About(p) : IsApplication(t) =>
         \A n \in DOMAIN Arguments(t) : Arguments(t)[n] \in About(p)

ASSUME MeaningAssumption == \A E \in Meanings : IsCongruence(E)

VARIABLES
  stage,     \* "idle", "uniting", "closing"
  problem,   \* the arguments of the call
  next,      \* the equation to be united next
  parent,    \* _UnionFind._parent, for every term registered
  waiting,   \* the pairs of places this pass has still to compare
  changed,   \* this pass has merged two classes
  equal      \* the answer of the last call

closureVars == <<stage, problem, next, parent, waiting, changed, equal>>

-----------------------------------------------------------------------------
(* _UnionFind.                                                             *)

(* For every term those met on the walk along p, itself included: the      *)
(* least set that has it and, with every term, the term's parent.          *)
Walks(p) ==
  LET closed == {S \in SUBSET DOMAIN p : \A u \in S : p[u] \in S}
  IN  [t \in DOMAIN p |-> {u \in DOMAIN p : \A S \in closed : t \in S => u \in S}]

(* The first loop of find ends, whatever term it starts from.              *)
Found(p) == LET walk == Walks(p) IN \A t \in DOMAIN p : \E r \in walk[t] : p[r] = r

(* What find returns; and what it leaves behind when it was called for     *)
(* every term of X: those met on the way point to the root.                *)
Roots(p) == LET walk == Walks(p) IN [t \in DOMAIN p |-> CHOOSE r \in walk[t] : p[r] = r]
SameClass(root, s, t) == root[s] = root[t]

Compressed(p, X) ==
  LET walk == Walks(p)
      root == Roots(p)
  IN  [u \in DOMAIN p |-> IF \E t \in X : u \in walk[t] THEN root[u] ELSE p[u]]

(* union(s, t), after X was looked up.  Mutant: the root of s gets t       *)
(* itself for a parent, whatever class t is in.                            *)
LinkedThere(p, X, s, t) == [Compressed(p, X) EXCEPT ![Roots(p)[s]] = t]
Linked(p, X, s, t) ==
  LET root == Roots(p) IN [Compressed(p, X) EXCEPT ![root[s]] = root[t]]

-----------------------------------------------------------------------------
(* The call.                                                               *)

(* The places of two different terms of problem p, of which the loops ask  *)
(* anything at all, the first before the second.                           *)
Pairs(p) ==
  {pair \in (DOMAIN p.terms) \X (DOMAIN p.terms) :
     pair[1] < pair[2] /\ Alike(p.terms[pair[1]], p.terms[pair[2]])}

Begin(p) ==
  /\ stage = "idle"
  /\ stage' = "uniting"
  /\ problem' = p
  /\ next' = 1
  /\ parent' = [t \in About(p) |-> t]
  /\ waiting' = {}
  /\ changed' = TRUE
  /\ UNCHANGED equal

UniteCited ==
  LET s == problem.cited[next][1]
      t == problem.cited[next][2]
  IN  /\ stage = "uniting"
      /\ next <= Len(problem.cited)
      /\ Found(parent)
      /\ parent' = Linked(parent, {s, t}, s, t)
      /\ next' = next + 1
      /\ UNCHANGED <<stage, problem, waiting, changed, equal>>

(* The condition of the while loop: another pass, if there was a change.   *)
(* Mutant: one pass is enough.                                             *)
AfterFirst == stage = "uniting"
Again      == stage = "uniting" \/ changed

Pass ==
  /\ \/ stage = "uniting" /\ next > Len(problem.cited)
     \/ stage = "closing" /\ waiting = {}
  /\ Again
  /\ stage' = "closing"
  /\ waiting' = Pairs(problem)
  /\ changed' = FALSE
  /\ UNCHANGED <<problem, next, parent, equal>>

(* The arguments all(...) looks at: up to the first two that differ; and   *)
(* whether there are none such.  Mutant: one argument in common will do.   *)
LookedAt(root, s, t) ==
  {n \in DOMAIN Arguments(s) :
     \A m \in 1 .. n - 1 : SameClass(root, Arguments(s)[m], Arguments(t)[m])}
SomeArgumentsAgree(root, s, t) ==
  \E n \in DOMAIN Arguments(s) : SameClass(root, Arguments(s)[n], Arguments(t)[n])
ArgumentsAgree(root, s, t) ==
  \A n \in DOMAIN Arguments(s) : SameClass(root, Arguments(s)[n], Arguments(t)[n])

(* The two are merged.  Mutant: even if they are in one class already.     *)
MergedAgain(root, s, t) == ArgumentsAgree(root, s, t)
Merged(root, s, t)      == ~ SameClass(root, s, t) /\ ArgumentsAgree(root, s, t)

(* The terms find is called for when s and t are compared.                 *)
LookedUp(root, s, t) ==
  {s, t} \cup
  IF SameClass(root, s, t) THEN {}
  ELSE UNION {{Arguments(s)[n], Arguments(t)[n]} : n \in LookedAt(root, s, t)}

Compare(i, j) ==
  LET s    == problem.terms[i]
      t    == problem.terms[j]
      root == Roots(parent)
  IN  /\ stage = "closing"
      /\ \A pair \in waiting : i < pair[1] \/ (i = pair[1] /\ j <= pair[2])
      /\ Found(parent)
      /\ waiting' = waiting \ {<<i, j>>}
      /\ \/ /\ Merged(root, s, t)
            /\ parent' = Linked(parent, LookedUp(root, s, t), s, t)
            /\ changed' = TRUE
         \/ /\ ~ Merged(root, s, t)
            /\ parent' = Compressed(parent, LookedUp(root, s, t))
            /\ UNCHANGED changed
      /\ UNCHANGED <<stage, problem, next, equal>>

Answer ==
  LET s == problem.claimed[1]
      t == problem.claimed[2]
  IN  /\ stage = "closing"
      /\ waiting = {}
      /\ ~ Again
      /\ Found(parent)
      /\ equal' = SameClass(Roots(parent), s, t)
      /\ parent' = Compressed(parent, {s, t})
      /\ stage' = "idle"
      /\ UNCHANGED <<problem, next, waiting, changed>>

(* What the call held is gone when its caller has the answer.              *)
NoProblem == [cited |-> <<>>, claimed |-> <<>>, terms |-> <<>>]
NoTerms   == [t \in {} |-> t]

Drop ==
  /\ stage = "idle"
  /\ problem' = NoProblem
  /\ next' = 1
  /\ parent' = NoTerms
  /\ waiting' = {} /\ changed' = FALSE /\ equal' = FALSE
  /\ UNCHANGED stage

Search == UniteCited \/ Pass \/ \E pair \in waiting : Compare(pair[1], pair[2])

ClosureInit ==
  /\ stage = "idle"
  /\ problem = NoProblem
  /\ next = 1
  /\ parent = NoTerms
  /\ waiting = {} /\ changed = FALSE /\ equal = FALSE

ClosureNext == (\E p \in Problems : Begin(p)) \/ Search \/ Answer \/ Drop

(* A call runs until it returns.                                           *)
ClosureSpec == ClosureInit /\ [][ClosureNext]_closureVars /\ WF_closureVars(Search \/ Answer)

-----------------------------------------------------------------------------
(* Properties.                                                             *)

(* "This rule's guarantee = closure of {Reflexivity, Symmetry,             *)
(* Transitivity, congruence} under the cited equations": whatever "equal"  *)
(* means, if it is a congruence that has the cited equations, it has every *)
(* link of the union-find, and the claimed equation if the answer is yes.  *)
Admissible == {E \in Meanings : \A n \in DOMAIN problem.cited : problem.cited[n] \in E}
LinksAreEquations ==
  \A E \in Admissible :
    /\ \A t \in DOMAIN parent : <<t, parent[t]>> \in E
    /\ stage = "idle" /\ equal => problem.claimed \in E

(* find returns: the parents of a term, one after the other, lead to a     *)
(* root, however the loops of find and union have rearranged them.         *)
WalksEnd == Found(parent)

(* "A well-known, complete decision procedure": when a call returns, its   *)
(* classes are themselves a congruence that has the cited equations, so    *)
(* that a claim refused is one that need not hold.                         *)
ClosedWhenDone ==
  stage = "idle" =>
    LET root == Roots(parent)
    IN  /\ \A n \in DOMAIN problem.cited : SameClass(root, problem.cited[n][1], problem.cited[n][2])
        /\ \A s, t \in DOMAIN parent :
             Alike(s, t) /\ ArgumentsAgree(root, s, t) => SameClass(root, s, t)

(* Every call returns: the passes of the while loop come to an end.        *)
CallsReturn == stage # "idle" ~> stage = "idle"
=============================================================================
