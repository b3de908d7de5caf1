---------------------------- MODULE RuleVerdicts ----------------------------
(***************************************************************************)
(* One citation on its own: ProofValidator._ask_rule puts a question to a  *)
(* rule (candidates, the formula claimed, the context of the line) and     *)
(* takes the verdict.  The candidates are whatever a proof may have        *)
(* established under the hypotheses of the context.                        *)
(***************************************************************************)
EXTENDS TheoryRules, CongruenceClosure

CONSTANTS
  AskedRules,         \* the rules asked
  Candidate(_),       \* the formulas and subproof records each may be given
  Claim(_),           \* the formulas claimed
  Contexts(_, _),     \* the contexts its line may have with these candidates
  Structures(_),      \* the structures in which truth is judged
  Fits(_, _),         \* the structure is as the context's declarations say
  Axioms(_),          \* what a line that cites an axiom by name may say
  MaxCited            \* bound: candidates of an algebra line

VARIABLES question, verdict
askVars == <<question, verdict>>
vars    == <<askVars, closureVars>>

NoQuestion == [rule |-> "none"]

Init == question = NoQuestion /\ verdict = FALSE /\ ClosureInit

Put(rule, cs, phi, ctx) ==
  /\ question' = [rule |-> rule, candidates |-> cs, phi |-> phi, context |-> ctx]

Ask(rule, cs, phi, ctx) ==
  /\ Put(rule, cs, phi, ctx)
  /\ verdict' = AskInTheory(rule, cs, phi, ctx)
  /\ UNCHANGED closureVars

(* AlgebraRule takes any number of candidates, and searches.               *)
AskAlgebra(cs, phi, ctx) ==
  /\ Put("Algebra", cs, phi, ctx)
  /\ verdict' = FALSE
  /\ IF IsEquational(cs, phi) THEN Begin(AlgebraProblem(cs, phi)) ELSE UNCHANGED closureVars

SearchOn == Search /\ UNCHANGED askVars
Conclude == Answer /\ verdict' = equal' /\ UNCHANGED question

(* The next line's question is put afresh.                                 *)
Forget ==
  /\ question # NoQuestion
  /\ question' = NoQuestion
  /\ verdict' = FALSE
  /\ Drop

Next ==
  \/ /\ question = NoQuestion
     /\ \E rule \in AskedRules \ {"Algebra"} :
          \E cs \in [1 .. RuleArity(rule) -> Candidate(rule)], phi \in Claim(rule) :
            \E ctx \in Contexts(rule, cs) : Ask(rule, cs, phi, ctx)
  \/ /\ question = NoQuestion /\ "Algebra" \in AskedRules
     /\ \E n \in 1 .. MaxCited :
          \E cs \in [1 .. n -> Candidate("Algebra")], phi \in Claim("Algebra") :
            \E ctx \in Contexts("Algebra", cs) : AskAlgebra(cs, phi, ctx)
  \/ SearchOn
  \/ Conclude
  \/ Forget

(* A rule that was asked answers: its loops run until it returns.          *)
Spec == Init /\ [][Next]_vars /\ WF_vars(SearchOn \/ Conclude)

-----------------------------------------------------------------------------
(* The structures in which the hypotheses of the line hold.                *)
ModelsOf(rule, ctx) ==
  {m \in Structures(rule) : Fits(ctx, m) /\ \A h \in ctx.hypotheses : HoldsIn(h, m)}

(* A candidate that a proof can have established: a formula true in all    *)
(* those structures, a record whose conclusion is true in those in which   *)
(* its assumption is.                                                      *)
Established(c, M) ==
  IF IsRecord(c)
  THEN \A m \in M : (c.fresh \/ HoldsIn(c.assumption, m)) => HoldsIn(c.conclusion, m)
  ELSE \A m \in M : HoldsIn(c, m)

(* "The standard logical rules are the kernel's own, always sound": a rule *)
(* that says yes to established candidates claims something true.          *)
VerdictsAreSound ==
  verdict =>
    LET M == ModelsOf(question.rule, question.context)
    IN  (\A i \in DOMAIN question.candidates : Established(question.candidates[i], M))
          => \A m \in M : HoldsIn(question.phi, m)

(* What two rules do not ask.  Replacement writes z for y in B without     *)
(* asking whether B binds z: nothing was captured if y, written for z      *)
(* again, gives B (substitute_in_formula).  The witness form of pairing    *)
(* does not ask whether the terms paired mention the quantified u.         *)
NothingIsCaptured(rule, phi) ==
  /\ rule = "Replacement" =>
       LET functional == phi.kids[1].kids[1].kids[2]
           y          == functional.sym
           B          == functional.kids[1].kids[1]
           uniqueness == functional.kids[1].kids[2]
       IN  Substitute(uniqueness.kids[1].kids[1], uniqueness.sym, Var(y)) = B
  /\ rule = "PairingWitness" =>
       \A i \in 1 .. 2 :
         \E t \in ToSet(phi.kids[1].kids[2].kids[i].kids) : Outside(t, {phi.sym})

(* "Each rule accepts exactly its own": a line taken for an axiom of set   *)
(* theory is that axiom, or an instance of it, up to the names it binds,   *)
(* unless one of the two places above captured a name; then it is not.     *)
AxiomLinesAreAxioms ==
  verdict /\ question.rule \in AxiomRule
    => (NothingIsCaptured(question.rule, question.phi)
          <=> \E axiom \in Axioms(question.rule) : AlphaEq(question.phi, axiom))
=============================================================================
