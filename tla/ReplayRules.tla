----------------------------- MODULE ReplayRules -----------------------------
(***************************************************************************)
(* How an argument already written is rewritten to be read again           *)
(* (source/ProofLogic.py): the rest of a block after a WLOG line, for each *)
(* case not chosen, and the argument of a line that a Mutatis mutandis     *)
(* line repeats for other names.  Both read a replacement off two          *)
(* statements, apply it to the lines and look for the lines to cite        *)
(* instead of those outside.                                               *)
(* They are recursions over formulas, values and entries, which            *)
(* RepeatedArguments has as parameters.                                    *)
(***************************************************************************)
EXTENDS InferenceRules, LabelledLines

Symbols     == {"const", "fun", "atom"}

-----------------------------------------------------------------------------
(* _substitute_constants_in_formula, _substitute_wlog_value: the           *)
(* replacement is put where the symbol stood.                              *)
RECURSIVE Replace(_, _)
Replace(sigma, f) ==
  LET kids == [i \in DOMAIN f.kids |-> Replace(sigma, f.kids[i])]
      new  == IF f.op \in Symbols /\ Key(f) \in DOMAIN sigma THEN sigma[Key(f)] ELSE f
  IN  IF Is("const", f) THEN new ELSE Node(f.op, new.sym, kids)

RECURSIVE ReplaceIn(_, _)
ReplaceIn(sigma, v) ==
  LET In(w) == ReplaceIn(sigma, w)
  IN  IF IsRecord(v)
      THEN [assumption |-> In(v.assumption), conclusion |-> In(v.conclusion),
            inner |-> [i \in DOMAIN v.inner |-> In(v.inner[i])],
            outer |-> [i \in DOMAIN v.outer |-> In(v.outer[i])]]
      ELSE Replace(sigma, v)

-----------------------------------------------------------------------------
(* _wlog_formula_matches: the same formula up to the names of bound        *)
(* variables and the order of conjuncts, disjuncts and the two sides of an *)
(* equality or a biconditional.  Mutant: the two sides of a conditional    *)
(* may stand in either order as well.                                      *)
Commutative   == {"and", "or", "equals", "iff"}
AnyConnective == Commutative \cup {"implies"}
Connectives   == Commutative \cup {"not", "implies", "bundle"}

LooseOrders(f) == IF f.op \in AnyConnective THEN Permutations(DOMAIN f.kids)
                                            ELSE {[i \in DOMAIN f.kids |-> i]}
Orders(f)      == IF f.op \in Commutative THEN Permutations(DOMAIN f.kids)
                                          ELSE {[i \in DOMAIN f.kids |-> i]}

RECURSIVE MatchesIn(_, _, _, _, _)
MatchesIn(a, b, envA, envB, depth) ==
  IF a.op # b.op \/ Len(a.kids) # Len(b.kids) THEN FALSE
  ELSE IF a.op \in Connectives
  THEN \E order \in Orders(a) : \A i \in DOMAIN a.kids :
         MatchesIn(a.kids[i], b.kids[order[i]], envA, envB, depth)
  ELSE IF IsQuantifier(a)
  THEN MatchesIn(a.kids[1], b.kids[1], Bind(envA, a.sym, depth), Bind(envB, b.sym, depth), depth + 1)
  ELSE AlphaEqIn(a, b, envA, envB, depth)

(* _wlog_value_matches.                                                    *)
RECURSIVE ValueMatches(_, _)
ValueMatches(u, v) ==
  LET Each(s, t) == Len(s) = Len(t) /\ \A i \in DOMAIN s : ValueMatches(s[i], t[i])
  IN  IF IsRecord(u) \/ IsRecord(v)
      THEN /\ IsRecord(u) /\ IsRecord(v)
           /\ ValueMatches(u.assumption, v.assumption)
           /\ Each(u.inner, v.inner)
           /\ Each(u.outer, v.outer)
      ELSE MatchesIn(u, v, <<>>, <<>>, 0)

-----------------------------------------------------------------------------
(* What must be replaced for one statement to say another.  Both walks     *)
(* collect pairs, of names or of a key and a node; a mismatch among them   *)
(* says that the shapes disagree.                                          *)
Mismatch     == <<<<"no", "key">>, NoMatch>>

(* _wlog_arbitrary_exchange: constants against constants, the rest alike.  *)
RECURSIVE NameChanges(_, _)
NameChanges(f, g) ==
  IF Is("const", f) /\ Is("const", g) THEN {<<f.sym, g.sym>>} \ {<<f.sym, f.sym>>}
  ELSE IF Key(f) # Key(g) \/ Len(f.kids) # Len(g.kids) THEN {NameMismatch}
  ELSE UNION {NameChanges(f.kids[i], g.kids[i]) : i \in DOMAIN f.kids}

(* _wlog_changed_terms: two equalities differ in one side, two constants.  *)
ChangedTerms(f, g) ==
  LET sides == {i \in 1 .. 2 : f.kids[i] # g.kids[i]}
  IN  IF Cardinality(sides) = 1 /\ \A i \in sides : Is("const", f.kids[i]) /\ Is("const", g.kids[i])
      THEN {<<f.kids[i].sym, g.kids[i].sym>> : i \in sides}
      ELSE {NameMismatch}

CaseChanges(chosen, other) ==
  IF Is("equals", chosen) /\ Is("equals", other) THEN ChangedTerms(chosen, other)
                                                 ELSE NameChanges(chosen, other)

(* _mm_align: what each name and symbol of the model stands for in the     *)
(* claim, those that stay included; bound variables must correspond.       *)
RECURSIVE Aligned(_, _, _, _, _)
Aligned(f, g, envF, envG, depth) ==
  LET Below(e1, e2, d) == UNION {Aligned(f.kids[i], g.kids[i], e1, e2, d) : i \in DOMAIN f.kids}
      Corresponds ==
        IF f.sym \in DOMAIN envF /\ g.sym \in DOMAIN envG THEN envF[f.sym] = envG[g.sym]
        ELSE f.sym \notin DOMAIN envF /\ g.sym \notin DOMAIN envG /\ f.sym = g.sym
  IN  IF Is("const", f)
      THEN IF g.op \in {"const", "fun"} /\ IsClosed(g) THEN {<<Key(f), g>>} ELSE {Mismatch}
      ELSE IF f.op # g.op \/ Len(f.kids) # Len(g.kids) THEN {Mismatch}
      ELSE IF Is("var", f) THEN IF Corresponds THEN {} ELSE {Mismatch}
      ELSE IF IsQuantifier(f) THEN Below(Bind(envF, f.sym, depth), Bind(envG, g.sym, depth), depth + 1)
      ELSE Below(envF, envG, depth)
             \cup (IF f.op \in Symbols THEN {<<Key(f), Node(g.op, g.sym, <<>>)>>} ELSE {})

(* The replacement, without what stays (without_identities); it has no     *)
(* entry when there is nothing to change.  Mutant: what stays is not       *)
(* recorded, so it may be replaced elsewhere.                              *)
Stays(p)        == p[2] = Node(p[1][1], p[1][2], <<>>)
Changing(pairs) == {p \in pairs : p = Mismatch \/ ~ Stays(p)}
Agreeing(pairs) == Mismatch \notin pairs /\ \A p, q \in pairs : p[1] = q[1] => p[2] = q[2]
ChangesAgree(pairs) == Agreeing(Changing(pairs))
Consistent(pairs)   == Agreeing(pairs)
Replacement(model, claim) ==
  LET pairs == Aligned(model, claim, <<>>, <<>>, 0)
      moved == Changing(pairs)
  IN  IF Consistent(pairs)
      THEN [key \in {p[1] : p \in moved} |-> (CHOOSE p \in moved : p[1] = key)[2]]
      ELSE <<>>

-----------------------------------------------------------------------------
(* _mm_says: the line says it, or states every fact of it.                 *)
Facts(v) == IF IsRecord(v) THEN <<>> ELSE IF Is("bundle", v) THEN v.kids ELSE <<v>>
Says(candidate, expected) ==
  \/ ValueMatches(candidate, expected)
  \/ /\ Facts(expected) # <<>>
     /\ \A want \in ToSet(Facts(expected)) : \E have \in ToSet(Facts(candidate)) : ValueMatches(have, want)

(* _visible_counterpart for WLOG, _mm_counterpart for Mutatis mutandis:    *)
(* the earliest visible line that says what is expected.                   *)
Counterpart(labels, expected, policy) ==
  LET Fits(v) == IF policy = "WLOG" THEN ValueMatches(v, expected) ELSE Says(v, expected)
      places  == {i \in DOMAIN labels : Fits(labels[i].value)}
  IN  IF places = {} THEN NoLine ELSE labels[Min(places)].label

SaysItAgain(labels, sigma, v) == Counterpart(labels, ReplaceIn(sigma, v), "MutatisMutandis") # NoLine

(* The line to cite in the place of line l: one that says the same of the  *)
(* new names, or l itself when the exchange leaves what it says alone.     *)
CitedInstead(l, sigma, exchange, labels, policy) ==
  LET v     == ValueOf(labels, l)
      other == Counterpart(labels, ReplaceIn(sigma, v), policy)
  IN  IF l \notin Visible(labels) THEN l
      ELSE IF other # NoLine THEN other
      ELSE IF ValueMatches(v, ReplaceIn(exchange, v)) THEN l
      ELSE NoLine

-----------------------------------------------------------------------------
NewName(sigma, n) ==
  IF ConstKey(n) \in DOMAIN sigma /\ Is("const", sigma[ConstKey(n)]) THEN sigma[ConstKey(n)].sym ELSE n

(* _transform_wlog_entry.                                                  *)
RECURSIVE Rewritten(_, _, _, _, _)
Rewritten(e, sigma, exchange, labels, policy) ==
  [e EXCEPT
     !.states = [i \in DOMAIN e.states |-> Replace(sigma, e.states[i])],
     !.names  = {NewName(sigma, n) : n \in e.names},
     !.about  = {NewName(sigma, n) : n \in e.about},
     !.refs   = [i \in DOMAIN e.refs |-> CitedInstead(e.refs[i], sigma, exchange, labels, policy)],
     !.blocks = [b \in DOMAIN e.blocks |->
                   [i \in DOMAIN e.blocks[b] |-> Rewritten(e.blocks[b][i], sigma, exchange, labels, policy)]]]

(* Some line of e, or of a subproof below it, finds no line to cite.       *)
RECURSIVE Unresolved(_)
Unresolved(e) ==
  \/ NoLine \in ToSet(e.refs)
  \/ \E b \in ToSet(e.blocks) : \E f \in ToSet(b) : Unresolved(f)

(* _mm_blocked_line, subproofs included.  Mutant: the line alone.          *)
BlockedAlone(e) == AddsHypothesis(e)
RECURSIVE Blocked(_)
Blocked(e) == AddsHypothesis(e) \/ \E b \in ToSet(e.blocks) : \E f \in ToSet(b) : Blocked(f)

(* The names a formula mentions.                                           *)
Mentioned(f) == {u.name : u \in SymbolUses(f)}
=============================================================================
