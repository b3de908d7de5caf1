---------------------------- MODULE TheoremRules ----------------------------
(***************************************************************************)
(* How a theorem is matched with a line that cites it                      *)
(* (ConstantGeneralizingMatcher, _substitute_constants_in_formula of       *)
(* source/ProofLogic.py).  A renaming takes the constants and relation     *)
(* symbols that a theorem is generalized over to terms and to relation     *)
(* symbols; the latter are written Symbol(S).                              *)
(***************************************************************************)
EXTENDS InferenceRules, RelationRules

Symbol(S) == Node("symbol", S, <<>>)

(***************************************************************************)
(* match_formula: what each generalized name stands for, wherever it       *)
(* occurs in the pattern.  Unlike FormulaMatcher this one compares the     *)
(* names of bound variables; bound are those around the position, which a  *)
(* matched term may not mention.                                           *)
(***************************************************************************)
NoBinding == <<"", NoMatch>>

RECURSIVE Bindings(_, _, _, _)
Bindings(pattern, target, names, bound) ==
  LET below == UNION {Bindings(pattern.kids[i], target.kids[i], names,
                               IF IsQuantifier(target) THEN bound \cup {target.sym} ELSE bound) :
                        i \in DOMAIN pattern.kids}
  IN  IF Is("const", pattern) /\ pattern.sym \in names
      THEN IF IsTerm(target) /\ FreeVariables(target) \cap bound = {}
           THEN {<<pattern.sym, target>>} ELSE {NoBinding}
      ELSE IF pattern.op # target.op \/ Len(pattern.kids) # Len(target.kids) THEN {NoBinding}
      ELSE IF Is("atom", pattern) /\ pattern.sym \in names
           THEN {<<pattern.sym, Symbol(target.sym)>>} \cup below
      ELSE IF pattern.sym # target.sym THEN {NoBinding}
      ELSE below

(* The match succeeds when every name stands for one thing.                *)
Bound(B) == {b[1] : b \in B}
StandsFor(B) == [n \in Bound(B) |-> (CHOOSE b \in B : b[1] = n)[2]]
MatchesConclusion(conclusion, names, phi) ==
  LET B == Bindings(conclusion, phi, names, {})
  IN  IF NoBinding \in B \/ Cardinality(B) # Cardinality(Bound(B)) THEN {} ELSE {StandsFor(B)}

(***************************************************************************)
(* _substitute_constants_in_formula.  It refuses a term with a variable in *)
(* it; a closed line, which is all a theorem is matched with, offers none. *)
(***************************************************************************)
RECURSIVE Put(_, _)
Put(renaming, f) ==
  IF Is("const", f) /\ f.sym \in DOMAIN renaming THEN renaming[f.sym]
  ELSE [f EXCEPT !.kids = [i \in DOMAIN f.kids |-> Put(renaming, f.kids[i])],
                 !.sym = IF Is("atom", f) /\ f.sym \in DOMAIN renaming
                         THEN renaming[f.sym].sym ELSE f.sym]

(* A declaration names its carrier: no compound term can stand for it.     *)
NoSymbol == ""
PutName(renaming, n) ==
  IF n \notin DOMAIN renaming THEN n
  ELSE IF renaming[n].op \in {"const", "symbol"} THEN renaming[n].sym
  ELSE NoSymbol

SymbolsOf(f) == {n.sym : n \in {k \in Nodes(f) : k.op \in {"const", "fun", "atom"}}}
=============================================================================
