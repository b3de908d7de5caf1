---------------------------- MODULE FormulaLogic ----------------------------
(***************************************************************************)
(* What formulas and terms mean (source/FormulaLogic.py,                   *)
(* source/TermLogic.py): their free variables, substitution, and their     *)
(* truth in a finite structure.                                            *)
(***************************************************************************)
EXTENDS FormulaSyntax, Integers, Sequences, FiniteSets, TLC

(***************************************************************************)
(* term_free_variables / free_variables / is_closed.                       *)
(***************************************************************************)
RECURSIVE FreeVariables(_)
FreeVariables(f) ==
  LET below == UNION {FreeVariables(f.kids[i]) : i \in DOMAIN f.kids}
  IN  IF Is("var", f) THEN {f.sym}
      ELSE IF IsQuantifier(f) THEN below \ {f.sym}
      ELSE below

IsClosed(f) == FreeVariables(f) = {}

(* Every node of f, f included: what the occurrence checks walk over.      *)
RECURSIVE Nodes(_)
Nodes(f) == {f} \cup UNION {Nodes(f.kids[i]) : i \in DOMAIN f.kids}

(* _term_occurs_in_formula for a constant: does constant c occur in f?     *)
ConstantOccurs(c, f) == Const(c) \in Nodes(f)

(***************************************************************************)
(* The symbols a formula uses and how, the question                        *)
(* _validate_formula_symbols asks of every line: a constant as an object,  *)
(* a nullary atom as a proposition, an atom with arguments as a predicate  *)
(* of that arity, a function of that arity.                                *)
(***************************************************************************)
SymbolUses(f) ==
  {[name |-> n.sym, arity |-> Len(n.kids),
    as |-> CASE Is("const", n) -> "object"
             [] Is("fun", n)   -> "function"
             [] OTHER          -> IF n.kids = <<>> THEN "proposition" ELSE "predicate"] :
     n \in {m \in Nodes(f) : m.op \in {"const", "fun", "atom"}}}

(***************************************************************************)
(* substitute_in_formula: the free occurrences of variable x become t.     *)
(* Like the code it renames no bound variable.                             *)
(***************************************************************************)
RECURSIVE Substitute(_, _, _)
Substitute(f, x, t) ==
  IF f = Var(x) THEN t
  ELSE IF IsQuantifier(f) /\ f.sym = x THEN f
  ELSE [f EXCEPT !.kids = [i \in DOMAIN f.kids |-> Substitute(f.kids[i], x, t)]]

(***************************************************************************)
(* _alpha_eq: equality up to the names of bound variables.  An environment *)
(* maps a bound name to the depth of its binder.                           *)
(***************************************************************************)
Bind(env, x, depth) == [y \in DOMAIN env \cup {x} |-> IF y = x THEN depth ELSE env[y]]

RECURSIVE AlphaEqIn(_, _, _, _, _)
AlphaEqIn(a, b, envA, envB, depth) ==
  /\ a.op = b.op
  /\ Len(a.kids) = Len(b.kids)
  /\ IF Is("var", a) /\ (a.sym \in DOMAIN envA \/ b.sym \in DOMAIN envB)
     THEN /\ a.sym \in DOMAIN envA
          /\ b.sym \in DOMAIN envB
          /\ envA[a.sym] = envB[b.sym]
     ELSE IF IsQuantifier(a)
     THEN AlphaEqIn(a.kids[1], b.kids[1],
                    Bind(envA, a.sym, depth), Bind(envB, b.sym, depth), depth + 1)
     ELSE /\ a.sym = b.sym
          /\ \A i \in DOMAIN a.kids : AlphaEqIn(a.kids[i], b.kids[i], envA, envB, depth)

AlphaEq(a, b) == AlphaEqIn(a, b, <<>>, <<>>, 0)

(***************************************************************************)
(* evaluate_term / evaluate_formula: truth in a finite structure.  A       *)
(* structure m has a non-empty domain m.domain, a value m.object[c] for    *)
(* each constant, an extension m.holds[p] (a set of tuples of values) for  *)
(* each predicate and, where terms have functions, a table m.apply[f] from *)
(* tuples to values; env gives the values of the free variables.           *)
(***************************************************************************)
RECURSIVE Value(_, _, _)
Value(t, m, env) ==
  CASE Is("var", t)   -> env[t.sym]
    [] Is("const", t) -> m.object[t.sym]
    [] Is("fun", t)   -> m.apply[t.sym][[i \in DOMAIN t.kids |-> Value(t.kids[i], m, env)]]

RECURSIVE Evaluate(_, _, _)
Evaluate(f, m, env) ==
  LET True(i) == Evaluate(f.kids[i], m, env)
      With(v) == Evaluate(f.kids[1], m, (f.sym :> v) @@ env)
  IN  CASE Is("atom", f)    -> [i \in DOMAIN f.kids |-> Value(f.kids[i], m, env)] \in m.holds[f.sym]
        [] Is("equals", f)  -> Value(f.kids[1], m, env) = Value(f.kids[2], m, env)
        [] Is("not", f)     -> ~ True(1)
        [] Is("and", f)     -> \A i \in DOMAIN f.kids : True(i)
        [] Is("or", f)      -> \E i \in DOMAIN f.kids : True(i)
        [] Is("implies", f) -> True(1) => True(2)
        [] Is("iff", f)     -> True(1) <=> True(2)
        [] Is("forall", f)  -> \A v \in m.domain : With(v)
        [] Is("exists", f)  -> \E v \in m.domain : With(v)

HoldsIn(f, m) == Evaluate(f, m, <<>>)

(* Every structure over 1..n for the given constants and predicates, a     *)
(* predicate p having arity[p] arguments.                                  *)
Tuples(n, k) == [1 .. k -> 1 .. n]
StructuresOf(n, constants, arity) ==
  {[domain |-> 1 .. n, object |-> o, holds |-> h] :
     o \in [constants -> 1 .. n],
     h \in {g \in [DOMAIN arity -> UNION {SUBSET Tuples(n, arity[p]) : p \in DOMAIN arity}] :
              \A p \in DOMAIN arity : g[p] \subseteq Tuples(n, arity[p])}}

(* The structures of S over 1..n, with every table for each function.      *)
WithFunctions(S, n, arity) ==
  {[domain |-> m.domain, object |-> m.object, holds |-> m.holds, apply |-> a] :
     m \in S,
     a \in {g \in [DOMAIN arity -> UNION {[Tuples(n, arity[f]) -> 1 .. n] : f \in DOMAIN arity}] :
              \A f \in DOMAIN arity : DOMAIN g[f] = Tuples(n, arity[f])}}
=============================================================================
