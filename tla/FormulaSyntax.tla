---------------------------- MODULE FormulaSyntax ----------------------------
(***************************************************************************)
(* The shape of formulas and terms (source/FormulaLogic.py,                *)
(* source/TermLogic.py).  The Python classes And, Or, ForAll,              *)
(* ConstantTerm, ... become one kind of record, a node [op, sym, kids]:    *)
(* the class, the name the node carries (a predicate, a function, a        *)
(* constant, a variable; "" for a connective) and its parts in order.      *)
(* Structural equality (_ast_eq) is then equality of nodes.                *)
(***************************************************************************)
EXTENDS Sequences

Node(op, sym, kids) == [op |-> op, sym |-> sym, kids |-> kids]

Const(c)    == Node("const", c, <<>>)
Var(x)      == Node("var", x, <<>>)
Fun(f, ts)  == Node("fun", f, ts)

Atom(p, ts)   == Node("atom", p, ts)
Equals(s, t)  == Node("equals", "", <<s, t>>)
Not(f)        == Node("not", "", <<f>>)
And(fs)       == Node("and", "", fs)
Or(fs)        == Node("or", "", fs)
Implies(f, g) == Node("implies", "", <<f, g>>)
Iff(f, g)     == Node("iff", "", <<f, g>>)
ForAll(x, f)  == Node("forall", x, <<f>>)
Exists(x, f)  == Node("exists", x, <<f>>)

Is(op, f)       == f.op = op
IsQuantifier(f) == f.op \in {"forall", "exists"}
IsTerm(f)       == f.op \in {"const", "var", "fun"}
=============================================================================
