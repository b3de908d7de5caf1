------------------------- MODULE LexicalEnvironment -------------------------
(***************************************************************************)
(* What every scope of a proof promises, whoever keeps it: "A child        *)
(* context inherits the parent's declarations, labels, and assumptions.    *)
(* Bindings created in the child never become visible in the parent"       *)
(* (source/ProofContext.py), and what is visible has one meaning.  The     *)
(* kernel's LabelScope and DeclarationScope and the elaborator's           *)
(* ProofContext are shown to implement it.                                 *)
(***************************************************************************)
EXTENDS Integers, Sequences

CONSTANT IsResult(_)   \* the value may be what a closed block leaves behind

VARIABLE scopes        \* the tables of the open blocks, the innermost last

Visible(chain)   == UNION {DOMAIN chain[i] : i \in DOMAIN chain}
Outside(chain)   == SubSeq(chain, 1, Len(chain) - 1)
Innermost(chain) == chain[Len(chain)]
New(from, to)    == DOMAIN Innermost(to) \ DOMAIN Innermost(from)

(* The chain to is from with more bindings in its innermost block, of      *)
(* names that nothing visible has.                                         *)
Extends(from, to) ==
  /\ Len(to) = Len(from)
  /\ Outside(to) = Outside(from)
  /\ \A k \in DOMAIN Innermost(from) :
       k \in DOMAIN Innermost(to) /\ Innermost(to)[k] = Innermost(from)[k]
  /\ New(from, to) \cap Visible(from) = {}

Init == Len(scopes) = 1

Bind == Extends(scopes, scopes')

(* A block opens, perhaps with bindings of its own.                        *)
Enter ==
  /\ Len(scopes') = Len(scopes) + 1
  /\ Outside(scopes') = scopes
  /\ DOMAIN Innermost(scopes') \cap Visible(scopes) = {}

(* The innermost block closes; only a name for its result may stay.        *)
Leave ==
  /\ Len(scopes) > 1
  /\ Extends(Outside(scopes), scopes')
  /\ \A k \in New(Outside(scopes), scopes') : IsResult(Innermost(scopes')[k])

Next == Bind \/ Enter \/ Leave

Spec == Init /\ [][Next]_scopes
=============================================================================
