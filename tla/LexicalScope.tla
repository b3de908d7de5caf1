---------------------------- MODULE LexicalScope ----------------------------
(***************************************************************************)
(* Lexically scoped tables as ProofLogic.py builds them: LabelScope and    *)
(* DeclarationScope are both a chain of dictionaries, one for each open    *)
(* block, the innermost last.  A name bound anywhere in the chain may not  *)
(* be bound again, in that block or in one nested in it.                   *)
(***************************************************************************)
EXTENDS Integers, Sequences

EmptyTable == [k \in {} |-> k]

(* __contains__, and lookup(...) is not None.  Mutant: only the innermost  *)
(* block is asked.                                                         *)
IsBoundHere(chain, k) == k \in DOMAIN chain[Len(chain)]
IsBound(chain, k) == \E i \in DOMAIN chain : k \in DOMAIN chain[i]

(* The binding of the nearest block that has one: the walk from the        *)
(* innermost dictionary outwards.                                          *)
Lookup(chain, k) ==
  LET nearest == CHOOSE i \in DOMAIN chain :
                   /\ k \in DOMAIN chain[i]
                   /\ \A j \in DOMAIN chain : k \in DOMAIN chain[j] => j <= i
  IN  chain[nearest][k]

(* The entries of table are added to the innermost dictionary.  The caller *)
(* has checked that none of its keys is bound.                             *)
BindAll(chain, table) ==
  [chain EXCEPT ![Len(chain)] =
     [k \in DOMAIN @ \cup DOMAIN table |-> IF k \in DOMAIN table THEN table[k] ELSE @[k]]]

(* child(): a new innermost dictionary; and what is left when it is gone.  *)
(* Mutants: it stays, as a block of its own or merged into its parent.     *)
Child(chain)  == Append(chain, EmptyTable)
ParentKept(chain)   == chain
ParentMerged(chain) == BindAll(SubSeq(chain, 1, Len(chain) - 1), chain[Len(chain)])
Parent(chain) == SubSeq(chain, 1, Len(chain) - 1)

Single(k, v) == [j \in {k} |-> v]

(* No name has a binding in two open blocks.                               *)
NoShadowing(chain) ==
  \A i, j \in DOMAIN chain : i # j => DOMAIN chain[i] \cap DOMAIN chain[j] = {}
=============================================================================
