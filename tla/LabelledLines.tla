---------------------------- MODULE LabelledLines ----------------------------
(***************************************************************************)
(* The lines of a proof as WLOG and Mutatis mutandis lines see them        *)
(* (source/ProofLogic.py): what a label stands for, the entry written      *)
(* there, and the replacement of names under which it is read again.       *)
(*                                                                         *)
(* A value is what a label stands for: a formula, a bundle of premises or  *)
(* the record of a subproof (whose inner and outer are here the sequences  *)
(* of values the code keeps).  A replacement maps keys <<op, sym>> (a      *)
(* constant, a function or a predicate symbol) to the node put there.      *)
(***************************************************************************)
EXTENDS GroundRules

Bundle(fs)  == Node("bundle", "", fs)

(* The visible labels, oldest first, each with its value and, for a line,  *)
(* the entry that was written (LabelScope, _visible_label_items).          *)
NoEntry == [tag |-> "none"]
NoLine  == "no such line"
Visible(labels)      == {labels[i].label : i \in DOMAIN labels}
PlaceOf(labels, l)   == CHOOSE i \in DOMAIN labels : labels[i].label = l
ValueOf(labels, l)   == labels[PlaceOf(labels, l)].value
SourceOf(labels, l)  == labels[PlaceOf(labels, l)].source

(* A proof entry (_ParsedEntry) is a line with the subproofs below it, or  *)
(* a standalone subproof (tag "block"): states is what it states, names    *)
(* the objects it declares, about the names their structure metadata       *)
(* mentions.  _mm_blocked_line: it would add a hypothesis if repeated.     *)
AddsHypothesis(e) ==
  \/ e.tag \in {"premise", "axiom"}
  \/ e.tag = "declare" /\ e.states # <<>>
  \/ e.tag = "rule" /\ e.names # {}
  \/ e.about # {}

-----------------------------------------------------------------------------
Key(f)      == <<f.op, f.sym>>
ConstKey(c) == <<"const", c>>
NameMismatch == <<"no", "name">>

(* The changes are a one-to-one replacement of names.                      *)
IsRenaming(changes) ==
  /\ changes # {}
  /\ NameMismatch \notin changes
  /\ \A p, q \in changes : p[1] = q[1] <=> p[2] = q[2]

(* _wlog_substitution, and _wlog_exchange: the renaming and, for a name it *)
(* only brings in, the way back.                                           *)
Renaming(changes) ==
  [key \in {ConstKey(p[1]) : p \in changes} |->
     Const((CHOOSE p \in changes : ConstKey(p[1]) = key)[2])]
Exchange(changes) ==
  LET back == {<<p[2], p[1]>> : p \in {q \in changes : q[2] \notin {r[1] : r \in changes}}}
  IN  Renaming(changes \cup back)
=============================================================================
