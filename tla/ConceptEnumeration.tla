------------------------- MODULE ConceptEnumeration -------------------------
(***************************************************************************)
(* What enumerating the concepts of a context promises: the concepts come  *)
(* in any order, one at a time, none of them twice, and the result is      *)
(* handed over once, when all of them have come.                           *)
(***************************************************************************)
EXTENDS FormalContext

CONSTANT Contexts

VARIABLES
  cols,         (* the context                                              *)
  found,        (* the concepts found so far                                *)
  stored,       (* how many entries hold them                               *)
  result        (* the concepts handed over, {} before                      *)

vars == <<cols, found, stored, result>>

Init ==
  /\ cols \in Contexts
  /\ found = {Top(cols)}
  /\ stored = 1
  /\ result = {}

Find(c) ==
  /\ c \notin found
  /\ found' = found \cup {c}
  /\ stored' = stored + 1
  /\ UNCHANGED <<cols, result>>

HandOver ==
  /\ found = Concepts(cols)
  /\ result = {}
  /\ result' = found
  /\ UNCHANGED <<cols, found, stored>>

Next == (\E c \in Concepts(cols) : Find(c)) \/ HandOver

Spec == Init /\ [][Next]_vars /\ WF_vars(Next)
=============================================================================
