--------------------------- MODULE MCLatticeCovers ---------------------------
(***************************************************************************)
(* LatticeCovers on all small contexts up to the order of their columns;   *)
(* concepts in every order when there are few of them.                     *)
(***************************************************************************)
EXTENDS LatticeCovers

CONSTANT FewConcepts

\* A column as a number, so that the columns of a context can be sorted.
Code(X) == MapThenSumSet(LAMBDA o : 2 ^ o, X)

MCContexts ==
  {c \in AllContexts :
     \A a, b \in Attributes : a < b => Code(c[a]) <= Code(c[b])}

Orders(c) ==
  LET rest == Concepts(c) \ {Top(c)}
      all  == IF Cardinality(rest) < FewConcepts THEN SetToSeqs(rest)
              ELSE {SetToSeq(rest)}
  IN  {<<Top(c)>> \o s : s \in all}

MCInputs ==
  UNION {{[cols |-> c, concepts |-> s] : s \in Orders(c)} : c \in MCContexts}
=============================================================================
