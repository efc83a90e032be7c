---------------------------- MODULE MCParallelCbO ----------------------------
(***************************************************************************)
(* ParallelCbO on the contexts of the given size that have few concepts,   *)
(* up to the order of the objects, which the enumeration does not look at. *)
(***************************************************************************)
EXTENDS ParallelCbO

CONSTANT FewConcepts

\* The row of an object as a number.
RowCode(c, o) == MapThenSumSet(LAMBDA a : 2 ^ a, {a \in Attributes : o \in c[a]})

MCContexts ==
  {c \in AllContexts :
     /\ Cardinality(Concepts(c)) <= FewConcepts
     /\ \A o, p \in Objects : o < p => RowCode(c, o) <= RowCode(c, p)}
=============================================================================
