--------------------------- MODULE MCLatticeCbO ---------------------------
(***************************************************************************)
(* LatticeCbO on all contexts of a small size, but for the order of their  *)
(* objects: these are interchangeable, so one order of the rows is enough. *)
(***************************************************************************)
EXTENDS LatticeCbO, TLC

RowCode(c, o) == FoldSet(LAMBDA a, n : IF o \in c[a] THEN n + 2 ^ a ELSE n, 0, DOMAIN c)

MCContexts ==
  {c \in AllContexts : \A o \in Objects : o + 1 \in Objects => RowCode(c, o) <= RowCode(c, o + 1)}
=============================================================================
