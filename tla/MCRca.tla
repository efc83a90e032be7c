------------------------------- MODULE MCRca -------------------------------
(***************************************************************************)
(* Rca on small families: one context related to itself, and two contexts  *)
(* related to each other.                                                  *)
(***************************************************************************)
EXTENDS Rca

CONSTANT Cleans     (* the values of -clean considered                      *)

Links(from, to) == [from -> SUBSET to]

\* A limit is asked for with -clean.
Options(builders) ==
  {[algo |-> a, clean |-> b, maxStep |-> IF b THEN 5 ELSE 0] : a \in builders, b \in Cleans}

With(ctxs, rels, o) ==
  [ctxs |-> ctxs, rels |-> rels, algo |-> o.algo, clean |-> o.clean, maxStep |-> o.maxStep]

Rel(s, t, op, links) == [source |-> s, target |-> t, operator |-> op, links |-> links]

\* Three objects, told apart by one attribute or by none.  Objects that the
\* attribute does not tell apart come in the order of their numbers of links.
\* From a lattice no concept disappears, so -clean is for posets here.
SelfRelated ==
  {With(<<[objs |-> 0 .. 2, cols |-> cols]>>, <<Rel(1, 1, op, links)>>, o) :
     cols \in {<< >>, <<{0}>>, <<{0, 1}>>}, links \in Links(0 .. 2, 0 .. 2),
     op \in {"exist", "existForall"}, o \in Options({"lattice", "poset"})}

InOrder(f) ==
  \A x, y \in f.ctxs[1].objs :
    /\ x < y
    /\ \A k \in DOMAIN f.ctxs[1].cols : x \in f.ctxs[1].cols[k] <=> y \in f.ctxs[1].cols[k]
    => Cardinality(f.rels[1].links[x]) <= Cardinality(f.rels[1].links[y])

\* Two objects each, related one way and back by different operators.
Mutual ==
  {With(<<[objs |-> 0 .. 1, cols |-> <<{0}>>], [objs |-> 0 .. 1, cols |-> << >>]>>,
        <<Rel(1, 2, op1, l1), Rel(2, 1, op2, l2)>>, o) :
     l1 \in Links(0 .. 1, 0 .. 1), l2 \in Links(0 .. 1, 0 .. 1),
     <<op1, op2>> \in {<<"exist", "existForall">>, <<"existContains", "equality">>},
     o \in Options({"lattice", "poset"})}

MCFamilies == {f \in SelfRelated : InOrder(f) /\ (f.clean => f.algo = "poset")} \cup Mutual
=============================================================================
