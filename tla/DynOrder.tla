------------------------------ MODULE DynOrder ------------------------------
(***************************************************************************)
(* The mutable order of concepts that Ares and Ceres build on              *)
(* (core/dynorder.c).  An order is a record: n identifiers were given out, *)
(* those in alive are still concepts, ext, rext and rint are their sets    *)
(* and edges holds the pairs <<lower, upper>> of the two cover lists.  It  *)
(* is a bag: nothing keeps an edge from being posed twice.                 *)
(***************************************************************************)
EXTENDS Integers, SequencesExt

DynEmpty == [n |-> 0, alive |-> {}, ext |-> << >>, rext |-> << >>,
             rint |-> << >>, edges |-> EmptyBag]

Extend(f, c, S) == [x \in DOMAIN f \cup {c} |-> IF x = c THEN S ELSE f[x]]

\* The identifier given is d.n.  The three sets are those the caller writes
\* right after.
NewConcept(d, X, R, B) ==
  [n |-> d.n + 1, alive |-> d.alive \cup {d.n},
   ext |-> Extend(d.ext, d.n, X), rext |-> Extend(d.rext, d.n, R),
   rint |-> Extend(d.rint, d.n, B), edges |-> d.edges]

AddEdges(d, E) == [d EXCEPT !.edges = @ (+) SetToBag(E)]

\* One occurrence of each edge is taken away; an edge that is not there is not
\* an error.
RemoveEdges(d, E) == [d EXCEPT !.edges = @ (-) SetToBag(E)]

\* A concept is removed without a look at the lists of the others.
RemoveConcept(d, c) == [d EXCEPT !.alive = @ \ {c}]

Lower(d, c) == {e[1] : e \in {x \in BagToSet(d.edges) : x[2] = c}}
Upper(d, c) == {e[2] : e \in {x \in BagToSet(d.edges) : x[1] = c}}

\* The living concepts from the smallest extent to the largest, a stable sort.
SortByExtent(d) ==
  SetToSortSeq(d.alive, LAMBDA c, x : \/ Cardinality(d.ext[c]) < Cardinality(d.ext[x])
                                      \/ /\ Cardinality(d.ext[c]) = Cardinality(d.ext[x])
                                         /\ c < x)

ReducedExtent(d, c) == d.ext[c] \ UNION {d.ext[x] : x \in Lower(d, c)}

\* What the lists lead to from the concepts of S, themselves included.
Downward(d, S) ==
  LET down[k \in 0 .. d.n] ==
        IF k = 0 THEN S
        ELSE LET r == down[k - 1]
             IN  r \cup {e[1] : e \in {x \in BagToSet(d.edges) : x[2] \in r}}
  IN  down[d.n]

Upward(d, S) ==
  LET up[k \in 0 .. d.n] ==
        IF k = 0 THEN S
        ELSE LET r == up[k - 1]
             IN  r \cup {e[2] : e \in {x \in BagToSet(d.edges) : x[1] \in r}}
  IN  up[d.n]

StrictlyBelow(d, S) == Downward(d, UNION {Lower(d, c) : c \in S})

\* The selected concepts that are below no other one.  A single one is taken
\* as it is.
MaximalOf(d, S) == IF Cardinality(S) <= 1 THEN S ELSE S \ StrictlyBelow(d, S)

\* The same among the selected descendants of c, itself included.
MaximalSelectedDescendants(d, c, S) ==
  LET sel == S \cap Downward(d, {c}) IN sel \ StrictlyBelow(d, sel)

\* What is handed over: the living concepts renumbered without holes.
NewId(d, c) == Cardinality({x \in d.alive : x < c})

ToFlat(d) ==
  LET old == [i \in 0 .. Cardinality(d.alive) - 1 |->
                CHOOSE c \in d.alive : NewId(d, c) = i]
      kept == {e \in BagToSet(d.edges) : e[1] \in d.alive}
      image == {<<NewId(d, e[1]), NewId(d, e[2])>> : e \in kept}
  IN  [n |-> Cardinality(d.alive),
       edges |-> [e \in image |->
                    CopiesIn(<<old[e[1]], old[e[2]]>>, d.edges)],
       rext |-> [i \in DOMAIN old |-> d.rext[old[i]]],
       rint |-> [i \in DOMAIN old |-> d.rint[old[i]]]]
=============================================================================
