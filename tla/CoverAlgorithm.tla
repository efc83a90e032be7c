--------------------------- MODULE CoverAlgorithm ---------------------------
(***************************************************************************)
(* How the lower covers of a concept are found, in the native kernel       *)
(* (compute_irreducibles and the body of cover_thread in latticecbo.c) and *)
(* in Lattice_ParallelCbO.java: intersect the extent with the columns of   *)
(* the irreducible attributes and keep the largest of the results.         *)
(***************************************************************************)
EXTENDS FormalContext, ConceptLattice

\* compute_irreducibles: a is not the intersection of the columns that are
\* strictly larger.
StrictlyLarger(cols, a) ==
  {k \in Attributes : /\ Cardinality(cols[k]) > Cardinality(cols[a])
                      /\ cols[a] \subseteq cols[k]}

Irreducible(cols, a) ==
  IF StrictlyLarger(cols, a) = {} THEN Cardinality(cols[a]) # Cardinality(Objects)
  ELSE Extent(cols, StrictlyLarger(cols, a)) # cols[a]

\* The candidates below extent X, one for each attribute of irr that cuts it
\* down; those of B are known not to.
Candidates(cols, irr, X, B) ==
  LET cuts(a) == a \notin B /\ Cardinality(X \cap cols[a]) # Cardinality(X)
      kept == Pick(irr, {k \in DOMAIN irr : cuts(irr[k])})
  IN  [j \in DOMAIN kept |-> X \cap cols[kept[j]]]

\* Bucket sort on the cardinality, largest first; a bucket is last in, first
\* out.
Precedes(s) ==
  {p \in (DOMAIN s) \X DOMAIN s :
     \/ Cardinality(s[p[1]]) > Cardinality(s[p[2]])
     \/ Cardinality(s[p[1]]) = Cardinality(s[p[2]]) /\ p[1] > p[2]}

ByCardinality(s) == [k \in DOMAIN s |-> s[Arranged(DOMAIN s, Precedes(s))[k]]]

\* A confirmed candidate of the same size dominates its duplicates, a larger
\* one its subsets.
Dominates(Y, X) ==
  IF Cardinality(Y) = Cardinality(X) THEN Y = X ELSE X \subseteq Y

Confirmed(s) ==
  LET conf[k \in 0 .. Len(s)] ==
        IF k = 0 THEN << >>
        ELSE IF \E j \in DOMAIN conf[k - 1] : Dominates(conf[k - 1][j], s[k]) THEN conf[k - 1]
        ELSE Append(conf[k - 1], s[k])
  IN  conf[Len(s)]

\* The extents just below X.
LowerCovers(cols, irr, X, B) == Confirmed(ByCardinality(Candidates(cols, irr, X, B)))
=============================================================================
