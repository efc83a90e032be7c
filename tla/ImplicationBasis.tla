-------------------------- MODULE ImplicationBasis --------------------------
(***************************************************************************)
(* The attribute implications of a context and the two bases that the      *)
(* native builders promise: the canonical basis of Duquenne and Guigues    *)
(* (LinCbO and its pruned variants) and the basis of the minimal covers,   *)
(* the D-basis.  A context is a record of its objects and its columns.     *)
(***************************************************************************)
EXTENDS Integers, SequencesExt

Attrs(ctx)  == DOMAIN ctx.cols
Row(ctx, o) == {a \in Attrs(ctx) : o \in ctx.cols[a]}

\* compute_extent, compute_intent, closure.
ExtentOf(ctx, B)  == {o \in ctx.objs : B \subseteq Row(ctx, o)}
IntentOf(ctx, X)  == {a \in Attrs(ctx) : X \subseteq ctx.cols[a]}
ClosureOf(ctx, B) == B \cup IntentOf(ctx, ExtentOf(ctx, B))

\* An implication with its conclusion outside its premise, and the number of
\* the objects that have the premise.
Implication(ctx, P, C) ==
  [premise |-> P, conclusion |-> C \ P, support |-> Cardinality(ExtentOf(ctx, P))]

-----------------------------------------------------------------------------
(* The canonical basis.                                                    *)

\* The sets that are not closed and hold the closures of all such sets within
\* them, by increasing size.
PseudoIntents(ctx) ==
  LET upTo[k \in -1 .. Cardinality(Attrs(ctx))] ==
        IF k = -1 THEN {}
        ELSE LET smaller == upTo[k - 1]
             IN  smaller \cup
                 {P \in SUBSET Attrs(ctx) :
                    /\ Cardinality(P) = k
                    /\ ClosureOf(ctx, P) # P
                    /\ \A Q \in smaller : Q \subseteq P => ClosureOf(ctx, Q) \subseteq P}
  IN  upTo[Cardinality(Attrs(ctx))]

CanonicalBasis(ctx) ==
  {Implication(ctx, P, ClosureOf(ctx, P)) : P \in PseudoIntents(ctx)}

-----------------------------------------------------------------------------
(* The implications with more than one premise of the D-basis.             *)

SingleClosures(ctx, P) == UNION {ClosureOf(ctx, {a}) : a \in P}

\* The covers of attribute x: its members give x together and none does alone.
CoversOf(ctx, x) ==
  {P \in SUBSET (Attrs(ctx) \ {x}) :
     x \in ClosureOf(ctx, P) /\ x \notin SingleClosures(ctx, P) /\ x \notin ClosureOf(ctx, {})}

\* Those that are within each cover made of what their members give alone.
MinimalCoversOf(ctx, x) ==
  LET covers == CoversOf(ctx, x)
  IN  {P \in covers : \A Q \in covers : Q \subseteq SingleClosures(ctx, P) => P \subseteq Q}

\* B closed under a set of implications.
ClosedUnder(ctx, impls, B) ==
  LET run[k \in 0 .. Cardinality(Attrs(ctx))] ==
        IF k = 0 THEN B
        ELSE LET C == run[k - 1]
             IN  C \cup UNION {i.conclusion : i \in {j \in impls : j.premise \subseteq C}}
  IN  run[Cardinality(Attrs(ctx))]
=============================================================================
