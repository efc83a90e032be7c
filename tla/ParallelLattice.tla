--------------------------- MODULE ParallelLattice ---------------------------
(***************************************************************************)
(* The lattice builder in Java around its enumeration (run and buildOrder  *)
(* in Lattice_ParallelCbO.java): choose the orientation, clarify, take the *)
(* concepts in the order the map gives them, find covers and reduced sets, *)
(* put the classes back, turn the order back.                              *)
(*                                                                         *)
(* The enumeration is what ParallelCbO shows of it: the extents of the     *)
(* clarified context, all of them, once, in any order.  The parallel       *)
(* streams over the concepts are one action each: every task writes its    *)
(* own slot, reads nothing the others write, and all are waited for.       *)
(***************************************************************************)
EXTENDS CsrConceptOrder, Clarification

CONSTANT Inputs     (* the contexts considered                              *)

VARIABLES
  ctx,              (* the caller's context, original                       *)
  needFullSets,     (* whether the caller reads full extents and intents    *)
  clar,             (* the clarified context and its classes                *)
  step,             (* where run() is                                       *)
  found,            (* the keys of conceptByExtent still to be materialised *)
  lowerCovers       (* lowerCoversOf: the ids below each concept            *)

runVars == <<ctx, needFullSets, clar, step, found, lowerCovers>>
vars == <<runVars, storeVars>>

Transposed == Cardinality(DOMAIN ctx.cols) > Cardinality(ctx.objs)

Base == IF Transposed THEN Transpose(ctx) ELSE ctx

\* matrix, during the computation.
Matrix == clar.ctx

Algorithm == INSTANCE CoverAlgorithm WITH
               Objects <- Matrix.objs, M <- Cardinality(DOMAIN Matrix.cols)

Init ==
  /\ ctx \in Inputs
  /\ needFullSets \in BOOLEAN
  /\ clar = Clarified(Base)
  /\ step = "enumerate"
  /\ found = {}
  /\ lowerCovers = <<>>
  /\ Empty

\* runCbO.
Enumerate ==
  /\ step = "enumerate" /\ step' = "materialise"
  /\ found' = {c.ext : c \in ConceptsOf(Matrix)}
  /\ UNCHANGED <<ctx, needFullSets, clar, lowerCovers, storeVars>>

\* The next extent of the map's iteration becomes a concept.
Materialise ==
  /\ step = "materialise" /\ UNCHANGED step
  /\ \E X \in found : /\ found' = found \ {X}
                      /\ AddConcept(X, {}, {}, {})
  /\ UNCHANGED <<ctx, needFullSets, clar, lowerCovers>>

\* conceptByExtent.get
IdOf(X) == CHOOSE c \in Ids : extents[c] = X

\* Reduced intents: an attribute goes to the concept of its own extent.
Introduce ==
  /\ step = "materialise" /\ found = {} /\ step' = "covers"
  /\ rintents' = [c \in Ids |-> {a \in DOMAIN Matrix.cols : Matrix.cols[a] = extents[c]}]
  /\ UNCHANGED <<ctx, needFullSets, clar, found, lowerCovers>>
  /\ UNCHANGED <<n, extents, intents, rextents, buf, csr>>

\* The cover phase: candidates from the irreducible attributes, largest first.
Cover ==
  LET irr == IrreductibleIntent(Matrix)
      ids(covers) == [k \in DOMAIN covers |-> IdOf(covers[k])]
  IN  /\ step = "covers" /\ step' = "edges"
      /\ lowerCovers' = [c \in Ids |-> ids(Algorithm!LowerCovers(Matrix.cols, irr, extents[c], {}))]
      /\ UNCHANGED <<ctx, needFullSets, clar, found, storeVars>>

\* One bulk insertion, concept after concept.
InsertEdges ==
  /\ step = "edges" /\ step' = "rextents"
  /\ AddEdges(Swap(EdgesOf(lowerCovers)))
  /\ UNCHANGED <<ctx, needFullSets, clar, found, lowerCovers>>

\* Reduced extents, from the direct lower covers.
ReduceExtents ==
  /\ step = "rextents" /\ step' = IF needFullSets THEN "intents" ELSE "expand"
  /\ rextents' = [c \in Ids |-> extents[c] \ UNION {extents[d] : d \in ToSet(lowerCovers[c])}]
  /\ UNCHANGED <<ctx, needFullSets, clar, found, lowerCovers>>
  /\ UNCHANGED <<n, extents, intents, rintents, buf, csr>>

FullIntents ==
  /\ step = "intents" /\ step' = "expand"
  /\ ComputeIntents
  /\ UNCHANGED <<ctx, needFullSets, clar, found, lowerCovers>>

\* From clarified space back to the base context.
ExpandClasses ==
  /\ step = "expand" /\ step' = IF Transposed THEN "dual" ELSE "done"
  /\ IF needFullSets THEN Substitution(clar.attrClasses, clar.objClasses)
     ELSE SubstitutionReduced(clar.attrClasses, clar.objClasses)
  /\ UNCHANGED <<ctx, needFullSets, clar, found, lowerCovers>>

TurnBack ==
  /\ step = "dual" /\ step' = "done"
  /\ Dual
  /\ UNCHANGED <<ctx, needFullSets, clar, found, lowerCovers>>

Terminated == step = "done" /\ UNCHANGED vars

Next ==
  \/ Enumerate \/ Materialise \/ Introduce
  \/ Cover \/ InsertEdges \/ ReduceExtents
  \/ FullIntents \/ ExpandClasses \/ TurnBack
  \/ Terminated

Spec == Init /\ [][Next]_vars

-----------------------------------------------------------------------------
(***************************************************************************)
(* Properties.                                                             *)
(***************************************************************************)

\* "the candidate children are A INTER m' over the meet-IRREDUCIBLE attributes m
\* (sound because the context is clarified) ...; the lower covers are the maximal
\* candidates": what the cover phase finds are the concepts just below.
LowerCoversExact ==
  step = "edges" =>
    LET below(c, d) == extents[c] \subseteq extents[d] /\ c # d
    IN  \A c \in Ids :
          ToSet(lowerCovers[c]) =
            {d \in Ids : below(d, c) /\ ~ \E x \in Ids : below(d, x) /\ below(x, c)}

Order == [n |-> n, edges |-> buf, rext |-> rextents, rint |-> rintents]

\* What the caller gets is the lattice of the context it gave, neither of the
\* clarified nor of the transposed one.
OrderIsLattice == step = "done" => IsLattice(ctx, Order)

\* And, if it asked for them, the full extents and intents of that context:
\* "without it ... ALL extents become empty", or stay "in clarified space".
FullSetsDelivered ==
  step = "done" /\ needFullSets =>
    [c \in Ids |-> [ext |-> extents[c], int |-> intents[c]]] = FullSets(Order)
=============================================================================
