--------------------------- MODULE MCJavaBuilders ---------------------------
(***************************************************************************)
(* The two Java lattice builders, NativeLatticeCbO around the kernel and   *)
(* ParallelLattice around its own enumeration, on the contexts of at most  *)
(* MaxSide objects and attributes, empty ones included, that have few      *)
(* concepts.                                                               *)
(***************************************************************************)
EXTENDS CsrConceptOrder

CONSTANTS
  MaxSide, FewConcepts,
  EmptyColumns      (* whether ParallelLattice is given columns without an
                       object too                                           *)

VARIABLES
  algo,                             (* which builder runs                   *)
  ctx, needFullSets, step,          (* of both                              *)
  flat,                             (* of NativeLatticeCbO                  *)
  clar, found, lowerCovers          (* of ParallelLattice                   *)

nativeOnly == <<flat>>
parallelOnly == <<clar, found, lowerCovers>>
vars == <<algo, ctx, needFullSets, step, nativeOnly, parallelOnly, storeVars>>

AllInputs ==
  {c \in UNION {Context(0 .. o - 1, 0 .. a - 1) : o, a \in 0 .. MaxSide} :
     Cardinality(ConceptsOf(c)) <= FewConcepts}

\* No column of the axis enumerated is empty.
FullColumns(c) ==
  LET base == IF Cardinality(DOMAIN c.cols) > Cardinality(c.objs) THEN Transpose(c) ELSE c
  IN  \A a \in DOMAIN base.cols : base.cols[a] # {}

ParallelInputs == {c \in AllInputs : EmptyColumns \/ FullColumns(c)}

Native   == INSTANCE NativeLatticeCbO WITH Inputs <- AllInputs
Parallel == INSTANCE ParallelLattice WITH Inputs <- ParallelInputs

Init ==
  \/ algo = "Native" /\ Native!Init /\ clar = Null /\ found = {} /\ lowerCovers = << >>
  \/ algo = "Parallel" /\ Parallel!Init /\ flat = << >>

RunNative   == algo = "Native" /\ UNCHANGED <<algo, parallelOnly>> /\ Native!Next
RunParallel == algo = "Parallel" /\ UNCHANGED <<algo, nativeOnly>> /\ Parallel!Next

Next == RunNative \/ RunParallel

Spec == Init /\ [][Next]_vars

-----------------------------------------------------------------------------
\* Whichever builder is called, what the caller gets is the lattice of the
\* context it gave, neither of the clarified nor of the transposed one.
OrderIsLattice ==
  /\ algo = "Native"   => Native!OrderIsLattice
  /\ algo = "Parallel" => Parallel!OrderIsLattice

\* And, if it asked for them, the full extents and intents of that context.
FullSetsDelivered ==
  /\ algo = "Native"   => Native!FullSetsDelivered
  /\ algo = "Parallel" => Parallel!FullSetsDelivered

\* ParallelLattice finds the concepts just below each concept, as its comments
\* say, from the irreducible attributes alone.
LowerCoversExact == algo = "Parallel" => Parallel!LowerCoversExact
=============================================================================
