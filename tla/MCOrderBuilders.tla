--------------------------- MODULE MCOrderBuilders ---------------------------
(***************************************************************************)
(* The native builders of an order side by side, each against what all of  *)
(* them promise: five sequential ones on the same small contexts, and the  *)
(* roaring variant of the lattice kernel, which has threads.               *)
(***************************************************************************)
EXTENDS Integers, FiniteSets, SequencesExt

CONSTANTS Contexts, Null

VARIABLES
  algo,         (* which builder runs                                       *)
  ctx, ord, st, result

vars == <<algo, ctx, ord, st, result>>

ContextsOf(rows) ==
  {[objs |-> DOMAIN r, cols |-> [a \in attrs |-> {o \in DOMAIN r : a \in r[o]}]] :
     <<r, attrs>> \in rows}

All(o, a) == [0 .. o - 1 -> SUBSET (0 .. a - 1)] \X {0 .. a - 1}

Code(B) == FoldSet(LAMBDA a, acc : acc + 2 ^ a, 0, B)

\* One context for each choice of the rows, not for each order of them.
Sorted(o, a) == {p \in All(o, a) : \A i \in 1 .. o - 1 : Code(p[1][i - 1]) <= Code(p[1][i])}

MCContexts ==
  ContextsOf(All(2, 0) \cup All(2, 3) \cup All(3, 3) \cup Sorted(3, 4) \cup Sorted(4, 3))

\* Fewer for the one that has threads.
RoaringContexts == ContextsOf(All(2, 0) \cup All(0, 2) \cup Sorted(3, 3))

Ares == INSTANCE Ares
Ceres == INSTANCE Ceres
Hermes == INSTANCE Hermes
Pluton == INSTANCE Pluton
AddExtent == INSTANCE AddExtent
Roaring == INSTANCE RoaringLattice WITH
             Contexts <- RoaringContexts, ThreadCounts <- {1, 2, 3}, Batch <- 2

Init ==
  \/ algo = "Ares" /\ Ares!Init
  \/ algo = "Ceres" /\ Ceres!Init
  \/ algo = "Hermes" /\ Hermes!Init
  \/ algo = "Pluton" /\ Pluton!Init
  \/ algo = "AddExtent" /\ AddExtent!Init
  \/ algo = "Roaring" /\ Roaring!Init

RunAres == algo = "Ares" /\ Ares!Next /\ UNCHANGED algo
RunCeres == algo = "Ceres" /\ Ceres!Next /\ UNCHANGED algo
RunHermes == algo = "Hermes" /\ Hermes!Next /\ UNCHANGED algo
RunPluton == algo = "Pluton" /\ Pluton!Next /\ UNCHANGED algo
RunAddExtent == algo = "AddExtent" /\ AddExtent!Next /\ UNCHANGED algo
RunRoaring == algo = "Roaring" /\ Roaring!Next /\ UNCHANGED algo

Returned == result # Null /\ UNCHANGED vars

Next == RunAres \/ RunCeres \/ RunHermes \/ RunPluton \/ RunAddExtent
        \/ RunRoaring \/ Returned

\* A builder goes on until it has returned, one of its threads or the caller,
\* and none takes more than a bounded number of steps.  This is
\* WF_vars(Next): deadlock is checked, so a step is possible until then.
GoesOn == []<>(result # Null) \/ []<><<TRUE>>_vars

Spec == Init /\ [][Next]_vars /\ GoesOn

-----------------------------------------------------------------------------
\* Every builder hands over the order wanted of it, once, and does come to it.
Promise == INSTANCE OrderBuilder WITH
             wanted <- IF algo \in {"AddExtent", "Roaring"} THEN "lattice" ELSE "poset"

ImplementsOrderBuilder == Promise!Spec

\* Ares: between two attributes the AOC-poset of those processed.
AresStepExact == algo = "Ares" => Ares!StepExact

\* Ceres: after each concept the covers of those inserted.
CeresInsertionExact == algo = "Ceres" => Ceres!InsertionExact

\* Hermes: between two concepts the covers of those placed.
HermesPlacedExact == algo = "Hermes" => Hermes!PlacedExact

\* Pluton: the merged partitions are a linear extension, none twice.
PlutonLinearExtensionUsed == algo = "Pluton" => Pluton!LinearExtensionUsed

\* AddExtent: between two attributes the lattice of those inserted.
AddExtentLatticeExact == algo = "AddExtent" => AddExtent!LatticeExact

\* Roaring: a thread or the counter answers for each concept, one of them.
RoaringEachAnsweredOnce == algo = "Roaring" => Roaring!EachAnsweredOnce
=============================================================================
