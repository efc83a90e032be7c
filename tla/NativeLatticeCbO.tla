-------------------------- MODULE NativeLatticeCbO --------------------------
(***************************************************************************)
(* The Java side of the native lattice builder (NativeLatticeCbO.java):    *)
(* choose the orientation with fewer attributes, call the kernel, fill an  *)
(* order from the array it returns, complete the full sets when the caller *)
(* needs them, and turn the order back.                                    *)
(*                                                                         *)
(* The kernel is what LatticeCovers shows of it: an array that decodes to  *)
(* the lattice of the context, its concepts in any order after top.        *)
(***************************************************************************)
EXTENDS CsrConceptOrder

CONSTANT Inputs     (* the contexts considered                              *)

VARIABLES
  ctx,              (* the caller's context, original                       *)
  needFullSets,     (* whether the caller reads full extents and intents    *)
  step,             (* where run() is                                       *)
  flat              (* what the kernel returned, <<>> when it failed        *)

runVars == <<ctx, needFullSets, step, flat>>
vars == <<runVars, storeVars>>

Transposed == Cardinality(DOMAIN ctx.cols) > Cardinality(ctx.objs)

Work == IF Transposed THEN Transpose(ctx) ELSE ctx

Init ==
  /\ ctx \in Inputs
  /\ needFullSets \in BOOLEAN
  /\ step = "kernel"
  /\ flat = <<>>
  /\ Empty

\* The steps of run() after the order has been filled.
AfterPopulate == IF needFullSets THEN "intents" ELSE IF Transposed THEN "dual" ELSE "done"

Listed(f) == [k \in 1 .. Cardinality(DOMAIN f) |-> Increasing(f[k - 1])]

\* runLatticeCbOCsrFlat: the lattice of the working context, or an empty array
\* when there was no memory for it.
Kernel ==
  /\ step = "kernel" /\ step' = "populate"
  /\ \/ flat' = <<>>
     \/ \E s \in TopFirst(Work) :
          LET L == LatticeInOrder(Work, s)
          IN  flat' = Encode(L.edges, Listed(L.rext), Listed(L.rint))
  /\ UNCHANGED <<ctx, needFullSets, storeVars>>

\* populateFromFlat.
PopulateFromFlat ==
  /\ step = "populate" /\ step' = AfterPopulate
  /\ IF Len(flat) < 2 THEN UNCHANGED storeVars ELSE Populate(Decode(flat))
  /\ UNCHANGED <<ctx, needFullSets, flat>>

FullIntents ==
  /\ step = "intents" /\ step' = "extents"
  /\ ComputeIntents
  /\ UNCHANGED <<ctx, needFullSets, flat>>

FullExtents ==
  /\ step = "extents" /\ step' = IF Transposed THEN "dual" ELSE "done"
  /\ ComputeExtents
  /\ UNCHANGED <<ctx, needFullSets, flat>>

TurnBack ==
  /\ step = "dual" /\ step' = "done"
  /\ Dual
  /\ UNCHANGED <<ctx, needFullSets, flat>>

Terminated == step = "done" /\ UNCHANGED vars

Next ==
  \/ Kernel \/ PopulateFromFlat
  \/ FullIntents \/ FullExtents \/ TurnBack
  \/ Terminated

Spec == Init /\ [][Next]_vars

-----------------------------------------------------------------------------
(***************************************************************************)
(* Properties.                                                             *)
(***************************************************************************)

Order == [n |-> n, edges |-> buf, rext |-> rextents, rint |-> rintents]

Delivered == step = "done" /\ flat # <<>>

\* The caller gets the lattice of the context it gave, whichever orientation
\* the kernel worked in: concepts, covers and reduced sets ("Sans effet sur le
\* treillis").
OrderIsLattice == Delivered => IsLattice(ctx, Order)

\* A caller that asked for full sets finds in each concept the extent and the
\* intent it has in that lattice, computed before the order was turned back.
FullSetsDelivered ==
  Delivered /\ needFullSets =>
    [c \in Ids |-> [ext |-> extents[c], int |-> intents[c]]] = FullSets(Order)
=============================================================================
