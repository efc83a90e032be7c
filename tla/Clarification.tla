---------------------------- MODULE Clarification ----------------------------
(***************************************************************************)
(* Clarifying a context: objects with equal rows, and attributes with      *)
(* equal columns, become one (Clarification.java).  Each axis is a list of *)
(* RefSets: refs are the numbers that have been merged, values the set     *)
(* they share.  Numbers begin with 0, as those of objects and attributes.  *)
(* And reducing it: which attributes are irreducible (FastReduction.java). *)
(***************************************************************************)
EXTENDS ConceptLattice

RefSet(ref, values) == [refs |-> {ref}, values |-> values]

\* Collections.sort: largest values first, and stable.
LargestFirst(sets) ==
  LET before(i, j) ==
        LET a == Cardinality(sets[i].values)
            b == Cardinality(sets[j].values)
        IN  a > b \/ (a = b /\ i < j)
      order == SetToSortSeq(DOMAIN sets, before)
  IN  [k \in DOMAIN sets |-> sets[order[k]]]

\* The positions where values occur for the first time.
Firsts(s) ==
  SetToSortSeq({k \in DOMAIN s : \A j \in 1 .. k - 1 : s[j].values # s[k].values}, <)

\* Mutant: the refs of the others are forgotten.
MergedForgetting(sets) ==
  LET s == LargestFirst(sets)
  IN  [k \in DOMAIN Firsts(s) |-> s[Firsts(s)[k]]]

\* The first of the sets that share their values takes the refs of all.
Merged(sets) ==
  LET s == LargestFirst(sets)
      kept == Firsts(s)
  IN  [k \in DOMAIN kept |->
         [refs   |-> UNION {s[j].refs : j \in {i \in DOMAIN s : s[i].values = s[kept[k]].values}},
          values |-> s[kept[k]].values]]

\* The other axis, its values renumbered.
Synchronized(sets, merged) ==
  [k \in DOMAIN sets |->
     [refs |-> sets[k].refs,
      values |-> {i - 1 : i \in {j \in DOMAIN merged : k - 1 \in merged[j].values}}]]

\* run(), for a context with no more attributes than objects and both axes to
\* be clarified: the objects first, then the attributes.
Clarified(ctx) ==
  LET row(o) == {a \in DOMAIN ctx.cols : o \in ctx.cols[a]}
      objSets == Merged([k \in 1 .. Cardinality(ctx.objs) |-> RefSet(k - 1, row(k - 1))])
      noAttrs == [k \in 1 .. Cardinality(DOMAIN ctx.cols) |-> RefSet(k - 1, {})]
      attrSets == Merged(Synchronized(noAttrs, objSets))
  IN  [ctx |-> [objs |-> 0 .. Len(objSets) - 1,
                cols |-> [a \in 0 .. Len(attrSets) - 1 |-> attrSets[a + 1].values]],
       attrClasses |-> [a \in 0 .. Len(attrSets) - 1 |-> attrSets[a + 1].refs],
       objClasses  |-> [o \in 0 .. Len(objSets) - 1 |-> objSets[o + 1].refs]]

-----------------------------------------------------------------------------
\* fermeture: the attributes that all the objects of attribute a have; none
\* when a has no object, since the intersection then never begins.
Fermeture(ctx, a) ==
  IF ctx.cols[a] = {} THEN {} ELSE IntentIn(ctx, ctx.cols[a])

\* isIrreductible: nothing else is implied by a, or what is has more objects
\* in common than those of a.
IsIrreductible(ctx, a) ==
  LET others == Fermeture(ctx, a) \ {a}
  IN  \/ others = {} /\ ctx.cols[a] # {}
      \/ others # {} /\ ExtentIn(ctx, others) \ ctx.cols[a] # {}

\* computeIrreductibleIntent, in the order its iterator gives.
IrreductibleIntent(ctx) ==
  SetToSortSeq({a \in DOMAIN ctx.cols : IsIrreductible(ctx, a)}, <)
=============================================================================
