------------------------------ MODULE AocPoset ------------------------------
(***************************************************************************)
(* What the native builders of orders promise: the AOC-poset of a context, *)
(* the order of the concepts that introduce an object or an attribute      *)
(* (Ares, Ceres, Hermes, Pluton), or its whole lattice (AddExtent).  A     *)
(* flat order L is what they hand over: n concepts, a bag of edges         *)
(* <<lower, upper>> and the reduced sets.                                  *)
(***************************************************************************)
EXTENDS Integers, FiniteSets, Bags

Row(ctx, o) == {a \in DOMAIN ctx.cols : o \in ctx.cols[a]}

\* The extent of the concept that introduces object o.
ObjectExtent(ctx, o) == {x \in ctx.objs : Row(ctx, o) \subseteq Row(ctx, x)}

IntroducerExtents(ctx) ==
  {ctx.cols[a] : a \in DOMAIN ctx.cols} \cup {ObjectExtent(ctx, o) : o \in ctx.objs}

Introduced(ctx, X) ==
  [rext |-> {o \in ctx.objs : ObjectExtent(ctx, o) = X},
   rint |-> {a \in DOMAIN ctx.cols : ctx.cols[a] = X}]

\* The pairs of members of S, a family of sets, between which there is none.
Covers(S) ==
  {p \in S \X S : /\ p[1] \subseteq p[2] /\ p[1] # p[2]
                  /\ ~ \E X \in S : /\ p[1] \subseteq X /\ X \subseteq p[2]
                                    /\ X # p[1] /\ X # p[2]}

\* L holds the concepts ext[c], each once, and their covers, each once.
IsCoverOrder(L, ext) ==
  /\ \A c, d \in DOMAIN ext : ext[c] = ext[d] => c = d
  /\ LET S == {ext[c] : c \in DOMAIN ext}
         id == [X \in S |-> CHOOSE c \in DOMAIN ext : ext[c] = X]
     IN  L.edges = SetToBag({<<id[p[1]], id[p[2]]>> : p \in Covers(S)})

\* The extents a flat order stands for: the objects introduced at c or below.
FlatExtents(L) ==
  LET E == BagToSet(L.edges)
      ext[k \in 0 .. L.n] ==
        IF k = 0 THEN L.rext
        ELSE LET f == ext[k - 1]
             IN  [c \in DOMAIN f |->
                    f[c] \cup UNION {f[e[1]] : e \in {x \in E : x[2] = c}}]
  IN  ext[L.n]

\* L is the order of the concepts of ctx whose extents are those of S.
IsOrderOf(ctx, L, S) ==
  LET ext == FlatExtents(L)
  IN  /\ DOMAIN L.rext = 0 .. L.n - 1 /\ DOMAIN L.rint = 0 .. L.n - 1
      /\ {ext[c] : c \in DOMAIN ext} = S
      /\ \A c \in DOMAIN ext :
           [rext |-> L.rext[c], rint |-> L.rint[c]] = Introduced(ctx, ext[c])
      /\ IsCoverOrder(L, ext)

IsAocPoset(ctx, L) == IsOrderOf(ctx, L, IntroducerExtents(ctx))

\* The extents of the concepts of the objects with the attributes of B.
ExtentsUpTo(ctx, B) ==
  {{o \in ctx.objs : A \subseteq Row(ctx, o)} : A \in SUBSET B}

IsConceptLattice(ctx, L) == IsOrderOf(ctx, L, ExtentsUpTo(ctx, DOMAIN ctx.cols))
=============================================================================
