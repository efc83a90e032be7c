--------------------------- MODULE ConceptLattice ---------------------------
(***************************************************************************)
(* What the lattice builders promise: an order that is the concept lattice *)
(* of a context.  An order is given by what all of them fill in: the       *)
(* number n of concepts, the edges <<lower, greater>> and the reduced      *)
(* sets, the extents and intents being those of the concepts below and     *)
(* above.                                                                  *)
(*                                                                         *)
(* A context here is a record of its objects and its columns, since the    *)
(* builders work on contexts of different sizes.                           *)
(***************************************************************************)
EXTENDS Integers, SequencesExt, FiniteSetsExt

-----------------------------------------------------------------------------
(* Lists, as the vectors and arrays of the builders hold them.             *)

\* The members of S in the order R, a set of pairs.
Arranged(S, R) ==
  [k \in 1 .. Cardinality(S) |->
     CHOOSE x \in S : Cardinality({y \in S : <<y, x>> \in R}) = k - 1]

\* Numbers in their order, and the elements of s at the indices in I in theirs.
Increasing(S) == Arranged(S, {p \in S \X S : p[1] < p[2]})

Pick(s, I) == [k \in 1 .. Cardinality(I) |-> s[Increasing(I)[k]]]

\* s without the elements that are in S.
Without(s, S) == Pick(s, {k \in DOMAIN s : s[k] \notin S})

\* Compressed rows: an array of counts summed up into offsets, and an array
\* filled through those offsets.  When both are made from one list of (key,
\* value) pairs the row of a key is a Bucket: the values that go with it, in
\* their order.
Bucket(ps, k) ==
  LET s == Pick(ps, {j \in DOMAIN ps : ps[j][1] = k})
  IN  [j \in DOMAIN s |-> s[j][2]]

Swap(ps) == [j \in DOMAIN ps |-> <<ps[j][2], ps[j][1]>>]

-----------------------------------------------------------------------------
(* Contexts and their lattices.                                            *)

Context(objs, attrs) == [objs : {objs}, cols : [attrs -> SUBSET objs]]

Transpose(ctx) ==
  [objs |-> DOMAIN ctx.cols,
   cols |-> [o \in ctx.objs |-> {a \in DOMAIN ctx.cols : o \in ctx.cols[a]}]]

IntentIn(ctx, X) == {a \in DOMAIN ctx.cols : X \subseteq ctx.cols[a]}
ExtentIn(ctx, B) == {o \in ctx.objs : \A a \in B : o \in ctx.cols[a]}

ConceptsOf(ctx) ==
  {[ext |-> X, int |-> IntentIn(ctx, X)] :
     X \in {ExtentIn(ctx, B) : B \in SUBSET DOMAIN ctx.cols}}

\* The pairs <<c, d>> such that a chain of edges, perhaps empty, leads from c
\* up to d.
UpTo(n, edges) ==
  LET reach[k \in 0 .. n] ==
        IF k = 0 THEN {<<c, c>> : c \in 0 .. n - 1}
        ELSE LET r == reach[k - 1]
             IN  r \cup {<<q[1], edges[q[2]][2]>> :
                           q \in {p \in (0 .. n - 1) \X DOMAIN edges :
                                    <<p[1], edges[p[2]][1]>> \in r}}
  IN  reach[n]

\* The extents and intents an order stands for.
FullSets(L) ==
  LET ids == 0 .. L.n - 1
      up == UpTo(L.n, L.edges)
  IN  [c \in ids |->
         [ext |-> UNION {L.rext[d] : d \in {x \in ids : <<x, c>> \in up}},
          int |-> UNION {L.rint[d] : d \in {x \in ids : <<c, x>> \in up}}]]

Disjoint(f) == \A c, d \in DOMAIN f : c # d => f[c] \cap f[d] = {}

IsLattice(ctx, L) ==
  LET ids  == 0 .. L.n - 1
      full == FullSets(L)
      below(c, d) == full[c].ext \subseteq full[d].ext /\ c # d
  IN  /\ {full[c] : c \in ids} = ConceptsOf(ctx)
      /\ L.n = Cardinality(ConceptsOf(ctx))
      /\ Disjoint(L.rext) /\ Disjoint(L.rint)
      /\ ToSet(L.edges) =
           {e \in ids \X ids : /\ below(e[1], e[2])
                               /\ ~ \E x \in ids : below(e[1], x) /\ below(x, e[2])}
      /\ Len(L.edges) = Cardinality(ToSet(L.edges))

-----------------------------------------------------------------------------
\* The lattice of ctx with its concepts numbered in the order of s, a list of
\* all of them.
LatticeInOrder(ctx, s) ==
  LET ids == 0 .. Len(s) - 1
      ext(c) == s[c + 1].ext
      below(c, d) == ext(c) \subseteq ext(d) /\ c # d
      hasse == {e \in ids \X ids : /\ below(e[1], e[2])
                                   /\ ~ \E x \in ids : below(e[1], x) /\ below(x, e[2])}
  IN  [n     |-> Len(s),
       edges |-> SetToSeq(hasse),
       rext  |-> [c \in ids |-> ext(c) \ UNION {ext(d) : d \in {x \in ids : below(x, c)}}],
       rint  |-> [c \in ids |-> {a \in DOMAIN ctx.cols : ctx.cols[a] = ext(c)}]]

\* The lists of the concepts that begin with top.
TopFirst(ctx) ==
  LET top == [ext |-> ctx.objs, int |-> IntentIn(ctx, ctx.objs)]
  IN  {<<top>> \o s : s \in SetToSeqs(ConceptsOf(ctx) \ {top})}

-----------------------------------------------------------------------------
(***************************************************************************)
(* The array of integers that carries a lattice from the native kernel to  *)
(* Java: written by csr_to_flat_array (latticecbo.c), read by              *)
(* populateFromFlat (NativeLatticeCbO.java).                               *)
(*                                                                         *)
(*   N, E, then E pairs child, parent, then for each of the N concepts     *)
(*   |rext|, the objects, |rint|, the attributes.                          *)
(***************************************************************************)
Counted(s) == <<Len(s)>> \o s

\* Mutant: the count of the reduced intent is left out.
EncodeUncounted(edges, rexts, rints) ==
  <<Len(rexts), Len(edges)>> \o FlattenSeq(edges)
    \o FlattenSeq([k \in DOMAIN rexts |-> Counted(rexts[k]) \o rints[k]])

Encode(edges, rexts, rints) ==
  <<Len(rexts), Len(edges)>> \o FlattenSeq(edges)
    \o FlattenSeq([k \in DOMAIN rexts |-> Counted(rexts[k]) \o Counted(rints[k])])

\* The index of the row of concept c, and the set counted from index p.
RowAt(flat, c) ==
  LET after(p) == p + 1 + flat[p]
      row[k \in 0 .. c] ==
        IF k = 0 THEN 3 + 2 * flat[2] ELSE after(after(row[k - 1]))
  IN  row[c]

SetAt(flat, p) == ToSet(SubSeq(flat, p + 1, p + flat[p]))

\* What populateFromFlat hands to populate.
Decode(flat) ==
  LET rextAt(c) == RowAt(flat, c)
      rintAt(c) == rextAt(c) + 1 + flat[rextAt(c)]
  IN  [n     |-> flat[1],
       edges |-> [k \in 1 .. flat[2] |-> <<flat[2 * k + 1], flat[2 * k + 2]>>],
       rext  |-> [c \in 0 .. flat[1] - 1 |-> SetAt(flat, rextAt(c))],
       rint  |-> [c \in 0 .. flat[1] - 1 |-> SetAt(flat, rintAt(c))]]
=============================================================================
