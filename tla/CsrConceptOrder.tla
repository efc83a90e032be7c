--------------------------- MODULE CsrConceptOrder ---------------------------
(***************************************************************************)
(* The order store the lattice builders fill (CsrConceptOrder.java).       *)
(* Concepts are numbered in the order of their addition and kept in        *)
(* arrays; edges go to a buffer, and the adjacency of each concept is      *)
(* built from the buffer at the first read after a change, and kept.       *)
(*                                                                         *)
(* This module has the operations; CsrStore puts them in any order, and    *)
(* the lattice builders in theirs.                                         *)
(***************************************************************************)
EXTENDS ConceptLattice

CONSTANT Null   (* a full set that was never given                          *)

VARIABLES
  n,                        (* the number of concepts                       *)
  extents, intents,         (* full sets, Null when not materialised        *)
  rextents, rintents,       (* reduced sets                                 *)
  buf,                      (* the edges <<lower, greater>>, bufLo, bufGr   *)
  csr           (* csrBuilt, outPtr/outAdj and inPtr/inAdj as rows          *)

storeVars == <<n, extents, intents, rextents, rintents, buf, csr>>

Ids == 0 .. n - 1

NoCsr == [built |-> FALSE, out |-> <<>>, in |-> <<>>]

\* The constructor.
Empty ==
  /\ n = 0
  /\ extents = <<>> /\ intents = <<>> /\ rextents = <<>> /\ rintents = <<>>
  /\ buf = <<>>
  /\ csr = NoCsr

\* buildCsr, and ensureCsr before every read.
BuildCsr == [built |-> TRUE,
             out |-> [c \in Ids |-> Bucket(buf, c)],
             in  |-> [c \in Ids |-> Bucket(Swap(buf), c)]]

Csr == IF csr.built THEN csr ELSE BuildCsr

\* csrBuilt = false: the arrays are still there, but never read again.
Outdated == NoCsr

Maximals == {c \in Ids : Csr.out[c] = <<>>}
Minimals == {c \in Ids : Csr.in[c] = <<>>}

-----------------------------------------------------------------------------
\* Mutant: the concepts as they are numbered.
TopoById == [k \in 1 .. n |-> k - 1]

\* What op makes of the elements of s, one after the other (FoldLeft, written
\* as a function on the number of elements taken so far).
InTurn(op(_, _), base, s) ==
  LET f[k \in 0 .. Len(s)] == IF k = 0 THEN base ELSE op(f[k - 1], s[k])
  IN  f[Len(s)]

(***************************************************************************)
(* topoBottomUp: the minimal concepts in the order of their ids, then each *)
(* concept when the last of its lower covers has been taken off the queue. *)
(***************************************************************************)
Release(s, w) ==
  [indeg |-> [s.indeg EXCEPT ![w] = @ - 1],
   queue |-> IF s.indeg[w] = 1 THEN Append(s.queue, w) ELSE s.queue]

\* The k-th concept is taken off the queue, if there are so many.
TakeOff(s, k) ==
  IF Len(s.queue) < k THEN s ELSE InTurn(Release, s, Csr.out[s.queue[k]])

TopoBottomUp ==
  LET start == [indeg |-> [c \in Ids |-> Len(Csr.in[c])], queue |-> Increasing(Minimals)]
  IN  InTurn(TakeOff, start, [k \in 1 .. n |-> k]).queue

TopDown == Reverse(TopoBottomUp)

\* Each concept in the given order takes its reduced set and hands what it has
\* on to the concepts of its row.
Propagate(sets, rsets, order, rows) ==
  LET visit(f, c) ==
        LET own == f[c] \cup rsets[c]
        IN  [d \in Ids |-> IF d \in ToSet(rows[c]) \/ d = c THEN f[d] \cup own ELSE f[d]]
      start == [c \in Ids |-> IF sets[c] = Null THEN {} ELSE sets[c]]
  IN  InTurn(visit, start, order)

-----------------------------------------------------------------------------
\* addConcept; ids are handed out in order.
AddConcept(ext, int, rext, rint) ==
  /\ n' = n + 1
  /\ extents' = [c \in 0 .. n |-> IF c = n THEN ext ELSE extents[c]]
  /\ intents' = [c \in 0 .. n |-> IF c = n THEN int ELSE intents[c]]
  /\ rextents' = [c \in 0 .. n |-> IF c = n THEN rext ELSE rextents[c]]
  /\ rintents' = [c \in 0 .. n |-> IF c = n THEN rint ELSE rintents[c]]
  /\ UNCHANGED <<buf, csr>>

\* addPrecedenceConnection and addPrecedenceConnections.
AddEdges(edges) ==
  /\ buf' = buf \o edges
  /\ csr' = Outdated
  /\ UNCHANGED <<n, extents, intents, rextents, rintents>>

\* removePrecedenceConnection.
RemoveEdge(edge) ==
  /\ buf' = Without(buf, {edge})
  /\ csr' = Outdated
  /\ UNCHANGED <<n, extents, intents, rextents, rintents>>

\* Covers, degrees, extrema, iterators and paths all begin with ensureCsr.
Read ==
  /\ csr' = Csr
  /\ UNCHANGED <<n, extents, intents, rextents, rintents, buf>>

ComputeIntents ==
  /\ intents' = Propagate(intents, rintents, TopDown, Csr.in)
  /\ csr' = Csr
  /\ UNCHANGED <<n, extents, rextents, rintents, buf>>

ComputeExtents ==
  /\ extents' = Propagate(extents, rextents, TopoBottomUp, Csr.out)
  /\ csr' = Csr
  /\ UNCHANGED <<n, intents, rextents, rintents, buf>>

\* Mutant: the adjacency of the other direction is kept.
DualKeepsCsr ==
  /\ extents' = intents /\ intents' = extents
  /\ rextents' = rintents /\ rintents' = rextents
  /\ buf' = Swap(buf)
  /\ UNCHANGED <<n, csr>>

\* Mutant: the full sets stay where they were.
DualReduced ==
  /\ rextents' = rintents /\ rintents' = rextents
  /\ buf' = Swap(buf)
  /\ csr' = Outdated
  /\ UNCHANGED <<n, extents, intents>>

\* dual: from the lattice of a context to that of its transpose.
Dual ==
  /\ extents' = intents /\ intents' = extents
  /\ rextents' = rintents /\ rintents' = rextents
  /\ buf' = Swap(buf)
  /\ csr' = Outdated
  /\ UNCHANGED n

\* populate, for the ids 0 .. L.n - 1 of an empty store.
Populate(L) ==
  /\ n' = L.n
  /\ extents' = [c \in 0 .. L.n - 1 |-> Null]
  /\ intents' = [c \in 0 .. L.n - 1 |-> Null]
  /\ rextents' = L.rext
  /\ rintents' = L.rint
  /\ buf' = buf \o L.edges
  /\ csr' = Outdated

(***************************************************************************)
(* substitution and substitutionReduced: classes of a clarified context    *)
(* give way to their members.                                              *)
(***************************************************************************)
Expand(set, classes) == UNION {classes[x] : x \in set}

SubstitutionReduced(attrClasses, objClasses) ==
  /\ rextents' = [c \in Ids |-> Expand(rextents[c], objClasses)]
  /\ rintents' = [c \in Ids |-> Expand(rintents[c], attrClasses)]
  /\ UNCHANGED <<n, extents, intents, buf, csr>>

Substitution(attrClasses, objClasses) ==
  /\ rextents' = [c \in Ids |-> Expand(rextents[c], objClasses)]
  /\ rintents' = [c \in Ids |-> Expand(rintents[c], attrClasses)]
  /\ extents' = [c \in Ids |-> IF extents[c] = Null THEN Null
                               ELSE Expand(extents[c], objClasses)]
  /\ intents' = [c \in Ids |-> IF intents[c] = Null THEN Null
                               ELSE Expand(intents[c], attrClasses)]
  /\ UNCHANGED <<n, buf, csr>>

-----------------------------------------------------------------------------
(***************************************************************************)
(* Transitive reduction and closure: a depth-first search upwards from     *)
(* each concept u in turn.                                                 *)
(***************************************************************************)
\* Mutant: only the upper covers of the first concepts are looked at.
SearchOneStep(start) ==
  SetToSeq(ToSet(start) \cup UNION {ToSet(Csr.out[v]) : v \in ToSet(start)})

\* One turn takes a concept off the stack, and when it is new pushes those of
\* its upper covers that are.
Turn(s, k) ==
  IF s.stack = <<>> THEN s
  ELSE LET v    == Last(s.stack)
           rest == Front(s.stack)
       IN  IF v \in ToSet(s.seen) THEN [seen |-> s.seen, stack |-> rest]
           ELSE LET seen == Append(s.seen, v)
                IN  [seen |-> seen, stack |-> rest \o Without(Csr.out[v], ToSet(seen))]

\* The concepts reached from those of the stack start, in their order; each
\* turn uses up an entry of the stack or of the edges.
Search(start) ==
  InTurn(Turn, [seen |-> <<>>, stack |-> start],
         [k \in 1 .. Len(start) + Len(buf) |-> k]).seen

\* Mutant: the search begins one step early.
KeptFew(u) == Without(Csr.out[u], ToSet(Search(Csr.out[u])))

\* reduce keeps an edge that no path of two edges or more replaces.
Kept(u) ==
  LET beyond == FlattenSeq([k \in DOMAIN Csr.out[u] |-> Csr.out[Csr.out[u][k]]])
  IN  Without(Csr.out[u], ToSet(Search(beyond)))

\* rebuildEdges: the edges from each concept to those of its row.
EdgesOf(rows) ==
  FlattenSeq([k \in 1 .. n |->
                [j \in DOMAIN rows[k - 1] |-> <<k - 1, rows[k - 1][j]>>]])

Reduce ==
  /\ buf' = EdgesOf([u \in Ids |-> Kept(u)])
  /\ csr' = Outdated
  /\ UNCHANGED <<n, extents, intents, rextents, rintents>>

Closure ==
  /\ buf' = EdgesOf([u \in Ids |-> Search(Csr.out[u])])
  /\ csr' = Outdated
  /\ UNCHANGED <<n, extents, intents, rextents, rintents>>
=============================================================================
