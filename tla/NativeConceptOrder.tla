------------------------- MODULE NativeConceptOrder -------------------------
(***************************************************************************)
(* The order of concepts that Hermes, Pluton, AddExtent and the roaring    *)
(* variant of the lattice kernel fill in (core/conceptorder.c).  Each      *)
(* concept has its four sets, the edges <<lower, upper>> are kept as sets  *)
(* of parents and children, and the extremal concepts are kept up to date  *)
(* beside them.                                                            *)
(***************************************************************************)
EXTENDS Integers, SequencesExt

CoEmpty == [n |-> 0, ext |-> << >>, int |-> << >>, rext |-> << >>, rint |-> << >>,
            edges |-> {}, maximals |-> {}, minimals |-> {}]

Put(f, c, S) == [x \in DOMAIN f \cup {c} |-> IF x = c THEN S ELSE f[x]]

\* The identifier given is co.n; a concept begins without neighbours.
CoAddConcept(co, X, B, rX, rB) ==
  [co EXCEPT !.n = @ + 1,
             !.ext = Put(@, co.n, X), !.int = Put(@, co.n, B),
             !.rext = Put(@, co.n, rX), !.rint = Put(@, co.n, rB),
             !.maximals = @ \cup {co.n}, !.minimals = @ \cup {co.n}]

Children(co, c) == {e[1] : e \in {x \in co.edges : x[2] = c}}
Parents(co, c)  == {e[2] : e \in {x \in co.edges : x[1] = c}}

CoAddEdges(co, E) ==
  [co EXCEPT !.edges = @ \cup E,
             !.maximals = @ \ {e[1] : e \in E}, !.minimals = @ \ {e[2] : e \in E}]

\* The two ends become extremal again when they have lost their last
\* neighbour on that side.
CoRemoveEdge(co, e) ==
  LET cut == [co EXCEPT !.edges = @ \ {e}]
  IN  [cut EXCEPT
         !.maximals = @ \cup (IF Parents(cut, e[1]) = {} THEN {e[1]} ELSE {}),
         !.minimals = @ \cup (IF Children(cut, e[2]) = {} THEN {e[2]} ELSE {})]

CoComputeRextents(co) ==
  [co EXCEPT !.rext = [c \in DOMAIN co.ext |->
                         co.ext[c] \ UNION {co.ext[x] : x \in Children(co, c)}]]

\* The intents from the reduced ones: a concept is treated once all its
\* parents are.
CoComputeIntents(co) ==
  LET Treat(s) ==
        LET ready == {c \in DOMAIN co.int \ s.done : Parents(co, c) \subseteq s.done}
            own(c) == s.int[c] \cup co.rint[c] \cup UNION {s.int[p] : p \in Parents(co, c)}
        IN  [done |-> s.done \cup ready,
             int |-> [c \in DOMAIN s.int |-> IF c \in ready THEN own(c) ELSE s.int[c]]]
      run[k \in 0 .. co.n] ==
        IF k = 0 THEN [done |-> {}, int |-> co.int]
        ELSE LET s == run[k - 1] IN Treat(s)
  IN  [co EXCEPT !.int = run[co.n].int]

CoToFlat(co) == [n |-> co.n, edges |-> SetToBag(co.edges),
                 rext |-> co.rext, rint |-> co.rint]

ExtremaRight(co) ==
  /\ co.maximals = {c \in 0 .. co.n - 1 : Parents(co, c) = {}}
  /\ co.minimals = {c \in 0 .. co.n - 1 : Children(co, c) = {}}

-----------------------------------------------------------------------------
(***************************************************************************)
(* The loop that Hermes and Pluton both use to link the concepts of a      *)
(* linear extension, 0 .. n - 1 (hermes_compute_hasse,                     *)
(* pluton_compute_order).  Concept s is compared with those before it,     *)
(* from s - 1 back.  What lies below a child found is marked; the scan     *)
(* takes the mark off when it comes to it, without a comparison.           *)
(***************************************************************************)
ScanStart == [s |-> -1, prev |-> -1, visited |-> {}, children |-> {}]

AtRest(sc) == sc.prev = -1

BeginNext(sc) == [sc EXCEPT !.s = @ + 1, !.prev = sc.s]

ChildrenOf(sc, t) == {e[1] : e \in {x \in sc.children : x[2] = t}}

\* What is below t by the edges found so far, up to what is marked already.
Unmarked(sc, t) ==
  LET reach[k \in 0 .. sc.s] ==
        IF k = 0 THEN ChildrenOf(sc, t) \ sc.visited
        ELSE LET r == reach[k - 1]
             IN  r \cup ((UNION {ChildrenOf(sc, x) : x \in r}) \ sc.visited)
  IN  reach[sc.s]

TakeMark(sc) == [sc EXCEPT !.visited = @ \ {sc.prev}, !.prev = @ - 1]

NotBelow(sc) == [sc EXCEPT !.prev = @ - 1]

\* Mutant: only the children of the one found are marked.
LinkChildNear(sc) ==
  [sc EXCEPT !.children = @ \cup {<<sc.prev, sc.s>>},
             !.visited = @ \cup ChildrenOf(sc, sc.prev), !.prev = @ - 1]

LinkChild(sc) ==
  [sc EXCEPT !.children = @ \cup {<<sc.prev, sc.s>>},
             !.visited = @ \cup Unmarked(sc, sc.prev), !.prev = @ - 1]

\* Between two concepts: the edges are the covers of those scanned, by the
\* extents they stand for, and all marks have been taken off.
ScanExact(sc, ext) ==
  LET ids == 0 .. sc.s
      below(t, s) == ext[t] \subseteq ext[s] /\ t # s
  IN  /\ sc.visited = {}
      /\ sc.children =
           {e \in ids \X ids : /\ below(e[1], e[2])
                               /\ ~ \E x \in ids : below(e[1], x) /\ below(x, e[2])}
=============================================================================
