------------------------------- MODULE Pluton -------------------------------
(***************************************************************************)
(* Pluton (algo/pluton.c): the AOC-poset of a context by partitioning.     *)
(* The clarified objects and attributes are put in order by refining       *)
(* partitions (maxmod), the two orders are merged (Tom Thumb), and the     *)
(* merged list is read from its end: an extent followed by the intent of   *)
(* the same concept makes one concept, what is left makes one each.  These *)
(* are then linked as Hermes does, and the classes replaced by their       *)
(* members.                                                                *)
(***************************************************************************)
EXTENDS NativeConceptOrder, AocPoset

CONSTANTS Contexts, Null

VARIABLES
  ctx,          (* the context                                              *)
  ord,          (* the order; its sets hold classes until they are replaced *)
  st,           (* the local state of build_pluton                          *)
  result        (* what is handed over, Null before                         *)

vars == <<ctx, ord, st, result>>

Attrs == DOMAIN ctx.cols
MinOf(S) == CHOOSE x \in S : \A y \in S : x <= y

\* Clarified context: the classes in order, and the row of the object at
\* position o and the column of the attribute at position a.
ClRow(cl, o) == {a \in DOMAIN cl.attrs : MinOf(cl.objs[o]) \in ctx.cols[MinOf(cl.attrs[a])]}
ClCol(cl, a) == {o \in DOMAIN cl.objs : MinOf(cl.objs[o]) \in ctx.cols[MinOf(cl.attrs[a])]}

ObjectClasses == {{x \in ctx.objs : Row(ctx, x) = Row(ctx, o)} : o \in ctx.objs}
AttrClasses   == {{b \in Attrs : ctx.cols[b] = ctx.cols[a]} : a \in Attrs}

\* The lists of S by decreasing size: that of the counting sort, where the
\* smallest member decides between equals, and those qsort may make of it.
Stable(S, size) ==
  SetToSortSeq(S, LAMBDA x, y : \/ size[x] > size[y]
                                \/ size[x] = size[y] /\ MinOf(x) < MinOf(y))

Unstable(S, size) ==
  {p \in SetToSeqs(S) : \A i \in 1 .. Len(p) - 1 : size[p[i]] >= size[p[i + 1]]}

\* The larger side is clarified and sorted first, by size in the context; the
\* other side after it, by the number of its classes.
Clarifications ==
  LET objects == ObjectClasses
      attrs   == AttrClasses
      objSize == [x \in objects |-> Cardinality(Row(ctx, MinOf(x)))]
      attrSize == [x \in attrs |-> Cardinality(ctx.cols[MinOf(x)])]
      objClasses == [x \in objects |-> Cardinality({c \in attrs : MinOf(x) \in ctx.cols[MinOf(c)]})]
      attrClasses == [x \in attrs |-> Cardinality({c \in objects : MinOf(c) \in ctx.cols[MinOf(x)]})]
  IN  IF Cardinality(Attrs) > Cardinality(ctx.objs)
      THEN {[objs |-> p, attrs |-> Stable(attrs, attrSize)] : p \in Unstable(objects, objClasses)}
      ELSE {[objs |-> Stable(objects, objSize), attrs |-> p] : p \in Unstable(attrs, attrClasses)}

-----------------------------------------------------------------------------
(* The maxmod partitions and their merge.                                  *)

\* One block is split by R, the elements of R first.
Split(K, R) ==
  IF Cardinality(K) > 1
  THEN SelectSeq(<<K \cap R, K \ R>>, LAMBDA part : part # {})
  ELSE <<K>>

Refined(part, R) == FlattenSeq([j \in DOMAIN part |-> Split(part[j], R)])

MaxmodOA(cl) ==
  FoldLeft(LAMBDA part, a : Refined(part, ClCol(cl, a)),
           <<DOMAIN cl.objs>>, [a \in DOMAIN cl.attrs |-> a])

MaxmodAO(cl, parts) ==
  FoldLeft(LAMBDA part, block : Refined(part, ClRow(cl, MinOf(block))),
           <<DOMAIN cl.attrs>>, Reverse(parts))

Extents(s) == [i \in DOMAIN s |-> [isExtent |-> TRUE, members |-> s[i]]]
Intents(s) == [i \in DOMAIN s |-> [isExtent |-> FALSE, members |-> s[i]]]

\* Tom Thumb: Y is read from its end, X from its beginning; as long as the
\* object at hand has the attribute at hand, the attributes come first.
TomThumb(cl, Y, X) ==
  LET Merge(s, unused) ==
        LET j == s.j
            i == s.i
        IN  IF j = 0 THEN [s EXCEPT !.list = @ \o Intents(SubSeq(X, i, Len(X))), !.i = Len(X) + 1]
            ELSE IF i > Len(X) THEN [s EXCEPT !.list = @ \o Extents(Reverse(SubSeq(Y, 1, j))), !.j = 0]
            ELSE IF MinOf(X[i]) \in ClRow(cl, MinOf(Y[j]))
                 THEN [s EXCEPT !.list = @ \o Intents(<<X[i]>>), !.i = @ + 1]
                 ELSE [s EXCEPT !.list = @ \o Extents(<<Y[j]>>), !.j = @ - 1]
  IN  FoldLeft(Merge, [list |-> << >>, j |-> Len(Y), i |-> 1], Y \o X \o <<0>>).list

\* Without attributes there is nothing to merge: all objects are one extent.
Maxmods(cl) ==
  IF cl.attrs = << >> THEN Extents(<<DOMAIN cl.objs>>)
  ELSE LET Y == MaxmodOA(cl) IN TomThumb(cl, Y, MaxmodAO(cl, Y))

Init ==
  /\ ctx \in Contexts
  /\ ord = CoEmpty
  /\ st = Null
  /\ result = Null

\* The clarified context and the merged partitions.
Prepare ==
  /\ st = Null
  /\ \E cl \in Clarifications :
       st' = [cl |-> cl, maxmods |-> Maxmods(cl), scan |-> ScanStart]
  /\ UNCHANGED <<ctx, ord, result>>

-----------------------------------------------------------------------------
(* The linear extension, read from the end of the list.                    *)

Reading  == st # Null /\ st.maxmods # << >>
Ordering == st # Null /\ st.maxmods = << >>

\* Mutant: the concept of the object need not be the greatest with the
\* attribute.
FormOneConceptAnyObject(ext, int) ==
  ext.isExtent /\ ~ int.isExtent /\ MinOf(ext.members) \in ClCol(st.cl, MinOf(int.members))

\* An extent and the intent next to it are of one concept: the object has the
\* attribute, and all objects with the attribute have what it has.
FormOneConcept(ext, int) ==
  LET o == MinOf(ext.members)
      ga == ClCol(st.cl, MinOf(int.members))
  IN  /\ ext.isExtent /\ ~ int.isExtent
      /\ o \in ga /\ \A j \in ga : ClRow(st.cl, o) \subseteq ClRow(st.cl, j)

Couples ==
  /\ Len(st.maxmods) > 1
  /\ FormOneConcept(Last(st.maxmods), Last(Front(st.maxmods)))

CoupledConcept ==
  /\ Reading /\ Couples
  /\ LET X == Last(st.maxmods).members
         B == Last(Front(st.maxmods)).members
     IN  ord' = CoAddConcept(ord, X, B, X, B)
  /\ st' = [st EXCEPT !.maxmods = Front(Front(@))]
  /\ UNCHANGED <<ctx, result>>

LoneExtent ==
  /\ Reading /\ ~ Couples /\ Last(st.maxmods).isExtent
  /\ LET X == Last(st.maxmods).members IN ord' = CoAddConcept(ord, X, {}, X, {})
  /\ st' = [st EXCEPT !.maxmods = Front(@)]
  /\ UNCHANGED <<ctx, result>>

LoneIntent ==
  /\ Reading /\ ~ Last(st.maxmods).isExtent
  /\ LET B == Last(st.maxmods).members IN ord' = CoAddConcept(ord, {}, B, {}, B)
  /\ st' = [st EXCEPT !.maxmods = Front(@)]
  /\ UNCHANGED <<ctx, result>>

-----------------------------------------------------------------------------
(* The order, and the classes replaced by their members.                   *)

\* Is concept s above t?  By the first object or the first attribute that each
\* of the two introduces.
IsParentT(s, t) ==
  LET row(c) == ClRow(st.cl, MinOf(ord.rext[c]))
      col(c) == ClCol(st.cl, MinOf(ord.rint[c]))
  IN  IF ord.rext[s] # {}
      THEN IF ord.rext[t] # {}
           THEN row(s) \subseteq row(t)
           ELSE \A a \in row(s) : col(t) \subseteq ClCol(st.cl, a)
      ELSE IF ord.rint[t] # {}
           THEN col(t) \subseteq col(s)
           ELSE MinOf(ord.rint[s]) \in row(t)

BeginScan ==
  /\ Ordering /\ AtRest(st.scan) /\ st.scan.s < ord.n - 1
  /\ st' = [st EXCEPT !.scan = BeginNext(@)]
  /\ UNCHANGED <<ctx, ord, result>>

ScanPrevious ==
  /\ Ordering /\ ~ AtRest(st.scan)
  /\ st' = [st EXCEPT !.scan =
              IF st.scan.prev \in st.scan.visited THEN TakeMark(@)
              ELSE IF IsParentT(st.scan.s, st.scan.prev) THEN LinkChild(@)
              ELSE NotBelow(@)]
  /\ UNCHANGED <<ctx, ord, result>>

Substitute(f, classes) ==
  [c \in DOMAIN f |-> UNION {classes[i] : i \in f[c]}]

SubstituteReduced(co, cl) ==
  [co EXCEPT !.rext = Substitute(@, cl.objs), !.rint = Substitute(@, cl.attrs)]

\* The full sets of the JSON path: the reduced ones, passed up and down the
\* order by its covers.
RebuildFullSets(co) ==
  LET down == CoComputeIntents([co EXCEPT !.int = co.rint])
      turned == CoComputeIntents([co EXCEPT !.int = co.rext, !.rint = co.rext,
                                            !.edges = {<<e[2], e[1]>> : e \in co.edges}])
  IN  [down EXCEPT !.ext = turned.int]

\* The edges go into the order all at once, the classes are replaced, and the
\* order is handed over.
Finish ==
  /\ Ordering /\ AtRest(st.scan) /\ st.scan.s = ord.n - 1
  /\ result = Null
  /\ ord' = RebuildFullSets(SubstituteReduced(CoAddEdges(ord, st.scan.children), st.cl))
  /\ result' = CoToFlat(ord')
  /\ UNCHANGED <<ctx, st>>

Next == Prepare \/ CoupledConcept \/ LoneExtent \/ LoneIntent \/ BeginScan \/ ScanPrevious \/ Finish

Spec == Init /\ [][Next]_vars /\ WF_vars(Next)

-----------------------------------------------------------------------------
\* The extent, in classes, of the concept that introduces X or B.
ClassExtent(X, B) ==
  IF B # {} THEN ClCol(st.cl, MinOf(B))
  ELSE {o \in DOMAIN st.cl.objs : ClRow(st.cl, MinOf(X)) \subseteq ClRow(st.cl, o)}

\* The concepts read off the merged partitions are a linear extension, the
\* smaller ones first and none twice: whatever order the unstable sort of the
\* clarification leaves, an extent and an intent that belong together stand
\* next to each other (pluton_compute_linext).  The scan relies on it to link
\* the concepts by exactly their covers (pluton_compute_order), and the full
\* sets rebuilt from them are those of the context (pluton_rebuild_full_sets).
LinearExtensionUsed ==
  LET ext == [c \in 0 .. ord.n - 1 |-> ClassExtent(ord.rext[c], ord.rint[c])]
  IN  /\ st # Null /\ result = Null =>
           /\ \A c, d \in DOMAIN ext : c < d => ~ (ext[d] \subseteq ext[c])
           /\ AtRest(st.scan) => ScanExact(st.scan, ext)
      /\ result # Null =>
           \A c \in DOMAIN ord.ext :
             /\ ord.ext[c] = {o \in ctx.objs : ord.int[c] \subseteq Row(ctx, o)}
             /\ ord.int[c] = {a \in Attrs : ord.ext[c] \subseteq ctx.cols[a]}
=============================================================================
