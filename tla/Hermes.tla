------------------------------- MODULE Hermes -------------------------------
(***************************************************************************)
(* Hermes (algo/hermes.c): the AOC-poset of a context in two phases.  The  *)
(* context is clarified, objects and attributes become concepts known by   *)
(* their values, the classes of attributes they have; then each concept is *)
(* compared with those before it in a linear extension, from the nearest   *)
(* back, and what lies below a child found is marked and passed over.      *)
(*                                                                         *)
(* A class of the clarified context is known here by its members, refs, in *)
(* place of its index.                                                     *)
(***************************************************************************)
EXTENDS NativeConceptOrder, AocPoset

CONSTANTS Contexts, Null

VARIABLES
  ctx,          (* the context                                              *)
  ord,          (* the order, filled in as concepts are added               *)
  st,           (* the local state of build_hermes and hermes_compute_hasse *)
  result        (* what is handed over, Null before                         *)

vars == <<ctx, ord, st, result>>

Attrs == DOMAIN ctx.cols

RefSet(refs, values) == [refs |-> refs, values |-> values]

ObjectRefs == {RefSet({o}, {}) : o \in ctx.objs}
AttrRefs   == {RefSet({a}, {}) : a \in Attrs}
ObjectRows == {RefSet({o}, {{a} : a \in Row(ctx, o)}) : o \in ctx.objs}
AttrCols   == {RefSet({a}, {{o} : o \in ctx.cols[a]}) : a \in Attrs}

MergeEqual(S) ==
  {RefSet(UNION {s.refs : s \in {t \in S : t.values = v}}, v) : v \in {s.values : s \in S}}

\* The two results of hermes_clarify: the sets of S with equal values merged,
\* and those of T with the merged sets that have them.
Clarified(S, T) ==
  LET merged == MergeEqual(S)
  IN  <<merged,
        {RefSet(t.refs, {s.refs : s \in {x \in merged : t.refs \in x.values}}) : t \in T}>>

\* The larger side is clarified first.
ClarifyBoth ==
  IF Cardinality(Attrs) > Cardinality(ctx.objs)
  THEN LET first  == Clarified(AttrCols, ObjectRefs)
           second == Clarified(first[2], first[1])
       IN  [objs |-> second[1], attrs |-> second[2]]
  ELSE LET first  == Clarified(ObjectRows, AttrRefs)
           second == Clarified(first[2], first[1])
       IN  [objs |-> second[2], attrs |-> second[1]]

\* An attribute class has the classes whose objects include all of its own.
DomRelation(attrs) ==
  {RefSet(s.refs, {t.refs : t \in {x \in attrs : x = s \/ s.values \subseteq x.values}}) :
     s \in attrs}

\* An attribute set joins the object set with its values, or stands alone.
ConceptSets(objs, doms) ==
  LET int(v) == UNION {d.refs : d \in {x \in doms : x.values = v}}
      ext(v) == UNION {s.refs : s \in {x \in objs : x.values = v}}
  IN  {[ext |-> ext(v), int |-> int(v), values |-> v] : v \in {s.values : s \in objs \cup doms}}

Init ==
  /\ ctx \in Contexts
  /\ ord = CoEmpty
  /\ st = LET c == ClarifyBoth
          IN  [left |-> ConceptSets(c.objs, DomRelation(c.attrs)),
               placed |-> << >>, scan |-> ScanStart]
  /\ result = Null

-----------------------------------------------------------------------------
\* The next concept of the linear extension: one with the most values.  Among
\* those with as many, any may come: the sort that orders the classes is not
\* stable.
AddConcept ==
  /\ AtRest(st.scan)
  /\ \E c \in st.left :
       /\ \A x \in st.left : Cardinality(x.values) <= Cardinality(c.values)
       /\ ord' = CoAddConcept(ord, c.ext, c.int, c.ext, c.int)
       /\ st' = [st EXCEPT !.left = @ \ {c}, !.placed = Append(@, c),
                           !.scan = BeginNext(@)]
  /\ UNCHANGED <<ctx, result>>

LeastOf(X) == CHOOSE x \in X : \A y \in X : x <= y

\* Is concept S above T?  When T has an object of its own and S none, one look
\* at the context answers.
IsParent(T, S) ==
  IF T.ext # {} /\ S.ext = {}
  THEN LeastOf(S.int) \in Row(ctx, LeastOf(T.ext))
  ELSE S.values \subseteq T.values

PassOver ==
  /\ ~ AtRest(st.scan) /\ st.scan.prev \in st.scan.visited
  /\ st' = [st EXCEPT !.scan = TakeMark(@)]
  /\ UNCHANGED <<ctx, ord, result>>

\* A child found passes its extent up, and what is below it gets the intent,
\* each concept once.
Compare ==
  /\ ~ AtRest(st.scan) /\ st.scan.prev \notin st.scan.visited
  /\ LET t == st.scan.prev
         s == st.scan.s
         heirs == {t} \cup Unmarked(st.scan, t)
     IN  IF IsParent(st.placed[t + 1], st.placed[s + 1])
         THEN /\ st' = [st EXCEPT !.scan = LinkChild(@)]
              /\ ord' = [ord EXCEPT
                           !.ext[s] = @ \cup ord.ext[t],
                           !.int = [c \in DOMAIN @ |-> IF c \in heirs
                                                       THEN @[c] \cup ord.rint[s]
                                                       ELSE @[c]]]
         ELSE st' = [st EXCEPT !.scan = NotBelow(@)] /\ UNCHANGED ord
  /\ UNCHANGED <<ctx, result>>

\* The edges are put into the order all at once, then it is handed over.
PoseEdges ==
  /\ AtRest(st.scan) /\ st.left = {} /\ result = Null
  /\ ord' = CoAddEdges(ord, st.scan.children)
  /\ result' = CoToFlat(ord')
  /\ UNCHANGED <<ctx, st>>

Next == AddConcept \/ PassOver \/ Compare \/ PoseEdges

Spec == Init /\ [][Next]_vars /\ WF_vars(Next)

-----------------------------------------------------------------------------
\* When a concept has been compared with all before it, the concepts placed
\* are linked by exactly their covers, their full extents and intents are
\* those of their places in the context, and no mark is left for the next
\* concept to stumble over (hermes_compute_hasse).
PlacedExact ==
  AtRest(st.scan) =>
    LET ids == 0 .. st.scan.s
        extent(c) == UNION {ord.rext[t] : t \in {x \in ids : st.placed[c + 1].values
                                                    \subseteq st.placed[x + 1].values}}
        intent(c) == UNION {ord.rint[t] : t \in {x \in ids : st.placed[x + 1].values
                                                    \subseteq st.placed[c + 1].values}}
    IN  /\ ScanExact(st.scan, [c \in ids |-> {x \in ids : st.placed[c + 1].values
                                                    \subseteq st.placed[x + 1].values}])
        /\ \A c \in ids : ord.ext[c] = extent(c) /\ ord.int[c] = intent(c)
=============================================================================
