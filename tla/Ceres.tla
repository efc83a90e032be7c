------------------------------- MODULE Ceres -------------------------------
(***************************************************************************)
(* Ceres (algo/ceres.c): the AOC-poset of a context, from the most general *)
(* concept down.  Attributes come by decreasing size of their extent, in   *)
(* blocks of equal size; after the concept of an attribute come the object *)
(* concepts below it whose attributes have all been seen.  A concept is    *)
(* only ever inserted below those that are there.                          *)
(***************************************************************************)
EXTENDS DynOrder, AocPoset

CONSTANTS Contexts, Null

VARIABLES
  ctx,          (* the context                                              *)
  ord,          (* the order under construction                             *)
  st,           (* the local state of run_ceres_dense and of wolp           *)
  result        (* what is handed over, Null before                         *)

vars == <<ctx, ord, st, result>>

TopId == 0

PreConcept(a) == [ext |-> ctx.cols[a], int |-> {a}, rint |-> {a}]

\* Counting sort by extent, read backwards: of two extents of one size the
\* later attribute comes first.
SortPreConceptsDesc ==
  SetToSortSeq(DOMAIN ctx.cols,
    LAMBDA a, b : \/ Cardinality(ctx.cols[a]) > Cardinality(ctx.cols[b])
                  \/ Cardinality(ctx.cols[a]) = Cardinality(ctx.cols[b]) /\ a > b)

\* The top introduces the objects without attributes.
InitialTop == NewConcept(DynEmpty, ctx.objs, {o \in ctx.objs : Row(ctx, o) = {}}, {})

Init ==
  /\ ctx \in Contexts
  /\ ord = InitialTop
  /\ st = [tab |-> [i \in DOMAIN SortPreConceptsDesc |-> PreConcept(SortPreConceptsDesc[i])],
           block |-> << >>, wolp |-> << >>, covered |-> {}, topIntent |-> {}]
  /\ result = Null

-----------------------------------------------------------------------------
\* The pre-concepts with the extent of p become one.
Merged(p, same) == LET B == UNION {q.int : q \in same}
                   IN  [p EXCEPT !.int = @ \cup B, !.rint = @ \cup B]

\* The next block: the pre-concepts with extents of one size, the equal ones
\* merged into the first of them.
OpenBlock ==
  /\ st.block = << >> /\ st.wolp = << >> /\ st.tab # << >>
  /\ LET size == Cardinality(Head(st.tab).ext)
         block == SelectSeq(st.tab, LAMBDA p : Cardinality(p.ext) = size)
         same(i) == {block[j] : j \in {k \in DOMAIN block : block[k].ext = block[i].ext}}
         firsts == {i \in DOMAIN block : \A j \in 1 .. i - 1 : block[j].ext # block[i].ext}
         order == SetToSortSeq(firsts, <)
     IN  st' = [st EXCEPT
                  !.tab = SubSeq(@, Len(block) + 1, Len(@)),
                  !.block = [k \in DOMAIN order |-> Merged(block[order[k]], same(order[k]))]]
  /\ UNCHANGED <<ctx, ord, result>>

\* The walk down from the top: a concept is looked at once all those above it
\* were, and entered when it contains X.
Walked(d, X) ==
  LET seen[k \in 0 .. d.n] ==
        IF k = 0 THEN {TopId}
        ELSE LET s == seen[k - 1]
             IN  s \cup {c \in d.alive : /\ Upper(d, c) # {} /\ Upper(d, c) \subseteq s
                                         /\ X \subseteq d.ext[c]}
  IN  seen[d.n]

\* Mutant: the concepts walked through stay in the cover.
InsertUnderAll(d, X, R, B) ==
  AddEdges(NewConcept(d, X, R, B), {<<d.n, v>> : v \in Walked(d, X)})

\* The new concept goes below those walked through that no other one walked
\* through is below of.
Insert(d, X, R, B) ==
  LET walked == Walked(d, X)
      cover  == walked \ UNION {Upper(d, c) : c \in walked}
  IN  AddEdges(NewConcept(d, X, R, B), {<<d.n, v>> : v \in cover})

ObjectsWith(X, B) == {o \in X : Row(ctx, o) = B}

SortByRow(S) ==
  SetToSortSeq(S, LAMBDA o, x : \/ Cardinality(Row(ctx, o)) < Cardinality(Row(ctx, x))
                                \/ /\ Cardinality(Row(ctx, o)) = Cardinality(Row(ctx, x))
                                   /\ o < x)

NextPreConcept == st.wolp = << >> /\ st.block # << >>

\* An attribute that all objects have is one of the top concept.
TopConcept ==
  /\ NextPreConcept
  /\ LET p == Head(st.block)
         int  == st.topIntent \cup p.int
         rint == ord.rint[TopId] \cup p.rint
     IN  /\ p.ext = ctx.objs
         /\ ord' = [ord EXCEPT !.rint[TopId] = rint,
                               !.rext[TopId] = @ \cup ObjectsWith(ctx.objs, int)]
         /\ st' = [st EXCEPT !.block = Tail(@), !.topIntent = int,
                             !.covered = @ \cup rint]
  /\ UNCHANGED <<ctx, result>>

AttributeConcept ==
  /\ NextPreConcept
  /\ LET p == Head(st.block)
         int  == p.int \cup UNION {ord.rint[c] : c \in Walked(ord, p.ext)}
         rext == ObjectsWith(p.ext, int)
     IN  /\ p.ext # ctx.objs
         /\ ord' = Insert(ord, p.ext, rext, p.rint)
         /\ st' = [st EXCEPT !.block = Tail(@), !.covered = @ \cup p.rint,
                             !.wolp = SortByRow(p.ext \ rext)]
  /\ UNCHANGED <<ctx, result>>

\* Mutant: the object concepts come before all their attributes have.
ObjectConceptEarly ==
  /\ st.wolp # << >>
  /\ LET o == Head(st.wolp)
         rest == ToSet(Tail(st.wolp))
         equal == {x \in rest : Row(ctx, x) = Row(ctx, o)}
         above == {x \in rest : Row(ctx, o) \subseteq Row(ctx, x)}
     IN  /\ ord' = Insert(ord, {o} \cup above, {o} \cup equal, {})
         /\ st' = [st EXCEPT !.wolp = SelectSeq(Tail(@), LAMBDA x : x \notin equal)]
  /\ UNCHANGED <<ctx, result>>

\* The next object of WorkOnLeftPart2: it waits for a later attribute, or its
\* concept is inserted with the objects that have all its attributes.
ObjectConcept ==
  /\ st.wolp # << >>
  /\ LET o == Head(st.wolp)
         rest == ToSet(Tail(st.wolp))
         equal == {x \in rest : Row(ctx, x) = Row(ctx, o)}
         above == {x \in rest : Row(ctx, o) \subseteq Row(ctx, x)}
     IN  IF Row(ctx, o) \subseteq st.covered
         THEN /\ ord' = Insert(ord, {o} \cup above, {o} \cup equal, {})
              /\ st' = [st EXCEPT !.wolp = SelectSeq(Tail(@), LAMBDA x : x \notin equal)]
         ELSE st' = [st EXCEPT !.wolp = Tail(@)] /\ UNCHANGED ord
  /\ UNCHANGED <<ctx, result>>

\* The top goes when it introduces nothing, its edges first.
WithoutIdleTop(d) ==
  IF d.rext[TopId] = {} /\ d.rint[TopId] = {}
  THEN RemoveConcept(RemoveEdges(d, Lower(d, TopId) \X {TopId}), TopId)
  ELSE d

Deliver ==
  /\ st.tab = << >> /\ st.block = << >> /\ st.wolp = << >>
  /\ result = Null
  /\ ord' = WithoutIdleTop(ord)
  /\ result' = ToFlat(ord')
  /\ UNCHANGED <<ctx, st>>

Next == OpenBlock \/ TopConcept \/ AttributeConcept \/ ObjectConcept \/ Deliver

Spec == Init /\ [][Next]_vars /\ WF_vars(Next)

-----------------------------------------------------------------------------
\* At every moment the concepts inserted are all different and linked by
\* exactly their covers, although classify links a new one upwards only: no
\* concept ever comes after one it contains.  So there are never more of them
\* than the nb_obj + nb_attr + 2 its scratch arrays are sized for (classify,
\* wolp).
InsertionExact ==
  /\ IsCoverOrder(ord, [c \in ord.alive |-> ord.ext[c]])
  /\ ord.n <= Cardinality(ctx.objs) + Cardinality(DOMAIN ctx.cols) + 2
=============================================================================
