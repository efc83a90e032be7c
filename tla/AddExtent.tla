------------------------------ MODULE AddExtent ------------------------------
(***************************************************************************)
(* AddExtent (algo/addextent.c): the lattice of a context, one attribute   *)
(* after the other.  The column of the attribute becomes the extent of a   *)
(* concept, and so do its intersections with the extents there are.  The   *)
(* calls of add_extent that have not returned are a stack, the last one    *)
(* first.                                                                  *)
(***************************************************************************)
EXTENDS NativeConceptOrder, AocPoset

CONSTANTS Contexts, Null

VARIABLES
  ctx,          (* the context                                              *)
  ord,          (* the order                                                *)
  st,           (* the attribute at hand, the calls, and what the last call
                   that returned has handed back                            *)
  result        (* what is handed over, Null before                         *)

vars == <<ctx, ord, st, result>>

Attrs == DOMAIN ctx.cols
Lowest(S) == CHOOSE x \in S : \A y \in S : x <= y

Init ==
  /\ ctx \in Contexts
  /\ ord = CoAddConcept(CoEmpty, ctx.objs, {}, {}, {})
  /\ st = [attr |-> 0, calls |-> << >>, returned |-> Null]
  /\ result = Null

\* From c down, to the first child that holds X as long as there is one.
SmallestContaining(X, c) ==
  LET down[k \in 0 .. ord.n] ==
        IF k = 0 THEN c
        ELSE LET d == down[k - 1]
                 holding == {x \in Children(ord, d) : X \subseteq ord.ext[x]}
             IN  IF holding = {} THEN d ELSE Lowest(holding)
  IN  down[ord.n]

\* A call of add_extent for X from concept c: the children it will look at are
\* those of now, todo, in the order of their numbers.
CallOf(X, c) ==
  LET g == SmallestContaining(X, c)
  IN  [ext |-> X, generator |-> g, todo |-> Children(ord, g), kept |-> {}]

Call == Head(st.calls)

Pushed(X, c) == [st EXCEPT !.calls = <<CallOf(X, c)>> \o @, !.returned = Null]

InsertAttribute ==
  /\ st.calls = << >> /\ st.returned = Null /\ st.attr \in Attrs
  /\ st' = Pushed(ctx.cols[st.attr], 0)
  /\ UNCHANGED <<ctx, ord, result>>

\* The extent is there already.
ReturnEqual ==
  /\ st.calls # << >> /\ Call.ext = ord.ext[Call.generator]
  /\ st' = [st EXCEPT !.calls = Tail(@), !.returned = Call.generator]
  /\ UNCHANGED <<ctx, ord, result>>

Working == st.calls # << >> /\ Call.ext # ord.ext[Call.generator]

\* Mutant: a candidate is kept whatever the others are.
KeepAny(kept, c) == kept \cup {c}

\* The candidates kept are the maximal ones: c is not, if one of them holds
\* it, and takes the place of those it holds.
Keep(kept, c) ==
  IF \E x \in kept : ord.ext[c] \subseteq ord.ext[x] THEN kept
  ELSE {x \in kept : ~ (ord.ext[x] \subseteq ord.ext[c])} \cup {c}

\* The intersection with the next child is inserted from that child: no child
\* holds the whole extent, or the descent would have gone on.
Intersect ==
  /\ Working /\ st.returned = Null /\ Call.todo # {}
  /\ LET c == Lowest(Call.todo)
     IN  st' = Pushed(Call.ext \cap ord.ext[c], c)
  /\ UNCHANGED <<ctx, ord, result>>

TakeChild ==
  /\ Working /\ st.returned # Null
  /\ st' = [st EXCEPT !.calls[1] = [@ EXCEPT !.todo = @ \ {Lowest(@)},
                                             !.kept = Keep(@, st.returned)],
                      !.returned = Null]
  /\ UNCHANGED <<ctx, ord, result>>

\* Concept nc comes between the generator and the children kept.
Between(co, nc, g, kept) ==
  LET cut == FoldSet(LAMBDA k, d : CoRemoveEdge(d, <<k, g>>), co, kept)
  IN  CoAddEdges(cut, {<<k, nc>> : k \in kept} \cup {<<nc, g>>})

NewConcept ==
  /\ Working /\ st.returned = Null /\ Call.todo = {}
  /\ LET g == Call.generator
     IN  ord' = Between(CoAddConcept(ord, Call.ext, ord.int[g], {}, {}), ord.n, g, Call.kept)
  /\ st' = [st EXCEPT !.calls = Tail(@), !.returned = ord.n]
  /\ UNCHANGED <<ctx, result>>

EndAttribute ==
  /\ st.calls = << >> /\ st.returned # Null
  /\ ord' = [ord EXCEPT !.rint[st.returned] = @ \cup {st.attr}]
  /\ st' = [st EXCEPT !.attr = @ + 1, !.returned = Null]
  /\ UNCHANGED <<ctx, result>>

\* The full intents are those of the JSON path; the flat array goes without.
Deliver ==
  /\ st.calls = << >> /\ st.returned = Null /\ st.attr \notin Attrs
  /\ result = Null
  /\ ord' = CoComputeIntents(CoComputeRextents(ord))
  /\ result' = CoToFlat(ord')
  /\ UNCHANGED <<ctx, st>>

Next == \/ InsertAttribute \/ ReturnEqual \/ Intersect \/ TakeChild
        \/ NewConcept \/ EndAttribute \/ Deliver

Spec == Init /\ [][Next]_vars /\ WF_vars(Next)

-----------------------------------------------------------------------------
\* Between two attributes, and at the end, the order is the lattice of the
\* attributes inserted: each of its extents is there once, whatever calls have
\* met it, the edges are the covers and no other, the extremal concepts kept
\* beside them are right, and so are in the end the intents rebuilt from the
\* covers (add_extent, co_compute_intents).
LatticeExact ==
  st.calls = << >> /\ st.returned = Null =>
    /\ {ord.ext[c] : c \in DOMAIN ord.ext} = ExtentsUpTo(ctx, 0 .. st.attr - 1)
    /\ IsCoverOrder([edges |-> SetToBag(ord.edges)], ord.ext)
    /\ ExtremaRight(ord)
    /\ result # Null =>
         \A c \in DOMAIN ord.ext : ord.int[c] = {a \in Attrs : ord.ext[c] \subseteq ctx.cols[a]}
=============================================================================
