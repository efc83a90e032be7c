--------------------------- MODULE RoaringLattice ---------------------------
(***************************************************************************)
(* The roaring variant of the native lattice kernel (build_lattice_cbo in  *)
(* latticecbo.c).  Threads take the first attribute of a subtree from a    *)
(* counter and explore that subtree alone; joined, they leave their        *)
(* concepts to the main thread, which numbers them.  Three more teams of   *)
(* threads follow: one converts a slice of the extents each, one looks for *)
(* the covers and one for the reduced extents, batch by batch.             *)
(*                                                                         *)
(* A thread shares nothing but the counter, so what it does with what it   *)
(* has taken is one step, but for the exploration of a subtree.            *)
(***************************************************************************)
EXTENDS NativeConceptOrder, AocPoset

CONSTANTS
  Contexts, Null,
  ThreadCounts,     (* what detect_nthreads may return                      *)
  Batch             (* COVER_BATCH                                          *)

VARIABLES
  ctx,          (* the context                                              *)
  ord,          (* the order co                                             *)
  st,           (* the phase, its team of threads and its shared counter    *)
  result        (* what is handed over, Null before                         *)

vars == <<ctx, ord, st, result>>

M == Cardinality(DOMAIN ctx.cols)

F == INSTANCE CoverAlgorithm WITH Objects <- ctx.objs

AtMost(n, bound) == IF n > bound THEN bound ELSE n
AtLeast(n, bound) == IF n < bound THEN bound ELSE n

\* A thread: the calls of cbo_enum_local under way, what it hands over, and
\* whether it has ended.
Thread == [calls |-> << >>, out |-> << >>, over |-> FALSE]

\* No more threads than there is to share out, and one in any case.
Team(asked, shares) == [t \in 1 .. AtLeast(AtMost(asked, shares), 1) |-> Thread]

Init ==
  /\ ctx \in Contexts
  /\ ord = CoEmpty
  /\ result = Null
  /\ \E asked \in ThreadCounts :
       st = [phase |-> "enumerate", asked |-> asked, next |-> 0, words |-> << >>,
             team |-> IF M = 0 THEN [t \in 1 .. asked |-> Thread] ELSE Team(asked, M)]

In(phase, t) == st.phase = phase /\ t \in DOMAIN st.team /\ ~ st.team[t].over
AllOver == \A t \in DOMAIN st.team : st.team[t].over

\* The next phase and its team.
Begin(phase, shares) ==
  [st EXCEPT !.phase = phase, !.next = 0, !.team = Team(st.asked, shares)]

-----------------------------------------------------------------------------
(* The enumeration.                                                        *)

\* The subtree that the counter stands for.
NextSubtree == [F!Root(ctx.cols) EXCEPT !.i = st.next]

\* A child is stored, and explored from now on.
Entered(thread, child) ==
  [thread EXCEPT !.calls = Append(@, child), !.out = Append(@, F!AsConcept(child))]

\* enum_thread takes an attribute of the first level: all are taken, or its
\* child is canonical or not.
Claim(t) ==
  /\ In("enumerate", t) /\ st.team[t].calls = << >>
  /\ st' = [st EXCEPT
              !.next = @ + 1,
              !.team[t] = IF st.next >= M THEN [@ EXCEPT !.over = TRUE]
                          ELSE IF F!Canonical(ctx.cols, NextSubtree)
                               THEN Entered(@, F!Child(ctx.cols, NextSubtree))
                          ELSE @]
  /\ UNCHANGED <<ctx, ord, result>>

\* Mutant: the call that returns takes its callers with it.
CallersGone(calls) == << >>

\* The calls that are left when the last one returns.
Callers(calls) == Front(calls)

\* The loop of cbo_enum_local, one attribute on.
Explore(t) ==
  /\ In("enumerate", t) /\ st.team[t].calls # << >>
  /\ LET calls == st.team[t].calls
         n == Last(calls)
         going == Append(Front(calls), F!Advance(n))
     IN  st' = [st EXCEPT !.team[t] =
                  IF n.i = M THEN [@ EXCEPT !.calls = Callers(calls)]
                  ELSE IF F!Canonical(ctx.cols, n)
                       THEN Entered([@ EXCEPT !.calls = going], F!Child(ctx.cols, n))
                  ELSE [@ EXCEPT !.calls = going]]
  /\ UNCHANGED <<ctx, ord, result>>

\* The threads are joined: top gets number 0, and the others follow.
Merge ==
  /\ st.phase = "enumerate" /\ AllOver
  /\ LET found == <<F!Top(ctx.cols)>> \o FlattenSeq([t \in DOMAIN st.team |-> st.team[t].out])
     IN  /\ ord' = FoldLeft(LAMBDA co, c : CoAddConcept(co, c.ext, c.int, {}, {}), CoEmpty, found)
         /\ st' = Begin("convert", Len(found))
  /\ UNCHANGED <<ctx, result>>

-----------------------------------------------------------------------------
(* The order of the concepts.                                              *)

\* The concepts of thread t, c_start to c_end (cchunk).
Slice(t) ==
  LET chunk == (ord.n + Len(st.team) - 1) \div Len(st.team)
  IN  (t - 1) * chunk .. AtMost(t * chunk, ord.n) - 1

\* conv_thread: what all_words holds of the others is not there to be read.
Convert(t) ==
  /\ In("convert", t)
  /\ st' = [st EXCEPT !.words = [c \in DOMAIN @ \cup Slice(t) |->
                                   IF c \in Slice(t) THEN ord.ext[c] ELSE @[c]],
                      !.team[t].over = TRUE]
  /\ UNCHANGED <<ctx, ord, result>>

\* wmap_get, -1 when no concept has the extent.
WmapGet(X) ==
  LET found == {c \in DOMAIN st.words : st.words[c] = X}
  IN  IF found = {} THEN -1 ELSE CHOOSE c \in found : \A d \in found : c >= d

\* The conversion is joined: each attribute goes to the concept it introduces.
ReduceIntents ==
  /\ st.phase = "convert" /\ AllOver
  /\ ord' = [ord EXCEPT !.rint = [c \in DOMAIN @ |-> {a \in DOMAIN ctx.cols : WmapGet(ctx.cols[a]) = c}]]
  /\ st' = Begin("covers", ord.n)
  /\ UNCHANGED <<ctx, result>>

Irr == SetToSortSeq({a \in DOMAIN ctx.cols : F!Irreducible(ctx.cols, a)}, <)

\* The edges of concept c, found without its intent.
LowerEdges(c) ==
  LET found == F!LowerCovers(ctx.cols, Irr, st.words[c], {})
      all == [k \in DOMAIN found |-> <<WmapGet(found[k]), c>>]
  IN  SelectSeq(all, LAMBDA e : e[1] >= 0 /\ e[1] # c)

\* The numbers of the batch a thread takes from the counter.
Taken == st.next .. AtMost(st.next + Batch, ord.n) - 1

\* cover_thread on a batch.
Cover(t) ==
  /\ In("covers", t)
  /\ st' = [st EXCEPT
              !.next = @ + Batch,
              !.team[t] = IF st.next >= ord.n THEN [@ EXCEPT !.over = TRUE]
                          ELSE [@ EXCEPT !.out = @ \o FlattenSeq(
                                 [k \in 1 .. Cardinality(Taken) |-> LowerEdges(st.next + k - 1)])]]
  /\ UNCHANGED <<ctx, ord, result>>

\* Joined: the main thread adds the edges.
AddAllEdges ==
  /\ st.phase = "covers" /\ AllOver
  /\ ord' = CoAddEdges(ord, UNION {ToSet(st.team[t].out) : t \in DOMAIN st.team})
  /\ st' = Begin("rextents", ord.n)
  /\ UNCHANGED <<ctx, result>>

\* rex_thread on a batch: the extents less those of the children.
Rextents(t) ==
  /\ In("rextents", t)
  /\ st' = [st EXCEPT !.next = @ + Batch, !.team[t].over = st.next >= ord.n]
  /\ ord' = [ord EXCEPT !.rext =
               [c \in DOMAIN @ |->
                  IF c \in Taken
                  THEN st.words[c] \ UNION {st.words[x] : x \in Children(ord, c)}
                  ELSE @[c]]]
  /\ UNCHANGED <<ctx, result>>

Deliver ==
  /\ st.phase = "rextents" /\ AllOver
  /\ result = Null
  /\ result' = CoToFlat(ord)
  /\ UNCHANGED <<ctx, ord, st>>

Next ==
  \/ \E t \in DOMAIN st.team : Claim(t) \/ Explore(t) \/ Convert(t) \/ Cover(t) \/ Rextents(t)
  \/ Merge \/ ReduceIntents \/ AddAllEdges \/ Deliver

Spec == Init /\ [][Next]_vars /\ WF_vars(Next)

-----------------------------------------------------------------------------
\* While the threads enumerate, every concept but top is in the vector of one
\* thread, or still to be found from one call under way or from the counter:
\* none is lost between two claims, none is found by two (enum_thread,
\* cbo_enum_local).
EachAnsweredOnce ==
  st.phase = "enumerate" =>
    \A c \in F!Concepts(ctx.cols) \ {F!Top(ctx.cols)} :
      LET Below(n) == F!Below(ctx.cols, n, c)
          calls == UNION {{t} \X {k \in DOMAIN st.team[t].calls : Below(st.team[t].calls[k])} :
                            t \in DOMAIN st.team}
          outs  == UNION {{t} \X {k \in DOMAIN st.team[t].out : st.team[t].out[k] = c} :
                            t \in DOMAIN st.team}
      IN  1 = Cardinality(calls) + Cardinality(outs) + (IF Below(NextSubtree) THEN 1 ELSE 0)
=============================================================================
