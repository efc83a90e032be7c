-------------------------------- MODULE Ares --------------------------------
(***************************************************************************)
(* Ares (algo/ares.c): the AOC-poset of a context, built one attribute at  *)
(* a time.  For attribute a the concepts are visited from the smallest     *)
(* extent up; the concept of a is placed, the concepts that mix objects    *)
(* with and without a are split, and those that introduce nothing any more *)
(* are taken out.                                                          *)
(***************************************************************************)
EXTENDS DynOrder, AocPoset

CONSTANTS Contexts, Null

VARIABLES
  ctx,          (* the context                                              *)
  ord,          (* the order under construction                             *)
  st,           (* the state of the step, AresState                         *)
  result        (* what is handed over, Null before                         *)

vars == <<ctx, ord, st, result>>

M == Cardinality(DOMAIN ctx.cols)

NoConcept == -1

\* Between two attributes: a is the next one.
AtRest(a) == [a |-> a, busy |-> FALSE, todo |-> << >>, sub |-> {}, nonIntro |-> << >>,
              doNotCheck |-> {}, ca |-> NoConcept, own |-> {}]

\* The top concept has all objects, in its reduced extent as well.
InitialOrder == NewConcept(DynEmpty, ctx.objs, ctx.objs, {})

Init ==
  /\ ctx \in Contexts
  /\ ord = InitialOrder
  /\ st = AtRest(0)
  /\ result = Null

BeginAttribute ==
  /\ ~ st.busy /\ st.a < M
  /\ st' = [AtRest(st.a) EXCEPT !.busy = TRUE, !.todo = SortByExtent(ord),
                                !.own = ctx.cols[st.a]]
  /\ UNCHANGED <<ctx, ord, result>>

-----------------------------------------------------------------------------
(* One concept of the linear extension, by how its extent lies to g(a).    *)

GA == ctx.cols[st.a]

Visiting(c) ==
  /\ st.busy /\ st.todo # << >>
  /\ c = Head(st.todo)

Visited == [st EXCEPT !.todo = Tail(@)]

Skipped(c) ==
  \/ c \in ToSet(st.nonIntro) \cup st.doNotCheck
  \/ ord.ext[c] # {} /\ GA # {} /\ ord.ext[c] \cap GA = {}

NothingIntroduced(rext, rint) == rext = {} /\ rint = {}

Skip(c) ==
  /\ Visiting(c) /\ Skipped(c)
  /\ st' = Visited
  /\ UNCHANGED <<ctx, ord, result>>

\* Case 1: the extent is g(a).  The step ends here, the removal of the
\* concepts that introduce nothing included.
VisitEqual(c) ==
  /\ Visiting(c) /\ ~ Skipped(c)
  /\ ord.ext[c] = GA
  /\ ord' = [ord EXCEPT !.rint[c] = @ \cup {st.a}]
  /\ st' = AtRest(st.a + 1)
  /\ UNCHANGED <<ctx, result>>

\* Case 2: a concept below.
VisitBelow(c) ==
  /\ Visiting(c) /\ ~ Skipped(c)
  /\ ord.ext[c] \subseteq GA /\ ord.ext[c] # GA
  /\ st' = [Visited EXCEPT !.sub = @ \cup {c}, !.own = @ \ ReducedExtent(ord, c)]
  /\ UNCHANGED <<ctx, ord, result>>

\* The concept ca of the attribute is created at the first concept c above it
\* (A1): it takes the maximal concepts below, and its objects from c.
Place(d, c, maximal, red) ==
  LET ca == d.n
      placed == NewConcept([d EXCEPT !.rext[c] = (@ \cup red) \ (IF red \cap GA = {} THEN {} ELSE GA)],
                           GA, {}, {st.a})
      under == RemoveEdges(AddEdges(placed, {<<m, ca>> : m \in maximal}),
                           {<<m, c>> : m \in maximal})
  IN  [under EXCEPT !.rext[ca] = ReducedExtent(under, ca)]

\* Case 3: a concept above.  The ancestors of c need no visit (A2).
VisitAbove(c) ==
  /\ Visiting(c) /\ ~ Skipped(c)
  /\ GA \subseteq ord.ext[c] /\ ord.ext[c] # GA
  /\ LET first == st.ca = NoConcept
         red   == ReducedExtent(ord, c)
         d     == IF first THEN Place(ord, c, MaximalOf(ord, st.sub), red) ELSE ord
         ca    == IF first THEN ord.n ELSE st.ca
         linked == RemoveEdges(AddEdges(d, {<<ca, c>>}),
                               {<<x, c>> : x \in Lower(d, ca)})
         emptied == /\ first /\ red \cap GA # {}
                    /\ NothingIntroduced(d.rext[c], d.rint[c])
     IN  /\ ord' = linked
         /\ st' = [Visited EXCEPT
                     !.ca = ca,
                     !.nonIntro = @ \o (IF emptied THEN <<c>> ELSE << >>),
                     !.doNotCheck = @ \cup Upward(linked, {c})]
  /\ UNCHANGED <<ctx, result>>

\* Mutant: the maximal concepts below stay under c as well.
SplitKeepsEdges(c, ec) ==
  LET c2 == ord.n
      maximal == MaximalSelectedDescendants(ord, c, st.sub)
      d == NewConcept([ord EXCEPT !.rext[c] = (@ \cup ReducedExtent(ord, c)) \ ec],
                      ord.ext[c] \cap GA, ec, {})
  IN  AddEdges(d, {<<c2, c>>} \cup {<<x, c2>> : x \in maximal})

\* The concept c2 of the objects of c that have a (A3, A4).
Split(c, ec) ==
  LET c2 == ord.n
      maximal == MaximalSelectedDescendants(ord, c, st.sub)
      d == NewConcept([ord EXCEPT !.rext[c] = (@ \cup ReducedExtent(ord, c)) \ ec],
                      ord.ext[c] \cap GA, ec, {})
      under == AddEdges(d, {<<c2, c>>} \cup {<<x, c2>> : x \in maximal})
  IN  RemoveEdges(RemoveEdges(under, {<<x, c>> : x \in maximal}),
                  {<<x, c>> : x \in Lower(under, c2)})

\* Case 4: neither contains the other.  A concept that introduces no object
\* with a is left alone.
VisitAcross(c) ==
  /\ Visiting(c) /\ ~ Skipped(c)
  /\ ~ (ord.ext[c] \subseteq GA) /\ ~ (GA \subseteq ord.ext[c])
  /\ LET ec == ReducedExtent(ord, c) \cap GA
         d  == Split(c, ec)
     IN  IF ec = {}
         THEN st' = Visited /\ UNCHANGED ord
         ELSE /\ ord' = d
              /\ st' = [Visited EXCEPT
                          !.sub = @ \cup {ord.n},
                          !.nonIntro = @ \o
                            (IF NothingIntroduced(d.rext[c], d.rint[c]) THEN <<c>> ELSE << >>),
                          !.own = @ \ ec]
  /\ UNCHANGED <<ctx, result>>

-----------------------------------------------------------------------------
\* The linear extension ends without a concept above: ca gets the maximal
\* concepts below (A5).
EndVisits ==
  /\ st.busy /\ st.todo = << >> /\ st.ca = NoConcept
  /\ ord' = AddEdges(NewConcept(ord, GA, {}, {st.a}),
                     {<<m, ord.n>> : m \in MaximalOf(ord, st.sub)})
  /\ st' = [st EXCEPT !.ca = ord.n]
  /\ UNCHANGED <<ctx, result>>

\* A child is linked to the parents it does not reach without c.
Reconnect(d, parents, child) ==
  AddEdges(d, {<<child, p>> : p \in parents \ Upward(d, {child})})

\* Concept c is taken out and its children are linked to its parents (A6).
TakeOut(d, c) ==
  LET parents  == Upper(d, c)
      children == Lower(d, c)
      passed == [d EXCEPT !.rint = [x \in DOMAIN d.rint |->
                   IF x \in children THEN d.rint[x] \cup d.rint[c] ELSE d.rint[x]]]
      cut == RemoveEdges(passed, ({c} \X parents) \cup (children \X {c}))
  IN  RemoveConcept(FoldSet(LAMBDA child, acc : Reconnect(acc, parents, child), cut, children), c)

RemoveNonIntroducer(c) ==
  /\ st.busy /\ st.todo = << >> /\ st.ca # NoConcept
  /\ st.nonIntro # << >> /\ c = Head(st.nonIntro)
  /\ ord' = TakeOut(ord, c)
  /\ st' = [st EXCEPT !.nonIntro = Tail(@)]
  /\ UNCHANGED <<ctx, result>>

EndAttribute ==
  /\ st.busy /\ st.todo = << >> /\ st.ca # NoConcept /\ st.nonIntro = << >>
  /\ st' = AtRest(st.a + 1)
  /\ UNCHANGED <<ctx, ord, result>>

Deliver ==
  /\ ~ st.busy /\ st.a = M /\ result = Null
  /\ result' = ToFlat(ord)
  /\ UNCHANGED <<ctx, ord, st>>

Next ==
  \/ BeginAttribute
  \/ \E c \in ord.alive : \/ Skip(c) \/ VisitEqual(c) \/ VisitBelow(c)
                          \/ VisitAbove(c) \/ VisitAcross(c) \/ RemoveNonIntroducer(c)
  \/ EndVisits \/ EndAttribute \/ Deliver

Spec == Init /\ [][Next]_vars /\ WF_vars(Next)
-----------------------------------------------------------------------------
\* Between two attributes the order is the AOC-poset of the attributes seen so
\* far: whatever the step split, linked and took out, nothing is left over for
\* the next one (ares_step, run_ares_flat).
StepExact ==
  ~ st.busy =>
    IsAocPoset([objs |-> ctx.objs, cols |-> [b \in 0 .. st.a - 1 |-> ctx.cols[b]]],
               ToFlat(ord))
=============================================================================
