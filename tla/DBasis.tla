------------------------------- MODULE DBasis -------------------------------
(***************************************************************************)
(* The D-basis of a context and its reduction to the E-basis               *)
(* (algo/dbasis.c, with core/clarification.c, core/graph.c and             *)
(* core/tarjan.c).  Equal attributes are merged and the implications with  *)
(* one premise come from the order of the columns; those with more are     *)
(* found for each attribute apart, by threads that take the attributes     *)
(* from a queue and put together what they found when it is empty.         *)
(***************************************************************************)
EXTENDS ImplicationBasis

CONSTANTS
  Inputs,       (* records of a context ctx, and of support and threads,
                   min_support and max_threads                              *)
  Null

VARIABLES
  input,        (* one of Inputs                                            *)
  st,           (* what compute_dbasis_impls has prepared                   *)
  head,         (* wd.queue_head, the next attribute to be taken            *)
  workers,      (* for each thread its attribute and what it has found      *)
  nonBinary,    (* what the threads have put together                       *)
  result        (* what is handed over, Null before                         *)

vars == <<input, st, head, workers, nonBinary, result>>

ctx == input.ctx
MinOf(S) == CHOOSE x \in S : \A y \in S : x <= y

-----------------------------------------------------------------------------
(* Clarification, the order of the attributes, closures.                   *)

\* The classes of equal attributes, numbered by their least members.
AttrClasses ==
  LET classes == {{b \in Attrs(ctx) : ctx.cols[b] = ctx.cols[a]} : a \in Attrs(ctx)}
      s == SetToSortSeq(classes, LAMBDA X, Y : MinOf(X) < MinOf(Y))
  IN  [c \in 0 .. Len(s) - 1 |-> s[c + 1]]

ClarifiedBy(classes) ==
  [objs |-> ctx.objs, cols |-> [c \in DOMAIN classes |-> ctx.cols[MinOf(classes[c])]]]

\* Each member of a class gives its first, and is given by it.
EqualityBasis(classes) ==
  UNION {LET first == MinOf(classes[c])
         IN  UNION {{[premise |-> {a}, conclusion |-> {first}],
                     [premise |-> {first}, conclusion |-> {a}]} : a \in classes[c] \ {first}} :
           c \in DOMAIN classes}

AlwaysTrue(cl) == {a \in Attrs(cl) : cl.cols[a] = cl.objs}

\* The edges a1 -> a2 of the attribute graph.
ColumnOrder(cl) ==
  {e \in (Attrs(cl) \ AlwaysTrue(cl)) \X Attrs(cl) :
     e[1] # e[2] /\ cl.cols[e[1]] \subseteq cl.cols[e[2]]}

BinaryPremises(cl, a) == {e[1] : e \in {x \in ColumnOrder(cl) : x[2] = a}}

\* In place, vertex after vertex: an edge goes when its target is reached over
\* another one (transitive_reduction).
TransitiveReduction(G, n) ==
  LET From(g, S) == {e[2] : e \in {x \in g : x[1] \in S}}
      Reachable(g, u) ==
        LET reach[k \in 0 .. n] ==
              IF k = 0 THEN From(g, From(g, {u}))
              ELSE LET r == reach[k - 1] IN r \cup From(g, r)
        IN  reach[n]
  IN  FoldLeft(LAMBDA g, u : LET gone == Reachable(g, u) IN {e \in g : e[1] # u \/ e[2] \notin gone},
               G, [i \in 1 .. n |-> i - 1])

BinaryBasis(cl) ==
  LET full == AlwaysTrue(cl)
      graph == {e \in ColumnOrder(cl) : e[2] \notin full}
  IN  {[premise |-> {}, conclusion |-> {a}] : a \in full}
      \cup {[premise |-> {e[1]}, conclusion |-> {e[2]}] :
              e \in TransitiveReduction(graph, Cardinality(Attrs(cl)))}

-----------------------------------------------------------------------------
(* The implications of one attribute with more than one premise.           *)

\* What an object without the target lacks, but for the target and what gives
\* it alone; the smallest sets first.
Edges(cl, target, binaryPremises) ==
  LET lacks(o) == (Attrs(cl) \ Row(cl, o)) \ ({target} \cup binaryPremises)
      objs == SetToSeq(cl.objs \ cl.cols[target])
  IN  SortSeq([k \in DOMAIN objs |-> lacks(objs[k])],
              LAMBDA X, Y : Cardinality(X) < Cardinality(Y))

\* A member of S hits no edge alone.
Redundant(edges, S) ==
  \E a \in S : \A k \in DOMAIN edges : a \in edges[k] => edges[k] \cap S # {a}

\* The sets found from S that hit the edges from k on (generate_covers).
RECURSIVE Transversals(_, _, _)
Transversals(edges, k, S) ==
  LET open == {j \in k .. Len(edges) : edges[j] \cap S = {}}
  IN  IF open = {} THEN {S}
      ELSE LET e == MinOf(open)
           IN  UNION {Transversals(edges, e + 1, S \cup {a}) :
                        a \in {b \in edges[e] : ~ Redundant(edges, S \cup {b})}}

\* None when an edge is empty: no set hits it.
MinimalGenerators(cl, target, binaryPremises) ==
  LET edges == Edges(cl, target, binaryPremises)
  IN  IF edges = << >> \/ \E k \in DOMAIN edges : edges[k] = {} THEN {}
      ELSE Transversals(edges, 1, {})

\* One generator after the other is removed, when one still there is among
\* what its members give alone (compute_minimal_covers); cmp_gen_result, by
\* size, then by their attributes, is the order.
CoversAmong(gens, closures) ==
  LET Before(g, h) ==
        \/ Cardinality(g) < Cardinality(h)
        \/ Cardinality(g) = Cardinality(h) /\ g # h /\ MinOf((g \ h) \cup (h \ g)) \in g
      s == SetToSortSeq(gens, Before)
      Around(g) == IF Cardinality(g) > 1 THEN g \cup UNION {closures[a] : a \in g} ELSE g
      left == FoldLeft(LAMBDA kept, g : IF \E h \in kept \ {g} : h \subseteq Around(g)
                                        THEN kept \ {g} ELSE kept,
                       gens, s)
  IN  SelectSeq(s, LAMBDA g : g \in left)

NonBinaryOf(a) ==
  LET covers == CoversAmong(MinimalGenerators(st.cl, a, st.binaryPremises[a]), st.closures)
      larger == SelectSeq(covers, LAMBDA P : Cardinality(P) > 1)
  IN  [k \in DOMAIN larger |-> [premise |-> larger[k], conclusion |-> {a}]]

-----------------------------------------------------------------------------
NoAttribute == -1

Init ==
  /\ input \in Inputs
  /\ st = Null
  /\ head = 0 /\ workers = << >> /\ nonBinary = << >>
  /\ result = Null

\* Steps 1 to 3 of the pipeline, and the threads: with one, or one attribute,
\* the loop of the caller itself.
Prepare ==
  /\ st = Null
  /\ LET classes == AttrClasses
         cl == ClarifiedBy(classes)
         n == Cardinality(Attrs(cl))
         threads == IF input.threads = 1 \/ n <= 1 THEN 1
                    ELSE IF input.threads > n THEN n ELSE input.threads
     IN  /\ st' = [classes |-> classes, cl |-> cl,
                   binaryPremises |-> [a \in Attrs(cl) |-> BinaryPremises(cl, a)],
                   closures |-> [a \in Attrs(cl) |-> ClosureOf(cl, {a})]]
         /\ workers' = [t \in 1 .. threads |->
                          [attr |-> NoAttribute, found |-> << >>, busy |-> TRUE]]
  /\ UNCHANGED <<input, head, nonBinary, result>>

\* The next attribute of the queue, under its mutex.
Take(t) ==
  /\ workers[t].busy /\ workers[t].attr = NoAttribute /\ head < Cardinality(Attrs(st.cl))
  /\ workers' = [workers EXCEPT ![t].attr = head]
  /\ head' = head + 1
  /\ UNCHANGED <<input, st, nonBinary, result>>

\* On private copies.
Work(t) ==
  /\ workers[t].attr # NoAttribute
  /\ workers' = [workers EXCEPT ![t].found = @ \o NonBinaryOf(workers[t].attr),
                                ![t].attr = NoAttribute]
  /\ UNCHANGED <<input, st, head, nonBinary, result>>

\* Mutant: what the other threads have put there goes.
HandInAlone(t) ==
  /\ workers[t].busy /\ workers[t].attr = NoAttribute /\ head >= Cardinality(Attrs(st.cl))
  /\ nonBinary' = workers[t].found
  /\ workers' = [workers EXCEPT ![t] = [@ EXCEPT !.found = << >>, !.busy = FALSE]]
  /\ UNCHANGED <<input, st, head, result>>

\* The queue is empty: what was found goes to the others', under the mutex.
HandIn(t) ==
  /\ workers[t].busy /\ workers[t].attr = NoAttribute /\ head >= Cardinality(Attrs(st.cl))
  /\ nonBinary' = nonBinary \o workers[t].found
  /\ workers' = [workers EXCEPT ![t] = [@ EXCEPT !.found = << >>, !.busy = FALSE]]
  /\ UNCHANGED <<input, st, head, result>>

-----------------------------------------------------------------------------
(* The basis of the original context.                                      *)

\* A class becomes its first member again (convert_to_original).
ToOriginal(S) == {MinOf(st.classes[c]) : c \in S}

Rewritten(i) == Implication(ctx, ToOriginal(i.premise), ToOriginal(i.conclusion))

\* A conclusion leads to the members of its premises; is there a way back
\* (find_dcycles)?
HasDCycle(impls) ==
  LET D == UNION {i.conclusion \X i.premise : i \in impls}
      n == Cardinality(Attrs(ctx))
      reach[k \in 0 .. n] ==
        IF k = 0 THEN D
        ELSE LET r == reach[k - 1]
             IN  r \cup {<<p[1][1], p[2][2]>> : p \in {q \in r \X D : q[1][2] = q[2][1]}}
  IN  \E a \in Attrs(ctx) : <<a, a>> \in reach[n]

\* Mutant: cycles are not looked for.
EBasisAnyway(impls) ==
  {i \in impls : \A j \in impls :
     j.conclusion = i.conclusion =>
       ~ (/\ ClosureOf(ctx, j.premise) \subseteq ClosureOf(ctx, i.premise)
          /\ ClosureOf(ctx, j.premise) # ClosureOf(ctx, i.premise))}

\* Without a cycle an implication goes when another one with its conclusion
\* has a premise with a strictly smaller closure (build_ebasis).
EBasis(impls) ==
  IF HasDCycle(impls) THEN impls
  ELSE {i \in impls : \A j \in impls :
          j.conclusion = i.conclusion =>
            ~ (/\ ClosureOf(ctx, j.premise) \subseteq ClosureOf(ctx, i.premise)
               /\ ClosureOf(ctx, j.premise) # ClosureOf(ctx, i.premise))}

Frequent(impls) == {i \in impls : i.support >= input.support}

\* When all threads are joined.
Finish ==
  /\ st # Null /\ \A t \in DOMAIN workers : ~ workers[t].busy
  /\ result = Null
  /\ LET equal  == {Implication(ctx, i.premise, i.conclusion) : i \in EqualityBasis(st.classes)}
         binary == {Rewritten(i) : i \in BinaryBasis(st.cl)}
         larger == {Rewritten(nonBinary[k]) : k \in DOMAIN nonBinary}
     IN  result' = equal \cup binary \cup EBasis(Frequent(larger))
  /\ UNCHANGED <<input, st, head, workers, nonBinary>>

Next ==
  \/ Prepare \/ Finish
  \/ \E t \in DOMAIN workers : Take(t) \/ Work(t) \/ HandIn(t)

Spec == Init /\ [][Next]_vars /\ WF_vars(Next)

-----------------------------------------------------------------------------
\* Whatever the threads have taken, worked on and handed in: what they hold
\* and what is put together is, each implication once, the D-basis of the
\* attributes worked on (dbasis_worker, compute_non_binary_basis_for_attr).
MinimalCoversExact ==
  st # Null =>
    LET taken == {workers[t].attr : t \in DOMAIN workers} \ {NoAttribute}
        held  == FoldLeft(LAMBDA s, w : s \o w.found, nonBinary, workers)
    IN  /\ Cardinality(ToSet(held)) = Len(held)
        /\ ToSet(held) =
             {[premise |-> P, conclusion |-> {a}] :
                <<P, a>> \in UNION {MinimalCoversOf(st.cl, a) \X {a} : a \in (0 .. head - 1) \ taken}}
=============================================================================
