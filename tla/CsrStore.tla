------------------------------ MODULE CsrStore ------------------------------
(***************************************************************************)
(* CsrConceptOrder under any sequence of its operations.  The class is     *)
(* "build-once": its callers add concepts before edges and before the      *)
(* first read, add and remove edges before they ask for full sets, and     *)
(* never close a cycle.                                                    *)
(***************************************************************************)
EXTENDS CsrConceptOrder

CONSTANTS
  MaxConcepts, MaxEdges     (* bounds on what is added                      *)

\* Concept c introduces object c and attribute MaxConcepts + c.
Items == 0 .. 2 * MaxConcepts - 1

AddOne ==
  /\ ~csr.built /\ buf = <<>> /\ n < MaxConcepts
  /\ AddConcept(Null, Null, {n}, {MaxConcepts + n})

\* No full set has been asked for yet.
NoFullSets == \A c \in Ids : extents[c] = Null /\ intents[c] = Null

\* An edge up to a concept from which no chain leads back.
AddEdge ==
  /\ NoFullSets /\ Len(buf) < MaxEdges
  /\ \E e \in Ids \X Ids :
       <<e[2], e[1]>> \notin UpTo(n, buf) /\ AddEdges(<<e>>)

RemoveOne == NoFullSets /\ \E e \in ToSet(buf) : RemoveEdge(e)

StoreInit == Empty

StoreNext ==
  \/ AddOne \/ AddEdge \/ RemoveOne
  \/ Read \/ ComputeIntents \/ ComputeExtents
  \/ Dual \/ Reduce \/ Closure

StoreSpec == StoreInit /\ [][StoreNext]_storeVars

-----------------------------------------------------------------------------
(***************************************************************************)
(* Properties.                                                             *)
(***************************************************************************)

\* Whatever was changed since it was built, the adjacency that answers a read
\* is the one the edge buffer stands for.
CsrFresh == csr.built => csr = BuildCsr

\* The order of the bottom-up and top-down iterators: every concept once, and
\* none before a concept below it ("minimals first (bottom-up)").
TopoComplete ==
  LET order == TopoBottomUp
      place(c) == CHOOSE k \in DOMAIN order : order[k] = c
  IN  /\ Len(order) = n /\ ToSet(order) = Ids
      /\ \A k \in DOMAIN buf : place(buf[k][1]) < place(buf[k][2])

\* One pass from the top hands every attribute down to all the concepts below
\* the one that introduces it, however long the way, and to no other; one pass
\* from the bottom hands the objects up.  What was materialised stays right
\* when the order is reduced, closed or turned upside down.
FullSetsRight ==
  LET full == FullSets([n |-> n, edges |-> buf, rext |-> rextents, rint |-> rintents])
  IN  \A c \in Ids : /\ extents[c] \in {Null, full[c].ext}
                     /\ intents[c] \in {Null, full[c].int}

\* The reduction has the same chains and no edge that a chain replaces; the
\* closure has an edge for each chain, once.
ReduceExact ==
  [][Reduce =>
       /\ UpTo(n, buf') = UpTo(n, buf)
       /\ \A e \in ToSet(buf') :
            e \notin UpTo(n, Without(buf', {e}))]_storeVars

ClosureExact ==
  [][Closure =>
       /\ ToSet(buf') = {p \in UpTo(n, buf) : p[1] # p[2]}
       /\ Len(buf') = Cardinality(ToSet(buf'))]_storeVars
=============================================================================
