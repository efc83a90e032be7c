----------------------------- MODULE MCCsrStore -----------------------------
(***************************************************************************)
(* CsrStore, begun empty and filled in with every acyclic list of edges on *)
(* three concepts, duplicates and shortcuts included; and begun with each  *)
(* of the acyclic graphs on four concepts, every shape that the            *)
(* traversals, the reduction and the closure can meet there.               *)
(***************************************************************************)
EXTENDS CsrStore

CONSTANT DagSize

Pairs == {p \in (0 .. DagSize - 1) \X (0 .. DagSize - 1) : p[1] # p[2]}

Acyclic(E) == \A e \in E : <<e[2], e[1]>> \notin UpTo(DagSize, SetToSeq(E))

DagInit ==
  /\ n = DagSize
  /\ extents = [c \in Ids |-> Null] /\ intents = [c \in Ids |-> Null]
  /\ rextents = [c \in Ids |-> {c}]
  /\ rintents = [c \in Ids |-> {DagSize + c}]
  /\ \E E \in {G \in SUBSET Pairs : \A p \in G : <<p[2], p[1]>> \notin G} :
       Acyclic(E) /\ buf = SetToSeq(E)
  /\ csr = NoCsr

MCInit == StoreInit \/ DagInit

\* The four concepts stay the graph they are, but for what the operations do.
MCNext ==
  \/ n < DagSize /\ StoreNext
  \/ n = DagSize /\ (Read \/ Dual \/ Reduce \/ Closure)

MCSpec == MCInit /\ [][MCNext]_storeVars
=============================================================================
