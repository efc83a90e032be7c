---------------------------- MODULE LatticeCovers ----------------------------
(***************************************************************************)
(* From the list of concepts to the lattice: what build_lattice_cbo_csr    *)
(* (latticecbo.c) does once the enumeration is over.  Three parallel       *)
(* passes over the concepts, each shared out as BatchCursor says, with     *)
(* sequential work of the main thread between them:                        *)
(*   digest  cardinality and hash of each extent;                          *)
(*   covers  the lower covers of each concept, as edges in a vector of the *)
(*           thread's own;                                                 *)
(*   rex     the objects of each concept that none of its children has, as *)
(*           pairs in a vector of the thread's own;                        *)
(* then the result is laid out as one array of integers.                   *)
(*                                                                         *)
(* Objects and concepts are numbered from 0.                               *)
(***************************************************************************)
EXTENDS CoverAlgorithm

CONSTANTS
  NThreads, MaxSize, Batch, IntMax,       (* see BatchCursor                *)
  Inputs        (* the contexts with their concepts, as enumerated          *)

\* A list of all the concepts, in any order but for top, which comes first.
ASSUME InputsAssumption ==
  \A i \in Inputs :
    /\ i.cols \in AllContexts
    /\ i.concepts \in Seq(Concepts(i.cols))
    /\ ToSet(i.concepts) = Concepts(i.cols)
    /\ Len(i.concepts) = Cardinality(Concepts(i.cols))
    /\ i.concepts[1] = Top(i.cols)
    /\ Len(i.concepts) <= MaxSize
ASSUME ObjectsAssumption == IsFiniteSet(Objects) /\ Objects = 0 .. Cardinality(Objects) - 1
\* What BatchCursor asks for.
ASSUME ThreadsAssumption == NThreads \in Nat \ {0}
ASSUME BatchAssumption   == Batch \in Nat \ {0} /\ IntMax \in Nat
ASSUME RoomAssumption == MaxSize \in Nat /\ MaxSize - 1 + Batch * (NThreads + 1) <= IntMax

VARIABLES
  cols, concepts,               (* the input, never changed                 *)
  phase,                        (* "digest", "covers", "rex" or "done"      *)
  cursor, at, stop, pc, handled,          (* the pass under way             *)
  card,         (* all_card; -1 where not written yet                       *)
  attrConcept,  (* attr_concept: the concept each attribute introduces      *)
  edges,        (* edges[t]: the (child, parent) pairs of thread t          *)
  edgePairs,    (* the edges of all threads                                 *)
  pairs,        (* pairs[t]: the (concept, object) pairs of thread t        *)
  rexCard,      (* the number of those pairs for each concept               *)
  flat          (* the array returned                                       *)

passVars == <<cursor, at, stop, pc, handled>>
vars == <<cols, concepts, phase, passVars, card, attrConcept, edges, edgePairs,
          pairs, rexCard, flat>>

C == INSTANCE BatchCursor WITH total <- Len(concepts)

Threads == C!Threads

N == Len(concepts)
Ids == 0 .. N - 1
ExtentOf(c) == concepts[c + 1].ext
IntentOf(c) == concepts[c + 1].int

-----------------------------------------------------------------------------
\* Mutant: the sizes are compared instead of the extents.
WmapGetBySize(X) == Max({c \in Ids : card[c] = Cardinality(X)} \cup {-1})

\* wmap_get: the concept whose extent is X, -1 if there is none.  The digest
\* writes a concept's hash together with its cardinality.
WmapGet(X) == Max({c \in Ids : card[c] >= 0 /\ ExtentOf(c) = X} \cup {-1})

Irr == Increasing({a \in Attributes : Irreducible(cols, a)})

\* The edges cover_thread pushes for concept c.
LowerEdges(c) ==
  LET found == LowerCovers(cols, Irr, ExtentOf(c), IntentOf(c))
      all == [k \in DOMAIN found |-> <<WmapGet(found[k]), c>>]
  IN  Pick(all, {k \in DOMAIN all : all[k][1] >= 0 /\ all[k][1] # c})

\* childrenPtr, childrenAdj.
Children(c) == Bucket(Swap(edgePairs), c)

\* The extent of c less those of its children, in the order of its bits.
ReducedExtent(c) ==
  Increasing(ExtentOf(c) \ UNION {ExtentOf(d) : d \in ToSet(Children(c))})

-----------------------------------------------------------------------------
Init ==
  /\ \E i \in Inputs : cols = i.cols /\ concepts = i.concepts
  /\ phase = "digest"
  /\ C!Init
  /\ card = [c \in Ids |-> -1]
  /\ attrConcept = <<>>
  /\ edges = [t \in Threads |-> <<>>]
  /\ edgePairs = <<>>
  /\ pairs = [t \in Threads |-> <<>>]
  /\ rexCard = [c \in Ids |-> 0]
  /\ flat = <<>>

\* A thread between two concepts.
Move(t) ==
  /\ UNCHANGED <<cols, concepts, phase, card, attrConcept, edges, edgePairs,
                 pairs, rexCard, flat>>
  /\ C!Fetch(t) \/ C!FetchEnd(t) \/ C!BatchDone(t)

\* digest_thread on one concept.
Digest(t) ==
  /\ UNCHANGED <<cols, concepts, phase, attrConcept, edges, edgePairs, pairs,
                 rexCard, flat>>
  /\ phase = "digest" /\ C!Handle(t)
  /\ card' = [card EXCEPT ![at[t]] = Cardinality(ExtentOf(at[t]))]

\* The digest threads are joined: extents to ids, attributes to concepts.
StartCovers ==
  /\ phase = "digest"
  /\ UNCHANGED <<cols, concepts, card, edges, edgePairs, pairs, rexCard, flat>>
  /\ attrConcept' = [a \in Attributes |-> WmapGet(cols[a])]
  /\ phase' = "covers"
  /\ C!Restart

\* cover_thread on one concept.
Cover(t) ==
  /\ UNCHANGED <<cols, concepts, phase, card, attrConcept, edgePairs, pairs,
                 rexCard, flat>>
  /\ phase = "covers" /\ C!Handle(t)
  /\ edges' = [edges EXCEPT ![t] = @ \o LowerEdges(at[t])]

\* The cover threads are joined: their edges one after the other.
StartRex ==
  /\ phase = "covers"
  /\ UNCHANGED <<cols, concepts, card, attrConcept, edges, pairs, rexCard, flat>>
  /\ edgePairs' = FlattenSeq(edges)
  /\ phase' = "rex"
  /\ C!Restart

\* rex_csr_thread on one concept.
Rex(t) ==
  LET c == at[t]
      objs == ReducedExtent(c)
  IN  /\ UNCHANGED <<cols, concepts, phase, card, attrConcept, edges, edgePairs,
                     flat>>
      /\ phase = "rex" /\ C!Handle(t)
      /\ pairs' = [pairs EXCEPT ![t] =
                     @ \o [k \in DOMAIN objs |-> <<c, objs[k]>>]]
      /\ rexCard' = [rexCard EXCEPT ![c] = Len(objs)]

\* rexPtr, the counts summed up, and rexAdj, from the pairs of all threads.
RexPtr ==
  LET ptr[c \in 0 .. N] == IF c = 0 THEN 0 ELSE ptr[c - 1] + rexCard[c - 1]
  IN  ptr

RexAdj == FlattenSeq([k \in 1 .. N |-> Bucket(FlattenSeq(pairs), k - 1)])

\* The reduced extents and intents of the concepts in order.
Rexts == [k \in 1 .. N |-> SubSeq(RexAdj, RexPtr[k - 1] + 1, RexPtr[k])]
Rints == [k \in 1 .. N |-> Increasing({a \in Attributes : attrConcept[a] = k - 1})]

\* The rex threads are joined: csr_to_flat_array.
Deliver ==
  /\ phase = "rex" /\ C!Joined
  /\ flat' = Encode(edgePairs, Rexts, Rints)
  /\ phase' = "done"
  /\ UNCHANGED <<cols, concepts, passVars, card, attrConcept, edges, edgePairs,
                 pairs, rexCard>>

Step(t) == Move(t) \/ Digest(t) \/ Cover(t) \/ Rex(t)

Terminated == phase = "done" /\ UNCHANGED vars

Next ==
  \/ \E t \in Threads : Step(t)
  \/ StartCovers \/ StartRex \/ Deliver
  \/ Terminated

Spec == Init /\ [][Next]_vars
-----------------------------------------------------------------------------
(***************************************************************************)
(* Properties.                                                             *)
(***************************************************************************)

\* d is just below c: nothing lies strictly between them.
Covers(c, d) ==
  LET below(x, y) == ExtentOf(x) \subseteq ExtentOf(y) /\ x # y
  IN  below(d, c) /\ ~ \E e \in Ids : below(d, e) /\ below(e, c)

\* The edges are those of the Hasse diagram, each of them once ("couvertures
\* inferieures directes (Hasse)"), whichever threads found them: looking at
\* the irreducible attributes only, and at sizes before inclusion, loses none.
CoversExact ==
  phase \in {"rex", "done"} =>
    /\ ToSet(edgePairs) = {e \in Ids \X Ids : Covers(e[2], e[1])}
    /\ Len(edgePairs) = Cardinality(ToSet(edgePairs))

\* Whichever threads found them, each attribute is in the reduced intent of one
\* concept, the largest that has it ("un attribut = 1 concept au plus"), equal
\* columns sharing it, and each object in the reduced extent "d'EXACTEMENT un
\* concept : son concept-objet, le plus petit contenant o".
IntroducedOnce ==
  /\ phase # "digest" =>
       \A a \in Attributes :
         /\ attrConcept[a] \in Ids
         /\ a \in IntentOf(attrConcept[a])
         /\ \A c \in Ids :
              a \in IntentOf(c) => ExtentOf(c) \subseteq ExtentOf(attrConcept[a])
  /\ phase = "done" =>
       \A o \in Objects :
         LET all == FlattenSeq(pairs)
             entries == {k \in DOMAIN all : all[k][2] = o}
         IN  /\ Cardinality(entries) = 1
             /\ \A k \in entries :
                  /\ o \in ExtentOf(all[k][1])
                  /\ \A c \in Ids :
                       o \in ExtentOf(c) => ExtentOf(all[k][1]) \subseteq ExtentOf(c)

\* The array has the length csr_to_flat_array computes beforehand, 2 for the
\* header, two ints an edge, two counts a concept, and one entry for each
\* object and each attribute; and what populateFromFlat reads back from it is
\* the concept lattice of the context, nothing less and nothing more.
FlatFaithful ==
  phase = "done" =>
    /\ Len(flat) = 2 + 2 * Len(edgePairs) + 2 * N + Cardinality(Objects) + M
    /\ IsLattice([objs |-> Objects, cols |-> cols], Decode(flat))
=============================================================================
