--------------------------- MODULE FormalContext ---------------------------
(***************************************************************************)
(* Formal contexts, their concepts, and the step of Close-by-One that the  *)
(* enumeration of concepts repeats.  A context is given by its columns:    *)
(* cols[a] is the set of objects that have attribute a (ctx->cols[a], or   *)
(* cw[a] once packed).                                                     *)
(***************************************************************************)
EXTENDS Integers

CONSTANTS
  Objects,   (* the objects                                                 *)
  M          (* the number of attributes, nb_attributes                     *)

ASSUME MAssumption == M \in Nat

Attributes == 0 .. M - 1

AllContexts == [Attributes -> SUBSET Objects]

\* The attributes all objects of X have, and the objects that have all of B.
Intent(cols, X) == {a \in Attributes : X \subseteq cols[a]}
Extent(cols, B) == {o \in Objects : \A a \in B : o \in cols[a]}

\* A pair of an extent and an intent that determine each other.
Concept == [ext : SUBSET Objects, int : SUBSET Attributes]

IsConcept(cols, c) ==
  /\ c \in Concept
  /\ c.int = Intent(cols, c.ext)
  /\ c.ext = Extent(cols, c.int)

Concepts(cols) ==
  LET closed == {Extent(cols, B) : B \in SUBSET Attributes}
  IN  {[ext |-> X, int |-> Intent(cols, X)] : X \in closed}

\* The concept of all objects, E0 and inB0.
Top(cols) == [ext |-> Objects, int |-> Intent(cols, Objects)]

-----------------------------------------------------------------------------
(***************************************************************************)
(* One candidate of Close-by-One: a node is a concept, the next attribute  *)
(* to try and a depth; adding attribute i to it gives the extent           *)
(* ChildExt, kept when it passes the canonicity test.                      *)
(***************************************************************************)
Node == [ext : SUBSET Objects, int : SUBSET Attributes, i : 0 .. M, depth : Nat]

Root(cols) == [ext |-> Objects, int |-> Intent(cols, Objects),
               i |-> 0, depth |-> 0]

ChildExt(cols, n) == n.ext \cap cols[n.i]

\* Mutant: the attributes before i are not tested.
CanonicalAlways(cols, n) == n.i \notin n.int

\* No attribute before i, outside the parent's intent, contains the child.
Canonical(cols, n) ==
  /\ n.i \notin n.int
  /\ \A k \in 0 .. n.i - 1 : k \in n.int \/ ~(ChildExt(cols, n) \subseteq cols[k])

\* Mutant: the attributes after i are not looked at again.
ChildIntStale(cols, n) == n.int \cup {n.i}

\* The child's intent: the parent's before i, then i, then the parent's and
\* the attributes that contain the child.
ChildInt(cols, n) ==
  {k \in n.int : k < n.i} \cup {n.i}
  \cup {k \in n.i + 1 .. M - 1 : k \in n.int \/ ChildExt(cols, n) \subseteq cols[k]}

Child(cols, n) ==
  [ext |-> ChildExt(cols, n), int |-> ChildInt(cols, n),
   i |-> n.i + 1, depth |-> n.depth + 1]

AsConcept(n) == [ext |-> n.ext, int |-> n.int]

Advance(n) == [n EXCEPT !.i = n.i + 1]

\* The concepts below node n that are still to be found from it: those that
\* agree with it on the attributes before the next one to try.
Below(cols, n, c) ==
  /\ n.int # c.int /\ n.int \subseteq c.int
  /\ \A k \in c.int : k < n.i => k \in n.int
=============================================================================
