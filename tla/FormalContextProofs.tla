------------------------ MODULE FormalContextProofs ------------------------
(***************************************************************************)
(* One step of Close-by-One leads from a concept to a concept, in every    *)
(* context: the canonicity test on the attributes before i and the tests   *)
(* on those after it together give the child the right intent.             *)
(***************************************************************************)
EXTENDS FormalContext, ConceptLattice, SequenceTheorems, FiniteSetTheorems,
        NaturalsInduction, WellFoundedInduction, TLAPS

LEMMA RootConcept ==
  ASSUME NEW cols \in AllContexts
  PROVE  Root(cols) \in Node /\ IsConcept(cols, AsConcept(Root(cols)))
<1>1. Intent(cols, Objects) \subseteq Attributes
  BY DEF Intent
<1>2. Extent(cols, Intent(cols, Objects)) = Objects
  BY DEF Intent, Extent, AllContexts
<1> QED BY <1>1, <1>2, MAssumption
        DEF Root, Node, AsConcept, IsConcept, Concept

\* The intent assembled from the parent's is that of the child's extent.
LEMMA ChildIntent ==
  ASSUME NEW cols \in AllContexts, NEW n \in Node, n.i < M,
         IsConcept(cols, AsConcept(n)), Canonical(cols, n)
  PROVE  ChildInt(cols, n) = Intent(cols, ChildExt(cols, n))
<1> DEFINE X == ChildExt(cols, n)
<1>1. n.i \in Attributes /\ n.int = Intent(cols, n.ext) /\ X = n.ext \cap cols[n.i]
  BY MAssumption DEF Node, Attributes, IsConcept, AsConcept, ChildExt
<1>2. ASSUME NEW a \in ChildInt(cols, n) PROVE a \in Intent(cols, X)
  <2>1. CASE a \in n.int
    BY <1>1, <2>1 DEF Intent
  <2>2. CASE a = n.i
    BY <1>1, <2>2 DEF Intent
  <2>3. CASE a \in n.i + 1 .. M - 1 /\ X \subseteq cols[a]
    BY <1>1, <2>3, MAssumption DEF Intent, Attributes
  <2> QED BY <1>2, <2>1, <2>2, <2>3 DEF ChildInt
<1>3. ASSUME NEW a \in Intent(cols, X) PROVE a \in ChildInt(cols, n)
  <2>1. a \in Attributes /\ X \subseteq cols[a]
    BY DEF Intent
  <2>2. CASE a < n.i
    <3>1. a \in 0 .. n.i - 1
      BY <1>1, <2>1, <2>2, MAssumption DEF Attributes
    <3>2. a \in n.int
      BY <2>1, <3>1 DEF Canonical
    <3> QED BY <2>2, <3>2 DEF ChildInt
  <2>3. CASE a = n.i
    BY <2>3 DEF ChildInt
  <2>4. CASE a > n.i
    <3>1. a \in n.i + 1 .. M - 1
      BY <1>1, <2>1, <2>4, MAssumption DEF Attributes
    <3> QED BY <2>1, <3>1 DEF ChildInt
  <2> QED BY <1>1, <2>1, <2>2, <2>3, <2>4, MAssumption DEF Attributes
<1> QED BY <1>2, <1>3

\* A candidate that passes the canonicity test is a concept.
THEOREM ChildConcept ==
  ASSUME NEW cols \in AllContexts, NEW n \in Node, n.i < M,
         IsConcept(cols, AsConcept(n)), Canonical(cols, n)
  PROVE  Child(cols, n) \in Node /\ IsConcept(cols, AsConcept(Child(cols, n)))
<1> DEFINE X == ChildExt(cols, n)
           B == ChildInt(cols, n)
<1>1. n.i \in Attributes /\ n.ext \subseteq Objects /\ n.int \subseteq Attributes
      /\ n.depth \in Nat /\ n.i + 1 \in 0 .. M
  BY MAssumption DEF Node, Attributes
<1>2. B = Intent(cols, X)
  BY ChildIntent
<1>3. X \subseteq Objects /\ B \subseteq Attributes
  BY <1>1, <1>2 DEF ChildExt, Intent
<1>4. n.int \subseteq B /\ n.i \in B
  BY <1>1, <1>2 DEF Intent, ChildExt, IsConcept, AsConcept
<1>5. n.ext = Extent(cols, n.int)
  BY DEF IsConcept, AsConcept
<1>6. Extent(cols, B) = X
  <2>1. ASSUME NEW o \in Extent(cols, B) PROVE o \in X
    <3>1. o \in Extent(cols, n.int) /\ o \in cols[n.i]
      BY <1>4, <2>1 DEF Extent
    <3> QED BY <1>5, <3>1 DEF ChildExt
  <2>2. ASSUME NEW o \in X PROVE o \in Extent(cols, B)
    BY <1>2, <1>3, <2>2 DEF Extent, Intent
  <2> QED BY <2>1, <2>2
<1> QED BY <1>1, <1>2, <1>3, <1>6 DEF Child, Node, AsConcept, IsConcept, Concept

-----------------------------------------------------------------------------
\* A concept below node n that has attribute i lies within the candidate.
LEMMA WithinCandidate ==
  ASSUME NEW cols \in AllContexts, NEW n \in Node, n.i < M,
         IsConcept(cols, AsConcept(n)),
         NEW c, IsConcept(cols, c), n.int \subseteq c.int, n.i \in c.int
  PROVE  c.ext \subseteq ChildExt(cols, n)
<1>1. n.ext = Extent(cols, n.int) /\ c.ext = Extent(cols, c.int)
  BY DEF IsConcept, AsConcept
<1>2. c.ext \subseteq n.ext /\ c.ext \subseteq cols[n.i]
  BY <1>1 DEF Extent
<1> QED BY <1>2 DEF ChildExt

\* When the candidate is not canonical, going on to the next attribute loses
\* nothing and adds nothing.
THEOREM RejectKeeps ==
  ASSUME NEW cols \in AllContexts, NEW n \in Node, n.i < M,
         IsConcept(cols, AsConcept(n)), ~Canonical(cols, n),
         NEW c, IsConcept(cols, c)
  PROVE  Below(cols, n, c) <=> Below(cols, Advance(n), c)
<1>1. /\ Advance(n).int = n.int /\ Advance(n).i = n.i + 1
      /\ n.i \in Attributes /\ c.int \subseteq Attributes
  BY MAssumption DEF Advance, Node, Attributes, IsConcept, Concept
<1>2. Below(cols, Advance(n), c) => Below(cols, n, c)
  BY <1>1, MAssumption DEF Below, Attributes
<1>3. ASSUME Below(cols, n, c) PROVE n.i \in c.int => n.i \in n.int
  <2> SUFFICES ASSUME n.i \in c.int, n.i \notin n.int PROVE FALSE
    OBVIOUS
  <2>1. PICK k \in 0 .. n.i - 1 : k \notin n.int /\ ChildExt(cols, n) \subseteq cols[k]
    BY DEF Canonical
  <2>2. c.ext \subseteq cols[k]
    BY <1>3, <2>1, WithinCandidate DEF Below
  <2>3. k \in Attributes /\ k < n.i
    BY <1>1, <2>1, MAssumption DEF Attributes
  <2>4. k \in c.int
    BY <2>2, <2>3 DEF IsConcept, Intent
  <2> QED BY <1>3, <2>1, <2>3, <2>4 DEF Below
<1>4. Below(cols, n, c) => Below(cols, Advance(n), c)
  BY <1>1, <1>3, MAssumption DEF Below, Attributes
<1> QED BY <1>2, <1>4

\* When it is, each concept that was still to be found from n is the child, or
\* is to be found from the child, or from n with the next attribute, and only
\* one of these: the tree of Close-by-One has one way to each concept.
THEOREM AcceptSplits ==
  ASSUME NEW cols \in AllContexts, NEW n \in Node, n.i < M,
         IsConcept(cols, AsConcept(n)), Canonical(cols, n),
         NEW c, IsConcept(cols, c), c = [ext |-> c.ext, int |-> c.int]
  PROVE  LET here  == c = AsConcept(Child(cols, n))
             child == Below(cols, Child(cols, n), c)
             next  == Below(cols, Advance(n), c)
         IN  /\ Below(cols, n, c) <=> here \/ child \/ next
             /\ ~(here /\ child) /\ ~(here /\ next) /\ ~(child /\ next)
<1> DEFINE B == ChildInt(cols, n)
           here  == c = AsConcept(Child(cols, n))
           child == Below(cols, Child(cols, n), c)
           next  == Below(cols, Advance(n), c)
<1>1. /\ Advance(n).int = n.int /\ Advance(n).i = n.i + 1
      /\ n.i \in Attributes /\ c.int \subseteq Attributes
      /\ n.i \notin n.int
      /\ n.int \subseteq Attributes
  BY MAssumption DEF Advance, Node, Attributes, IsConcept, Concept, Canonical
<1>2. Child(cols, n).int = B /\ Child(cols, n).i = n.i + 1
      /\ AsConcept(Child(cols, n)) = [ext |-> ChildExt(cols, n), int |-> B]
  BY DEF Child, AsConcept
<1>3. /\ B \subseteq Attributes /\ n.int \subseteq B /\ n.i \in B
      /\ \A k \in B : k < n.i => k \in n.int
  <2>1. B \subseteq Attributes
    BY <1>2, ChildConcept DEF IsConcept, Concept, AsConcept
  <2>2. n.int \subseteq B /\ n.i \in B
    BY <1>1, MAssumption DEF ChildInt, Attributes
  <2>3. ASSUME NEW k \in B, k < n.i PROVE k \in n.int
    BY <1>1, <2>3, MAssumption DEF ChildInt, Attributes
  <2> QED BY <2>1, <2>2, <2>3
<1>4. B = Intent(cols, ChildExt(cols, n)) /\ ChildExt(cols, n) = Extent(cols, B)
  BY <1>2, ChildIntent, ChildConcept DEF IsConcept, AsConcept
<1>5. next => Below(cols, n, c) /\ n.i \notin c.int
  BY <1>1, MAssumption DEF Below, Attributes
<1>6. here => Below(cols, n, c) /\ n.i \in c.int /\ c.int = B
  BY <1>1, <1>2, <1>3 DEF Below
<1>7. child => Below(cols, n, c) /\ n.i \in c.int /\ c.int # B
  <2> SUFFICES ASSUME child PROVE Below(cols, n, c) /\ n.i \in c.int /\ c.int # B
    OBVIOUS
  <2>1. B # c.int /\ B \subseteq c.int /\ \A k \in c.int : k < n.i + 1 => k \in B
    BY <1>2 DEF Below
  <2>2. \A k \in c.int : k < n.i => k \in n.int
    BY <1>1, <1>3, <2>1, MAssumption DEF Attributes
  <2> QED BY <1>1, <1>3, <2>1, <2>2 DEF Below
<1>8. ASSUME Below(cols, n, c), n.i \notin c.int PROVE next
  BY <1>1, <1>8, MAssumption DEF Below, Attributes
<1>9. ASSUME Below(cols, n, c), n.i \in c.int PROVE here \/ child
  <2>1. c.ext \subseteq ChildExt(cols, n)
    BY <1>9, WithinCandidate DEF Below
  <2>2. B \subseteq c.int
    BY <1>4, <2>1 DEF Intent, IsConcept
  <2>3. CASE c.int = B
    BY <1>2, <1>4, <2>3 DEF IsConcept
  <2>4. CASE c.int # B
    <3>1. \A k \in c.int : k < n.i + 1 => k \in B
      BY <1>1, <1>3, <1>9, MAssumption DEF Below, Attributes
    <3> QED BY <1>2, <2>2, <2>4, <3>1 DEF Below
  <2> QED BY <2>3, <2>4
<1> QED BY <1>5, <1>6, <1>7, <1>8, <1>9

\* Nothing is left to be found from a node that has no attribute to try.
THEOREM NothingBelow ==
  ASSUME NEW cols \in AllContexts, NEW n \in Node, n.i = M,
         NEW c, IsConcept(cols, c)
  PROVE  ~Below(cols, n, c)
<1>1. \A k \in c.int : k < n.i
  BY MAssumption DEF IsConcept, Concept, Attributes
<1>2. ASSUME Below(cols, n, c) PROVE c.int \subseteq n.int
  BY <1>1, <1>2 DEF Below
<1> QED BY <1>2 DEF Below

\* All concepts but top are to be found from the root.
THEOREM AllBelowRoot ==
  ASSUME NEW cols \in AllContexts, NEW c, IsConcept(cols, c),
         c = [ext |-> c.ext, int |-> c.int]
  PROVE  Below(cols, Root(cols), c) <=> c # Top(cols)
<1>1. Root(cols).int = Intent(cols, Objects) /\ Root(cols).i = 0
  BY DEF Root
<1>2. c.ext \subseteq Objects /\ c.int = Intent(cols, c.ext) /\ c.int \subseteq Attributes
      /\ c.ext = Extent(cols, c.int)
  BY DEF IsConcept, Concept
<1>3. Intent(cols, Objects) \subseteq c.int
  BY <1>2 DEF Intent
<1>4. Extent(cols, Intent(cols, Objects)) = Objects
  BY DEF Intent, Extent, AllContexts
<1>5. c.int = Intent(cols, Objects) <=> c = Top(cols)
  BY <1>2, <1>4 DEF Top
<1>6. \A k \in c.int : ~(k < 0)
  BY <1>2, MAssumption DEF Attributes
<1> QED BY <1>1, <1>3, <1>5, <1>6 DEF Below
-----------------------------------------------------------------------------
(***************************************************************************)
(* Both enumerations keep stacks of calls, and answer for each concept in  *)
(* one place: what their proofs share.                                     *)
(***************************************************************************)
LEMMA LastAndFront ==
  ASSUME NEW S, NEW s \in Seq(S), s # <<>>
  PROVE  /\ Last(s) \in S /\ Front(s) \in Seq(S)
         /\ Len(s) \in Nat \ {0}
         /\ Len(Front(s)) = Len(s) - 1
         /\ \A k \in 1 .. Len(s) - 1 : Front(s)[k] = s[k]
<1>1. Len(s) \in Nat \ {0}
  BY EmptySeq, LenProperties
<1>2. Last(s) \in S
  BY <1>1, ElementOfSeq DEF Last
<1>3. /\ Front(s) \in Seq(S) /\ Len(Front(s)) = Len(s) - 1
      /\ \A k \in 1 .. Len(s) - 1 : Front(s)[k] = s[k]
  <2> DEFINE m == Len(s) - 1
             f == SubSeq(s, 1, m)
  <2>1. m \in Nat /\ \A k \in 1 .. m : s[k] \in S
    BY <1>1, ElementOfSeq
  <2> HIDE DEF m
  <2>2. /\ f \in Seq(S) /\ Len(f) = IF 1 <= m THEN m - 1 + 1 ELSE 0
        /\ \A k \in 1 .. m - 1 + 1 : f[k] = s[1 + k - 1]
    BY <2>1, SubSeqProperties
  <2> HIDE DEF f
  <2>3. Len(f) = m /\ \A k \in 1 .. m : f[k] = s[k]
    BY <2>1, <2>2
  <2> QED BY <2>2, <2>3 DEF m, f, Front
<1> QED BY <1>1, <1>2, <1>3

\* The last element of a stack replaced by ns.
LEMMA TopReplaced ==
  ASSUME NEW S, NEW s \in Seq(S), s # <<>>, NEW ns \in Seq(S)
  PROVE  /\ Front(s) \o ns \in Seq(S)
         /\ Len(Front(s) \o ns) = Len(s) - 1 + Len(ns)
         /\ \A k \in 1 .. Len(s) - 1 : (Front(s) \o ns)[k] = s[k]
         /\ \A k \in 1 .. Len(ns) : (Front(s) \o ns)[Len(s) - 1 + k] = ns[k]
<1>1. s \in Seq(S) /\ Front(s) \in Seq(S) /\ Len(s) \in Nat \ {0}
      /\ Len(Front(s)) = Len(s) - 1
      /\ \A k \in 1 .. Len(s) - 1 : Front(s)[k] = s[k]
  BY LastAndFront
<1>2. Len(ns) \in Nat
  BY LenProperties
<1> DEFINE f == Front(s)
           r == f \o ns
<1>3. /\ r \in Seq(S) /\ Len(r) = Len(f) + Len(ns)
      /\ \A k \in 1 .. Len(f) + Len(ns) :
           r[k] = IF k <= Len(f) THEN f[k] ELSE ns[k - Len(f)]
  BY <1>1, ConcatProperties
<1>4. Len(f) = Len(s) - 1 /\ Len(f) \in Nat
      /\ \A k \in 1 .. Len(f) : f[k] = s[k]
  BY <1>1
<1> HIDE DEF f, r
<1>5. \A k \in 1 .. Len(f) : r[k] = f[k]
  <2> TAKE k \in 1 .. Len(f)
  <2>1. k \in 1 .. Len(f) + Len(ns) /\ k <= Len(f)
    BY <1>2, <1>4
  <2> QED BY <1>3, <2>1
<1>6. \A k \in 1 .. Len(ns) : r[Len(f) + k] = ns[k]
  <2> TAKE k \in 1 .. Len(ns)
  <2>1. Len(f) + k \in 1 .. Len(f) + Len(ns) /\ ~(Len(f) + k <= Len(f))
        /\ Len(f) + k - Len(f) = k
    BY <1>2, <1>4
  <2> QED BY <1>3, <2>1
<1>7. /\ r \in Seq(S) /\ Len(r) = Len(s) - 1 + Len(ns)
      /\ \A k \in 1 .. Len(s) - 1 : r[k] = s[k]
      /\ \A k \in 1 .. Len(ns) : r[Len(s) - 1 + k] = ns[k]
  BY <1>3, <1>4, <1>5, <1>6
<1> QED BY <1>7 DEF f, r

\* When only the places A change, and of them only a answered before, the
\* answer stays unique if one of A takes it over exactly when a had it.
LEMMA AnswerMoves ==
  ASSUME NEW H, NEW G, NEW A, NEW a,
         H \cap A \subseteq {a},
         \A g : g \notin A => (g \in G <=> g \in H),
         a \in H => \E b \in A : \A g \in A : g \in G <=> g = b,
         a \notin H => G \cap A = {},
         \E h : H = {h}, a \in A
  PROVE  \E h : G = {h}
<1>1. PICK h : H = {h}
  OBVIOUS
<1>2. CASE h = a
  <2>1. PICK b \in A : \A g \in A : g \in G <=> g = b
    BY <1>1, <1>2
  <2>2. \A g : g \in G <=> g = b
    BY <1>1, <1>2, <2>1
  <2> QED BY <2>2
<1>3. CASE h # a
  <2>1. \A g : g \in G <=> g = h
    BY <1>1, <1>3
  <2> QED BY <2>1
<1> QED BY <1>2, <1>3

-----------------------------------------------------------------------------
(***************************************************************************)
(* Induction, recursion and flattened sequences: what the vectors of the   *)
(* threads hold once they are copied one after the other.                  *)
(***************************************************************************)
\* Induction on the natural numbers, with a set for what is to be shown.
LEMMA Induction ==
  ASSUME NEW T, 0 \in T, \A k \in Nat : k \in T => k + 1 \in T
  PROVE  Nat \subseteq T
<1> SUFFICES ASSUME Nat \ T # {} PROVE FALSE
  OBVIOUS
<1> DEFINE R == OpToRel(<, Nat)
<1>1. IsWellFoundedOn(R, Nat)
  BY NatLessThanWellFounded
<1>2. \A x, y \in Nat : <<x, y>> \in R <=> x < y
  BY DEF OpToRel
<1> HIDE DEF R
<1>3. PICK m \in Nat \ T : \A j \in Nat \ T : ~(<<j, m>> \in R)
  <2> DEFINE U == Nat \ T
  <2>1. U \subseteq Nat /\ U # {}
    OBVIOUS
  <2> HIDE DEF U
  <2>2. \E m \in U : \A j \in U : ~(<<j, m>> \in R)
    BY <1>1, <2>1, WFMin
  <2> QED BY <2>2 DEF U
<1>4. m # 0 /\ m - 1 \in Nat /\ m - 1 + 1 = m /\ m - 1 < m
  BY <1>3
<1>5. m - 1 \in T
  BY <1>2, <1>3, <1>4
<1> QED BY <1>3, <1>4, <1>5

\* h takes the value b at 0, and from one number to the next the value that
\* F gives.
Iterates(h, S, n, b, F) ==
  h \in [0 .. n -> S] /\ h[0] = b /\ \A k \in 1 .. n : h[k] = F[k][h[k - 1]]

\* There is such a function.
LEMMA StepByStep ==
  ASSUME NEW S, NEW n \in Nat, NEW b \in S, NEW F \in [1 .. n -> [S -> S]]
  PROVE  \E h : Iterates(h, S, n, b, F)
<1> DEFINE Good(h, m) == h[0] = b /\ \A k \in 1 .. m : h[k] = F[k][h[k - 1]]
           T == {m \in Nat : m <= n => \E h \in [0 .. m -> S] : Good(h, m)}
<1>1. 0 \in T
  <2>1. [i \in 0 .. 0 |-> b] \in [0 .. 0 -> S] /\ Good([i \in 0 .. 0 |-> b], 0)
    OBVIOUS
  <2> QED BY <2>1
<1>2. ASSUME NEW m \in Nat, m \in T PROVE m + 1 \in T
  <2> SUFFICES ASSUME m + 1 <= n PROVE \E h \in [0 .. m + 1 -> S] : Good(h, m + 1)
    OBVIOUS
  <2>1. PICK h \in [0 .. m -> S] : Good(h, m)
    BY <1>2
  <2> DEFINE g == [i \in 0 .. m + 1 |-> IF i = m + 1 THEN F[m + 1][h[m]] ELSE h[i]]
  <2>2. m + 1 \in 1 .. n /\ h[m] \in S
    OBVIOUS
  <2>3. F[m + 1] \in [S -> S]
    BY <2>2
  <2>4. F[m + 1][h[m]] \in S
    BY <2>2, <2>3
  <2>5. g \in [0 .. m + 1 -> S]
    BY <2>4
  <2>6. g[0] = b
    BY <2>1
  <2>7. ASSUME NEW k \in 1 .. m + 1 PROVE g[k] = F[k][g[k - 1]]
    <3>1. CASE k = m + 1
      BY <3>1
    <3>2. CASE k # m + 1
      <4>1. k \in 1 .. m /\ k - 1 \in 0 .. m
        BY <3>2
      <4>2. g[k] = h[k] /\ g[k - 1] = h[k - 1]
        BY <4>1
      <4> QED BY <2>1, <4>1, <4>2
    <3> QED BY <3>1, <3>2
  <2> QED BY <2>5, <2>6, <2>7
<1> HIDE DEF T
<1>3. n \in T
  BY <1>1, <1>2, Induction
<1> QED BY <1>3 DEF T, Iterates

\* FlattenSeq appends one sequence after the other.
LEMMA FlattenPrefixes ==
  ASSUME NEW S, NEW s \in Seq(Seq(S))
  PROVE  \E p \in [0 .. Len(s) -> Seq(S)] :
           /\ p[0] = <<>>
           /\ \A k \in 1 .. Len(s) : p[k] = p[k - 1] \o s[k]
           /\ FlattenSeq(s) = p[Len(s)]
<1> DEFINE n == Len(s)
           W == Seq(S)
           e == <<>>
           F == [k \in 1 .. n |-> [q \in W |-> q \o s[k]]]
<1>1. n \in Nat /\ \A k \in 1 .. n : s[k] \in W
  BY LenProperties, ElementOfSeq
<1>2. F \in [1 .. n -> [W -> W]]
  BY <1>1, ConcatProperties
<1>3. e \in W
  BY EmptySeq
<1>a. \A k \in 1 .. n : \A q \in W : F[k][q] = q \o s[k]
  BY <1>1
<1> HIDE DEF F, n, W, e
<1>b. PICK p : Iterates(p, W, n, e, F)
  BY <1>1, <1>2, <1>3, StepByStep
<1>4. p \in [0 .. n -> W] /\ p[0] = e /\ \A k \in 1 .. n : p[k] = F[k][p[k - 1]]
  BY <1>b DEF Iterates
<1>5. \A k \in 1 .. n : p[k] = p[k - 1] \o s[k]
  <2> TAKE k \in 1 .. n
  <2>1. k - 1 \in 0 .. n
    BY <1>1
  <2>2. p[k - 1] \in W
    BY <1>4, <2>1
  <2> QED BY <1>a, <1>4, <2>2
<1>6. FlattenSeq(s) = p[n]
  <2>1. CASE n = 0
    <3>1. s = <<>>
      BY <2>1, EmptySeq DEF n
    <3> QED BY <1>4, <2>1, <3>1 DEF FlattenSeq, n, e
  <2>2. CASE n # 0
    <3> DEFINE Def(f) == f = [i \in 1 .. n |-> IF i = 1 THEN s[i] ELSE f[i - 1] \o s[i]]
               q == [i \in 1 .. n |-> p[i]]
               flat == CHOOSE f : Def(f)
    <3>1. Def(q)
      <4>1. \A i \in 1 .. n : q[i] = IF i = 1 THEN s[i] ELSE q[i - 1] \o s[i]
        <5> TAKE i \in 1 .. n
        <5>1. q[i] = p[i - 1] \o s[i]
          BY <1>5
        <5>2. CASE i = 1
          <6>0. i - 1 = 0 /\ s[i] \in Seq(S)
            BY <1>1, <5>2 DEF W
          <6>1. q[i] = <<>> \o s[i]
            <7> HIDE DEF q
            <7> QED BY <1>4, <5>1, <6>0, Zenon DEF e
          <6>2. q[i] = s[i]
            BY ONLY <6>0, <6>1, ConcatEmptySeq
          <6> HIDE DEF q
          <6> QED BY <5>2, <6>2
        <5>3. CASE i # 1
          <6>1. i - 1 \in 1 .. n /\ q[i - 1] = p[i - 1]
            BY <1>1, <5>3
          <6> HIDE DEF q
          <6> QED BY <5>1, <5>3, <6>1
        <5> QED BY <5>2, <5>3
      <4> QED BY <4>1
    <3>2. Def(flat)
      <4> HIDE DEF Def
      <4> QED BY <3>1
    <3>3. FlattenSeq(s) = flat[n]
      BY <2>2 DEF FlattenSeq, n
    <3> DEFINE T == {i \in Nat : i + 1 <= n => flat[i + 1] = p[i + 1]}
    <3>4. \A i \in 1 .. n : flat[i] = IF i = 1 THEN s[i] ELSE flat[i - 1] \o s[i]
      <4> HIDE DEF flat
      <4> QED BY <3>2
    <3> HIDE DEF flat, Def
    <3>5. 0 \in T
      <4>1. 1 \in 1 .. n /\ s[1] \in Seq(S)
        BY <1>1, <2>2 DEF W
      <4>2. flat[1] = s[1] /\ p[1] = p[1 - 1] \o s[1]
        BY <1>5, <3>4, <4>1
      <4>3. p[1] = <<>> \o s[1]
        <5>1. 1 - 1 = 0
          OBVIOUS
        <5> QED BY <1>4, <4>2, <5>1, Zenon DEF e
      <4>4. p[1] = s[1]
        BY ONLY <4>1, <4>3, ConcatEmptySeq
      <4> QED BY <4>2, <4>4
    <3>6. ASSUME NEW i \in Nat, i \in T PROVE i + 1 \in T
      <4> SUFFICES ASSUME i + 1 + 1 <= n PROVE flat[i + 1 + 1] = p[i + 1 + 1]
        OBVIOUS
      <4> DEFINE j == i + 1 + 1
      <4>1. j \in 1 .. n /\ j # 1 /\ j - 1 = i + 1 /\ i + 1 <= n
        BY <1>1
      <4>2. flat[i + 1] = p[i + 1]
        BY <3>6, <4>1
      <4> HIDE DEF j, T
      <4>3. flat[j] = flat[j - 1] \o s[j] /\ p[j] = p[j - 1] \o s[j]
        BY <1>5, <3>4, <4>1
      <4> QED BY <4>1, <4>2, <4>3 DEF j
    <3> HIDE DEF T
    <3>7. n - 1 \in Nat /\ n - 1 + 1 <= n /\ n - 1 + 1 = n
      BY <1>1, <2>2
    <3>8. Nat \subseteq T
      BY ONLY <3>5, <3>6, Induction
    <3>9. flat[n] = p[n]
      BY <3>7, <3>8 DEF T
    <3> QED BY <3>3, <3>9
  <2> QED BY <2>1, <2>2
<1> QED BY <1>4, <1>5, <1>6 DEF n, W, e

LEMMA ConcatElements ==
  ASSUME NEW S, NEW s \in Seq(S), NEW r \in Seq(S)
  PROVE  ToSet(s \o r) = ToSet(s) \cup ToSet(r)
<1> DEFINE m == Len(s)
           n == Len(r)
           c == s \o r
<1>1. /\ m \in Nat /\ n \in Nat /\ DOMAIN s = 1 .. m /\ DOMAIN r = 1 .. n
      /\ DOMAIN c = 1 .. m + n
      /\ \A i \in 1 .. m + n : c[i] = IF i <= m THEN s[i] ELSE r[i - m]
  BY ConcatProperties, LenProperties
<1> HIDE DEF m, n, c
<1>2. ASSUME NEW x \in ToSet(c) PROVE x \in ToSet(s) \cup ToSet(r)
  <2>1. PICK i \in 1 .. m + n : x = c[i]
    BY <1>1 DEF ToSet
  <2>2. CASE i <= m
    BY <1>1, <2>1, <2>2 DEF ToSet
  <2>3. CASE ~(i <= m)
    <3>1. i - m \in 1 .. n /\ x = r[i - m]
      BY <1>1, <2>1, <2>3
    <3> QED BY <1>1, <3>1 DEF ToSet
  <2> QED BY <2>2, <2>3
<1>3. ASSUME NEW x \in ToSet(s) PROVE x \in ToSet(c)
  <2>1. PICK i \in 1 .. m : x = s[i]
    BY <1>1 DEF ToSet
  <2>2. i \in 1 .. m + n /\ i <= m
    BY <1>1
  <2> QED BY <1>1, <2>1, <2>2 DEF ToSet
<1>4. ASSUME NEW x \in ToSet(r) PROVE x \in ToSet(c)
  <2>1. PICK i \in 1 .. n : x = r[i]
    BY <1>1 DEF ToSet
  <2> DEFINE j == m + i
  <2>2. j \in 1 .. m + n /\ ~(j <= m) /\ j - m = i
    BY <1>1
  <2> HIDE DEF j
  <2>3. c[j] = r[i]
    BY <1>1, <2>2
  <2> QED BY <1>1, <2>1, <2>2, <2>3 DEF ToSet
<1> QED BY <1>2, <1>3, <1>4 DEF c

\* A flattened sequence has the elements of its parts.
LEMMA FlattenElements ==
  ASSUME NEW S, NEW s \in Seq(Seq(S))
  PROVE  /\ FlattenSeq(s) \in Seq(S)
         /\ ToSet(FlattenSeq(s)) = UNION {ToSet(s[k]) : k \in DOMAIN s}
<1> DEFINE n == Len(s)
           Parts(k) == UNION {ToSet(s[j]) : j \in 1 .. k}
<1>1. PICK p \in [0 .. n -> Seq(S)] :
        /\ p[0] = <<>>
        /\ \A k \in 1 .. n : p[k] = p[k - 1] \o s[k]
        /\ FlattenSeq(s) = p[n]
  BY FlattenPrefixes
<1>2. n \in Nat /\ DOMAIN s = 1 .. n /\ \A k \in 1 .. n : s[k] \in Seq(S)
  BY LenProperties, ElementOfSeq
<1> DEFINE T == {k \in Nat : k <= n => ToSet(p[k]) = Parts(k)}
<1>3. 0 \in T
  BY <1>1 DEF ToSet
<1>4. ASSUME NEW k \in Nat, k \in T PROVE k + 1 \in T
  <2> SUFFICES ASSUME k + 1 <= n PROVE ToSet(p[k + 1]) = Parts(k + 1)
    OBVIOUS
  <2> HIDE DEF n
  <2> DEFINE j == k + 1
  <2>1. k \in 0 .. n /\ j \in 1 .. n /\ j - 1 = k
    BY <1>2
  <2> HIDE DEF j
  <2>2. p[k] \in Seq(S) /\ s[j] \in Seq(S) /\ p[j] = p[k] \o s[j]
    BY <1>1, <1>2, <2>1
  <2>3. ToSet(p[j]) = ToSet(p[k]) \cup ToSet(s[j])
    BY <2>2, ConcatElements
  <2>4. Parts(j) = Parts(k) \cup ToSet(s[j])
    <3>1. 1 .. j = (1 .. k) \cup {j}
      BY DEF j
    <3> QED BY <3>1, Zenon
  <2>5. ToSet(p[k]) = Parts(k)
    BY <1>4, <2>1
  <2> QED BY <2>3, <2>4, <2>5 DEF j
<1> HIDE DEF n, T, Parts
<1>5. Nat \subseteq T
  BY ONLY <1>3, <1>4, Induction
<1>6. ToSet(p[n]) = Parts(n) /\ p[n] \in Seq(S)
  BY <1>1, <1>2, <1>5 DEF T
<1> QED BY <1>1, <1>2, <1>6 DEF Parts, n

\* R orders the members of S one after the other.
Orders(R, S) ==
  /\ \A x \in S : <<x, x>> \notin R
  /\ \A x, y \in S : x # y => <<x, y>> \in R \/ <<y, x>> \in R
  /\ \A x, y, z \in S : <<x, y>> \in R /\ <<y, z>> \in R => <<x, z>> \in R

Ahead(S, R, x) == {y \in S : <<y, x>> \in R}

\* Their ranks, the numbers of members before them, are in that order; and
\* each rank below their number is taken.
LEMMA Ranks ==
  ASSUME NEW S, IsFiniteSet(S), NEW R, Orders(R, S)
  PROVE  /\ Cardinality(S) \in Nat
         /\ \A x \in S : Cardinality(Ahead(S, R, x)) \in 0 .. Cardinality(S) - 1
         /\ \A x, z \in S :
              <<x, z>> \in R => Cardinality(Ahead(S, R, x))
                                 < Cardinality(Ahead(S, R, z))
         /\ \A k \in 1 .. Cardinality(S) :
              \E x \in S : Cardinality(Ahead(S, R, x)) = k - 1
<1> DEFINE n == Cardinality(S)
           before(x) == {y \in S : <<y, x>> \in R}
           r == [x \in S |-> Cardinality(before(x))]
           D == 0 .. n - 1
<1>1. n \in Nat
  BY FS_CardinalityType
<1>2. \A x \in S : IsFiniteSet(before(x)) /\ Cardinality(before(x)) \in Nat
  <2>1. \A x \in S : before(x) \in SUBSET S
    OBVIOUS
  <2> QED BY <2>1, FS_Subset, FS_CardinalityType
<1>3. ASSUME NEW x \in S PROVE r[x] \in D
  <2>1. before(x) \in SUBSET (S \ {x})
    BY DEF Orders
  <2>2. IsFiniteSet(S \ {x}) /\ Cardinality(S \ {x}) = n - 1
    BY FS_RemoveElement
  <2>3. Cardinality(before(x)) <= n - 1
    <3> HIDE DEF before, n
    <3> QED BY <2>1, <2>2, FS_Subset
  <2> QED BY <2>3, <1>1, <1>2
<1>4. ASSUME NEW x \in S, NEW z \in S, <<x, z>> \in R
      PROVE  r[x] < r[z]
  <2>1. before(x) \in SUBSET (before(z) \ {x})
    BY <1>4 DEF Orders
  <2>2. x \in before(z)
    BY <1>4
  <2>3. IsFiniteSet(before(z) \ {x}) /\ Cardinality(before(z) \ {x}) = Cardinality(before(z)) - 1
    BY <2>2, <1>2, FS_RemoveElement
  <2>4. Cardinality(before(x)) <= Cardinality(before(z)) - 1
    <3> HIDE DEF before
    <3> QED BY <2>1, <2>3, FS_Subset
  <2> QED BY <2>4, <1>2
<1>5. r \in Injection(S, D)
  <2>1. r \in [S -> D]
    BY <1>3
  <2>2. ASSUME NEW x \in S, NEW z \in S, r[x] = r[z]
        PROVE  x = z
    <3>1. r[x] \in Int /\ r[z] \in Int
      BY <1>1, <1>3
    <3>2. ~(<<x, z>> \in R) /\ ~(<<z, x>> \in R)
      BY <2>2, <3>1, <1>4
    <3> QED BY <3>2 DEF Orders
  <2> QED BY <2>1, <2>2 DEF Injection, IsInjective
<1>6. IsFiniteSet(D) /\ Cardinality(D) = n
  BY <1>1, FS_Interval
<1>7. r \in Surjection(S, D)
  BY <1>5, <1>6, FS_Injection
<1>8. \A k \in D : \E x \in S : r[x] = k
  BY <1>7 DEF Surjection
<1>9. \A k \in 1 .. n : k - 1 \in D
  BY <1>1
<1>10. \A k \in 1 .. n : \E x \in S : r[x] = k - 1
  BY <1>8, <1>9
<1> QED BY <1>1, <1>3, <1>4, <1>10 DEF Ahead

\* A set put in order is a list of its members.
LEMMA ArrangedList ==
  ASSUME NEW S, IsFiniteSet(S), NEW R, Orders(R, S)
  PROVE  /\ Arranged(S, R) \in Seq(S)
         /\ Cardinality(S) \in Nat /\ DOMAIN Arranged(S, R) = 1 .. Cardinality(S)
         /\ \A x \in S : \E k \in DOMAIN Arranged(S, R) : Arranged(S, R)[k] = x
         /\ \A k, j \in DOMAIN Arranged(S, R) :
              k < j => <<Arranged(S, R)[k], Arranged(S, R)[j]>> \in R
<1> DEFINE rank(x) == Cardinality(Ahead(S, R, x))
           n == Cardinality(S)
           s == Arranged(S, R)
<1>1. /\ n \in Nat
      /\ \A x \in S : rank(x) \in 0 .. n - 1
      /\ \A x, z \in S : <<x, z>> \in R => rank(x) < rank(z)
      /\ \A k \in 1 .. n : \E x \in S : rank(x) = k - 1
  BY Ranks
<1>2. s = [k \in 1 .. n |-> CHOOSE x \in S : rank(x) = k - 1]
  BY DEF Arranged, Ahead
<1> HIDE DEF rank, n, s
<1>2a. \A x \in S : rank(x) \in Int
  BY <1>1
<1>2b. ASSUME NEW x \in S, NEW z \in S
       PROVE  /\ rank(x) < rank(z) => <<x, z>> \in R
              /\ rank(x) = rank(z) => x = z
  <2>1. rank(x) \in Int /\ rank(z) \in Int
    BY <1>2a
  <2>2. /\ <<x, z>> \in R => rank(x) < rank(z)
        /\ <<z, x>> \in R => rank(z) < rank(x)
    BY <1>1
  <2>3. x = z \/ <<x, z>> \in R \/ <<z, x>> \in R
    BY DEF Orders
  <2> QED BY <2>1, <2>2, <2>3
<1>3. \A k \in 1 .. n : s[k] \in S /\ rank(s[k]) = k - 1
  BY <1>1, <1>2
<1>4. \A x \in S : \E k \in 1 .. n : s[k] = x
  <2> SUFFICES ASSUME NEW x \in S
               PROVE  \E k \in 1 .. n : s[k] = x
    OBVIOUS
  <2> DEFINE k == rank(x) + 1
  <2>1. k \in 1 .. n /\ rank(x) = k - 1
    BY <1>1
  <2> HIDE DEF k
  <2>2. s[k] \in S /\ rank(s[k]) = rank(x)
    BY <1>3, <2>1
  <2> QED BY <1>2b, <2>1, <2>2
<1>5. s \in Seq(S) /\ DOMAIN s = 1 .. n
  BY <1>1, <1>2, <1>3
<1>6. \A k, j \in 1 .. n : k < j => <<s[k], s[j]>> \in R
  <2> SUFFICES ASSUME NEW k \in 1 .. n, NEW j \in 1 .. n, k < j
               PROVE  <<s[k], s[j]>> \in R
    OBVIOUS
  <2>1. s[k] \in S /\ s[j] \in S /\ rank(s[k]) = k - 1 /\ rank(s[j]) = j - 1
    BY <1>3
  <2>2. k - 1 < j - 1
    BY <1>1
  <2> QED BY <1>2b, <2>1, <2>2
<1> QED BY <1>1, <1>4, <1>5, <1>6 DEF s, n

\* A set of numbers in their order.
LEMMA InOrder ==
  ASSUME NEW S \in SUBSET Int, IsFiniteSet(S)
  PROVE  /\ Increasing(S) \in Seq(S)
         /\ Cardinality(S) \in Nat /\ DOMAIN Increasing(S) = 1 .. Cardinality(S)
         /\ \A x \in S : \E k \in DOMAIN Increasing(S) : Increasing(S)[k] = x
         /\ \A k, j \in DOMAIN Increasing(S) : k < j => Increasing(S)[k] < Increasing(S)[j]
<1> DEFINE R == {p \in S \X S : p[1] < p[2]}
           s == Increasing(S)
<1>1. s = Arranged(S, R)
  BY DEF Increasing
<1>2. \A x, y : <<x, y>> \in R <=> x \in S /\ y \in S /\ x < y
  OBVIOUS
<1>3. \A x \in S : x \in Int
  OBVIOUS
<1> HIDE DEF R, s
<1>4. Orders(R, S)
  BY <1>2, <1>3 DEF Orders
<1>5. /\ s \in Seq(S)
      /\ Cardinality(S) \in Nat /\ DOMAIN s = 1 .. Cardinality(S)
      /\ \A x \in S : \E k \in DOMAIN s : s[k] = x
      /\ \A k, j \in DOMAIN s : k < j => <<s[k], s[j]>> \in R
  BY <1>1, <1>4, ArrangedList
<1>6. \A k, j \in DOMAIN s : k < j => s[k] < s[j]
  BY <1>2, <1>5
<1> QED BY <1>5, <1>6 DEF s

\* The greatest of a finite set of numbers.
LEMMA HasMax ==
  ASSUME NEW S \in SUBSET Int, IsFiniteSet(S), S # {}
  PROVE  Max(S) \in S /\ \A x \in S : x <= Max(S)
<1> DEFINE s == Increasing(S)
           n == Cardinality(S)
<1>1. /\ s \in Seq(S) /\ n \in Nat /\ DOMAIN s = 1 .. n
      /\ \A x \in S : \E k \in DOMAIN s : s[k] = x
      /\ \A k, j \in DOMAIN s : k < j => s[k] < s[j]
  BY InOrder
<1>2. n # 0
  BY FS_EmptySet
<1> HIDE DEF s, n
<1>3. n \in 1 .. n /\ s[n] \in S
  BY <1>1, <1>2
<1>4. \A x \in S : s[n] >= x
  <2> SUFFICES ASSUME NEW x \in S PROVE s[n] >= x
    OBVIOUS
  <2>1. PICK k \in 1 .. n : s[k] = x
    BY <1>1
  <2>2. CASE k = n
    BY <1>3, <2>1, <2>2
  <2>3. CASE k < n
    <3>1. s[k] < s[n] /\ s[k] \in Int /\ s[n] \in Int
      BY <1>1, <1>3, <2>1, <2>3
    <3> QED BY <2>1, <3>1
  <2> QED BY <1>1, <2>1, <2>2, <2>3
<1>5. \E y \in S : \A x \in S : y >= x
  BY <1>3, <1>4
<1>6. Max(S) \in S /\ \A x \in S : Max(S) >= x
  BY <1>5 DEF Max
<1> QED BY <1>6

\* Picking elements of a sequence by their indices.
LEMMA Picked ==
  ASSUME NEW S, NEW s \in Seq(S), NEW I \in SUBSET DOMAIN s
  PROVE  /\ Pick(s, I) \in Seq(S)
         /\ ToSet(Pick(s, I)) = {s[k] : k \in I}
<1> DEFINE q == Increasing(I)
           n == Cardinality(I)
<1>1. I \in SUBSET Int /\ IsFiniteSet(I)
  BY FS_Interval, FS_Subset
<1>2. /\ q \in Seq(I) /\ n \in Nat /\ DOMAIN q = 1 .. n
      /\ \A x \in I : \E k \in DOMAIN q : q[k] = x
  BY <1>1, InOrder
<1>3. Pick(s, I) = [k \in 1 .. n |-> s[q[k]]]
  BY DEF Pick
<1> HIDE DEF q, n
<1>4. \A k \in 1 .. n : q[k] \in I
  BY <1>2
<1>5. \A k \in 1 .. n : s[q[k]] \in S
  BY <1>4
<1>6. Pick(s, I) \in Seq(S)
  BY <1>2, <1>3, <1>5
<1>7. ToSet(Pick(s, I)) = {s[k] : k \in I}
  BY <1>2, <1>3, <1>4 DEF ToSet
<1> QED BY <1>6, <1>7

LEMMA PickedApart ==
  ASSUME NEW S, NEW s \in Seq(S), NEW I \in SUBSET DOMAIN s
  PROVE  \E q : \A j, k \in DOMAIN Pick(s, I) :
           /\ q[k] \in I /\ Pick(s, I)[k] = s[q[k]]
           /\ q[j] = q[k] => j = k
<1> DEFINE q == Increasing(I)
           n == Cardinality(I)
<1>1. I \in SUBSET Int /\ IsFiniteSet(I)
  BY FS_Interval, FS_Subset
<1>2. /\ q \in Seq(I) /\ n \in Nat /\ DOMAIN q = 1 .. n
      /\ \A k, j \in DOMAIN q : k < j => q[k] < q[j]
  BY <1>1, InOrder
<1>3. Pick(s, I) = [k \in 1 .. n |-> s[q[k]]]
  BY DEF Pick
<1> HIDE DEF q, n
<1>4. \A k \in 1 .. n : q[k] \in I /\ q[k] \in Int
  BY <1>1, <1>2
<1>5. \A j, k \in 1 .. n : q[j] = q[k] => j = k
  <2> SUFFICES ASSUME NEW j \in 1 .. n, NEW k \in 1 .. n, q[j] = q[k]
               PROVE  j = k
    OBVIOUS
  <2>1. ~ (q[j] < q[k]) /\ ~ (q[k] < q[j])
    BY <1>4
  <2> QED BY <1>2, <2>1
<1>6. \A j, k \in DOMAIN Pick(s, I) :
        /\ q[k] \in I /\ Pick(s, I)[k] = s[q[k]]
        /\ q[j] = q[k] => j = k
  BY <1>3, <1>4, <1>5
<1> QED BY <1>6

\* A finite set mapped by a function.
LEMMA FiniteImage ==
  ASSUME NEW S, IsFiniteSet(S), NEW f
  PROVE  IsFiniteSet({f[x] : x \in S})
<1> DEFINE T == {f[x] : x \in S}
           g == [x \in S |-> f[x]]
<1>1. g \in Surjection(S, T)
  BY DEF Surjection
<1> QED BY <1>1, FS_Surjection

\* No element of sequence s occurs twice.
Once(s) == \A i, j \in DOMAIN s : s[i] = s[j] => i = j

\* A list without repetition is as long as it has elements.
LEMMA OnceCounts ==
  ASSUME NEW S, NEW s \in Seq(S), Once(s)
  PROVE  Len(s) = Cardinality(ToSet(s))
<1> DEFINE D == 1 .. Len(s)
           T == ToSet(s)
<1>1. Len(s) \in Nat /\ DOMAIN s = D /\ s \in [D -> S]
  BY LenProperties
<1>2. IsFiniteSet(D) /\ Cardinality(D) = Len(s)
  BY <1>1, FS_Interval
<1> HIDE DEF D
<1>3. s \in [D -> T]
  BY <1>1 DEF ToSet
<1>4. s \in Surjection(D, T)
  BY <1>1, <1>3 DEF Surjection, ToSet
<1>5. s \in Injection(D, T)
  BY <1>1, <1>3 DEF Injection, IsInjective, Once
<1> QED BY <1>2, <1>4, <1>5, FS_Surjection

LEMMA ConcatOnce ==
  ASSUME NEW S, NEW s \in Seq(S), NEW r \in Seq(S),
         Once(s), Once(r), ToSet(s) \cap ToSet(r) = {}
  PROVE  Once(s \o r)
<1> DEFINE m == Len(s)
           n == Len(r)
           c == s \o r
<1>1. /\ m \in Nat /\ n \in Nat /\ DOMAIN s = 1 .. m /\ DOMAIN r = 1 .. n
      /\ DOMAIN c = 1 .. m + n
      /\ \A i \in 1 .. m + n : c[i] = IF i <= m THEN s[i] ELSE r[i - m]
  BY ConcatProperties, LenProperties
<1> HIDE DEF m, n, c
<1>2. \A i \in 1 .. m : c[i] = s[i] /\ s[i] \in ToSet(s)
  BY <1>1 DEF ToSet
<1>3. ASSUME NEW i \in 1 .. m + n, i > m
      PROVE  i - m \in 1 .. n /\ c[i] = r[i - m] /\ r[i - m] \in ToSet(r)
  <2>1. i - m \in 1 .. n /\ c[i] = r[i - m]
    BY <1>1, <1>3
  <2> QED BY <1>1, <2>1 DEF ToSet
<1>4. ASSUME NEW i \in 1 .. m + n, NEW j \in 1 .. m + n, c[i] = c[j]
      PROVE  i = j
  <2>1. CASE i <= m /\ j <= m
    <3>1. i \in 1 .. m /\ j \in 1 .. m
      BY <1>1, <2>1
    <3> QED BY <1>1, <1>2, <1>4, <3>1 DEF Once
  <2>2. CASE i > m /\ j > m
    <3>1. i - m = j - m
      BY <1>1, <1>3, <1>4, <2>2 DEF Once
    <3> QED BY <1>1, <3>1
  <2>3. CASE i <= m /\ j > m
    <3>1. i \in 1 .. m
      BY <1>1, <2>3
    <3> QED BY <1>2, <1>3, <1>4, <2>3, <3>1
  <2>4. CASE i > m /\ j <= m
    <3>1. j \in 1 .. m
      BY <1>1, <2>4
    <3> QED BY <1>2, <1>3, <1>4, <2>4, <3>1
  <2> QED BY <1>1, <2>1, <2>2, <2>3, <2>4
<1> QED BY <1>1, <1>4 DEF Once, c

\* A flattened sequence repeats nothing when its parts do not.
LEMMA FlattenOnce ==
  ASSUME NEW S, NEW s \in Seq(Seq(S)), \A k \in DOMAIN s : Once(s[k]),
         \A k, j \in DOMAIN s : k # j => ToSet(s[k]) \cap ToSet(s[j]) = {}
  PROVE  Once(FlattenSeq(s))
<1> DEFINE n == Len(s)
<1>1. PICK p \in [0 .. n -> Seq(S)] :
        /\ p[0] = <<>>
        /\ \A k \in 1 .. n : p[k] = p[k - 1] \o s[k]
        /\ FlattenSeq(s) = p[n]
  BY FlattenPrefixes
<1>2. n \in Nat /\ DOMAIN s = 1 .. n /\ \A k \in 1 .. n : s[k] \in Seq(S)
  BY LenProperties, ElementOfSeq
<1> DEFINE U == {k \in Nat : k <= n =>
                   /\ Once(p[k])
                   /\ \A x \in ToSet(p[k]) : \E j \in 1 .. k : x \in ToSet(s[j])}
<1>3. 0 \in U
  BY <1>1 DEF ToSet, Once
<1>4. ASSUME NEW k \in Nat, k \in U PROVE k + 1 \in U
  <2> SUFFICES ASSUME k + 1 <= n
               PROVE  /\ Once(p[k + 1])
                      /\ \A x \in ToSet(p[k + 1]) : \E j \in 1 .. k + 1 : x \in ToSet(s[j])
    OBVIOUS
  <2> HIDE DEF n
  <2> DEFINE i == k + 1
  <2>1. k \in 0 .. n /\ i \in 1 .. n /\ i - 1 = k /\ \A j \in 1 .. k : j # i /\ j \in 1 .. n /\ j \in 1 .. i
    BY <1>2
  <2> HIDE DEF i
  <2>2. p[k] \in Seq(S) /\ s[i] \in Seq(S) /\ p[i] = p[k] \o s[i]
    BY <1>1, <1>2, <2>1
  <2>3. Once(p[k]) /\ \A x \in ToSet(p[k]) : \E j \in 1 .. k : x \in ToSet(s[j])
    BY <1>4, <2>1
  <2>4. ToSet(p[k]) \cap ToSet(s[i]) = {}
    BY <1>2, <2>1, <2>3
  <2>5. Once(p[i])
    <3>1. Once(s[i])
      BY <1>2, <2>1
    <3>2. Once(p[k] \o s[i])
      BY <2>2, <2>3, <2>4, <3>1, ConcatOnce
    <3> QED BY <2>2, <3>2
  <2>6. ToSet(p[i]) = ToSet(p[k]) \cup ToSet(s[i])
    BY <2>2, ConcatElements
  <2>7. \A x \in ToSet(p[i]) : \E j \in 1 .. i : x \in ToSet(s[j])
    <3>1. i \in 1 .. i
      BY <1>2, <2>1
    <3> QED BY <2>1, <2>3, <2>6, <3>1
  <2> QED BY <2>5, <2>7 DEF i
<1> HIDE DEF n, U
<1>5. Nat \subseteq U
  BY ONLY <1>3, <1>4, Induction
<1> QED BY <1>1, <1>2, <1>5 DEF U

\* Two sequences that go on by the same rule agree as far as both go.
LEMMA SameSteps ==
  ASSUME NEW S, NEW n \in Nat, NEW m \in Nat, m <= n, NEW b,
         NEW F, NEW G, \A k \in 1 .. m : F[k] = G[k],
         NEW h, NEW g, Iterates(h, S, n, b, F), Iterates(g, S, m, b, G)
  PROVE  \A k \in 0 .. m : h[k] = g[k]
<1> DEFINE T == {k \in Nat : k <= m => h[k] = g[k]}
<1>1. 0 \in T
  BY DEF Iterates
<1>2. ASSUME NEW k \in Nat, k \in T PROVE k + 1 \in T
  <2> SUFFICES ASSUME k + 1 <= m PROVE h[k + 1] = g[k + 1]
    OBVIOUS
  <2> DEFINE i == k + 1
  <2>1. i \in 1 .. m /\ i \in 1 .. n /\ i - 1 = k /\ k <= m
    OBVIOUS
  <2>2. h[k] = g[k]
    BY <1>2, <2>1
  <2> HIDE DEF i, T
  <2>3. h[i] = F[i][h[i - 1]] /\ g[i] = G[i][g[i - 1]] /\ F[i] = G[i]
    BY <2>1 DEF Iterates
  <2>4. h[i] = g[i]
    BY <2>1, <2>2, <2>3
  <2> QED BY <2>4 DEF i
<1> HIDE DEF T
<1>3. Nat \subseteq T
  BY ONLY <1>1, <1>2, Induction
<1> QED BY <1>3 DEF T

-----------------------------------------------------------------------------
(***************************************************************************)
(* Offsets: where the parts of a flattened sequence lie.                   *)
(***************************************************************************)
\* Where the entries of two sequences are in their concatenation.
LEMMA ConcatPlaces ==
  ASSUME NEW S, NEW u \in Seq(S), NEW v \in Seq(S)
  PROVE  /\ u \o v \in Seq(S) /\ Len(u \o v) = Len(u) + Len(v)
         /\ Len(u) \in Nat /\ Len(v) \in Nat
         /\ \A i \in 1 .. Len(u) : (u \o v)[i] = u[i]
         /\ \A j \in 1 .. Len(v) : (u \o v)[Len(u) + j] = v[j]
<1> DEFINE w == u \o v
<1>1. Len(u) \in Nat /\ Len(v) \in Nat
  BY LenProperties
<1>2. /\ w \in Seq(S) /\ Len(w) = Len(u) + Len(v)
      /\ \A i \in 1 .. Len(u) + Len(v) : w[i] = IF i <= Len(u) THEN u[i] ELSE v[i - Len(u)]
  BY ConcatProperties
<1> HIDE DEF w
<1>3. ASSUME NEW i \in 1 .. Len(u) PROVE w[i] = u[i]
  <2>1. i \in 1 .. Len(u) + Len(v) /\ i <= Len(u)
    BY <1>1
  <2> QED BY <1>2, <2>1
<1>4. ASSUME NEW j \in 1 .. Len(v) PROVE w[Len(u) + j] = v[j]
  <2> DEFINE i == Len(u) + j
  <2>1. i \in 1 .. Len(u) + Len(v) /\ ~(i <= Len(u)) /\ i - Len(u) = j
    BY <1>1
  <2> HIDE DEF i
  <2>2. w[i] = v[i - Len(u)]
    BY <1>2, <2>1
  <2> QED BY <2>1, <2>2 DEF i
<1> QED BY <1>1, <1>2, <1>3, <1>4 DEF w

\* The sums p of the lengths of the parts of s.
Offsets(p, s) ==
  /\ p \in [0 .. Len(s) -> Nat] /\ p[0] = 0
  /\ \A k \in 1 .. Len(s) : p[k] = p[k - 1] + Len(s[k])

\* The sums of the lengths before each part.
LEMMA HasOffsets ==
  ASSUME NEW S, NEW s \in Seq(Seq(S))
  PROVE  \E p : Offsets(p, s)
<1> DEFINE n == Len(s)
           F == [k \in 1 .. n |-> [x \in Nat |-> x + Len(s[k])]]
<1>1. n \in Nat /\ \A k \in 1 .. n : s[k] \in Seq(S)
  BY LenProperties, ElementOfSeq
<1>2. \A k \in 1 .. n : Len(s[k]) \in Nat
  BY <1>1, LenProperties
<1>3. F \in [1 .. n -> [Nat -> Nat]]
  BY <1>2
<1>4. \A k \in 1 .. n : \A x \in Nat : F[k][x] = x + Len(s[k])
  OBVIOUS
<1> HIDE DEF F, n
<1>5. PICK p : Iterates(p, Nat, n, 0, F)
  BY <1>1, <1>3, StepByStep
<1>6. p \in [0 .. n -> Nat] /\ p[0] = 0 /\ \A k \in 1 .. n : p[k] = F[k][p[k - 1]]
  BY <1>5 DEF Iterates
<1>7. \A k \in 1 .. n : p[k] = p[k - 1] + Len(s[k])
  <2> TAKE k \in 1 .. n
  <2>1. k - 1 \in 0 .. n
    BY <1>1
  <2> QED BY <1>4, <1>6, <2>1
<1> QED BY <1>6, <1>7 DEF Offsets, n

\* The j-th entry of the k-th part comes j after the parts before it.
LEMMA FlattenPlaces ==
  ASSUME NEW S, NEW s \in Seq(Seq(S)), NEW p, Offsets(p, s)
  PROVE  /\ FlattenSeq(s) \in Seq(S) /\ Len(FlattenSeq(s)) = p[Len(s)]
         /\ \A k \in 1 .. Len(s) :
              /\ p[k] <= p[Len(s)]
              /\ \A j \in 1 .. Len(s[k]) : FlattenSeq(s)[p[k - 1] + j] = s[k][j]
<1> DEFINE n == Len(s)
<1>1. n \in Nat /\ \A k \in 1 .. n : s[k] \in Seq(S) /\ Len(s[k]) \in Nat
  BY LenProperties, ElementOfSeq
<1>2. PICK q \in [0 .. n -> Seq(S)] :
        /\ q[0] = <<>>
        /\ \A k \in 1 .. n : q[k] = q[k - 1] \o s[k]
        /\ FlattenSeq(s) = q[n]
  BY FlattenPrefixes
<1>3. p \in [0 .. n -> Nat] /\ p[0] = 0 /\ \A k \in 1 .. n : p[k] = p[k - 1] + Len(s[k])
  BY DEF Offsets
<1> DEFINE Placed(m) ==
             /\ Len(q[m]) = p[m]
             /\ \A k \in 1 .. m : /\ p[k] <= p[m]
                                  /\ \A j \in 1 .. Len(s[k]) : q[m][p[k - 1] + j] = s[k][j]
           T == {m \in Nat : m <= n => Placed(m)}
<1> HIDE DEF n
<1>4. 0 \in T
  BY <1>2, <1>3
<1>5. ASSUME NEW m \in Nat, m \in T PROVE m + 1 \in T
  <2> SUFFICES ASSUME m + 1 <= n PROVE Placed(m + 1)
    OBVIOUS
  <2> DEFINE M1 == m + 1
  <2>1. M1 \in 1 .. n /\ M1 - 1 = m /\ m \in 0 .. n /\ M1 \in 0 .. n
    BY <1>1
  <2>2. q[M1] = q[m] \o s[M1] /\ q[m] \in Seq(S) /\ s[M1] \in Seq(S)
    BY <1>1, <1>2, <2>1
  <2>3. p[M1] = p[m] + Len(s[M1]) /\ p[m] \in Nat /\ p[M1] \in Nat /\ Len(s[M1]) \in Nat
    BY <1>1, <1>3, <2>1
  <2>4. /\ Len(q[m]) = p[m]
        /\ \A k \in 1 .. m : /\ p[k] <= p[m]
                             /\ \A j \in 1 .. Len(s[k]) : q[m][p[k - 1] + j] = s[k][j]
    BY <1>5, <2>1, <1>1
  <2>a. Len(q[m]) = p[m] /\ M1 \in Nat
    BY <2>4, <2>1, <1>1
  <2> HIDE DEF M1, Placed, T
  <2>5. /\ Len(q[M1]) = Len(q[m]) + Len(s[M1])
        /\ \A i \in 1 .. Len(q[m]) : q[M1][i] = q[m][i]
        /\ \A j \in 1 .. Len(s[M1]) : q[M1][Len(q[m]) + j] = s[M1][j]
    <3> DEFINE u == q[m]
               v == s[M1]
    <3>1. u \in Seq(S) /\ v \in Seq(S)
      BY <2>2
    <3> HIDE DEF u, v
    <3>2. /\ Len(u \o v) = Len(u) + Len(v)
          /\ \A i \in 1 .. Len(u) : (u \o v)[i] = u[i]
          /\ \A j \in 1 .. Len(v) : (u \o v)[Len(u) + j] = v[j]
      BY ONLY <3>1, ConcatPlaces
    <3>3. q[M1] = u \o v
      BY <2>2 DEF u, v
    <3> QED BY ONLY <3>2, <3>3 DEF u, v
  <2>6. Len(q[M1]) = p[M1]
    BY ONLY <2>3, <2>a, <2>5
  <2>7. ASSUME NEW k \in 1 .. M1, NEW j \in 1 .. Len(s[k])
        PROVE  q[M1][p[k - 1] + j] = s[k][j]
    <3>1. CASE k = M1
      <4>1. k - 1 = m
        BY <2>1, <3>1
      <4>2. j \in 1 .. Len(s[M1])
        BY <3>1
      <4>3. q[M1][Len(q[m]) + j] = s[M1][j]
        BY <2>5, <4>2
      <4> QED BY ONLY <2>a, <3>1, <4>1, <4>3
    <3>2. CASE k # M1
      <4>1. k \in 1 .. m /\ k \in 1 .. n /\ k - 1 \in 0 .. n /\ k \in 0 .. n
        BY <2>1, <3>2, <1>1
      <4>2. p[k] = p[k - 1] + Len(s[k]) /\ p[k - 1] \in Nat /\ p[k] \in Nat /\ Len(s[k]) \in Nat
        BY <1>1, <1>3, <4>1
      <4>3. p[k] <= p[m] /\ q[m][p[k - 1] + j] = s[k][j]
        BY <2>4, <4>1
      <4>4. p[k - 1] + j \in 1 .. Len(q[m])
        <5> DEFINE x == p[k - 1]
                   y == Len(s[k])
                   z == p[m]
        <5>1. x \in Nat /\ y \in Nat /\ z \in Nat /\ x + y <= z /\ j \in 1 .. y
          BY <2>3, <4>2, <4>3
        <5> HIDE DEF x, y, z
        <5>2. x + j \in 1 .. z
          BY ONLY <5>1
        <5> QED BY ONLY <2>a, <5>2 DEF x, z
      <4> QED BY ONLY <2>5, <4>3, <4>4
    <3> QED BY <3>1, <3>2
  <2>8. ASSUME NEW k \in 1 .. M1 PROVE p[k] <= p[M1]
    <3>1. CASE k = M1
      <4>1. p[k] = p[M1]
        BY <3>1
      <4> QED BY ONLY <2>3, <4>1
    <3>2. CASE k # M1
      <4>1. k \in 1 .. m /\ k \in 0 .. n
        BY <2>1, <3>2, <1>1
      <4>2. p[k] <= p[m] /\ p[k] \in Nat
        BY <1>3, <2>4, <4>1
      <4> QED BY ONLY <2>3, <4>2
    <3> QED BY <3>1, <3>2
  <2> QED BY <2>6, <2>7, <2>8 DEF M1, Placed
<1> HIDE DEF T
<1>6. n \in T
  BY <1>1, <1>4, <1>5, Induction
<1>7. Placed(n)
  <2> HIDE DEF Placed
  <2>1. n <= n
    BY <1>1
  <2> QED BY <1>6, <2>1 DEF T
<1>8. q[n] \in Seq(S)
  BY <1>1, <1>2
<1> QED BY <1>2, <1>7, <1>8 DEF n

-----------------------------------------------------------------------------
(***************************************************************************)
(* The flat array: what populateFromFlat reads is what was written.        *)
(***************************************************************************)
\* The rows of the concepts, found by going from each count to the next.
LEMMA RowsFound ==
  ASSUME NEW flat, NEW n \in Nat, NEW r \in [0 .. n -> Nat], r[0] = 3 + 2 * flat[2],
         \A k \in 1 .. n :
           r[k] = (r[k - 1] + 1 + flat[r[k - 1]])
                  + 1 + flat[r[k - 1] + 1 + flat[r[k - 1]]]
  PROVE  \A c \in 0 .. n : RowAt(flat, c) = r[c]
<1> TAKE c \in 0 .. n
<1> DEFINE after(x) == x + 1 + flat[x]
           Def(f) == f = [k \in 0 .. c |->
                            IF k = 0 THEN 3 + 2 * flat[2] ELSE after(after(f[k - 1]))]
           g == [k \in 0 .. c |-> r[k]]
           row == CHOOSE f : Def(f)
<1>1. \A k \in 0 .. c : g[k] = IF k = 0 THEN 3 + 2 * flat[2] ELSE after(after(g[k - 1]))
  <2> TAKE k \in 0 .. c
  <2>1. CASE k = 0
    BY <2>1
  <2>2. CASE k # 0
    <3>1. k \in 1 .. n /\ k - 1 \in 0 .. c
      BY <2>2
    <3>2. g[k - 1] = r[k - 1] /\ g[k] = r[k]
      BY <3>1
    <3> HIDE DEF g
    <3> QED BY <2>2, <3>1, <3>2
  <2> QED BY <2>1, <2>2
<1>2. Def(g)
  BY <1>1
<1>3. Def(row)
  <2> HIDE DEF Def
  <2> QED BY <1>2
<1>4. \A k \in 0 .. c : row[k] = IF k = 0 THEN 3 + 2 * flat[2] ELSE after(after(row[k - 1]))
  <2> HIDE DEF row, after
  <2> QED BY <1>3
<1>5. RowAt(flat, c) = row[c]
  BY DEF RowAt
<1> DEFINE T == {k \in Nat : k <= c => row[k] = r[k]}
<1> HIDE DEF row, Def, g
<1>6. 0 \in T
  BY <1>4
<1>7. ASSUME NEW k \in Nat, k \in T PROVE k + 1 \in T
  <2> SUFFICES ASSUME k + 1 <= c PROVE row[k + 1] = r[k + 1]
    OBVIOUS
  <2>1. k + 1 \in 0 .. c /\ k + 1 # 0 /\ (k + 1) - 1 = k /\ k + 1 \in 1 .. n
    OBVIOUS
  <2>2. row[k] = r[k]
    BY <1>7, <2>1
  <2>3. row[k + 1] = after(after(row[k]))
    BY <1>4, <2>1
  <2> QED BY <2>1, <2>2, <2>3
<1> HIDE DEF T
<1>8. Nat \subseteq T
  BY ONLY <1>6, <1>7, Induction
<1>9. c \in Nat /\ c <= c
  OBVIOUS
<1> QED BY <1>5, <1>8, <1>9 DEF T

\* A set read where a sequence lies after its length.
LEMMA SetRead ==
  ASSUME NEW S, NEW flat \in Seq(S), NEW a \in Seq(S), NEW x \in Nat \ {0},
         flat[x] = Len(a), x + Len(a) <= Len(flat),
         \A j \in 1 .. Len(a) : flat[x + j] = a[j]
  PROVE  SetAt(flat, x) = ToSet(a)
<1> DEFINE m == x + 1
           k == x + Len(a)
           u == SubSeq(flat, m, k)
<1>1. Len(a) \in Nat /\ Len(flat) \in Nat /\ DOMAIN a = 1 .. Len(a)
  BY LenProperties
<1>2. m \in 1 .. Len(flat) + 1 /\ k \in m - 1 .. Len(flat) /\ k - m + 1 = Len(a)
  BY <1>1
<1> HIDE DEF m, k
<1>3. /\ u \in Seq(S) /\ Len(u) = k - m + 1
      /\ \A i \in 1 .. k - m + 1 : u[i] = flat[m + i - 1]
  BY ONLY <1>2, flat \in Seq(S), SubSeqProperties
<1> HIDE DEF u
<1>4. DOMAIN u = 1 .. Len(a)
  BY <1>2, <1>3, LenProperties
<1>5. \A i \in 1 .. Len(a) : u[i] = a[i]
  <2> TAKE i \in 1 .. Len(a)
  <2>1. m + i - 1 = x + i
    BY DEF m
  <2> QED BY <1>2, <1>3, <2>1
<1>6. ToSet(u) = ToSet(a)
  BY <1>1, <1>4, <1>5 DEF ToSet
<1> QED BY <1>6 DEF SetAt, u, m, k

\* Pairs one after the other.
LEMMA PairsFlat ==
  ASSUME NEW edges \in Seq(Nat \X Nat)
  PROVE  /\ FlattenSeq(edges) \in Seq(Nat) /\ Len(FlattenSeq(edges)) = 2 * Len(edges)
         /\ \A k \in 1 .. Len(edges) :
              /\ FlattenSeq(edges)[2 * k - 1] = edges[k][1]
              /\ FlattenSeq(edges)[2 * k] = edges[k][2]
<1> DEFINE n == Len(edges)
           p == [k \in 0 .. n |-> 2 * k]
<1>1. n \in Nat /\ DOMAIN edges = 1 .. n /\ \A k \in 1 .. n : edges[k] \in Nat \X Nat
  BY LenProperties, ElementOfSeq
<1>2. \A e \in Nat \X Nat : e \in Seq(Nat) /\ Len(e) = 2
  <2> TAKE e \in Nat \X Nat
  <2>1. e = <<e[1], e[2]>> /\ e[1] \in Nat /\ e[2] \in Nat
    OBVIOUS
  <2>2. <<e[1], e[2]>> \in Seq(Nat) /\ Len(<<e[1], e[2]>>) = 2
    BY <2>1
  <2> QED BY <2>1, <2>2
<1>3. edges \in Seq(Seq(Nat))
  <2>1. Nat \X Nat \subseteq Seq(Nat)
    BY <1>2
  <2> QED BY <2>1
<1>4. Offsets(p, edges)
  <2>1. p \in [0 .. n -> Nat] /\ p[0] = 0
    BY <1>1
  <2>2. \A k \in 1 .. n : p[k] = p[k - 1] + Len(edges[k])
    <3> TAKE k \in 1 .. n
    <3>1. p[k] = 2 * k /\ p[k - 1] = 2 * (k - 1) /\ Len(edges[k]) = 2
      BY <1>1, <1>2
    <3> QED BY <3>1
  <2> HIDE DEF p
  <2> QED BY <2>1, <2>2 DEF Offsets
<1>5. /\ FlattenSeq(edges) \in Seq(Nat) /\ Len(FlattenSeq(edges)) = p[n]
      /\ \A k \in 1 .. n : \A j \in 1 .. Len(edges[k]) : FlattenSeq(edges)[p[k - 1] + j] = edges[k][j]
  <2> HIDE DEF p
  <2> QED BY <1>3, <1>4, FlattenPlaces
<1>6. ASSUME NEW k \in 1 .. n
      PROVE  FlattenSeq(edges)[2 * k - 1] = edges[k][1] /\ FlattenSeq(edges)[2 * k] = edges[k][2]
  <2>1. p[k - 1] = 2 * (k - 1) /\ Len(edges[k]) = 2
    BY <1>1, <1>2
  <2>2. p[k - 1] + 1 = 2 * k - 1 /\ p[k - 1] + 2 = 2 * k
    BY <1>1, <2>1
  <2>3. 1 \in 1 .. Len(edges[k]) /\ 2 \in 1 .. Len(edges[k])
    BY <2>1
  <2> HIDE DEF p
  <2>4. FlattenSeq(edges)[p[k - 1] + 1] = edges[k][1] /\ FlattenSeq(edges)[p[k - 1] + 2] = edges[k][2]
    BY <1>5, <2>3
  <2> QED BY <2>2, <2>4
<1>7. p[n] = 2 * n
  BY <1>1
<1> QED BY <1>5, <1>6, <1>7

\* A row of the flat array: two sequences, each after its length.
LEMMA RowShape ==
  ASSUME NEW a \in Seq(Nat), NEW b \in Seq(Nat)
  PROVE  LET row == Counted(a) \o Counted(b)
         IN  /\ row \in Seq(Nat) /\ Len(row) = 2 + Len(a) + Len(b)
             /\ row[1] = Len(a) /\ row[2 + Len(a)] = Len(b)
             /\ \A j \in 1 .. Len(a) : row[1 + j] = a[j]
             /\ \A j \in 1 .. Len(b) : row[2 + Len(a) + j] = b[j]
<1>0. ASSUME NEW s \in Seq(Nat)
      PROVE  /\ Counted(s) \in Seq(Nat) /\ Len(Counted(s)) = 1 + Len(s) /\ Counted(s)[1] = Len(s)
             /\ \A j \in 1 .. Len(s) : Counted(s)[1 + j] = s[j]
  <2>1. Len(s) \in Nat
    BY LenProperties
  <2> DEFINE h == <<Len(s)>>
  <2>2. h \in Seq(Nat) /\ Len(h) = 1 /\ h[1] = Len(s)
    BY <2>1
  <2> HIDE DEF h
  <2>3. /\ h \o s \in Seq(Nat) /\ Len(h \o s) = Len(h) + Len(s)
        /\ \A i \in 1 .. Len(h) + Len(s) :
             (h \o s)[i] = IF i <= Len(h) THEN h[i] ELSE s[i - Len(h)]
    BY <2>2, ConcatProperties
  <2>4. \A j \in 1 .. Len(s) : 1 + j \in 1 .. Len(h) + Len(s) /\ ~(1 + j <= Len(h)) /\ 1 + j - Len(h) = j
    BY <2>1, <2>2
  <2>5. 1 \in 1 .. Len(h) + Len(s) /\ 1 <= Len(h)
    BY <2>1, <2>2
  <2>6. Counted(s) = h \o s
    BY DEF Counted, h
  <2> QED BY <2>2, <2>3, <2>4, <2>5, <2>6
<1> DEFINE x == Counted(a)
           y == Counted(b)
           row == x \o y
<1>1. /\ Len(a) \in Nat /\ Len(b) \in Nat
      /\ x \in Seq(Nat) /\ Len(x) = 1 + Len(a) /\ x[1] = Len(a)
      /\ \A j \in 1 .. Len(a) : x[1 + j] = a[j]
      /\ y \in Seq(Nat) /\ Len(y) = 1 + Len(b) /\ y[1] = Len(b)
      /\ \A j \in 1 .. Len(b) : y[1 + j] = b[j]
  BY <1>0, LenProperties
<1> HIDE DEF x, y
<1>a. x \in Seq(Nat) /\ y \in Seq(Nat)
  BY <1>1
<1>2. /\ row \in Seq(Nat) /\ Len(row) = Len(x) + Len(y)
      /\ \A i \in 1 .. Len(x) : row[i] = x[i]
      /\ \A j \in 1 .. Len(y) : row[Len(x) + j] = y[j]
  BY ONLY <1>a, ConcatPlaces
<1> HIDE DEF row
<1>3. 1 \in 1 .. Len(x) /\ 1 \in 1 .. Len(y) /\ Len(x) + 1 = 2 + Len(a)
  BY <1>1
<1>4. row[1] = Len(a) /\ row[Len(x) + 1] = Len(b)
  BY <1>1, <1>2, <1>3
<1>5. ASSUME NEW j \in 1 .. Len(a) PROVE row[1 + j] = a[j]
  <2>1. 1 + j \in 1 .. Len(x)
    BY <1>1
  <2> QED BY <1>1, <1>2, <2>1
<1>6. ASSUME NEW j \in 1 .. Len(b) PROVE row[2 + Len(a) + j] = b[j]
  <2>1. 1 + j \in 1 .. Len(y)
    BY <1>1
  <2>2. Len(x) + (1 + j) = 2 + Len(a) + j
    BY <1>1
  <2>3. row[Len(x) + (1 + j)] = y[1 + j]
    BY <1>2, <2>1
  <2> QED BY <1>1, <2>2, <2>3
<1>7. Len(row) = 2 + Len(a) + Len(b)
  BY <1>1, <1>2
<1>8. row[2 + Len(a)] = Len(b)
  BY <1>3, <1>4
<1>9. row = Counted(a) \o Counted(b)
  BY DEF row, x, y
<1> QED BY <1>2, <1>4, <1>5, <1>6, <1>7, <1>8, <1>9

\* Whatever edges and reduced sets csr_to_flat_array lays out, populateFromFlat
\* reads the same back, and the array is as long as computed beforehand.
THEOREM RoundTrip ==
  ASSUME NEW edges \in Seq(Nat \X Nat), NEW rexts \in Seq(Seq(Nat)),
         NEW rints \in Seq(Seq(Nat)), Len(rints) = Len(rexts)
  PROVE  /\ Decode(Encode(edges, rexts, rints)) =
              [n     |-> Len(rexts),
               edges |-> edges,
               rext  |-> [c \in 0 .. Len(rexts) - 1 |-> ToSet(rexts[c + 1])],
               rint  |-> [c \in 0 .. Len(rexts) - 1 |-> ToSet(rints[c + 1])]]
         /\ Len(Encode(edges, rexts, rints)) =
              2 + 2 * Len(edges) + 2 * Len(rexts) + Len(FlattenSeq(rexts)) + Len(FlattenSeq(rints))
<1> DEFINE E == Len(edges)
           n == Len(rexts)
           A == <<n, E>>
           B == FlattenSeq(edges)
           rows == [k \in DOMAIN rexts |-> Counted(rexts[k]) \o Counted(rints[k])]
           Z == FlattenSeq(rows)
           flat == Encode(edges, rexts, rints)
           la(k) == Len(rexts[k])
           lb(k) == Len(rints[k])
<1>1. /\ E \in Nat /\ n \in Nat /\ DOMAIN rexts = 1 .. n
      /\ \A k \in 1 .. n : /\ rexts[k] \in Seq(Nat) /\ rints[k] \in Seq(Nat)
                           /\ la(k) \in Nat /\ lb(k) \in Nat
  BY LenProperties, ElementOfSeq
<1>2. /\ B \in Seq(Nat) /\ Len(B) = 2 * E
      /\ \A k \in 1 .. E : B[2 * k - 1] = edges[k][1] /\ B[2 * k] = edges[k][2]
  BY PairsFlat
<1>3. \A k \in 1 .. n :
        /\ rows[k] \in Seq(Nat) /\ Len(rows[k]) = 2 + la(k) + lb(k)
        /\ rows[k][1] = la(k) /\ rows[k][2 + la(k)] = lb(k)
        /\ \A j \in 1 .. la(k) : rows[k][1 + j] = rexts[k][j]
        /\ \A j \in 1 .. lb(k) : rows[k][2 + la(k) + j] = rints[k][j]
  <2> TAKE k \in 1 .. n
  <2>1. rows[k] = Counted(rexts[k]) \o Counted(rints[k])
    BY <1>1
  <2>2. rexts[k] \in Seq(Nat) /\ rints[k] \in Seq(Nat)
    BY <1>1
  <2> HIDE DEF rows
  <2> DEFINE a == rexts[k]
             b == rints[k]
             row == Counted(a) \o Counted(b)
  <2>3. a \in Seq(Nat) /\ b \in Seq(Nat)
    BY <2>2
  <2> HIDE DEF a, b
  <2>4. /\ row \in Seq(Nat) /\ Len(row) = 2 + Len(a) + Len(b)
        /\ row[1] = Len(a) /\ row[2 + Len(a)] = Len(b)
        /\ \A j \in 1 .. Len(a) : row[1 + j] = a[j]
        /\ \A j \in 1 .. Len(b) : row[2 + Len(a) + j] = b[j]
    BY ONLY <2>3, RowShape
  <2>5. rows[k] = row
    BY <2>1 DEF a, b
  <2> HIDE DEF row
  <2> QED BY ONLY <2>4, <2>5 DEF a, b
<1>4. rows \in Seq(Seq(Nat)) /\ Len(rows) = n
  <2>1. rows \in [1 .. n -> Seq(Nat)]
    <3>1. DOMAIN rows = 1 .. n /\ rows = [k \in 1 .. n |-> rows[k]]
      BY <1>1
    <3> HIDE DEF rows
    <3> QED BY <1>3, <3>1
  <2> HIDE DEF rows, n
  <2> QED BY <1>1, <2>1
<1> HIDE DEF rows
<1>5. PICK p : Offsets(p, rows)
  BY <1>4, HasOffsets
<1>6. /\ p \in [0 .. n -> Nat] /\ p[0] = 0
      /\ \A k \in 1 .. n : p[k] = p[k - 1] + Len(rows[k])
  BY <1>4, <1>5 DEF Offsets
<1>7. /\ Z \in Seq(Nat) /\ Len(Z) = p[n]
      /\ \A k \in 1 .. n :
           /\ p[k] <= p[n]
           /\ \A j \in 1 .. Len(rows[k]) : Z[p[k - 1] + j] = rows[k][j]
  BY <1>4, <1>5, FlattenPlaces
<1> DEFINE H == 2 + 2 * E
<1>8. /\ flat \in Seq(Nat) /\ Len(flat) = H + p[n]
      /\ flat[1] = n /\ flat[2] = E
      /\ \A i \in 1 .. 2 * E : flat[2 + i] = B[i]
      /\ \A i \in 1 .. p[n] : flat[H + i] = Z[i]
  <2>1. flat = (A \o B) \o Z
    BY DEF Encode, rows
  <2>2. A \in Seq(Nat) /\ Len(A) = 2 /\ A[1] = n /\ A[2] = E
    BY <1>1
  <2>3. B \in Seq(Nat) /\ Z \in Seq(Nat)
    BY <1>2, <1>7
  <2> HIDE DEF A, B, Z, flat
  <2> DEFINE AB == A \o B
  <2>a. A \in Seq(Nat) /\ B \in Seq(Nat)
    BY <2>2, <2>3
  <2>4. /\ AB \in Seq(Nat) /\ Len(AB) = Len(A) + Len(B)
        /\ \A i \in 1 .. Len(A) : AB[i] = A[i]
        /\ \A j \in 1 .. Len(B) : AB[Len(A) + j] = B[j]
    BY ONLY <2>a, ConcatPlaces
  <2> HIDE DEF AB
  <2>5. AB \in Seq(Nat) /\ Z \in Seq(Nat)
    BY <2>3, <2>4
  <2>6. /\ AB \o Z \in Seq(Nat) /\ Len(AB \o Z) = Len(AB) + Len(Z)
        /\ \A i \in 1 .. Len(AB) : (AB \o Z)[i] = AB[i]
        /\ \A j \in 1 .. Len(Z) : (AB \o Z)[Len(AB) + j] = Z[j]
    BY ONLY <2>5, ConcatPlaces
  <2>7. flat = AB \o Z
    BY <2>1 DEF AB
  <2>8. Len(AB) = H /\ H \in Nat /\ 1 \in 1 .. H /\ 2 \in 1 .. H /\ 1 \in 1 .. 2 /\ 2 \in 1 .. 2
    BY <1>1, <1>2, <2>2, <2>4
  <2>9. AB[1] = n /\ AB[2] = E
    BY <2>2, <2>4, <2>8
  <2>10. \A i \in 1 .. 2 * E : 2 + i \in 1 .. H /\ AB[2 + i] = B[i]
    BY <1>1, <1>2, <2>2, <2>4
  <2> HIDE DEF H
  <2> QED BY <1>7, <2>6, <2>7, <2>8, <2>9, <2>10
<1> HIDE DEF flat, B, Z, A
<1>9. ASSUME NEW k \in 1 .. E
      PROVE  flat[2 * k + 1] = edges[k][1] /\ flat[2 * k + 2] = edges[k][2]
  <2>1. /\ 2 * k - 1 \in 1 .. 2 * E /\ 2 * k \in 1 .. 2 * E
        /\ 2 + (2 * k - 1) = 2 * k + 1 /\ 2 + 2 * k = 2 * k + 2
    BY <1>1
  <2>2. flat[2 + (2 * k - 1)] = B[2 * k - 1] /\ flat[2 + 2 * k] = B[2 * k]
    BY <1>8, <2>1
  <2> QED BY <1>2, <2>1, <2>2
<1>10. ASSUME NEW k \in 1 .. n
       PROVE  /\ p[k - 1] \in Nat /\ Len(rows[k]) \in Nat
              /\ p[k - 1] + Len(rows[k]) = p[k] /\ p[k] <= p[n] /\ p[n] \in Nat
              /\ \A j \in 1 .. Len(rows[k]) : flat[H + p[k - 1] + j] = rows[k][j]
  <2>1. k - 1 \in 0 .. n /\ k \in 0 .. n /\ n \in 0 .. n
    BY <1>1
  <2>2. /\ p[k - 1] \in Nat /\ Len(rows[k]) \in Nat /\ p[n] \in Nat
        /\ p[k - 1] + Len(rows[k]) = p[k] /\ p[k] <= p[n]
    <3>1. p[k - 1] \in Nat /\ p[k] \in Nat /\ p[n] \in Nat
      BY ONLY <1>6, <2>1
    <3>2. p[k] = p[k - 1] + Len(rows[k])
      BY <1>6
    <3>3. Len(rows[k]) = 2 + la(k) + lb(k) /\ la(k) \in Nat /\ lb(k) \in Nat
      BY <1>1, <1>3
    <3>4. Len(rows[k]) \in Nat
      BY <1>4, <1>3, LenProperties
    <3>5. p[k] <= p[n]
      BY <1>7
    <3> QED BY ONLY <3>1, <3>2, <3>4, <3>5
  <2>3. ASSUME NEW j \in 1 .. Len(rows[k])
        PROVE  flat[H + p[k - 1] + j] = rows[k][j]
    <3> DEFINE x == p[k - 1]
               y == Len(rows[k])
               z == p[n]
    <3>a. x \in Nat /\ y \in Nat /\ z \in Nat /\ x + y <= z /\ j \in 1 .. y
      BY <2>2
    <3> HIDE DEF x, y, z
    <3>b. x + j \in 1 .. z
      BY ONLY <3>a
    <3>1. p[k - 1] + j \in 1 .. p[n]
      BY <3>b DEF x, z
    <3>2. flat[H + (p[k - 1] + j)] = Z[p[k - 1] + j]
      BY <1>8, <3>1
    <3>3. H + (p[k - 1] + j) = H + p[k - 1] + j
      BY <1>1, <2>2
    <3> QED BY <1>7, <3>2, <3>3
  <2> QED BY <2>2, <2>3
<1> DEFINE r == [c \in 0 .. n |-> H + 1 + p[c]]
<1>11. ASSUME NEW k \in 1 .. n
       PROVE  LET x == H + 1 + p[k - 1]
                  y == x + 1 + la(k)
              IN  /\ x \in Nat \ {0} /\ y \in Nat \ {0}
                  /\ flat[x] = la(k) /\ flat[y] = lb(k)
                  /\ x + la(k) <= Len(flat) /\ y + lb(k) <= Len(flat)
                  /\ y + 1 + lb(k) = H + 1 + p[k]
                  /\ \A j \in 1 .. la(k) : flat[x + j] = rexts[k][j]
                  /\ \A j \in 1 .. lb(k) : flat[y + j] = rints[k][j]
  <2> DEFINE x == H + 1 + p[k - 1]
             y == x + 1 + la(k)
             q == p[k - 1]
             a == la(k)
             b == lb(k)
  <2>1. /\ a \in Nat /\ b \in Nat /\ q \in Nat /\ H \in Nat /\ p[n] \in Nat
        /\ Len(rows[k]) = 2 + a + b /\ p[k] = q + (2 + a + b) /\ p[k] <= p[n]
        /\ Len(flat) = H + p[n]
    <3>1. a \in Nat /\ b \in Nat /\ H \in Nat
      BY <1>1
    <3>2. q \in Nat /\ p[n] \in Nat /\ q + Len(rows[k]) = p[k] /\ p[k] <= p[n]
      BY <1>10
    <3>3. Len(rows[k]) = 2 + a + b
      BY <1>3
    <3> QED BY <1>8, <3>1, <3>2, <3>3
  <2>2. \A j \in 1 .. 2 + a + b : flat[H + q + j] = rows[k][j]
    BY <1>10, <2>1
  <2> HIDE DEF q, a, b, H
  <2>3. /\ 1 \in 1 .. 2 + a + b /\ 2 + a \in 1 .. 2 + a + b
        /\ H + q + 1 = H + 1 + q /\ H + q + (2 + a) = H + 1 + q + 1 + a
    BY <2>1
  <2>4. flat[H + 1 + q] = a /\ flat[H + 1 + q + 1 + a] = b
    <3>1. rows[k][1] = a /\ rows[k][2 + a] = b
      BY <1>3 DEF a, b
    <3>2. flat[H + q + 1] = rows[k][1] /\ flat[H + q + (2 + a)] = rows[k][2 + a]
      BY <2>2, <2>3
    <3> QED BY <2>3, <3>1, <3>2
  <2>5. ASSUME NEW j \in 1 .. a PROVE flat[H + 1 + q + j] = rexts[k][j]
    <3>1. 1 + j \in 1 .. 2 + a + b /\ H + q + (1 + j) = H + 1 + q + j
      BY <2>1
    <3>2. rows[k][1 + j] = rexts[k][j]
      BY <1>3 DEF a
    <3>3. flat[H + q + (1 + j)] = rows[k][1 + j]
      BY <2>2, <3>1
    <3> QED BY <3>1, <3>2, <3>3
  <2>6. ASSUME NEW j \in 1 .. b PROVE flat[H + 1 + q + 1 + a + j] = rints[k][j]
    <3>1. 2 + a + j \in 1 .. 2 + a + b /\ H + q + (2 + a + j) = H + 1 + q + 1 + a + j
      BY <2>1
    <3>2. rows[k][2 + a + j] = rints[k][j]
      BY <1>3 DEF a, b
    <3>3. flat[H + q + (2 + a + j)] = rows[k][2 + a + j]
      BY <2>2, <3>1
    <3> QED BY <3>1, <3>2, <3>3
  <2>7. /\ H + 1 + q \in Nat \ {0} /\ H + 1 + q + 1 + a \in Nat \ {0}
        /\ H + 1 + q + a <= Len(flat) /\ H + 1 + q + 1 + a + b <= Len(flat)
        /\ H + 1 + q + 1 + a + 1 + b = H + 1 + p[k]
    <3> DEFINE u == p[k]
               v == p[n]
               w == Len(flat)
    <3>1. /\ a \in Nat /\ b \in Nat /\ q \in Nat /\ H \in Nat /\ v \in Nat
          /\ u = q + (2 + a + b) /\ u <= v /\ w = H + v
      BY <2>1
    <3> HIDE DEF u, v, w
    <3>2. /\ H + 1 + q \in Nat \ {0} /\ H + 1 + q + 1 + a \in Nat \ {0}
          /\ H + 1 + q + a <= w /\ H + 1 + q + 1 + a + b <= w
          /\ H + 1 + q + 1 + a + 1 + b = H + 1 + u
      BY ONLY <3>1
    <3> QED BY ONLY <3>2 DEF u, w
  <2> QED BY <2>4, <2>5, <2>6, <2>7 DEF q, a, b
<1>12. \A c \in 0 .. n : RowAt(flat, c) = H + 1 + p[c]
  <2>1. r \in [0 .. n -> Nat]
    BY <1>1, <1>6
  <2>2. r[0] = 3 + 2 * flat[2]
    BY <1>1, <1>6, <1>8
  <2>3. ASSUME NEW k \in 1 .. n
        PROVE  r[k] = (r[k - 1] + 1 + flat[r[k - 1]])
                      + 1 + flat[r[k - 1] + 1 + flat[r[k - 1]]]
    <3>1. k - 1 \in 0 .. n /\ k \in 0 .. n
      BY <1>1
    <3>2. r[k - 1] = H + 1 + p[k - 1] /\ r[k] = H + 1 + p[k]
      BY <3>1
    <3> HIDE DEF r
    <3> DEFINE x == H + 1 + p[k - 1]
               y == x + 1 + la(k)
    <3>3. flat[x] = la(k) /\ flat[y] = lb(k) /\ y + 1 + lb(k) = H + 1 + p[k]
      BY <1>11
    <3>4. r[k - 1] = x /\ r[k - 1] + 1 + flat[r[k - 1]] = y
      BY <3>2, <3>3
    <3> HIDE DEF x, y
    <3> QED BY ONLY <3>2, <3>3, <3>4
  <2>4. \A c \in 0 .. n : r[c] = H + 1 + p[c]
    OBVIOUS
  <2> HIDE DEF r, H
  <2>5. \A c \in 0 .. n : RowAt(flat, c) = r[c]
    BY <1>1, <2>1, <2>2, <2>3, RowsFound
  <2> QED BY <2>4, <2>5
<1>13. ASSUME NEW c \in 0 .. n - 1
       PROVE  /\ SetAt(flat, RowAt(flat, c)) = ToSet(rexts[c + 1])
              /\ SetAt(flat, RowAt(flat, c) + 1 + flat[RowAt(flat, c)]) = ToSet(rints[c + 1])
  <2> DEFINE k == c + 1
             x == H + 1 + p[k - 1]
             y == x + 1 + la(k)
  <2>1. k \in 1 .. n /\ k - 1 = c /\ c \in 0 .. n
    BY <1>1
  <2>2. RowAt(flat, c) = x
    BY <1>12, <2>1
  <2>3. /\ x \in Nat \ {0} /\ y \in Nat \ {0}
        /\ flat[x] = la(k) /\ flat[y] = lb(k)
        /\ x + la(k) <= Len(flat) /\ y + lb(k) <= Len(flat)
        /\ \A j \in 1 .. la(k) : flat[x + j] = rexts[k][j]
        /\ \A j \in 1 .. lb(k) : flat[y + j] = rints[k][j]
    BY <1>11, <2>1
  <2>4. flat \in Seq(Nat) /\ rexts[k] \in Seq(Nat) /\ rints[k] \in Seq(Nat)
    BY <1>1, <1>8, <2>1
  <2>5. RowAt(flat, c) + 1 + flat[RowAt(flat, c)] = y
    BY <2>2, <2>3
  <2> HIDE DEF x, y, k
  <2> DEFINE u == rexts[k]
             v == rints[k]
  <2>6. SetAt(flat, x) = ToSet(rexts[k])
    <3>1. /\ flat[x] = Len(rexts[k]) /\ x + Len(rexts[k]) <= Len(flat)
          /\ \A j \in 1 .. Len(rexts[k]) : flat[x + j] = rexts[k][j]
      BY <2>3
    <3>2. x \in Nat \ {0} /\ flat \in Seq(Nat) /\ u \in Seq(Nat)
      BY <2>3, <2>4
    <3>3. /\ flat[x] = Len(u) /\ x + Len(u) <= Len(flat)
          /\ \A j \in 1 .. Len(u) : flat[x + j] = u[j]
      BY <3>1
    <3> HIDE DEF u
    <3>4. SetAt(flat, x) = ToSet(u)
      BY ONLY <3>2, <3>3, SetRead
    <3> QED BY ONLY <3>4 DEF u
  <2>7. SetAt(flat, y) = ToSet(rints[k])
    <3>1. /\ flat[y] = Len(rints[k]) /\ y + Len(rints[k]) <= Len(flat)
          /\ \A j \in 1 .. Len(rints[k]) : flat[y + j] = rints[k][j]
      BY <2>3
    <3>2. y \in Nat \ {0} /\ flat \in Seq(Nat) /\ v \in Seq(Nat)
      BY <2>3, <2>4
    <3>3. /\ flat[y] = Len(v) /\ y + Len(v) <= Len(flat)
          /\ \A j \in 1 .. Len(v) : flat[y + j] = v[j]
      BY <3>1
    <3> HIDE DEF v
    <3>4. SetAt(flat, y) = ToSet(v)
      BY ONLY <3>2, <3>3, SetRead
    <3> QED BY ONLY <3>4 DEF v
  <2> QED BY <2>2, <2>5, <2>6, <2>7 DEF k
<1>14. [k \in 1 .. flat[2] |-> <<flat[2 * k + 1], flat[2 * k + 2]>>] = edges
  <2>1. \A k \in 1 .. E : edges[k] = <<edges[k][1], edges[k][2]>>
    <3> TAKE k \in 1 .. E
    <3>1. edges[k] \in Nat \X Nat
      BY ElementOfSeq
    <3> QED BY <3>1
  <2>2. DOMAIN edges = 1 .. E /\ edges = [k \in 1 .. E |-> edges[k]]
    BY LenProperties
  <2>3. [k \in 1 .. E |-> <<flat[2 * k + 1], flat[2 * k + 2]>>] = [k \in 1 .. E |-> edges[k]]
    BY <1>9, <2>1
  <2> QED BY <1>8, <2>2, <2>3
<1>15. Decode(flat) =
         [n     |-> n,
          edges |-> edges,
          rext  |-> [c \in 0 .. n - 1 |-> ToSet(rexts[c + 1])],
          rint  |-> [c \in 0 .. n - 1 |-> ToSet(rints[c + 1])]]
  <2>1. [c \in 0 .. n - 1 |-> SetAt(flat, RowAt(flat, c))]
          = [c \in 0 .. n - 1 |-> ToSet(rexts[c + 1])]
    BY <1>13
  <2>2. [c \in 0 .. n - 1 |-> SetAt(flat, RowAt(flat, c) + 1 + flat[RowAt(flat, c)])]
          = [c \in 0 .. n - 1 |-> ToSet(rints[c + 1])]
    BY <1>13
  <2>3. flat[1] = n
    BY <1>8
  <2> QED BY <1>14, <2>1, <2>2, <2>3 DEF Decode
<1>16. p[n] = 2 * n + Len(FlattenSeq(rexts)) + Len(FlattenSeq(rints))
  <2>1. PICK a : Offsets(a, rexts)
    BY HasOffsets
  <2>2. PICK b : Offsets(b, rints)
    BY HasOffsets
  <2>3. Len(FlattenSeq(rexts)) = a[n] /\ Len(FlattenSeq(rints)) = b[n]
    BY <2>1, <2>2, FlattenPlaces
  <2>4. /\ a \in [0 .. n -> Nat] /\ a[0] = 0 /\ \A k \in 1 .. n : a[k] = a[k - 1] + la(k)
        /\ b \in [0 .. n -> Nat] /\ b[0] = 0 /\ \A k \in 1 .. n : b[k] = b[k - 1] + lb(k)
    BY <2>1, <2>2 DEF Offsets
  <2> DEFINE T == {k \in Nat : k <= n => p[k] = 2 * k + a[k] + b[k]}
  <2>5. 0 \in T
    BY <1>6, <2>4
  <2>6. ASSUME NEW k \in Nat, k \in T PROVE k + 1 \in T
    <3> SUFFICES ASSUME k + 1 <= n PROVE p[k + 1] = 2 * (k + 1) + a[k + 1] + b[k + 1]
      OBVIOUS
    <3>1. k + 1 \in 1 .. n /\ (k + 1) - 1 = k /\ k \in 0 .. n
      BY <1>1
    <3>2. p[k + 1] = p[k] + Len(rows[k + 1]) /\ Len(rows[k + 1]) = 2 + la(k + 1) + lb(k + 1)
      BY <1>3, <1>6, <3>1
    <3>3. a[k + 1] = a[k] + la(k + 1) /\ b[k + 1] = b[k] + lb(k + 1)
      BY <2>4, <3>1
    <3>4. p[k] = 2 * k + a[k] + b[k] /\ a[k] \in Nat /\ b[k] \in Nat /\ p[k] \in Nat
      <4>1. k <= n
        BY <1>1, <3>1
      <4>2. a[k] \in Nat /\ b[k] \in Nat /\ p[k] \in Nat
        BY ONLY <1>6, <2>4, <3>1
      <4> QED BY <2>6, <4>1, <4>2
    <3>5. la(k + 1) \in Nat /\ lb(k + 1) \in Nat
      BY <1>1, <3>1
    <3> DEFINE x == la(k + 1)
               y == lb(k + 1)
    <3> HIDE DEF x, y
    <3>6. p[k + 1] = p[k] + (2 + x + y) /\ a[k + 1] = a[k] + x /\ b[k + 1] = b[k] + y
          /\ x \in Nat /\ y \in Nat
      BY <3>2, <3>3, <3>5 DEF x, y
    <3> DEFINE P0 == p[k]
               A0 == a[k]
               B0 == b[k]
    <3>7. P0 = 2 * k + A0 + B0 /\ A0 \in Nat /\ B0 \in Nat /\ x \in Nat /\ y \in Nat
      BY <3>4, <3>6
    <3> HIDE DEF P0, A0, B0
    <3>8. P0 + (2 + x + y) = 2 * (k + 1) + (A0 + x) + (B0 + y)
      BY ONLY <3>7, k \in Nat
    <3> QED BY ONLY <3>6, <3>8 DEF P0, A0, B0
  <2> HIDE DEF T
  <2>7. Nat \subseteq T
    BY ONLY <2>5, <2>6, Induction
  <2>8. n \in T
    BY <1>1, <2>7
  <2> QED BY <1>1, <2>3, <2>8 DEF T
<1>17. n \in 0 .. n /\ \A s \in Seq(Seq(Nat)) : Len(FlattenSeq(s)) \in Nat
  BY <1>1, FlattenElements, LenProperties
<1> HIDE DEF n, E
<1>18. Len(flat) = 2 + 2 * E + 2 * n + Len(FlattenSeq(rexts)) + Len(FlattenSeq(rints))
  BY <1>1, <1>8, <1>16, <1>17
<1> QED BY <1>15, <1>18 DEF n, E, flat

-----------------------------------------------------------------------------
(***************************************************************************)
(* Chains of edges.                                                        *)
(***************************************************************************)
\* r[k] has the pairs joined by a chain of at most k edges.
Chained(r, I, n, edges) ==
  /\ r \in [0 .. n -> SUBSET (I \X I)]
  /\ \A c, d \in I : <<c, d>> \in r[0] <=> c = d
  /\ \A k \in 1 .. n : \A c, d \in I :
       <<c, d>> \in r[k] <=>
         \/ <<c, d>> \in r[k - 1]
         \/ \E e \in ToSet(edges) : e[2] = d /\ <<c, e[1]>> \in r[k - 1]

LEMMA UpToSteps ==
  ASSUME NEW n \in Nat, NEW edges \in Seq((0 .. n - 1) \X (0 .. n - 1))
  PROVE  \E r : Chained(r, 0 .. n - 1, n, edges) /\ UpTo(n, edges) = r[n]
<1> DEFINE I == 0 .. n - 1
           W == SUBSET (I \X I)
           b == {<<c, c>> : c \in I}
           longer(R) == R \cup {<<q[1], edges[q[2]][2]>> :
                                 q \in {p \in I \X DOMAIN edges : <<p[1], edges[p[2]][1]>> \in R}}
           F == [k \in 1 .. n |-> [R \in W |-> longer(R)]]
<1>0. \A j \in DOMAIN edges : edges[j] \in I \X I
  BY ElementOfSeq
<1>1. \A R \in W : longer(R) \in W
  <2> SUFFICES ASSUME NEW R \in W, NEW x \in longer(R) PROVE x \in I \X I
    OBVIOUS
  <2>1. CASE x \in R
    BY <2>1
  <2>2. CASE x \notin R
    <3>1. PICK q \in I \X DOMAIN edges : x = <<q[1], edges[q[2]][2]>>
      BY <2>2
    <3>2. q[1] \in I /\ edges[q[2]] \in I \X I
      BY <1>0, <3>1
    <3> QED BY <3>1, <3>2
  <2> QED BY <2>1, <2>2
<1>2. F \in [1 .. n -> [W -> W]]
  BY <1>1
<1>3. b \in W
  OBVIOUS
<1>4. \A k \in 1 .. n : \A R \in W : F[k][R] = longer(R)
  OBVIOUS
<1> HIDE DEF F, longer, W, b
<1>5. PICK r : Iterates(r, W, n, b, F)
  BY <1>2, <1>3, StepByStep
<1>6. r \in [0 .. n -> W] /\ r[0] = b /\ \A k \in 1 .. n : r[k] = longer(r[k - 1])
  <2>1. r \in [0 .. n -> W] /\ r[0] = b /\ \A k \in 1 .. n : r[k] = F[k][r[k - 1]]
    BY <1>5 DEF Iterates
  <2>2. \A k \in 1 .. n : r[k - 1] \in W
    BY <2>1
  <2> QED BY <1>4, <2>1, <2>2
<1> DEFINE Def(f) == f = [k \in 0 .. n |-> IF k = 0 THEN b ELSE longer(f[k - 1])]
           reach == CHOOSE f : Def(f)
<1>7. UpTo(n, edges) = reach[n]
  BY DEF UpTo, longer, b
<1>8. Def(r)
  <2>1. \A k \in 0 .. n : r[k] = IF k = 0 THEN b ELSE longer(r[k - 1])
    BY <1>6
  <2>2. r = [k \in 0 .. n |-> r[k]]
    BY <1>6
  <2> QED BY <2>1, <2>2
<1>9. Def(reach)
  <2> HIDE DEF Def
  <2> QED BY <1>8
<1>10. \A k \in 0 .. n : reach[k] = IF k = 0 THEN b ELSE longer(reach[k - 1])
  <2> HIDE DEF reach
  <2> QED BY <1>9
<1> HIDE DEF reach, Def
<1> DEFINE T == {k \in Nat : k <= n => reach[k] = r[k]}
<1>11. 0 \in T
  BY <1>6, <1>10
<1>12. ASSUME NEW k \in Nat, k \in T PROVE k + 1 \in T
  <2> SUFFICES ASSUME k + 1 <= n PROVE reach[k + 1] = r[k + 1]
    OBVIOUS
  <2>1. k + 1 \in 0 .. n /\ k + 1 # 0 /\ (k + 1) - 1 = k /\ k + 1 \in 1 .. n
    OBVIOUS
  <2>2. reach[k] = r[k]
    BY <1>12, <2>1
  <2>3. reach[k + 1] = longer(reach[k]) /\ r[k + 1] = longer(r[k])
    BY <1>6, <1>10, <2>1
  <2> QED BY <2>2, <2>3
<1> HIDE DEF T
<1>13. Nat \subseteq T
  BY ONLY <1>11, <1>12, Induction
<1>14. UpTo(n, edges) = r[n]
  BY <1>7, <1>13 DEF T
<1>15. \A c, d \in I : <<c, d>> \in r[0] <=> c = d
  BY <1>6 DEF b
<1>16. ASSUME NEW k \in 1 .. n, NEW c \in I, NEW d \in I
       PROVE  <<c, d>> \in r[k] <=>
                \/ <<c, d>> \in r[k - 1]
                \/ \E e \in ToSet(edges) : e[2] = d /\ <<c, e[1]>> \in r[k - 1]
  <2>1. r[k] = longer(r[k - 1])
    BY <1>6
  <2>2. ASSUME <<c, d>> \in longer(r[k - 1]), <<c, d>> \notin r[k - 1]
        PROVE  \E e \in ToSet(edges) : e[2] = d /\ <<c, e[1]>> \in r[k - 1]
    <3>1. PICK q \in I \X DOMAIN edges :
            <<q[1], edges[q[2]][1]>> \in r[k - 1] /\ <<c, d>> = <<q[1], edges[q[2]][2]>>
      BY <2>2 DEF longer
    <3>2. edges[q[2]] \in ToSet(edges)
      BY <3>1 DEF ToSet
    <3> QED BY <3>1, <3>2
  <2>3. ASSUME NEW e \in ToSet(edges), e[2] = d, <<c, e[1]>> \in r[k - 1]
        PROVE  <<c, d>> \in longer(r[k - 1])
    <3>1. PICK j \in DOMAIN edges : edges[j] = e
      BY DEF ToSet
    <3> DEFINE q == <<c, j>>
    <3>2. q \in I \X DOMAIN edges /\ q[1] = c /\ q[2] = j
      BY <3>1
    <3>3. <<q[1], edges[q[2]][1]>> \in r[k - 1] /\ <<c, d>> = <<q[1], edges[q[2]][2]>>
      BY <2>3, <3>1, <3>2
    <3> HIDE DEF q
    <3> QED BY <3>2, <3>3 DEF longer
  <2>4. \A R : R \subseteq longer(R)
    BY DEF longer
  <2> QED BY <2>1, <2>2, <2>3, <2>4
<1>17. Chained(r, I, n, edges)
  BY <1>6, <1>15, <1>16 DEF Chained, W
<1> QED BY <1>14, <1>17 DEF I

\* The edges of the Hasse diagram of an order lead from each element to all
\* those above it: what is strictly between two of them is a chain of covers.
LEMMA HasseChains ==
  ASSUME NEW n \in Nat, NEW edges \in Seq((0 .. n - 1) \X (0 .. n - 1)),
         NEW R \in SUBSET ((0 .. n - 1) \X (0 .. n - 1)),
         \A c \in 0 .. n - 1 : <<c, c>> \in R,
         \A c, d \in 0 .. n - 1 : <<c, d>> \in R /\ <<d, c>> \in R => c = d,
         \A c, d, x \in 0 .. n - 1 : <<c, x>> \in R /\ <<x, d>> \in R => <<c, d>> \in R,
         \A c, d \in 0 .. n - 1 :
           <<c, d>> \in ToSet(edges) <=>
             /\ <<c, d>> \in R /\ c # d
             /\ ~ \E x \in 0 .. n - 1 : c # x /\ x # d /\ <<c, x>> \in R /\ <<x, d>> \in R
  PROVE  UpTo(n, edges) = R
<1> DEFINE I == 0 .. n - 1
<1>0. PICK r : Chained(r, I, n, edges) /\ UpTo(n, edges) = r[n]
  BY UpToSteps
<1> HIDE DEF I
<1>1. /\ r \in [0 .. n -> SUBSET (I \X I)]
      /\ UpTo(n, edges) = r[n]
      /\ \A c, d \in I : <<c, d>> \in r[0] <=> c = d
      /\ \A k \in 1 .. n : \A c, d \in I :
           <<c, d>> \in r[k] <=>
             \/ <<c, d>> \in r[k - 1]
             \/ \E e \in ToSet(edges) : e[2] = d /\ <<c, e[1]>> \in r[k - 1]
  BY <1>0 DEF Chained
<1> USE DEF I
<1>a. \A k \in 0 .. n : \A p \in r[k] : p = <<p[1], p[2]>> /\ p[1] \in I /\ p[2] \in I
  <2> HIDE DEF I
  <2> TAKE k \in 0 .. n
  <2>1. r[k] \subseteq I \X I
    BY <1>1
  <2> QED BY <2>1
<1>2. \A e \in ToSet(edges) : e \in I \X I /\ e = <<e[1], e[2]>> /\ e[1] \in I /\ e[2] \in I
  <2> TAKE e \in ToSet(edges)
  <2>1. PICK j \in DOMAIN edges : edges[j] = e
    BY DEF ToSet
  <2>2. e \in I \X I
    BY <2>1, ElementOfSeq
  <2> QED BY <2>2
<1>3. IsFiniteSet(I) /\ Cardinality(I) = n
  <2>1. 0 \in Int /\ n - 1 \in Int
    OBVIOUS
  <2>2. IsFiniteSet(I) /\ Cardinality(I) = IF 0 > n - 1 THEN 0 ELSE (n - 1) - 0 + 1
    BY <2>1, FS_Interval
  <2> QED BY <2>2
<1> HIDE DEF I
\* Every chain stays within the order.
<1> DEFINE S == {k \in Nat : k <= n => r[k] \subseteq R}
<1>4. n \in S
  <2>1. 0 \in S
    <3>1. \A p \in r[0] : p \in R
      <4> TAKE p \in r[0]
      <4>1. p = <<p[1], p[2]>> /\ p[1] \in I /\ p[2] \in I
        BY <1>a
      <4> QED BY <1>1, <4>1 DEF I
    <3> QED BY <3>1
  <2>2. ASSUME NEW k \in Nat, k \in S PROVE k + 1 \in S
    <3> SUFFICES ASSUME k + 1 <= n, NEW p \in r[k + 1] PROVE p \in R
      OBVIOUS
    <3>1. k + 1 \in 1 .. n /\ (k + 1) - 1 = k /\ k + 1 \in 0 .. n /\ k \in 0 .. n /\ k <= n
      OBVIOUS
    <3>2. r[k] \subseteq R
      BY <2>2, <3>1
    <3>3. p = <<p[1], p[2]>> /\ p[1] \in I /\ p[2] \in I
      BY <1>a, <3>1
    <3>4. CASE p \in r[k]
      BY <3>2, <3>4
    <3>5. CASE p \notin r[k]
      <4>1. PICK e \in ToSet(edges) : e[2] = p[2] /\ <<p[1], e[1]>> \in r[k]
        <5>1. <<p[1], p[2]>> \in r[k + 1] /\ <<p[1], p[2]>> \notin r[k]
          BY <3>3, <3>5
        <5> QED BY ONLY <1>1, <3>1, <3>3, <5>1
      <4>2. <<p[1], e[1]>> \in R /\ <<e[1], e[2]>> \in R /\ e[1] \in I
        BY <1>2, <3>2, <4>1 DEF I
      <4> QED BY <3>3, <4>1, <4>2 DEF I
    <3> QED BY <3>4, <3>5
  <2> HIDE DEF S
  <2>3. Nat \subseteq S
    BY ONLY <2>1, <2>2, Induction
  <2> QED BY <2>3
<1>5. r[n] \subseteq R
  BY <1>4
\* As long as few elements lie between two of them, a short chain joins them.
<1> DEFINE Between(c, d) == {x \in I : <<c, x>> \in R /\ <<x, d>> \in R}
           T == {m \in Nat : m <= n =>
                   \A c, d \in I : /\ <<c, d>> \in R
                                   /\ Cardinality(Between(c, d)) <= m + 1
                                   => <<c, d>> \in r[m]}
<1>6. \A c, d : /\ IsFiniteSet(Between(c, d)) /\ Cardinality(Between(c, d)) \in Nat
                /\ Cardinality(Between(c, d)) <= n
  <2> TAKE c, d
  <2>1. Between(c, d) \subseteq I
    OBVIOUS
  <2> HIDE DEF Between
  <2> QED BY <1>3, <2>1, FS_Subset, FS_CardinalityType
<1>7. ASSUME NEW c \in I, NEW d \in I, NEW e \in I, NEW f \in I,
             Between(c, d) \subseteq Between(e, f),
             NEW x, x \in Between(e, f), x \notin Between(c, d)
      PROVE  Cardinality(Between(c, d)) < Cardinality(Between(e, f))
  <2> HIDE DEF Between
  <2>1. Cardinality(Between(c, d)) <= Cardinality(Between(e, f))
        /\ (Cardinality(Between(c, d)) = Cardinality(Between(e, f)) => Between(c, d) = Between(e, f))
    BY <1>6, <1>7, FS_Subset
  <2> QED BY <1>6, <1>7, <2>1
<1>8. \A c, d \in I : <<c, d>> \in R => c \in Between(c, d) /\ d \in Between(c, d)
  BY DEF I
<1>9. \A c \in I : Cardinality(Between(c, c)) = 1
  <2> TAKE c \in I
  <2>1. Between(c, c) = {c}
    BY DEF I
  <2> QED BY <2>1, FS_Singleton
<1>10. 0 \in T
  <2> SUFFICES ASSUME NEW c \in I, NEW d \in I, <<c, d>> \in R, Cardinality(Between(c, d)) <= 1
               PROVE  <<c, d>> \in r[0]
    OBVIOUS
  <2>1. ASSUME c # d PROVE FALSE
    <3>1. Between(c, c) \subseteq Between(c, d) /\ d \in Between(c, d) /\ d \notin Between(c, c)
      BY <2>1 DEF I
    <3>2. Cardinality(Between(c, c)) < Cardinality(Between(c, d))
      <4> HIDE DEF Between
      <4> QED BY <1>7, <3>1
    <3> HIDE DEF Between
    <3> QED BY <1>6, <1>9, <3>2
  <2> QED BY <1>1, <2>1 DEF I
<1>11. ASSUME NEW m \in Nat, m \in T PROVE m + 1 \in T
  <2> SUFFICES ASSUME m + 1 <= n, NEW c \in I, NEW d \in I, <<c, d>> \in R,
                      Cardinality(Between(c, d)) <= (m + 1) + 1
               PROVE  <<c, d>> \in r[m + 1]
    OBVIOUS
  <2>1. m + 1 \in 1 .. n /\ (m + 1) - 1 = m /\ m <= n
    OBVIOUS
  <2>2. \A x \in I : <<c, x>> \in R /\ Cardinality(Between(c, x)) <= m + 1 => <<c, x>> \in r[m]
    BY <1>11, <2>1
  <2>3. CASE c = d
    <3>1. <<c, c>> \in r[m]
      <4> HIDE DEF Between, T
      <4> QED BY <1>9, <2>2, <2>3
    <3> QED BY <1>1, <2>1, <2>3, <3>1 DEF I
  <2>4. CASE c # d
    <3> DEFINE W == {x \in I : <<c, x>> \in R /\ <<x, d>> \in R /\ x # d}
               size == [x \in I |-> Cardinality(Between(c, x))]
               sizes == {size[x] : x \in W}
    <3>1. c \in W
      BY <2>4 DEF I
    <3>2. IsFiniteSet(W)
      BY <1>3, FS_Subset
    <3>3. size \in [I -> Nat]
      <4> HIDE DEF Between
      <4> QED BY <1>6
    <3>4. \A x \in I : size[x] = Cardinality(Between(c, x))
      OBVIOUS
    <3>5. W \subseteq I
      OBVIOUS
    <3>a. \A x \in W : x \in I /\ <<c, x>> \in R /\ <<x, d>> \in R /\ x # d
      OBVIOUS
    <3>b. \A x \in I : <<c, x>> \in R /\ <<x, d>> \in R /\ x # d => x \in W
      OBVIOUS
    <3> HIDE DEF size, W
    <3>6. sizes \subseteq Int /\ sizes # {}
      <4>1. size[c] \in sizes
        BY <3>1
      <4>2. \A x \in W : size[x] \in Int
        BY <3>3, <3>5
      <4> QED BY <4>1, <4>2
    <3>7. IsFiniteSet(sizes)
      BY ONLY <3>2, FiniteImage
    <3>c. \A x \in W : size[x] \in sizes
      OBVIOUS
    <3> HIDE DEF sizes
    <3>8. Max(sizes) \in sizes /\ \A s \in sizes : s <= Max(sizes)
      BY ONLY <3>6, <3>7, HasMax
    <3>9. PICK x \in W : size[x] = Max(sizes)
      BY <3>8 DEF sizes
    <3>10. \A y \in W : size[y] <= size[x]
      BY ONLY <3>8, <3>9, <3>c
    <3>11. ASSUME NEW y \in I, x # y, y # d, <<x, y>> \in R, <<y, d>> \in R
           PROVE  FALSE
      <4>1. y \in W /\ <<c, y>> \in R
        BY <3>a, <3>b, <3>9, <3>11 DEF I
      <4>2. Between(c, x) \subseteq Between(c, y) /\ y \in Between(c, y) /\ y \notin Between(c, x)
        BY <3>a, <3>b, <3>9, <3>11, <4>1 DEF I
      <4>3. Cardinality(Between(c, x)) < Cardinality(Between(c, y))
        <5> HIDE DEF Between, W
        <5> QED BY <1>7, <3>5, <3>9, <4>1, <4>2
      <4>4. size[y] <= size[x] /\ size[x] \in Nat /\ size[y] \in Nat
        BY <3>3, <3>5, <3>9, <3>10, <4>1
      <4> HIDE DEF Between, W
      <4> QED BY <3>4, <3>5, <3>9, <4>1, <4>3, <4>4
    <3>12. <<x, d>> \in ToSet(edges)
      BY <3>a, <3>b, <3>9, <3>11 DEF I
    <3>13. Cardinality(Between(c, x)) < Cardinality(Between(c, d))
      <4>1. Between(c, x) \subseteq Between(c, d) /\ d \in Between(c, d) /\ d \notin Between(c, x)
        BY <3>a, <3>9 DEF I
      <4> HIDE DEF Between, W
      <4> QED BY <1>7, <3>5, <3>9, <4>1
    <3>14. <<c, x>> \in r[m]
      <4>1. <<c, x>> \in R /\ x \in I
        BY <3>a, <3>9
      <4> HIDE DEF Between, W, T
      <4>2. Cardinality(Between(c, x)) <= m + 1
        BY <1>6, <3>13
      <4> QED BY <2>2, <4>1, <4>2
    <3> DEFINE e == <<x, d>>
    <3>15. e \in ToSet(edges) /\ e[2] = d /\ <<c, e[1]>> \in r[m]
      BY <3>12, <3>14
    <3> HIDE DEF e, T, W
    <3>16. \A k \in 1 .. n : \A a \in I : (\E f \in ToSet(edges) : f[2] = d /\ <<a, f[1]>> \in r[k - 1])
                               => <<a, d>> \in r[k]
      BY <1>1 DEF I
    <3> QED BY ONLY <2>1, <3>15, <3>16, c \in I
  <2> QED BY <2>3, <2>4
<1> HIDE DEF T
<1>12. Nat \subseteq T
  BY ONLY <1>10, <1>11, Induction
<1>13. R \subseteq r[n]
  <2> SUFFICES ASSUME NEW p \in R PROVE p \in r[n]
    OBVIOUS
  <2>1. p = <<p[1], p[2]>> /\ p[1] \in I /\ p[2] \in I
    BY DEF I
  <2>2. Cardinality(Between(p[1], p[2])) <= n + 1
    <3> HIDE DEF Between
    <3> QED BY <1>6
  <2>3. n \in T /\ n <= n
    BY <1>12
  <2> HIDE DEF Between
  <2> QED BY <2>1, <2>2, <2>3 DEF T
<1>14. UpTo(n, edges) = r[n]
  BY <1>0
<1>15. r[n] = R
  BY ONLY <1>5, <1>13
<1> QED BY ONLY <1>14, <1>15

\* The part of a flattened sequence between two offsets.
LEMMA PartBetween ==
  ASSUME NEW S, NEW s \in Seq(Seq(S)), NEW p, Offsets(p, s), NEW k \in 1 .. Len(s)
  PROVE  SubSeq(FlattenSeq(s), p[k - 1] + 1, p[k]) = s[k]
<1> DEFINE f == FlattenSeq(s)
           m == p[k - 1] + 1
           n == p[k]
           u == SubSeq(f, m, n)
<1>1. /\ Len(s) \in Nat /\ s[k] \in Seq(S) /\ Len(s[k]) \in Nat
      /\ k - 1 \in 0 .. Len(s) /\ k \in 0 .. Len(s) /\ Len(s) \in 0 .. Len(s)
  BY LenProperties, ElementOfSeq
<1>2. /\ p[k - 1] \in Nat /\ p[k] \in Nat /\ p[Len(s)] \in Nat
      /\ p[k] = p[k - 1] + Len(s[k])
  BY <1>1 DEF Offsets
<1>3. /\ f \in Seq(S) /\ Len(f) = p[Len(s)] /\ p[k] <= p[Len(s)]
      /\ \A j \in 1 .. Len(s[k]) : f[p[k - 1] + j] = s[k][j]
  BY FlattenPlaces
<1> HIDE DEF f
<1>4. /\ m \in Int /\ n \in Int /\ n - m + 1 = Len(s[k])
      /\ (m <= n => n - m + 1 = Len(s[k])) /\ (~(m <= n) => Len(s[k]) = 0)
      /\ \A i \in m .. n : i \in 1 .. Len(f)
  <2> DEFINE x == p[k - 1]
             y == p[k]
             z == Len(f)
             l == Len(s[k])
  <2>1. x \in Nat /\ y \in Nat /\ z \in Nat /\ l \in Nat /\ y = x + l /\ y <= z
    BY <1>1, <1>2, <1>3
  <2> HIDE DEF x, y, z, l
  <2>2. /\ x + 1 \in Int /\ y \in Int /\ y - (x + 1) + 1 = l
        /\ (x + 1 <= y => y - (x + 1) + 1 = l) /\ (~(x + 1 <= y) => l = 0)
        /\ \A i \in x + 1 .. y : i \in 1 .. z
    BY ONLY <2>1
  <2> QED BY ONLY <2>2 DEF x, y, z, l, m, n
<1>5. \A i \in m .. n : f[i] \in S
  BY <1>3, <1>4, ElementOfSeq
<1> HIDE DEF m, n
<1>6. /\ u \in Seq(S) /\ Len(u) = IF m <= n THEN n - m + 1 ELSE 0
      /\ \A i \in 1 .. n - m + 1 : u[i] = f[m + i - 1]
  BY ONLY <1>4, <1>5, SubSeqProperties
<1> HIDE DEF u
<1>7. Len(u) = Len(s[k])
  BY <1>4, <1>6
<1>8. \A j \in 1 .. Len(s[k]) : u[j] = s[k][j]
  <2> TAKE j \in 1 .. Len(s[k])
  <2>1. u[j] = f[m + j - 1]
    BY <1>4, <1>6
  <2>2. m + j - 1 = p[k - 1] + j
    BY <1>2 DEF m
  <2> QED BY <1>3, <2>1, <2>2
<1>9. u = s[k]
  BY ONLY <1>1, <1>6, <1>7, <1>8, SeqEqual
<1> QED BY <1>9 DEF u, f, m, n

\* The row of a key: the values that go with it, each of them once.
LEMMA RowOf ==
  ASSUME NEW A, NEW B, NEW ps \in Seq(A \X B), Once(ps), NEW k \in A
  PROVE  /\ Bucket(ps, k) \in Seq(B) /\ Once(Bucket(ps, k))
         /\ \A x : x \in ToSet(Bucket(ps, k)) <=> <<k, x>> \in ToSet(ps)
<1> DEFINE I == {j \in DOMAIN ps : ps[j][1] = k}
           s == Pick(ps, I)
           b == Bucket(ps, k)
<1>1. b = [j \in DOMAIN s |-> s[j][2]]
  BY DEF Bucket
<1>2. \A j \in DOMAIN ps : ps[j] \in A \X B /\ ps[j] = <<ps[j][1], ps[j][2]>> /\ ps[j][2] \in B
  <2> TAKE j \in DOMAIN ps
  <2>1. ps[j] \in A \X B
    BY LenProperties, ElementOfSeq
  <2> QED BY <2>1
<1>3. I \in SUBSET DOMAIN ps
  OBVIOUS
<1>a. \A j : j \in I <=> j \in DOMAIN ps /\ ps[j][1] = k
  OBVIOUS
<1> HIDE DEF I
<1>4. s \in Seq(A \X B) /\ ToSet(s) = {ps[j] : j \in I}
  BY <1>3, Picked
<1>5. PICK q : \A i, j \in DOMAIN s :
        /\ q[j] \in I /\ s[j] = ps[q[j]]
        /\ q[i] = q[j] => i = j
  BY <1>3, PickedApart
<1> HIDE DEF s, b
<1>6. DOMAIN s = 1 .. Len(s) /\ Len(s) \in Nat
  BY <1>4, LenProperties
<1>7. \A j \in DOMAIN s : s[j] = <<k, s[j][2]>> /\ s[j][2] \in B
  <2> TAKE j \in DOMAIN s
  <2>1. q[j] \in DOMAIN ps /\ ps[q[j]][1] = k /\ s[j] = ps[q[j]]
    BY <1>5, <1>a
  <2>2. ps[q[j]] = <<ps[q[j]][1], ps[q[j]][2]>> /\ ps[q[j]][2] \in B
    BY <1>2, <2>1
  <2> QED BY <2>1, <2>2
<1>8. b \in Seq(B)
  BY <1>1, <1>6, <1>7
<1>9. DOMAIN b = DOMAIN s /\ \A j \in DOMAIN s : b[j] = s[j][2]
  BY <1>1
<1>10. Once(b)
  <2> SUFFICES ASSUME NEW i \in DOMAIN s, NEW j \in DOMAIN s, b[i] = b[j] PROVE i = j
    BY <1>9 DEF Once
  <2>1. s[i] = s[j]
    BY <1>7, <1>9
  <2>2. ps[q[i]] = ps[q[j]] /\ q[i] \in DOMAIN ps /\ q[j] \in DOMAIN ps
    BY <1>5, <1>a, <2>1
  <2>3. q[i] = q[j]
    BY <2>2 DEF Once
  <2> QED BY <1>5, <2>3
<1>11. ASSUME NEW x PROVE x \in ToSet(b) <=> <<k, x>> \in ToSet(ps)
  <2>1. ASSUME x \in ToSet(b) PROVE <<k, x>> \in ToSet(ps)
    <3>1. PICK j \in DOMAIN s : x = s[j][2]
      BY <1>9, <2>1 DEF ToSet
    <3>2. s[j] = <<k, x>> /\ s[j] = ps[q[j]] /\ q[j] \in DOMAIN ps
      BY <1>5, <1>7, <1>a, <3>1
    <3> QED BY <3>2 DEF ToSet
  <2>2. ASSUME <<k, x>> \in ToSet(ps) PROVE x \in ToSet(b)
    <3>1. PICK j \in DOMAIN ps : ps[j] = <<k, x>>
      BY <2>2 DEF ToSet
    <3>2. j \in I
      BY <1>a, <3>1
    <3>3. <<k, x>> \in ToSet(s)
      BY <1>4, <3>1, <3>2
    <3>4. PICK i \in DOMAIN s : s[i] = <<k, x>>
      BY <3>3 DEF ToSet
    <3>5. b[i] = x
      BY <1>9, <3>4
    <3> QED BY <1>9, <3>5 DEF ToSet
  <2> QED BY <2>1, <2>2
<1> QED BY <1>8, <1>10, <1>11 DEF b
=============================================================================
