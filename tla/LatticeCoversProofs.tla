------------------------ MODULE LatticeCoversProofs ------------------------
(***************************************************************************)
(* For every context, every list of its concepts and every number of       *)
(* threads: the edges are those of the Hasse diagram, each of them once,   *)
(* each attribute and each object is introduced by one concept, its own,   *)
(* and what is read from the array returned is the concept lattice.        *)
(***************************************************************************)
EXTENDS LatticeCovers, FormalContextProofs

P == INSTANCE BatchCursorProofs WITH total <- Len(concepts)

-----------------------------------------------------------------------------
(***************************************************************************)
(* The lower covers of one extent.                                         *)
(***************************************************************************)

\* Sets of objects are finite: a set as large as one that contains it is that
\* set.
LEMMA Sizes ==
  ASSUME NEW Y \in SUBSET Objects
  PROVE  /\ IsFiniteSet(Y) /\ Cardinality(Y) \in Nat
         /\ \A X \in SUBSET Y : /\ Cardinality(X) <= Cardinality(Y)
                                /\ Cardinality(X) = Cardinality(Y) => X = Y
<1>1. IsFiniteSet(Y)
  BY ObjectsAssumption, FS_Subset
<1> QED BY <1>1, FS_CardinalityType, FS_Subset

\* The extents of the concepts.
Closed(k) == {Extent(k, B) : B \in SUBSET Attributes}

LEMMA Closure ==
  ASSUME NEW k \in AllContexts, NEW X \in Closed(k)
  PROVE  /\ X \in SUBSET Objects /\ X = Extent(k, Intent(k, X))
         /\ \A a \in Attributes : X \cap k[a] \in Closed(k)
         /\ \A a \in Attributes : a \in Intent(k, X) <=> X \subseteq k[a]
<1>1. PICK B \in SUBSET Attributes : X = Extent(k, B)
  BY DEF Closed
<1>2. X \in SUBSET Objects /\ B \subseteq Intent(k, X)
  BY <1>1 DEF Extent, Intent
<1>3. X = Extent(k, Intent(k, X))
  BY <1>1, <1>2 DEF Extent, Intent
<1>4. ASSUME NEW a \in Attributes PROVE X \cap k[a] \in Closed(k)
  <2>1. Extent(k, B \cup {a}) = X \cap k[a]
    BY <1>1 DEF Extent
  <2>2. B \cup {a} \in SUBSET Attributes
    OBVIOUS
  <2> QED BY <2>1, <2>2 DEF Closed
<1> QED BY <1>2, <1>3, <1>4 DEF Intent

\* Below an extent every other one lies in the column of an irreducible
\* attribute outside its intent: take the largest column there is outside.
LEMMA ThroughIrreducible ==
  ASSUME NEW k \in AllContexts, NEW X \in Closed(k), NEW Y \in Closed(k),
         Y \subseteq X, Y # X
  PROVE  \E a \in Attributes : Irreducible(k, a) /\ ~(X \subseteq k[a]) /\ Y \subseteq k[a]
<1> DEFINE A == {a \in Attributes : Y \subseteq k[a] /\ ~(X \subseteq k[a])}
           size == [a \in Attributes |-> Cardinality(k[a])]
           sizes == {size[a] : a \in A}
<1>1. X = Extent(k, Intent(k, X)) /\ Y = Extent(k, Intent(k, Y)) /\ X \subseteq Objects
  BY Closure
<1>2. A # {}
  BY <1>1 DEF Intent, Extent
<1>3. \A a \in Attributes : k[a] \in SUBSET Objects
  BY DEF AllContexts
<1>4. \A a \in Attributes : size[a] \in Nat
  BY <1>3, Sizes
<1>5. IsFiniteSet(A)
  <2>1. IsFiniteSet(Attributes)
    BY MAssumption, FS_Interval DEF Attributes
  <2> QED BY <2>1, FS_Subset
<1>6. sizes \in SUBSET Int /\ sizes # {} /\ IsFiniteSet(sizes)
  <2> HIDE DEF size
  <2>1. \A a \in A : size[a] \in Int
    BY <1>4
  <2> HIDE DEF A
  <2> QED BY <1>2, <1>5, <2>1, FiniteImage
<1>7. PICK b \in A : \A a \in A : size[a] <= size[b]
  <2> HIDE DEF size
  <2>1. Max(sizes) \in sizes /\ \A x \in sizes : x <= Max(sizes)
    BY <1>6, HasMax
  <2> QED BY <2>1
<1>8. b \in Attributes /\ Y \subseteq k[b] /\ ~(X \subseteq k[b])
  OBVIOUS
<1>9. \A a \in StrictlyLarger(k, b) : X \subseteq k[a]
  <2> SUFFICES ASSUME NEW a \in StrictlyLarger(k, b), a \in A PROVE FALSE
    BY <1>8 DEF StrictlyLarger
  <2>1. size[a] > size[b]
    BY <1>8 DEF StrictlyLarger
  <2>2. size[a] <= size[b] /\ size[a] \in Nat /\ size[b] \in Nat
    BY <1>4, <1>7, <1>8
  <2> HIDE DEF size
  <2> QED BY <2>1, <2>2
<1>10. Irreducible(k, b)
  <2>1. CASE StrictlyLarger(k, b) = {}
    <3>1. Cardinality(k[b]) # Cardinality(Objects)
      BY <1>1, <1>3, <1>8, Sizes
    <3> QED BY <2>1, <3>1 DEF Irreducible
  <2>2. CASE StrictlyLarger(k, b) # {}
    <3>1. X \subseteq Extent(k, StrictlyLarger(k, b))
      BY <1>1, <1>9 DEF Extent
    <3> QED BY <1>8, <2>2, <3>1 DEF Irreducible
  <2> QED BY <2>1, <2>2
<1> QED BY <1>8, <1>10

\* The candidates by size: all of them, none before a larger one.
LEMMA BySize ==
  ASSUME NEW s \in Seq(SUBSET Objects)
  PROVE  /\ ByCardinality(s) \in Seq(SUBSET Objects)
         /\ ToSet(ByCardinality(s)) = ToSet(s)
         /\ \A i, j \in DOMAIN ByCardinality(s) :
              i < j => Cardinality(ByCardinality(s)[i]) >= Cardinality(ByCardinality(s)[j])
<1> DEFINE D == DOMAIN s
           R == Precedes(s)
           q == Arranged(D, R)
           b == ByCardinality(s)
           size == [k \in D |-> Cardinality(s[k])]
<1>1. /\ Len(s) \in Nat /\ D = 1 .. Len(s) /\ IsFiniteSet(D) /\ Cardinality(D) = Len(s)
      /\ \A k \in D : s[k] \in SUBSET Objects
  <2>1. Len(s) \in Nat /\ D = 1 .. Len(s)
    BY LenProperties
  <2>2. IsFiniteSet(1 .. Len(s)) /\ Cardinality(1 .. Len(s)) = Len(s)
    BY <2>1, FS_Interval
  <2>3. \A k \in 1 .. Len(s) : s[k] \in SUBSET Objects
    BY ElementOfSeq
  <2> HIDE DEF D
  <2> QED BY <2>1, <2>2, <2>3
<1>2. \A k \in D : k \in Int /\ size[k] \in Int
  BY <1>1, Sizes
<1>3. \A i, j : <<i, j>> \in R <=>
        /\ i \in D /\ j \in D
        /\ size[i] > size[j] \/ (size[i] = size[j] /\ i > j)
  BY DEF Precedes
<1>4. b = [k \in D |-> s[q[k]]]
  BY DEF ByCardinality
<1> HIDE DEF R, size
<1>5. Orders(R, D)
  <2> HIDE DEF D
  <2>1. \A i \in D : <<i, i>> \notin R
    BY <1>2, <1>3
  <2>2. \A i, j \in D : i # j => <<i, j>> \in R \/ <<j, i>> \in R
    BY <1>2, <1>3
  <2>3. \A i, j, k \in D : <<i, j>> \in R /\ <<j, k>> \in R => <<i, k>> \in R
    BY <1>2, <1>3
  <2> QED BY <2>1, <2>2, <2>3 DEF Orders
<1>6. /\ DOMAIN q = D /\ \A k \in D : q[k] \in D
      /\ \A x \in D : \E k \in D : q[k] = x
      /\ \A k, j \in D : k < j => <<q[k], q[j]>> \in R
  <2>1. /\ q \in Seq(D) /\ DOMAIN q = 1 .. Cardinality(D)
        /\ \A x \in D : \E k \in DOMAIN q : q[k] = x
        /\ \A k, j \in DOMAIN q : k < j => <<q[k], q[j]>> \in R
    BY <1>1, <1>5, ArrangedList
  <2>2. DOMAIN q = D
    BY <1>1, <2>1
  <2> HIDE DEF q, D
  <2>3. \A k \in D : q[k] \in D
    <3> TAKE k \in D
    <3>1. k \in 1 .. Len(q)
      BY <2>1, <2>2, LenProperties
    <3> QED BY <2>1, <3>1, ElementOfSeq
  <2> QED BY <2>1, <2>2, <2>3
<1> HIDE DEF q, b
<1>7. b \in Seq(SUBSET Objects)
  BY <1>1, <1>4, <1>6
<1>8. ToSet(b) = ToSet(s)
  <2> HIDE DEF D
  <2> QED BY <1>4, <1>6 DEF ToSet, D
<1>9. \A i, j \in D : i < j => Cardinality(b[i]) >= Cardinality(b[j])
  <2> SUFFICES ASSUME NEW i \in D, NEW j \in D, i < j
               PROVE  Cardinality(b[i]) >= Cardinality(b[j])
    OBVIOUS
  <2>1. q[i] \in D /\ q[j] \in D /\ <<q[i], q[j]>> \in R
    BY <1>6
  <2>2. size[q[i]] > size[q[j]] \/ size[q[i]] = size[q[j]]
    BY <1>3, <2>1
  <2>3. size[q[i]] \in Int /\ size[q[j]] \in Int
    BY <1>2, <2>1
  <2>4. size[q[i]] >= size[q[j]]
    BY <2>2, <2>3
  <2> QED BY <1>4, <2>1, <2>4 DEF size
<1> QED BY <1>4, <1>7, <1>8, <1>9 DEF b

\* Sequence c has confirmed the first m of s: its elements are some of them,
\* each of the m is within one of these, and none of these within another.
Confirms(c, s, m) ==
  /\ c \in Seq(SUBSET Objects)
  /\ \A i \in DOMAIN c : \E j \in 1 .. m : c[i] = s[j]
  /\ \A j \in 1 .. m : \E i \in DOMAIN c : s[j] \subseteq c[i]
  /\ \A i, j \in DOMAIN c : c[i] \subseteq c[j] => i = j

Dominated(c, x) == \E j \in DOMAIN c : Dominates(c[j], x)

LEMMA ConfirmsStep ==
  ASSUME NEW s \in Seq(SUBSET Objects), NEW m \in DOMAIN s,
         \A i, j \in DOMAIN s : i < j => Cardinality(s[i]) >= Cardinality(s[j]),
         NEW c, Confirms(c, s, m - 1)
  PROVE  Confirms(IF Dominated(c, s[m]) THEN c ELSE Append(c, s[m]), s, m)
<1> DEFINE n == Len(c)
           x == s[m]
           S == SUBSET Objects
<1>1. /\ Len(s) \in Nat /\ DOMAIN s = 1 .. Len(s) /\ m \in 1 .. Len(s)
      /\ \A j \in 1 .. m : j \in DOMAIN s /\ s[j] \in S
  <2>1. /\ Len(s) \in Nat /\ DOMAIN s = 1 .. Len(s) /\ m \in 1 .. Len(s)
    BY LenProperties
  <2> QED BY <2>1, ElementOfSeq
<1>2. n \in Nat /\ DOMAIN c = 1 .. n /\ c \in Seq(S) /\ \A i \in 1 .. n : c[i] \in S
  <2>1. c \in Seq(S)
    BY DEF Confirms
  <2> QED BY <2>1, LenProperties, ElementOfSeq
<1>3. /\ \A i \in 1 .. n : \E j \in 1 .. m - 1 : c[i] = s[j]
      /\ \A j \in 1 .. m - 1 : \E i \in 1 .. n : s[j] \subseteq c[i]
      /\ \A i, j \in 1 .. n : c[i] \subseteq c[j] => i = j
  BY <1>2 DEF Confirms
<1>4. x \in S
  BY <1>1
<1>5. \A i \in 1 .. n : Cardinality(c[i]) >= Cardinality(x)
  <2> TAKE i \in 1 .. n
  <2>1. PICK j \in 1 .. m - 1 : c[i] = s[j]
    BY <1>3
  <2>2. j \in DOMAIN s /\ j < m
    BY <1>1, <2>1
  <2> QED BY <2>1, <2>2
<1>6. \A j \in 1 .. m : j = m \/ j \in 1 .. m - 1
  BY <1>1
<1>6a. \A j \in 1 .. m - 1 : j \in 1 .. m
  BY <1>1
<1>6b. m \in 1 .. m
  BY <1>1
<1>7. CASE Dominated(c, x)
  <2>1. PICK i \in 1 .. n : Dominates(c[i], x)
    BY <1>2, <1>7 DEF Dominated
  <2>2. x \subseteq c[i]
    BY <2>1 DEF Dominates
  <2>3. \A j \in 1 .. m : \E h \in 1 .. n : s[j] \subseteq c[h]
    <3> HIDE DEF n
    <3> QED BY <1>3, <1>6, <2>2
  <2>4. \A h \in 1 .. n : \E j \in 1 .. m : c[h] = s[j]
    <3> HIDE DEF n
    <3> QED BY <1>3, <1>6a
  <2>5. Confirms(c, s, m)
    BY <1>2, <1>3, <2>3, <2>4 DEF Confirms
  <2> QED BY <1>7, <2>5
<1>8. CASE ~Dominated(c, x)
  <2> DEFINE d == Append(c, x)
  <2>1. /\ d \in Seq(S) /\ DOMAIN d = 1 .. n + 1 /\ d[n + 1] = x
        /\ \A i \in 1 .. n : d[i] = c[i]
    BY <1>2, <1>4, AppendProperties
  <2>2. ASSUME NEW i \in 1 .. n PROVE ~(x \subseteq c[i]) /\ ~(c[i] \subseteq x)
    <3>1. ~Dominates(c[i], x)
      BY <1>2, <1>8 DEF Dominated
    <3>2. ~(x \subseteq c[i])
      <4> SUFFICES ASSUME x \subseteq c[i] PROVE FALSE
        OBVIOUS
      <4>1. Cardinality(c[i]) = Cardinality(x)
        BY <3>1 DEF Dominates
      <4>2. c[i] = x
        BY <1>2, <4>1, Sizes
      <4> QED BY <3>1, <4>2 DEF Dominates
    <3>3. ~(c[i] \subseteq x)
      <4> SUFFICES ASSUME c[i] \subseteq x PROVE FALSE
        OBVIOUS
      <4> HIDE DEF x, n
      <4>1. Cardinality(c[i]) <= Cardinality(x) /\ Cardinality(c[i]) \in Nat /\ Cardinality(x) \in Nat
        BY <1>2, <1>4, Sizes
      <4>2. Cardinality(c[i]) = Cardinality(x)
        BY <1>5, <4>1
      <4>3. c[i] = x
        BY <1>2, <1>4, <4>2, Sizes
      <4> QED BY <3>2, <4>3
    <3> QED BY <3>2, <3>3
  <2> HIDE DEF d, n
  <2>3. \A i \in 1 .. n + 1 : i = n + 1 \/ i \in 1 .. n
    BY <1>2
  <2>3a. \A i \in 1 .. n : i \in 1 .. n + 1
    BY <1>2
  <2>3b. n + 1 \in 1 .. n + 1
    BY <1>2
  <2>4. \A i \in 1 .. n + 1 : \E j \in 1 .. m : d[i] = s[j]
    BY <1>3, <1>6a, <1>6b, <2>1, <2>3
  <2>5. \A j \in 1 .. m : \E i \in 1 .. n + 1 : s[j] \subseteq d[i]
    <3> TAKE j \in 1 .. m
    <3>1. CASE j = m
      BY <2>1, <2>3b, <3>1
    <3>2. CASE j \in 1 .. m - 1
      <4>1. PICK i \in 1 .. n : s[j] \subseteq c[i]
        BY <1>3, <3>2
      <4> QED BY <2>1, <2>3a, <4>1
    <3> QED BY <1>6, <3>1, <3>2
  <2>6. \A i, j \in 1 .. n + 1 : d[i] \subseteq d[j] => i = j
    <3> TAKE i, j \in 1 .. n + 1
    <3>1. CASE i = n + 1 /\ j = n + 1
      BY <3>1
    <3>2. CASE i = n + 1 /\ j \in 1 .. n
      BY <2>1, <2>2, <3>2
    <3>3. CASE i \in 1 .. n /\ j = n + 1
      BY <2>1, <2>2, <3>3
    <3>4. CASE i \in 1 .. n /\ j \in 1 .. n
      BY <1>3, <2>1, <3>4
    <3> QED BY <2>3, <3>1, <3>2, <3>3, <3>4
  <2>7. Confirms(d, s, m)
    BY <2>1, <2>4, <2>5, <2>6 DEF Confirms
  <2> QED BY <1>8, <2>7 DEF d
<1> QED BY <1>7, <1>8

\* What is confirmed of candidates in the order of their sizes.
LEMMA ConfirmedAll ==
  ASSUME NEW s \in Seq(SUBSET Objects),
         \A i, j \in DOMAIN s : i < j => Cardinality(s[i]) >= Cardinality(s[j])
  PROVE  Confirms(Confirmed(s), s, Len(s))
<1> DEFINE n == Len(s)
           W == Seq(SUBSET Objects)
           e == <<>>
           F == [k \in 1 .. n |-> [c \in W |-> IF Dominated(c, s[k]) THEN c ELSE Append(c, s[k])]]
           Def(f) == f = [k \in 0 .. n |->
                            IF k = 0 THEN << >>
                            ELSE IF \E j \in DOMAIN f[k - 1] : Dominates(f[k - 1][j], s[k]) THEN f[k - 1]
                            ELSE Append(f[k - 1], s[k])]
           conf == CHOOSE f : Def(f)
<1>1. n \in Nat /\ DOMAIN s = 1 .. n /\ \A k \in 1 .. n : s[k] \in SUBSET Objects
  BY LenProperties, ElementOfSeq
<1>2. Confirmed(s) = conf[n]
  BY DEF Confirmed
<1>3. e \in W
  BY EmptySeq
<1>4. F \in [1 .. n -> [W -> W]]
  <2>1. \A k \in 1 .. n : \A c \in W : Append(c, s[k]) \in W
    BY <1>1, AppendProperties
  <2> QED BY <2>1
<1>5. \A k \in 1 .. n : \A c \in W :
        F[k][c] = IF Dominated(c, s[k]) THEN c ELSE Append(c, s[k])
  OBVIOUS
<1> HIDE DEF F, W, e, n
<1>6. PICK p : Iterates(p, W, n, e, F)
  BY <1>1, <1>3, <1>4, StepByStep
<1>7. p \in [0 .. n -> W] /\ p[0] = e /\ \A k \in 1 .. n : p[k] = F[k][p[k - 1]]
  BY <1>6 DEF Iterates
<1>8. \A k \in 1 .. n : /\ k - 1 \in 0 .. n /\ p[k - 1] \in W
                        /\ p[k] = IF Dominated(p[k - 1], s[k]) THEN p[k - 1] ELSE Append(p[k - 1], s[k])
  <2> TAKE k \in 1 .. n
  <2>1. k - 1 \in 0 .. n
    BY <1>1
  <2>2. p[k - 1] \in W
    BY <1>7, <2>1
  <2> QED BY <1>5, <1>7, <2>1, <2>2
<1>9. Def(p)
  <2>1. p = [k \in 0 .. n |-> p[k]]
    BY <1>7
  <2>2. \A k \in 0 .. n : p[k] = IF k = 0 THEN << >>
                            ELSE IF \E j \in DOMAIN p[k - 1] : Dominates(p[k - 1][j], s[k]) THEN p[k - 1]
                            ELSE Append(p[k - 1], s[k])
    <3> TAKE k \in 0 .. n
    <3>1. CASE k = 0
      BY <1>7, <3>1 DEF e
    <3>2. CASE k # 0
      <4>1. k \in 1 .. n
        BY <1>1, <3>2
      <4> QED BY <1>8, <3>2, <4>1 DEF Dominated
    <3> QED BY <3>1, <3>2
  <2> QED BY <2>1, <2>2, Zenon
<1>10. Def(conf)
  <2> HIDE DEF Def
  <2> QED BY <1>9
<1>11. /\ conf[0] = << >>
       /\ \A k \in 1 .. n : conf[k] = IF Dominated(conf[k - 1], s[k]) THEN conf[k - 1]
                                      ELSE Append(conf[k - 1], s[k])
  <2> HIDE DEF conf
  <2>1. conf[0] = << >>
    BY <1>1, <1>10
  <2>2. \A k \in 1 .. n : k \in 0 .. n /\ k # 0
    BY <1>1
  <2> QED BY <1>10, <2>1, <2>2, Zenon DEF Dominated
<1> HIDE DEF conf, Def
<1> DEFINE T == {k \in Nat : k <= n => Confirms(conf[k], s, k)}
<1>12. 0 \in T
  <2>1. <<>> \in Seq(SUBSET Objects) /\ DOMAIN <<>> = {}
    BY EmptySeq
  <2>2. Confirms(<<>>, s, 0)
    BY <2>1 DEF Confirms
  <2> QED BY <1>11, <2>2
<1>13. ASSUME NEW k \in Nat, k \in T PROVE k + 1 \in T
  <2> SUFFICES ASSUME k + 1 <= n PROVE Confirms(conf[k + 1], s, k + 1)
    OBVIOUS
  <2> DEFINE m == k + 1
  <2>1. m \in 1 .. n /\ m - 1 = k /\ k <= n
    BY <1>1
  <2>2. Confirms(conf[m - 1], s, m - 1)
    BY <1>13, <2>1
  <2> HIDE DEF m, T
  <2>3. m \in DOMAIN s
    BY <1>1, <2>1
  <2>4. Confirms(IF Dominated(conf[m - 1], s[m]) THEN conf[m - 1] ELSE Append(conf[m - 1], s[m]), s, m)
    BY <2>2, <2>3, ConfirmsStep
  <2>5. Confirms(conf[m], s, m)
    BY <1>11, <2>1, <2>4
  <2> QED BY <2>5 DEF m
<1> HIDE DEF T
<1>14. Nat \subseteq T
  BY ONLY <1>12, <1>13, Induction
<1>15. Confirms(conf[n], s, n)
  BY <1>1, <1>14 DEF T
<1> QED BY <1>2, <1>15 DEF n

LEMMA Members == \A s, x : x \in ToSet(s) <=> \E i \in DOMAIN s : s[i] = x
BY DEF ToSet

\* The extents below X.
StrictlyBelow(k, X) == {Y \in Closed(k) : Y \subseteq X /\ Y # X}

\* The extents right below X.
JustBelow(k, X) ==
  {Y \in StrictlyBelow(k, X) : \A Z \in StrictlyBelow(k, X) : Y \subseteq Z => Y = Z}

\* The candidates: extents below X, and every one below X is within one.
LEMMA CandidatesBelow ==
  ASSUME NEW k \in AllContexts, NEW X \in Closed(k),
         NEW irr \in Seq(Attributes), ToSet(irr) = {a \in Attributes : Irreducible(k, a)}
  PROVE  LET s == Candidates(k, irr, X, Intent(k, X))
         IN  /\ s \in Seq(SUBSET Objects)
             /\ ToSet(s) \subseteq StrictlyBelow(k, X)
             /\ \A Y \in StrictlyBelow(k, X) : \E Z \in ToSet(s) : Y \subseteq Z
<1> DEFINE s == Candidates(k, irr, X, Intent(k, X))
           cuts(a) == a \notin Intent(k, X) /\ Cardinality(X \cap k[a]) # Cardinality(X)
           I == {i \in DOMAIN irr : cuts(irr[i])}
           kept == Pick(irr, I)
<1>1. s = [j \in DOMAIN kept |-> X \cap k[kept[j]]]
  BY DEF Candidates
<1>2. /\ X \in SUBSET Objects
      /\ \A a \in Attributes : X \cap k[a] \in Closed(k)
      /\ \A a \in Attributes : a \in Intent(k, X) <=> X \subseteq k[a]
  BY Closure
<1>3. \A a \in Attributes : cuts(a) <=> ~(X \subseteq k[a])
  <2> SUFFICES ASSUME NEW a \in Attributes, ~(X \subseteq k[a])
               PROVE  Cardinality(X \cap k[a]) # Cardinality(X)
    BY <1>2
  <2>1. X \cap k[a] \in SUBSET X /\ X \cap k[a] # X
    OBVIOUS
  <2> QED BY <1>2, <2>1, Sizes
<1>4. I \in SUBSET DOMAIN irr
  OBVIOUS
<1> HIDE DEF s, cuts, I
<1>5. kept \in Seq(Attributes) /\ ToSet(kept) = {irr[i] : i \in I}
  BY <1>4, Picked
<1> HIDE DEF kept
<1>6. Len(kept) \in Nat /\ DOMAIN kept = 1 .. Len(kept) /\ \A j \in DOMAIN kept : kept[j] \in Attributes
  BY <1>5, LenProperties, ElementOfSeq
<1>7. ToSet(kept) = {a \in Attributes : Irreducible(k, a) /\ ~(X \subseteq k[a])}
  <2>1. \A i \in DOMAIN irr : irr[i] \in ToSet(irr)
    BY DEF ToSet
  <2>2. \A a \in ToSet(irr) : \E i \in DOMAIN irr : irr[i] = a
    BY DEF ToSet
  <2> QED BY <1>3, <1>5, <2>1, <2>2 DEF I
<1>8. s \in Seq(SUBSET Objects)
  BY <1>1, <1>2, <1>6
<1>9. \A Z : Z \in ToSet(s) <=> \E a \in ToSet(kept) : Z = X \cap k[a]
  <2>1. \A Z : Z \in ToSet(s) <=> \E j \in DOMAIN kept : Z = X \cap k[kept[j]]
    BY <1>1 DEF ToSet
  <2>2. \A a : a \in ToSet(kept) <=> \E j \in DOMAIN kept : kept[j] = a
    BY Members
  <2> QED BY <2>1, <2>2
<1>10. ToSet(s) \subseteq StrictlyBelow(k, X)
  BY <1>2, <1>7, <1>9 DEF StrictlyBelow
<1>11. ASSUME NEW Y \in StrictlyBelow(k, X)
       PROVE  \E Z \in ToSet(s) : Y \subseteq Z
  <2>1. PICK a \in Attributes : Irreducible(k, a) /\ ~(X \subseteq k[a]) /\ Y \subseteq k[a]
    BY ThroughIrreducible DEF StrictlyBelow
  <2>2. Y \subseteq X \cap k[a]
    BY <2>1 DEF StrictlyBelow
  <2> QED BY <1>7, <1>9, <2>1, <2>2
<1> QED BY <1>8, <1>10, <1>11 DEF s

\* The lower covers: exactly the extents right below X, each of them once; and
\* every extent below X is within one of them.
LEMMA CoversFound ==
  ASSUME NEW k \in AllContexts, NEW X \in Closed(k),
         NEW irr \in Seq(Attributes), ToSet(irr) = {a \in Attributes : Irreducible(k, a)}
  PROVE  /\ LowerCovers(k, irr, X, Intent(k, X)) \in Seq(SUBSET Objects)
         /\ Once(LowerCovers(k, irr, X, Intent(k, X)))
         /\ ToSet(LowerCovers(k, irr, X, Intent(k, X))) = JustBelow(k, X)
         /\ \A Y \in StrictlyBelow(k, X) : \E Z \in JustBelow(k, X) : Y \subseteq Z
<1> DEFINE s == Candidates(k, irr, X, Intent(k, X))
           b == ByCardinality(s)
           c == Confirmed(b)
           m == Len(b)
<1>1. /\ s \in Seq(SUBSET Objects)
      /\ ToSet(s) \subseteq StrictlyBelow(k, X)
      /\ \A Y \in StrictlyBelow(k, X) : \E Z \in ToSet(s) : Y \subseteq Z
  BY CandidatesBelow
<1>2. LowerCovers(k, irr, X, Intent(k, X)) = c
  BY DEF LowerCovers
<1> HIDE DEF s
<1>3. /\ b \in Seq(SUBSET Objects) /\ ToSet(b) = ToSet(s)
      /\ \A i, j \in DOMAIN b : i < j => Cardinality(b[i]) >= Cardinality(b[j])
  BY <1>1, BySize
<1> HIDE DEF b
<1>4. Confirms(c, b, m)
  BY <1>3, ConfirmedAll
<1>5. m \in Nat /\ DOMAIN b = 1 .. m
  BY <1>3, LenProperties
<1> HIDE DEF c, m
<1>6. /\ c \in Seq(SUBSET Objects)
      /\ \A Y \in ToSet(c) : Y \in ToSet(s)
      /\ \A Y \in ToSet(s) : \E Z \in ToSet(c) : Y \subseteq Z
      /\ \A Y, Z \in ToSet(c) : Y \subseteq Z => Y = Z
      /\ Once(c)
  <2>1. c \in Seq(SUBSET Objects) /\ Once(c)
    BY <1>4 DEF Confirms, Once
  <2>2. ASSUME NEW Y \in ToSet(c) PROVE Y \in ToSet(b)
    <3>1. PICK i \in DOMAIN c : c[i] = Y
      BY Members
    <3>2. PICK j \in 1 .. m : c[i] = b[j]
      BY <1>4 DEF Confirms
    <3> QED BY <1>5, <3>1, <3>2, Members
  <2>3. ASSUME NEW Y \in ToSet(b) PROVE \E Z \in ToSet(c) : Y \subseteq Z
    <3>1. PICK j \in 1 .. m : b[j] = Y
      BY <1>5, Members
    <3>2. PICK i \in DOMAIN c : b[j] \subseteq c[i]
      BY <1>4 DEF Confirms
    <3> QED BY <3>1, <3>2, Members
  <2>4. ASSUME NEW Y \in ToSet(c), NEW Z \in ToSet(c), Y \subseteq Z PROVE Y = Z
    <3>1. PICK i \in DOMAIN c : c[i] = Y
      BY Members
    <3>2. PICK j \in DOMAIN c : c[j] = Z
      BY Members
    <3>3. i = j
      BY <1>4, <2>4, <3>1, <3>2 DEF Confirms
    <3> QED BY <3>1, <3>2, <3>3
  <2> QED BY <1>3, <2>1, <2>2, <2>3, <2>4
<1>7. \A Y \in StrictlyBelow(k, X) : \E Z \in ToSet(c) : Y \subseteq Z
  <2> TAKE Y \in StrictlyBelow(k, X)
  <2>1. PICK V \in ToSet(s) : Y \subseteq V
    BY <1>1
  <2>2. PICK Z \in ToSet(c) : V \subseteq Z
    BY <1>6
  <2> QED BY <2>1, <2>2
<1>8. \A Y \in ToSet(c) : Y \in StrictlyBelow(k, X)
  BY <1>1, <1>6
<1>9. ASSUME NEW Y \in ToSet(c) PROVE Y \in JustBelow(k, X)
  <2> SUFFICES ASSUME NEW Z \in StrictlyBelow(k, X), Y \subseteq Z PROVE Y = Z
    BY <1>8 DEF JustBelow
  <2>1. PICK V \in ToSet(c) : Z \subseteq V
    BY <1>7
  <2>2. Y = V
    BY <1>6, <2>1
  <2> QED BY <2>1, <2>2
<1>10. ASSUME NEW Y \in JustBelow(k, X) PROVE Y \in ToSet(c)
  <2>1. PICK Z \in ToSet(c) : Y \subseteq Z
    BY <1>7 DEF JustBelow
  <2>2. Y = Z
    BY <1>8, <2>1 DEF JustBelow
  <2> QED BY <2>2
<1>11. ToSet(c) = JustBelow(k, X)
  BY <1>9, <1>10
<1> QED BY <1>2, <1>6, <1>7, <1>11

-----------------------------------------------------------------------------
(***************************************************************************)
(* The input, and what the threads compute of it.                          *)
(***************************************************************************)
GoodInput == \E i \in Inputs : cols = i.cols /\ concepts = i.concepts

\* The concepts listed are all there are, each of them once.
LEMMA InputFacts ==
  ASSUME GoodInput
  PROVE  /\ cols \in AllContexts /\ N \in Nat /\ N <= MaxSize
         /\ Ids = 0 .. N - 1
         /\ \A c \in Ids : /\ ExtentOf(c) \in Closed(cols)
                           /\ IntentOf(c) = Intent(cols, ExtentOf(c))
         /\ \A X \in Closed(cols) : \E c \in Ids : ExtentOf(c) = X
         /\ \A c, d \in Ids : ExtentOf(c) = ExtentOf(d) => c = d
<1> DEFINE all == Concepts(cols)
<1>1. /\ cols \in AllContexts /\ concepts \in Seq(all)
      /\ ToSet(concepts) = all /\ Len(concepts) = Cardinality(all)
      /\ Len(concepts) <= MaxSize
  BY InputsAssumption DEF GoodInput
<1>2. N \in Nat /\ DOMAIN concepts = 1 .. N /\ \A k \in 1 .. N : concepts[k] \in all
  BY <1>1, LenProperties, ElementOfSeq DEF N
<1>3. \A x \in all : /\ x.ext \in Closed(cols) /\ x.int = Intent(cols, x.ext)
                     /\ x = [ext |-> x.ext, int |-> Intent(cols, x.ext)]
  BY DEF Concepts, Closed
<1>4. \A X \in Closed(cols) : [ext |-> X, int |-> Intent(cols, X)] \in all
  BY DEF Concepts, Closed
<1> HIDE DEF all
<1>5. \A x \in all : \E k \in 1 .. N : concepts[k] = x
  BY <1>1, <1>2 DEF ToSet
<1>6. concepts \in Injection(1 .. N, all)
  <2>1. concepts \in [1 .. N -> all]
    BY <1>1, <1>2
  <2>2. concepts \in Surjection(1 .. N, all)
    BY <1>5, <2>1 DEF Surjection
  <2>3. IsFiniteSet(1 .. N) /\ Cardinality(1 .. N) = N
    BY <1>2, FS_Interval
  <2>4. Cardinality(all) = Cardinality(1 .. N)
    BY <1>1, <2>3 DEF N
  <2> QED BY <2>2, <2>3, <2>4, FS_Surjection
<1>7. \A c \in Ids : c + 1 \in 1 .. N /\ c \in Int
  BY <1>2 DEF Ids
<1>8. \A c \in Ids : /\ ExtentOf(c) \in Closed(cols)
                     /\ IntentOf(c) = Intent(cols, ExtentOf(c))
  BY <1>2, <1>3, <1>7 DEF ExtentOf, IntentOf
<1>9. ASSUME NEW X \in Closed(cols) PROVE \E c \in Ids : ExtentOf(c) = X
  <2>1. PICK k \in 1 .. N : concepts[k] = [ext |-> X, int |-> Intent(cols, X)]
    BY <1>4, <1>5
  <2>2. k - 1 \in Ids /\ k - 1 + 1 = k
    BY <1>2 DEF Ids
  <2>3. ExtentOf(k - 1) = X
    BY <2>1, <2>2 DEF ExtentOf
  <2> QED BY <2>2, <2>3
<1>10. ASSUME NEW c \in Ids, NEW d \in Ids, ExtentOf(c) = ExtentOf(d)
       PROVE  c = d
  <2>1. concepts[c + 1] = concepts[d + 1]
    <3>1. concepts[c + 1].ext = concepts[d + 1].ext
      BY <1>10 DEF ExtentOf
    <3> QED BY <1>2, <1>3, <1>7, <3>1
  <2>2. c + 1 = d + 1
    BY <1>6, <1>7, <2>1 DEF Injection, IsInjective
  <2> QED BY <1>7, <2>2
<1> QED BY <1>1, <1>2, <1>8, <1>9, <1>10 DEF N, Ids

\* A concept is covered by another one exactly when its extent is right below.
LEMMA CoversJustBelow ==
  ASSUME GoodInput, NEW c \in Ids, NEW d \in Ids
  PROVE  Covers(c, d) <=> ExtentOf(d) \in JustBelow(cols, ExtentOf(c))
<1>1. /\ \A x \in Ids : ExtentOf(x) \in Closed(cols)
      /\ \A X \in Closed(cols) : \E x \in Ids : ExtentOf(x) = X
      /\ \A x, y \in Ids : ExtentOf(x) = ExtentOf(y) => x = y
  BY InputFacts
<1>2. Covers(c, d) <=>
        /\ ExtentOf(d) \subseteq ExtentOf(c) /\ d # c
        /\ ~ \E e \in Ids : /\ ExtentOf(d) \subseteq ExtentOf(e) /\ d # e
                            /\ ExtentOf(e) \subseteq ExtentOf(c) /\ e # c
  BY DEF Covers
<1>3. \A x \in Ids : ExtentOf(x) \in StrictlyBelow(cols, ExtentOf(c))
                       <=> ExtentOf(x) \subseteq ExtentOf(c) /\ x # c
  BY <1>1 DEF StrictlyBelow
<1>4. ASSUME Covers(c, d), NEW Z \in StrictlyBelow(cols, ExtentOf(c)), ExtentOf(d) \subseteq Z
      PROVE  ExtentOf(d) = Z
  <2>1. PICK e \in Ids : ExtentOf(e) = Z
    BY <1>1 DEF StrictlyBelow
  <2> QED BY <1>2, <1>3, <1>4, <2>1
<1>5. ASSUME ExtentOf(d) \in JustBelow(cols, ExtentOf(c)) PROVE Covers(c, d)
  <2>1. ExtentOf(d) \in StrictlyBelow(cols, ExtentOf(c))
    BY <1>5 DEF JustBelow
  <2>2. ASSUME NEW e \in Ids, ExtentOf(d) \subseteq ExtentOf(e), d # e,
               ExtentOf(e) \subseteq ExtentOf(c), e # c
        PROVE  FALSE
    <3>1. ExtentOf(d) = ExtentOf(e)
      BY <1>3, <1>5, <2>2 DEF JustBelow
    <3> QED BY <1>1, <2>2, <3>1
  <2> QED BY <1>2, <1>3, <2>1, <2>2
<1> QED BY <1>2, <1>3, <1>4, <1>5 DEF JustBelow

\* After the digest each extent leads to its concept.
Digested == \A c \in Ids : card[c] \in Nat

LEMMA WmapFinds ==
  ASSUME GoodInput, Digested, NEW c \in Ids
  PROVE  WmapGet(ExtentOf(c)) = c
<1> DEFINE S == {d \in Ids : card[d] >= 0 /\ ExtentOf(d) = ExtentOf(c)} \cup {-1}
<1>1. \A d \in Ids : d \in Nat /\ (ExtentOf(d) = ExtentOf(c) => d = c)
  BY InputFacts
<1>2. S = {c, -1}
  BY <1>1 DEF Digested
<1>3. WmapGet(ExtentOf(c)) = Max(S)
  BY DEF WmapGet
<1> HIDE DEF S
<1>4. IsFiniteSet({c} \cup {-1})
  BY FS_Singleton, FS_AddElement
<1>5. S \in SUBSET Int /\ S # {} /\ IsFiniteSet(S)
  <2>1. S = {c} \cup {-1}
    BY <1>2
  <2> QED BY <1>1, <1>4, <2>1
<1>6. Max(S) \in S /\ \A x \in S : x <= Max(S)
  BY <1>5, HasMax
<1> QED BY <1>1, <1>2, <1>3, <1>6

LEMMA IrrFacts ==
  Irr \in Seq(Attributes) /\ ToSet(Irr) = {a \in Attributes : Irreducible(cols, a)}
<1> DEFINE S == {a \in Attributes : Irreducible(cols, a)}
<1>1. IsFiniteSet(S) /\ S \in SUBSET Int
  <2>1. IsFiniteSet(Attributes) /\ Attributes \subseteq Int
    BY MAssumption, FS_Interval DEF Attributes
  <2> QED BY <2>1, FS_Subset
<1>2. Irr = Increasing(S)
  BY DEF Irr
<1>3. S \subseteq Attributes
  OBVIOUS
<1> HIDE DEF S
<1>4. /\ Irr \in Seq(S) /\ \A x \in S : \E k \in DOMAIN Irr : Irr[k] = x
  BY <1>1, <1>2, InOrder
<1>5. Irr \in Seq(Attributes)
  BY <1>3, <1>4, SeqMonotonic
<1>6. \A k \in DOMAIN Irr : Irr[k] \in S
  BY <1>4, LenProperties, ElementOfSeq
<1>7. ToSet(Irr) = S
  BY <1>4, <1>6, Members
<1> QED BY <1>5, <1>7 DEF S

\* The edges pushed for concept c: those to the concepts it covers.
LEMMA EdgesOf ==
  ASSUME GoodInput, Digested, NEW c \in Ids
  PROVE  /\ LowerEdges(c) \in Seq(Ids \X Ids) /\ Once(LowerEdges(c))
         /\ ToSet(LowerEdges(c)) = {e \in Ids \X Ids : e[2] = c /\ Covers(c, e[1])}
<1> DEFINE X == ExtentOf(c)
           found == LowerCovers(cols, Irr, X, IntentOf(c))
           all == [k \in DOMAIN found |-> <<WmapGet(found[k]), c>>]
           I == {k \in DOMAIN all : all[k][1] >= 0 /\ all[k][1] # c}
           r == Pick(all, I)
<1>1. /\ cols \in AllContexts
      /\ \A d \in Ids : d \in Nat /\ ExtentOf(d) \in Closed(cols)
      /\ IntentOf(c) = Intent(cols, X)
      /\ \A Z \in Closed(cols) : \E d \in Ids : ExtentOf(d) = Z
      /\ \A d, e \in Ids : ExtentOf(d) = ExtentOf(e) => d = e
  BY InputFacts
<1>2. LowerEdges(c) = r
  BY DEF LowerEdges
<1>3. found \in Seq(SUBSET Objects) /\ Once(found) /\ ToSet(found) = JustBelow(cols, X)
  <2>1. /\ LowerCovers(cols, Irr, X, Intent(cols, X)) \in Seq(SUBSET Objects)
        /\ Once(LowerCovers(cols, Irr, X, Intent(cols, X)))
        /\ ToSet(LowerCovers(cols, Irr, X, Intent(cols, X))) = JustBelow(cols, X)
    BY <1>1, IrrFacts, CoversFound
  <2> QED BY <1>1, <2>1
<1>4. DOMAIN found = 1 .. Len(found) /\ Len(found) \in Nat
  BY <1>3, LenProperties
<1> HIDE DEF found
<1>5. ASSUME NEW k \in DOMAIN found
      PROVE  \E d \in Ids : /\ ExtentOf(d) = found[k] /\ Covers(c, d) /\ d # c
                            /\ all[k] = <<d, c>>
  <2>1. found[k] \in JustBelow(cols, X)
    BY <1>3, Members
  <2>2. PICK d \in Ids : ExtentOf(d) = found[k]
    BY <1>1, <2>1 DEF JustBelow, StrictlyBelow
  <2>3. Covers(c, d)
    BY <2>1, <2>2, CoversJustBelow
  <2>4. d # c
    BY <2>1, <2>2 DEF JustBelow, StrictlyBelow
  <2>5. all[k] = <<d, c>>
    BY <2>2, WmapFinds
  <2> QED BY <2>2, <2>3, <2>4, <2>5
<1>6. all \in Seq(Ids \X Ids)
  <2>1. \A k \in DOMAIN found : all[k] \in Ids \X Ids
    BY <1>5
  <2>2. all = [k \in DOMAIN found |-> all[k]]
    OBVIOUS
  <2> HIDE DEF all
  <2> QED BY <1>4, <2>1, <2>2
<1>7. DOMAIN all = DOMAIN found
  OBVIOUS
<1> HIDE DEF all
<1>8. I = DOMAIN all
  <2> SUFFICES ASSUME NEW k \in DOMAIN all PROVE all[k][1] >= 0 /\ all[k][1] # c
    OBVIOUS
  <2>1. PICK d \in Ids : d # c /\ all[k] = <<d, c>>
    BY <1>5, <1>7
  <2> QED BY <1>1, <2>1
<1>9. I \in SUBSET DOMAIN all
  OBVIOUS
<1> HIDE DEF I
<1>10. r \in Seq(Ids \X Ids) /\ ToSet(r) = {all[k] : k \in I}
  BY <1>6, <1>9, Picked
<1>11. PICK q : \A j, k \in DOMAIN r : /\ q[k] \in I /\ r[k] = all[q[k]]
                                       /\ q[j] = q[k] => j = k
  BY <1>6, <1>9, PickedApart
<1> HIDE DEF r
<1>12. \A j, k \in DOMAIN found : all[j] = all[k] => j = k
  <2> SUFFICES ASSUME NEW j \in DOMAIN found, NEW k \in DOMAIN found, all[j] = all[k]
               PROVE  j = k
    OBVIOUS
  <2>1. PICK d \in Ids : ExtentOf(d) = found[j] /\ all[j] = <<d, c>>
    BY <1>5
  <2>2. PICK e \in Ids : ExtentOf(e) = found[k] /\ all[k] = <<e, c>>
    BY <1>5
  <2>3. d = e
    <3>1. <<d, c>> = <<e, c>>
      BY <2>1, <2>2, Zenon
    <3> QED BY ONLY <3>1
  <2> QED BY <1>3, <2>1, <2>2, <2>3 DEF Once
<1>13. Once(r)
  BY <1>7, <1>8, <1>11, <1>12 DEF Once
<1>14. ASSUME NEW e \in ToSet(r)
       PROVE  e \in Ids \X Ids /\ e[2] = c /\ Covers(c, e[1])
  <2>1. PICK k \in DOMAIN found : e = all[k]
    BY <1>7, <1>8, <1>10
  <2> QED BY <1>5, <2>1
<1>15. ASSUME NEW e \in Ids \X Ids, e[2] = c, Covers(c, e[1])
       PROVE  e \in ToSet(r)
  <2>1. PICK k \in DOMAIN found : found[k] = ExtentOf(e[1])
    BY <1>3, <1>15, CoversJustBelow, Members
  <2>2. all[k] = <<e[1], c>>
    BY <1>1, <1>5, <2>1
  <2> QED BY <1>7, <1>8, <1>10, <1>15, <2>1, <2>2
<1>16. ToSet(r) = {e \in Ids \X Ids : e[2] = c /\ Covers(c, e[1])}
  BY <1>14, <1>15
<1> QED BY <1>2, <1>10, <1>13, <1>16

\* Each attribute leads to the concept of its column.
LEMMA AttributeConcept ==
  ASSUME GoodInput, Digested, NEW a \in Attributes
  PROVE  /\ WmapGet(cols[a]) \in Ids /\ ExtentOf(WmapGet(cols[a])) = cols[a]
         /\ \A c \in Ids : a \in IntentOf(c) <=> ExtentOf(c) \subseteq cols[a]
<1>1. /\ cols \in AllContexts
      /\ \A c \in Ids : /\ ExtentOf(c) \in Closed(cols)
                        /\ IntentOf(c) = Intent(cols, ExtentOf(c))
      /\ \A Z \in Closed(cols) : \E d \in Ids : ExtentOf(d) = Z
  BY InputFacts
<1>2. cols[a] \in Closed(cols)
  <2>1. cols[a] = Extent(cols, {a})
    BY <1>1 DEF Extent, AllContexts
  <2>2. {a} \in SUBSET Attributes
    OBVIOUS
  <2> QED BY <2>1, <2>2 DEF Closed
<1>3. PICK d \in Ids : ExtentOf(d) = cols[a]
  BY <1>1, <1>2
<1>4. WmapGet(cols[a]) = d
  BY <1>3, WmapFinds
<1>5. \A c \in Ids : a \in IntentOf(c) <=> ExtentOf(c) \subseteq cols[a]
  BY <1>1, Closure
<1> QED BY <1>3, <1>4, <1>5

\* Concept c is the smallest that has object o.
Owns(c, o) ==
  /\ o \in ExtentOf(c)
  /\ \A d \in Ids : o \in ExtentOf(d) => ExtentOf(c) \subseteq ExtentOf(d)

LEMMA ObjectConcept ==
  ASSUME GoodInput, NEW o \in Objects
  PROVE  /\ \E c \in Ids : Owns(c, o)
         /\ \A c, d \in Ids : Owns(c, o) /\ Owns(d, o) => c = d
         /\ \A c \in Ids :
              Owns(c, o) <=> /\ o \in ExtentOf(c)
                             /\ \A d \in Ids : Covers(c, d) => o \notin ExtentOf(d)
<1> DEFINE G == Extent(cols, Intent(cols, {o}))
<1>1. /\ cols \in AllContexts
      /\ \A c \in Ids : ExtentOf(c) \in Closed(cols)
      /\ \A Z \in Closed(cols) : \E d \in Ids : ExtentOf(d) = Z
      /\ \A d, e \in Ids : ExtentOf(d) = ExtentOf(e) => d = e
  BY InputFacts
<1>2. G \in Closed(cols) /\ o \in G
  BY DEF Closed, Intent, Extent
<1>3. ASSUME NEW d \in Ids, o \in ExtentOf(d) PROVE G \subseteq ExtentOf(d)
  <2>1. ExtentOf(d) = Extent(cols, Intent(cols, ExtentOf(d)))
    BY <1>1, Closure
  <2>2. Intent(cols, ExtentOf(d)) \subseteq Intent(cols, {o})
    BY <1>3 DEF Intent
  <2> QED BY <2>1, <2>2 DEF Extent
<1> HIDE DEF G
<1>4. PICK g \in Ids : ExtentOf(g) = G
  BY <1>1, <1>2
<1>5. Owns(g, o)
  BY <1>2, <1>3, <1>4 DEF Owns
<1>6. \A c, d \in Ids : Owns(c, o) /\ Owns(d, o) => c = d
  BY <1>1 DEF Owns
<1>7. ASSUME NEW c \in Ids, Owns(c, o), NEW d \in Ids, Covers(c, d), o \in ExtentOf(d)
      PROVE  FALSE
  <2>1. ExtentOf(d) \subseteq ExtentOf(c) /\ c # d
    BY <1>7 DEF Covers
  <2> QED BY <1>1, <1>7, <2>1 DEF Owns
<1>8. ASSUME NEW c \in Ids, o \in ExtentOf(c), ~Owns(c, o)
      PROVE  \E d \in Ids : Covers(c, d) /\ o \in ExtentOf(d)
  <2>1. G \in StrictlyBelow(cols, ExtentOf(c))
    BY <1>2, <1>3, <1>4, <1>5, <1>8 DEF StrictlyBelow, Owns
  <2>2. PICK Z \in JustBelow(cols, ExtentOf(c)) : G \subseteq Z
    BY <1>1, <2>1, IrrFacts, CoversFound
  <2>3. PICK d \in Ids : ExtentOf(d) = Z
    BY <1>1, <2>2 DEF JustBelow, StrictlyBelow
  <2>4. Covers(c, d)
    BY <2>2, <2>3, CoversJustBelow
  <2> QED BY <1>2, <2>2, <2>3, <2>4
<1>9. \A c \in Ids :
        Owns(c, o) <=> /\ o \in ExtentOf(c)
                       /\ \A d \in Ids : Covers(c, d) => o \notin ExtentOf(d)
  <2> TAKE c \in Ids
  <2>1. Owns(c, o) => o \in ExtentOf(c)
    BY DEF Owns
  <2> QED BY <1>7, <1>8, <2>1
<1> QED BY <1>4, <1>5, <1>6, <1>9

\* What the edges are once the cover threads are joined.
EdgesKnown ==
  /\ edgePairs \in Seq(Ids \X Ids) /\ Once(edgePairs)
  /\ \A e : e \in ToSet(edgePairs) <=> e \in Ids \X Ids /\ Covers(e[2], e[1])

LEMMA ChildrenOf ==
  ASSUME EdgesKnown, NEW c \in Ids
  PROVE  \A d : d \in ToSet(Children(c)) <=> d \in Ids /\ Covers(c, d)
<1> DEFINE ps == Swap(edgePairs)
           I == {j \in DOMAIN ps : ps[j][1] = c}
           s == Pick(ps, I)
<1>1. edgePairs \in Seq(Ids \X Ids)
  BY DEF EdgesKnown
<1>2. DOMAIN edgePairs = 1 .. Len(edgePairs) /\ Len(edgePairs) \in Nat
      /\ \A j \in DOMAIN edgePairs : edgePairs[j] \in Ids \X Ids
  BY <1>1, LenProperties, ElementOfSeq
<1>3. ps = [j \in DOMAIN edgePairs |-> <<edgePairs[j][2], edgePairs[j][1]>>]
  BY DEF Swap
<1>4. ps \in Seq(Ids \X Ids)
  <2>1. \A j \in DOMAIN edgePairs : <<edgePairs[j][2], edgePairs[j][1]>> \in Ids \X Ids
    BY <1>2
  <2> QED BY <1>2, <1>3, <2>1
<1>5. Children(c) = [j \in DOMAIN s |-> s[j][2]]
  BY DEF Children, Bucket
<1>6. I \in SUBSET DOMAIN ps
  OBVIOUS
<1> HIDE DEF ps, I
<1>7. ToSet(s) = {ps[j] : j \in I}
  BY <1>4, <1>6, Picked
<1> HIDE DEF s
<1>8. \A d : d \in ToSet(Children(c)) <=> \E p \in ToSet(s) : p[2] = d
  <2>1. \A d : d \in ToSet(Children(c)) <=> \E j \in DOMAIN s : s[j][2] = d
    BY <1>5 DEF ToSet
  <2> QED BY <2>1, Members
<1>9. ASSUME NEW d PROVE d \in ToSet(Children(c)) <=> d \in Ids /\ Covers(c, d)
  <2>1. ASSUME d \in ToSet(Children(c)) PROVE d \in Ids /\ Covers(c, d)
    <3>1. PICK j \in I : ps[j][2] = d
      BY <1>7, <1>8, <2>1
    <3>2. j \in DOMAIN edgePairs /\ edgePairs[j] \in Ids \X Ids
          /\ edgePairs[j][1] = d /\ edgePairs[j][2] = c
      BY <1>2, <1>3, <3>1 DEF I
    <3>3. edgePairs[j] \in ToSet(edgePairs)
      BY <3>2, Members
    <3> QED BY <3>2, <3>3 DEF EdgesKnown
  <2>2. ASSUME d \in Ids, Covers(c, d) PROVE d \in ToSet(Children(c))
    <3>1. <<d, c>> \in ToSet(edgePairs)
      BY <2>2 DEF EdgesKnown
    <3>2. PICK j \in DOMAIN edgePairs : edgePairs[j] = <<d, c>>
      BY <3>1, Members
    <3>3. j \in I /\ ps[j] = <<c, d>>
      BY <1>3, <3>2 DEF I
    <3> QED BY <1>7, <1>8, <3>3
  <2> QED BY <2>1, <2>2
<1> QED BY <1>9

\* The objects of a concept that none of its children has: its own.
LEMMA ReducedOwns ==
  ASSUME GoodInput, EdgesKnown, NEW c \in Ids
  PROVE  /\ ReducedExtent(c) \in Seq(Objects) /\ Once(ReducedExtent(c))
         /\ \A o : o \in ToSet(ReducedExtent(c)) <=> o \in Objects /\ Owns(c, o)
<1> DEFINE S == ExtentOf(c) \ UNION {ExtentOf(d) : d \in ToSet(Children(c))}
           q == Increasing(S)
<1>1. ExtentOf(c) \in SUBSET Objects
  BY InputFacts, Closure
<1>2. \A o : o \in S <=> o \in Objects /\ Owns(c, o)
  <2>1. \A o : o \in S <=> o \in ExtentOf(c) /\ \A d \in Ids : Covers(c, d) => o \notin ExtentOf(d)
    BY ChildrenOf
  <2> HIDE DEF S
  <2> QED BY <1>1, <2>1, ObjectConcept
<1>3. ReducedExtent(c) = q
  BY DEF ReducedExtent
<1> HIDE DEF S
<1>4. S \in SUBSET Objects
  BY <1>2
<1>5. IsFiniteSet(S) /\ S \in SUBSET Int
  <2>1. Objects \subseteq Int
    <3> DEFINE n == Cardinality(Objects)
    <3>1. n \in Nat /\ Objects = 0 .. n - 1
      BY ObjectsAssumption, FS_CardinalityType
    <3> HIDE DEF n
    <3> QED BY <3>1
  <2> QED BY <1>4, <2>1, Sizes
<1>6. /\ q \in Seq(S) /\ DOMAIN q = 1 .. Cardinality(S) /\ Cardinality(S) \in Nat
      /\ \A x \in S : \E k \in DOMAIN q : q[k] = x
      /\ \A k, j \in DOMAIN q : k < j => q[k] < q[j]
  BY <1>5, InOrder
<1> HIDE DEF q
<1>7. q \in Seq(Objects)
  BY <1>4, <1>6, SeqMonotonic
<1>8. \A k \in DOMAIN q : q[k] \in S
  BY <1>6, LenProperties, ElementOfSeq
<1>9. Once(q)
  <2> SUFFICES ASSUME NEW i \in DOMAIN q, NEW j \in DOMAIN q, q[i] = q[j] PROVE i = j
    BY DEF Once
  <2>1. i \in Int /\ j \in Int /\ q[i] \in Int /\ q[j] \in Int
    <3>1. q[i] \in S /\ q[j] \in S
      BY <1>8
    <3>2. q[i] \in Int /\ q[j] \in Int
      BY <1>5, <3>1, Zenon
    <3> DEFINE n == Cardinality(S)
    <3>3. n \in Nat /\ i \in 1 .. n /\ j \in 1 .. n
      BY <1>6
    <3> HIDE DEF n
    <3> QED BY <3>2, <3>3
  <2>2. ~(q[i] < q[j]) /\ ~(q[j] < q[i])
    BY <2>1
  <2> QED BY <1>6, <2>1, <2>2
<1>10. \A o : o \in ToSet(q) <=> o \in S
  BY <1>6, <1>8, Members
<1> QED BY <1>2, <1>3, <1>7, <1>9, <1>10

-----------------------------------------------------------------------------
(***************************************************************************)
(* Every pass is one of BatchCursor's.                                     *)
(***************************************************************************)
LEMMA SamePass ==
  /\ C!Init = P!Init /\ C!Restart = P!Restart /\ C!Joined = P!Joined
  /\ C!vars = P!vars
  /\ Threads = P!Threads
  /\ \A t : /\ C!Fetch(t) = P!Fetch(t) /\ C!FetchEnd(t) = P!FetchEnd(t)
            /\ C!Handle(t) = P!Handle(t) /\ C!BatchDone(t) = P!BatchDone(t)
<1>1. C!Init = P!Init
  BY DEF C!Init, P!Init, C!Zero, P!Zero, C!Created, P!Created, C!Threads, P!Threads
<1>2. C!Restart = P!Restart
  BY DEF C!Restart, P!Restart, C!Joined, P!Joined, C!Zero, P!Zero, C!Created, P!Created, C!Threads, P!Threads
<1>3. C!Joined = P!Joined
  BY DEF C!Joined, P!Joined, C!Threads, P!Threads
<1>4. \A t : /\ C!Fetch(t) = P!Fetch(t) /\ C!FetchEnd(t) = P!FetchEnd(t)
             /\ C!Handle(t) = P!Handle(t) /\ C!BatchDone(t) = P!BatchDone(t)
  BY DEF C!Fetch, P!Fetch, C!FetchEnd, P!FetchEnd, C!Handle, P!Handle, C!BatchDone,
         P!BatchDone, C!Wrap, P!Wrap
<1> QED BY <1>1, <1>2, <1>3, <1>4 DEF Threads, C!Threads, P!Threads, C!vars, P!vars

LEMMA PassStep == [Next]_vars => [P!Next]_(P!vars)
<1> SUFFICES ASSUME [Next]_vars PROVE [P!Next]_(P!vars)
  OBVIOUS
<1>1. ASSUME NEW t \in Threads, Step(t) PROVE P!Next
  <2>1. P!Fetch(t) \/ P!FetchEnd(t) \/ P!BatchDone(t) \/ P!Handle(t)
    BY <1>1, SamePass DEF Step, Move, Digest, Cover, Rex
  <2> QED BY <2>1, SamePass DEF P!Next, P!Step
<1>2. CASE StartCovers \/ StartRex
  BY <1>2, SamePass DEF StartCovers, StartRex, P!Next
<1>3. CASE Deliver \/ Terminated \/ UNCHANGED vars
  BY <1>3 DEF Deliver, Terminated, vars, passVars, P!vars
<1> QED BY <1>1, <1>2, <1>3 DEF Next

\* Each of the passes over the concepts is a pass of BatchCursor.
THEOREM PassesImplement == Spec => P!Spec
<1>1. Init => P!Init
  BY SamePass DEF Init
<1> QED BY <1>1, PassStep, PTL DEF Spec, P!Spec

LEMMA PassInvariant == Spec => []P!IInv
BY PassesImplement, ThreadsAssumption, BatchAssumption, RoomAssumption, P!CursorInvariant, PTL

-----------------------------------------------------------------------------
(***************************************************************************)
(* What the vectors of the threads hold.                                   *)
(***************************************************************************)
\* The edges of thread t: those below the concepts it has handled.
EdgesOfThread(t) ==
  /\ Once(edges[t])
  /\ \A e : e \in ToSet(edges[t]) <=> /\ e \in Ids \X Ids /\ e[2] \in handled[t]
                                      /\ Covers(e[2], e[1])

\* The pairs of thread t: the concepts it has handled with the objects they own.
PairsOfThread(t) ==
  /\ Once(pairs[t])
  /\ \A e : e \in ToSet(pairs[t]) <=> /\ e \in Ids \X Objects /\ e[1] \in handled[t]
                                      /\ Owns(e[1], e[2])

AttributesKnown ==
  \A a \in Attributes : attrConcept[a] \in Ids /\ ExtentOf(attrConcept[a]) = cols[a]

Vectors ==
  /\ GoodInput
  /\ phase \in {"digest", "covers", "rex", "done"}
  /\ card \in [Ids -> Int]
  /\ edges \in [Threads -> Seq(Ids \X Ids)]
  /\ pairs \in [Threads -> Seq(Ids \X Objects)]

InDigest ==
  phase = "digest" =>
    \A t \in Threads : \A c \in handled[t] : card[c] \in Nat
AfterDigest ==
  phase # "digest" => Digested /\ AttributesKnown
InCovers ==
  /\ phase = "digest" => edges = [t \in Threads |-> <<>>]
  /\ phase = "covers" => \A t \in Threads : EdgesOfThread(t)
AfterCovers ==
  phase \in {"rex", "done"} => EdgesKnown
InRex ==
  /\ phase \in {"digest", "covers"} => pairs = [t \in Threads |-> <<>>]
  /\ phase \in {"rex", "done"} => \A t \in Threads : PairsOfThread(t)
AfterRex ==
  phase = "done" => P!Joined

CInv == Vectors /\ InDigest /\ AfterDigest /\ InCovers /\ AfterCovers /\ InRex /\ AfterRex

\* What BatchCursor's invariant says of the pass under way.
LEMMA PassFacts ==
  ASSUME GoodInput, P!IInv
  PROVE  /\ \A t \in Threads : handled[t] \subseteq Ids
         /\ \A t, u \in Threads : \A c \in handled[t] \cap handled[u] : t = u
         /\ handled \in [Threads -> SUBSET Ids]
         /\ \A t \in Threads : P!Handle(t) => at[t] \in Ids /\ at[t] \notin handled[t]
         /\ P!Joined => \A c \in Ids : \E t \in Threads : c \in handled[t]
<1>1. Ids = 0 .. N - 1 /\ N \in Nat /\ N = Len(concepts)
  BY InputFacts DEF N
<1>2. Threads = P!Threads
  BY SamePass
<1>3. \A t \in Threads : handled[t] \subseteq Ids
  BY <1>1, <1>2 DEF P!IInv, P!HandledShape
<1>4. /\ P!OneThreadEach /\ P!BatchShape /\ P!ExitedLate /\ P!FirstCreated /\ P!TypeOK
  BY DEF P!IInv
<1>5. \A t, u \in Threads : \A c \in handled[t] \cap handled[u] : t = u
  BY <1>1, <1>2, <1>3, <1>4 DEF P!OneThreadEach
<1>6. ASSUME NEW t \in Threads, P!Handle(t)
      PROVE  at[t] \in Ids /\ at[t] \notin handled[t]
  <2>1. /\ pc[t] = "batch" /\ at[t] < stop[t]
        /\ 0 <= at[t] /\ stop[t] <= Len(concepts)
        /\ at[t] \in Int /\ stop[t] \in Int
    BY <1>2, <1>4, <1>6, RoomAssumption DEF P!Handle, P!BatchShape, P!TypeOK
  <2>2. at[t] \in Ids
    BY <1>1, <2>1
  <2>3. at[t] \in P!Rest(t)
    BY <2>1 DEF P!Rest
  <2> QED BY <1>1, <1>2, <1>4, <2>2, <2>3 DEF P!OneThreadEach
<1>7. ASSUME P!Joined, NEW c \in Ids PROVE \E t \in Threads : c \in handled[t]
  <2>1. 1 \in Threads
    BY ThreadsAssumption DEF Threads, C!Threads
  <2>2. cursor >= Len(concepts) /\ cursor \in Int
    BY <1>2, <1>4, <1>7, <2>1 DEF P!Joined, P!ExitedLate, P!FirstCreated, P!TypeOK
  <2>3. \A t \in Threads : P!Rest(t) = {}
    BY <1>2, <1>7 DEF P!Joined, P!Rest
  <2>4. c < cursor
    BY <1>1, <2>2
  <2> QED BY <1>1, <1>2, <1>4, <2>3, <2>4 DEF P!OneThreadEach
<1>8. handled \in [Threads -> SUBSET Ids]
  BY <1>2, <1>3, <1>4 DEF P!TypeOK
<1> QED BY <1>3, <1>5, <1>6, <1>7, <1>8

LEMMA InitVectors == Init => CInv
<1> SUFFICES ASSUME Init PROVE CInv
  OBVIOUS
<1>1. GoodInput
  BY DEF Init, GoodInput
<1>2. \A t \in Threads : handled[t] = {}
  BY DEF Init, C!Init, Threads
<1>3. <<>> \in Seq(Ids \X Ids) /\ <<>> \in Seq(Ids \X Objects)
  BY EmptySeq
<1>4. Vectors
  BY <1>1, <1>3 DEF Init, Vectors
<1>5. phase = "digest" /\ edges = [t \in Threads |-> <<>>] /\ pairs = [t \in Threads |-> <<>>]
  BY DEF Init
<1> QED BY <1>2, <1>4, <1>5
        DEF CInv, InDigest, AfterDigest, InCovers, AfterCovers, InRex, AfterRex

\* Threads that share the concepts, each with a list without repetition of what
\* belongs to its own: one after the other they list everything once.
LEMMA Gathered ==
  ASSUME NEW S, NEW f \in [Threads -> Seq(S)], NEW A,
         \A t \in Threads : Once(f[t]),
         \A t, u \in Threads : t # u => ToSet(f[t]) \cap ToSet(f[u]) = {},
         \A e : e \in A <=> \E t \in Threads : e \in ToSet(f[t])
  PROVE  FlattenSeq(f) \in Seq(S) /\ Once(FlattenSeq(f)) /\ ToSet(FlattenSeq(f)) = A
<1>1. f \in Seq(Seq(S)) /\ DOMAIN f = Threads
  <2>1. NThreads \in Nat /\ Threads = 1 .. NThreads
    BY ThreadsAssumption DEF Threads, C!Threads
  <2> QED BY <2>1
<1>2. FlattenSeq(f) \in Seq(S) /\ ToSet(FlattenSeq(f)) = UNION {ToSet(f[t]) : t \in DOMAIN f}
  BY <1>1, FlattenElements
<1>3. Once(FlattenSeq(f))
  BY <1>1, FlattenOnce
<1> QED BY <1>1, <1>2, <1>3

\* The input never changes, nor what is defined from it.
LEMMA SameInput ==
  ASSUME UNCHANGED <<cols, concepts>>
  PROVE  /\ GoodInput' = GoodInput /\ Ids' = Ids
         /\ \A c : ExtentOf(c)' = ExtentOf(c)
         /\ \A c, d : Covers(c, d)' = Covers(c, d)
         /\ \A c, o : Owns(c, o)' = Owns(c, o)
<1>1. GoodInput' = GoodInput
  BY DEF GoodInput
<1>2. Ids' = Ids /\ \A c : ExtentOf(c)' = ExtentOf(c)
  BY DEF Ids, N, ExtentOf
<1>3. \A c, d : Covers(c, d)' = Covers(c, d)
  BY DEF Covers, Ids, N, ExtentOf
<1>4. \A c, o : Owns(c, o)' = Owns(c, o)
  BY DEF Owns, Ids, N, ExtentOf
<1> QED BY <1>1, <1>2, <1>3, <1>4

LEMMA NothingHandled ==
  ASSUME CInv, UNCHANGED <<cols, concepts, phase, card, attrConcept, edges, edgePairs, pairs,
                           handled>>,
         phase = "done" => P!Joined'
  PROVE  CInv'
<1>0. /\ GoodInput' = GoodInput /\ Ids' = Ids
      /\ \A c : ExtentOf(c)' = ExtentOf(c)
      /\ \A c, d : Covers(c, d)' = Covers(c, d)
      /\ \A c, o : Owns(c, o)' = Owns(c, o)
  BY SameInput
<1>1. Vectors'
  BY <1>0 DEF CInv, Vectors
<1>2. InDigest' /\ AfterDigest'
  BY <1>0 DEF CInv, InDigest, AfterDigest, Digested, AttributesKnown
<1>3. InCovers'
  <2>1. \A t \in Threads : EdgesOfThread(t)' = EdgesOfThread(t)
    BY <1>0 DEF EdgesOfThread
  <2> QED BY <2>1 DEF CInv, InCovers
<1>4. AfterCovers'
  <2>1. EdgesKnown' = EdgesKnown
    BY <1>0 DEF EdgesKnown
  <2> QED BY <2>1 DEF CInv, AfterCovers
<1>5. InRex'
  <2>1. \A t \in Threads : PairsOfThread(t)' = PairsOfThread(t)
    BY <1>0 DEF PairsOfThread
  <2> QED BY <2>1 DEF CInv, InRex
<1>6. AfterRex'
  BY DEF AfterRex
<1> QED BY <1>1, <1>2, <1>3, <1>4, <1>5, <1>6 DEF CInv

LEMMA MoveKeeps ==
  ASSUME CInv, NEW t \in Threads, Move(t)
  PROVE  CInv'
<1>1. P!Fetch(t) \/ P!FetchEnd(t) \/ P!BatchDone(t)
  BY SamePass DEF Move
<1>2. handled' = handled /\ ~P!Joined
  BY <1>1, SamePass DEF P!Fetch, P!FetchEnd, P!BatchDone, P!Joined
<1>3. phase # "done"
  BY <1>2 DEF CInv, AfterRex
<1> QED BY <1>2, <1>3, NothingHandled DEF Move

\* What handling a concept does to the pass.
LEMMA HandledOne ==
  ASSUME CInv, P!IInv, NEW t \in Threads, C!Handle(t)
  PROVE  /\ at[t] \in Ids /\ at[t] \notin handled[t]
         /\ handled' = [handled EXCEPT ![t] = handled[t] \cup {at[t]}]
         /\ handled \in [Threads -> SUBSET Ids]
         /\ ~P!Joined
<1>1. P!Handle(t)
  BY SamePass
<1>2. at[t] \in Ids /\ at[t] \notin handled[t] /\ handled \in [Threads -> SUBSET Ids]
  BY <1>1, PassFacts DEF CInv, Vectors
<1>3. handled' = [handled EXCEPT ![t] = handled[t] \cup {at[t]}] /\ ~P!Joined
  BY <1>1, SamePass DEF P!Handle, P!Joined
<1> QED BY <1>2, <1>3

LEMMA DigestKeeps ==
  ASSUME CInv, P!IInv, NEW t \in Threads, Digest(t)
  PROVE  CInv'
<1> DEFINE c == at[t]
<1>0. /\ GoodInput' = GoodInput /\ Ids' = Ids
  BY SameInput DEF Digest
<1>1. /\ c \in Ids /\ handled' = [handled EXCEPT ![t] = handled[t] \cup {c}]
      /\ handled \in [Threads -> SUBSET Ids]
  BY HandledOne DEF Digest
<1>2. phase = "digest" /\ phase' = "digest"
      /\ card' = [card EXCEPT ![c] = Cardinality(ExtentOf(c))]
      /\ edges' = edges /\ pairs' = pairs
  BY DEF Digest
<1>3. Cardinality(ExtentOf(c)) \in Nat
  BY <1>1, InputFacts, Closure, Sizes DEF CInv, Vectors
<1> HIDE DEF c
<1>4. card \in [Ids -> Int]
  BY DEF CInv, Vectors
<1>5. Vectors'
  BY <1>0, <1>1, <1>2, <1>3, <1>4 DEF CInv, Vectors
<1>6. InDigest'
  <2> SUFFICES ASSUME NEW u \in Threads, NEW d \in handled'[u]
               PROVE  card'[d] \in Nat
    BY DEF InDigest
  <2>1. CASE d = c
    BY <1>1, <1>2, <1>3, <1>4, <2>1
  <2>2. CASE d # c
    <3>1. d \in handled[u]
      BY <1>1, <2>2
    <3>2. card[d] \in Nat /\ d \in Ids
      BY <1>1, <1>2, <3>1 DEF CInv, InDigest
    <3> QED BY <1>1, <1>2, <1>4, <2>2, <3>2
  <2> QED BY <2>1, <2>2
<1>7. InCovers' /\ InRex'
  BY <1>2 DEF CInv, InCovers, InRex
<1> QED BY <1>2, <1>5, <1>6, <1>7 DEF CInv, AfterDigest, AfterCovers, AfterRex

LEMMA StartCoversKeeps ==
  ASSUME CInv, P!IInv, StartCovers
  PROVE  CInv'
<1>0. /\ GoodInput' = GoodInput /\ Ids' = Ids
      /\ \A c : ExtentOf(c)' = ExtentOf(c)
  BY SameInput DEF StartCovers
<1>1. P!Joined /\ \A t \in Threads : handled'[t] = {}
  BY SamePass DEF StartCovers, P!Restart, C!Restart
<1>2. phase = "digest" /\ phase' = "covers" /\ UNCHANGED <<cols, card, edges, pairs>>
      /\ attrConcept' = [a \in Attributes |-> WmapGet(cols[a])]
  BY DEF StartCovers
<1>3. Digested
  <2> SUFFICES ASSUME NEW c \in Ids PROVE card[c] \in Nat
    BY DEF Digested
  <2>1. PICK t \in Threads : c \in handled[t]
    BY <1>1, PassFacts DEF CInv, Vectors
  <2> QED BY <1>2, <2>1 DEF CInv, InDigest
<1>4. Digested'
  BY <1>0, <1>2, <1>3 DEF Digested
<1>5. AttributesKnown'
  <2> SUFFICES ASSUME NEW a \in Attributes
               PROVE  /\ attrConcept'[a] \in Ids'
                      /\ concepts'[attrConcept'[a] + 1].ext = cols'[a]
    BY DEF AttributesKnown, ExtentOf
  <2> DEFINE d == WmapGet(cols[a])
  <2>1. d \in Ids /\ concepts[d + 1].ext = cols[a]
    BY <1>3, AttributeConcept DEF CInv, Vectors, ExtentOf
  <2>2. attrConcept'[a] = d
    BY <1>2
  <2>3. concepts' = concepts
    BY DEF StartCovers
  <2> HIDE DEF d
  <2> QED BY <1>0, <1>2, <2>1, <2>2, <2>3
<1>6. Vectors'
  BY <1>0, <1>2 DEF CInv, Vectors
<1>7. InCovers'
  <2> SUFFICES ASSUME NEW t \in Threads PROVE EdgesOfThread(t)'
    BY <1>2 DEF InCovers
  <2>1. edges'[t] = <<>>
    BY <1>2 DEF CInv, InCovers
  <2> QED BY <1>1, <2>1 DEF EdgesOfThread, Once, ToSet
<1>8. InRex'
  BY <1>2 DEF CInv, InRex
<1> QED BY <1>2, <1>4, <1>5, <1>6, <1>7, <1>8 DEF CInv, InDigest, AfterDigest, AfterCovers, AfterRex

LEMMA CoverKeeps ==
  ASSUME CInv, P!IInv, NEW t \in Threads, Cover(t)
  PROVE  CInv'
<1> DEFINE c == at[t]
           S == Ids \X Ids
           new == LowerEdges(c)
<1>0. /\ GoodInput' = GoodInput /\ Ids' = Ids
      /\ \A x : ExtentOf(x)' = ExtentOf(x)
      /\ \A x, y : Covers(x, y)' = Covers(x, y)
  BY SameInput DEF Cover
<1>1. /\ c \in Ids /\ c \notin handled[t]
      /\ handled' = [handled EXCEPT ![t] = handled[t] \cup {c}]
      /\ handled \in [Threads -> SUBSET Ids]
  BY HandledOne DEF Cover
<1>2. phase = "covers" /\ phase' = "covers"
      /\ edges' = [edges EXCEPT ![t] = edges[t] \o new]
      /\ UNCHANGED <<cols, card, attrConcept, pairs>>
  BY DEF Cover
<1>3. GoodInput /\ Digested /\ AttributesKnown /\ edges \in [Threads -> Seq(S)]
      /\ \A u \in Threads : EdgesOfThread(u)
  BY <1>2 DEF CInv, Vectors, AfterDigest, InCovers
<1>4. new \in Seq(S) /\ Once(new) /\ ToSet(new) = {e \in S : e[2] = c /\ Covers(c, e[1])}
  BY <1>1, <1>3, EdgesOf
<1> HIDE DEF c, new
<1>5. edges[t] \in Seq(S) /\ Once(edges[t])
      /\ \A e : e \in ToSet(edges[t]) <=> e \in S /\ e[2] \in handled[t] /\ Covers(e[2], e[1])
  BY <1>3 DEF EdgesOfThread
<1>6. ToSet(edges[t]) \cap ToSet(new) = {}
  BY <1>1, <1>4, <1>5
<1>7. /\ edges[t] \o new \in Seq(S) /\ Once(edges[t] \o new)
      /\ ToSet(edges[t] \o new) = ToSet(edges[t]) \cup ToSet(new)
  BY <1>4, <1>5, <1>6, ConcatOnce, ConcatElements, ConcatProperties
<1>8. Vectors'
  BY <1>0, <1>2, <1>3, <1>7 DEF CInv, Vectors
<1>9. InCovers'
  <2> SUFFICES ASSUME NEW u \in Threads PROVE EdgesOfThread(u)'
    BY <1>2 DEF InCovers
  <2>1. CASE u = t
    <3>1. edges'[u] = edges[t] \o new /\ handled'[u] = handled[t] \cup {c}
      BY <1>1, <1>2, <1>3, <2>1
    <3>2. \A e : e \in ToSet(edges'[u]) <=> e \in S /\ e[2] \in handled'[u] /\ Covers(e[2], e[1])
      <4> TAKE e
      <4>1. e \in ToSet(edges'[u]) <=> e \in ToSet(edges[t]) \/ e \in ToSet(new)
        BY <1>7, <3>1
      <4>2. e \in ToSet(new) <=> e \in S /\ e[2] = c /\ Covers(e[2], e[1])
        BY <1>4
      <4> QED BY <1>5, <3>1, <4>1, <4>2
    <3> QED BY <1>0, <1>7, <3>1, <3>2 DEF EdgesOfThread
  <2>2. CASE u # t
    <3>1. edges'[u] = edges[u] /\ handled'[u] = handled[u]
      BY <1>1, <1>2, <1>3, <2>2
    <3> QED BY <1>0, <1>3, <3>1 DEF EdgesOfThread
  <2> QED BY <2>1, <2>2
<1>10. InRex' /\ AfterDigest'
  BY <1>0, <1>2, <1>3 DEF CInv, InRex, AfterDigest, Digested, AttributesKnown
<1> QED BY <1>2, <1>8, <1>9, <1>10 DEF CInv, InDigest, AfterCovers, AfterRex

\* The edges of all threads, once they are joined.
LEMMA EdgesGathered ==
  ASSUME CInv, P!IInv, P!Joined, phase = "covers"
  PROVE  /\ FlattenSeq(edges) \in Seq(Ids \X Ids) /\ Once(FlattenSeq(edges))
         /\ \A e : e \in ToSet(FlattenSeq(edges)) <=> e \in Ids \X Ids /\ Covers(e[2], e[1])
<1> DEFINE A == {e \in Ids \X Ids : Covers(e[2], e[1])}
<1>1. edges \in [Threads -> Seq(Ids \X Ids)] /\ \A t \in Threads : EdgesOfThread(t)
  BY DEF CInv, Vectors, InCovers
<1>2. /\ \A t, u \in Threads : \A c \in handled[t] \cap handled[u] : t = u
      /\ \A c \in Ids : \E t \in Threads : c \in handled[t]
  BY PassFacts DEF CInv, Vectors
<1>3. \A t \in Threads : Once(edges[t])
  BY <1>1 DEF EdgesOfThread
<1>4. ASSUME NEW t \in Threads, NEW u \in Threads, t # u
      PROVE  ToSet(edges[t]) \cap ToSet(edges[u]) = {}
  <2> SUFFICES ASSUME NEW e, e \in ToSet(edges[t]), e \in ToSet(edges[u]) PROVE FALSE
    OBVIOUS
  <2>1. e[2] \in handled[t] \cap handled[u]
    BY <1>1 DEF EdgesOfThread
  <2> QED BY <1>2, <1>4, <2>1
<1>5. \A e : e \in A <=> \E t \in Threads : e \in ToSet(edges[t])
  <2> TAKE e
  <2>1. ASSUME e \in A PROVE \E t \in Threads : e \in ToSet(edges[t])
    <3>1. e \in Ids \X Ids /\ e[2] \in Ids /\ Covers(e[2], e[1])
      BY <2>1
    <3>2. PICK t \in Threads : e[2] \in handled[t]
      BY <1>2, <3>1
    <3> QED BY <1>1, <3>1, <3>2 DEF EdgesOfThread
  <2>2. ASSUME NEW t \in Threads, e \in ToSet(edges[t]) PROVE e \in A
    BY <1>1, <2>2 DEF EdgesOfThread
  <2> QED BY <2>1, <2>2
<1> DEFINE S == Ids \X Ids
<1> HIDE DEF A, S
<1>6. edges \in [Threads -> Seq(S)]
  BY <1>1 DEF S
<1>7. FlattenSeq(edges) \in Seq(S) /\ Once(FlattenSeq(edges)) /\ ToSet(FlattenSeq(edges)) = A
  BY ONLY <1>6, <1>3, <1>4, <1>5, Gathered
<1> QED BY <1>7 DEF A, S

LEMMA StartRexKeeps ==
  ASSUME CInv, P!IInv, StartRex
  PROVE  CInv'
<1>0. /\ GoodInput' = GoodInput /\ Ids' = Ids
      /\ \A x : ExtentOf(x)' = ExtentOf(x)
      /\ \A x, y : Covers(x, y)' = Covers(x, y)
  BY SameInput DEF StartRex
<1>1. P!Joined /\ \A t \in Threads : handled'[t] = {}
  BY SamePass DEF StartRex, P!Restart, C!Restart
<1>2. phase = "covers" /\ phase' = "rex" /\ UNCHANGED <<cols, card, attrConcept, edges, pairs>>
      /\ edgePairs' = FlattenSeq(edges)
  BY DEF StartRex
<1>3. /\ FlattenSeq(edges) \in Seq(Ids \X Ids) /\ Once(FlattenSeq(edges))
      /\ \A e : e \in ToSet(FlattenSeq(edges)) <=> e \in Ids \X Ids /\ Covers(e[2], e[1])
  BY <1>1, <1>2, EdgesGathered
<1>4. EdgesKnown'
  BY <1>0, <1>2, <1>3 DEF EdgesKnown
<1>5. Vectors'
  BY <1>0, <1>2 DEF CInv, Vectors
<1>6. AfterDigest'
  BY <1>0, <1>2 DEF CInv, AfterDigest, Digested, AttributesKnown
<1>7. InRex'
  <2> SUFFICES ASSUME NEW t \in Threads PROVE PairsOfThread(t)'
    BY <1>2 DEF InRex
  <2>1. pairs'[t] = <<>>
    BY <1>2 DEF CInv, InRex
  <2> QED BY <1>1, <2>1 DEF PairsOfThread, Once, ToSet
<1> QED BY <1>2, <1>4, <1>5, <1>6, <1>7 DEF CInv, InDigest, InCovers, AfterCovers, AfterRex

LEMMA RexKeeps ==
  ASSUME CInv, P!IInv, NEW t \in Threads, Rex(t)
  PROVE  CInv'
<1> DEFINE c == at[t]
           S == Ids \X Objects
           objs == ReducedExtent(c)
           new == [k \in DOMAIN objs |-> <<c, objs[k]>>]
<1>0. /\ GoodInput' = GoodInput /\ Ids' = Ids
      /\ \A x : ExtentOf(x)' = ExtentOf(x)
      /\ \A x, y : Covers(x, y)' = Covers(x, y)
      /\ \A x, o : Owns(x, o)' = Owns(x, o)
  BY SameInput DEF Rex
<1>1. /\ c \in Ids /\ c \notin handled[t]
      /\ handled' = [handled EXCEPT ![t] = handled[t] \cup {c}]
      /\ handled \in [Threads -> SUBSET Ids]
  BY HandledOne DEF Rex
<1>2. phase = "rex" /\ phase' = "rex"
      /\ pairs' = [pairs EXCEPT ![t] = pairs[t] \o new]
      /\ UNCHANGED <<cols, card, attrConcept, edges, edgePairs>>
  BY DEF Rex
<1>3. GoodInput /\ Digested /\ AttributesKnown /\ EdgesKnown /\ pairs \in [Threads -> Seq(S)]
      /\ \A u \in Threads : PairsOfThread(u)
  BY <1>2 DEF CInv, Vectors, AfterDigest, AfterCovers, InRex
<1>4. /\ objs \in Seq(Objects) /\ Once(objs)
      /\ \A o : o \in ToSet(objs) <=> o \in Objects /\ Owns(c, o)
  BY <1>1, <1>3, ReducedOwns
<1> HIDE DEF c, objs
<1>5. Len(objs) \in Nat /\ DOMAIN objs = 1 .. Len(objs) /\ \A k \in DOMAIN objs : objs[k] \in Objects
  BY <1>4, LenProperties, ElementOfSeq
<1>6. new \in Seq(S)
  BY <1>1, <1>5
<1>7. Once(new)
  BY <1>4 DEF Once
<1>8. \A e : e \in ToSet(new) <=> e \in S /\ e[1] = c /\ Owns(e[1], e[2])
  <2> TAKE e
  <2>1. e \in ToSet(new) <=> \E k \in DOMAIN objs : e = <<c, objs[k]>>
    BY DEF ToSet
  <2> HIDE DEF new
  <2>2. ASSUME NEW k \in DOMAIN objs, e = <<c, objs[k]>>
        PROVE  e \in S /\ e[1] = c /\ Owns(e[1], e[2])
    <3>1. objs[k] \in Objects /\ Owns(c, objs[k])
      BY <1>4, Members
    <3> QED BY <1>1, <2>2, <3>1
  <2>3. ASSUME e \in S, e[1] = c, Owns(e[1], e[2])
        PROVE  \E k \in DOMAIN objs : e = <<c, objs[k]>>
    <3>1. e[2] \in ToSet(objs)
      BY <1>4, <2>3
    <3>2. PICK k \in DOMAIN objs : objs[k] = e[2]
      BY <3>1, Members
    <3> QED BY <2>3, <3>2
  <2> QED BY <2>1, <2>2, <2>3
<1> HIDE DEF new
<1>9. pairs[t] \in Seq(S) /\ Once(pairs[t])
      /\ \A e : e \in ToSet(pairs[t]) <=> e \in S /\ e[1] \in handled[t] /\ Owns(e[1], e[2])
  BY <1>3 DEF PairsOfThread
<1>10. ToSet(pairs[t]) \cap ToSet(new) = {}
  BY <1>1, <1>8, <1>9
<1>11. /\ pairs[t] \o new \in Seq(S) /\ Once(pairs[t] \o new)
       /\ ToSet(pairs[t] \o new) = ToSet(pairs[t]) \cup ToSet(new)
  BY <1>6, <1>7, <1>9, <1>10, ConcatOnce, ConcatElements, ConcatProperties
<1>12. Vectors'
  BY <1>0, <1>2, <1>3, <1>11 DEF CInv, Vectors
<1>13. InRex'
  <2> SUFFICES ASSUME NEW u \in Threads PROVE PairsOfThread(u)'
    BY <1>2 DEF InRex
  <2>1. CASE u = t
    <3>1. pairs'[u] = pairs[t] \o new /\ handled'[u] = handled[t] \cup {c}
      BY <1>1, <1>2, <1>3, <2>1
    <3>2. \A e : e \in ToSet(pairs'[u]) <=> e \in S /\ e[1] \in handled'[u] /\ Owns(e[1], e[2])
      <4> TAKE e
      <4>1. e \in ToSet(pairs'[u]) <=> e \in ToSet(pairs[t]) \/ e \in ToSet(new)
        BY <1>11, <3>1
      <4> QED BY <1>8, <1>9, <3>1, <4>1
    <3> QED BY <1>0, <1>11, <3>1, <3>2 DEF PairsOfThread
  <2>2. CASE u # t
    <3>1. pairs'[u] = pairs[u] /\ handled'[u] = handled[u]
      BY <1>1, <1>2, <1>3, <2>2
    <3> QED BY <1>0, <1>3, <3>1 DEF PairsOfThread
  <2> QED BY <2>1, <2>2
<1>14. AfterDigest'
  BY <1>0, <1>2, <1>3 DEF AfterDigest, Digested, AttributesKnown
<1>15. AfterCovers'
  BY <1>0, <1>2, <1>3 DEF AfterCovers, EdgesKnown
<1> QED BY <1>2, <1>12, <1>13, <1>14, <1>15 DEF CInv, InDigest, InCovers, AfterRex

LEMMA DeliverKeeps ==
  ASSUME CInv, Deliver
  PROVE  CInv'
<1>0. /\ GoodInput' = GoodInput /\ Ids' = Ids
      /\ \A x : ExtentOf(x)' = ExtentOf(x)
      /\ \A x, y : Covers(x, y)' = Covers(x, y)
      /\ \A x, o : Owns(x, o)' = Owns(x, o)
  BY SameInput DEF Deliver
<1>1. phase = "rex" /\ phase' = "done"
      /\ UNCHANGED <<cols, handled, pc, card, attrConcept, edges, edgePairs, pairs>>
  BY DEF Deliver, passVars
<1>2. P!Joined'
  BY <1>1, SamePass DEF Deliver, P!Joined
<1>3. Vectors'
  BY <1>0, <1>1 DEF CInv, Vectors
<1>4. AfterDigest'
  BY <1>0, <1>1 DEF CInv, AfterDigest, Digested, AttributesKnown
<1>5. AfterCovers'
  BY <1>0, <1>1 DEF CInv, AfterCovers, EdgesKnown
<1>6. InRex'
  BY <1>0, <1>1 DEF CInv, InRex, PairsOfThread
<1> QED BY <1>1, <1>2, <1>3, <1>4, <1>5, <1>6 DEF CInv, InDigest, InCovers, AfterRex

\* The invariant that the two properties follow from.
THEOREM VectorsCorrect == Spec => []CInv
<1>1. CInv /\ P!IInv /\ [Next]_vars => CInv'
  <2> SUFFICES ASSUME CInv, P!IInv, [Next]_vars PROVE CInv'
    OBVIOUS
  <2>1. ASSUME NEW t \in Threads, Step(t) PROVE CInv'
    BY <2>1, MoveKeeps, DigestKeeps, CoverKeeps, RexKeeps DEF Step
  <2>2. CASE StartCovers \/ StartRex \/ Deliver
    BY <2>2, StartCoversKeeps, StartRexKeeps, DeliverKeeps
  <2>3. CASE Terminated \/ UNCHANGED vars
    <3>1. UNCHANGED vars
      BY <2>3 DEF Terminated
    <3>2. P!Joined' = P!Joined
      BY <3>1 DEF vars, passVars, P!Joined
    <3> QED BY <3>1, <3>2, NothingHandled DEF vars, passVars, CInv, AfterRex
  <2> QED BY <2>1, <2>2, <2>3 DEF Next
<1> QED BY <1>1, InitVectors, PassInvariant, PTL DEF Spec

-----------------------------------------------------------------------------
\* Looking at the irreducible attributes only, and at sizes before inclusion,
\* the threads find all the edges of the Hasse diagram, each of them once.
THEOREM CoversCorrect == Spec => []CoversExact
<1>1. CInv => CoversExact
  <2> SUFFICES ASSUME CInv, phase \in {"rex", "done"}
               PROVE  /\ ToSet(edgePairs) = {e \in Ids \X Ids : Covers(e[2], e[1])}
                      /\ Len(edgePairs) = Cardinality(ToSet(edgePairs))
    BY DEF CoversExact
  <2>1. EdgesKnown
    BY DEF CInv, AfterCovers
  <2> QED BY <2>1, OnceCounts DEF EdgesKnown
<1> QED BY <1>1, VectorsCorrect, PTL

\* The pairs of all threads, once they are joined.
LEMMA PairsGathered ==
  ASSUME CInv, P!IInv, phase = "done"
  PROVE  /\ FlattenSeq(pairs) \in Seq(Ids \X Objects) /\ Once(FlattenSeq(pairs))
         /\ \A e : e \in ToSet(FlattenSeq(pairs)) <=> e \in Ids \X Objects /\ Owns(e[1], e[2])
<1> DEFINE S == Ids \X Objects
           A == {e \in S : Owns(e[1], e[2])}
<1>1. pairs \in [Threads -> Seq(S)] /\ \A t \in Threads : PairsOfThread(t)
  BY DEF CInv, Vectors, InRex
<1>2. /\ \A t, u \in Threads : \A c \in handled[t] \cap handled[u] : t = u
      /\ \A c \in Ids : \E t \in Threads : c \in handled[t]
  BY PassFacts DEF CInv, Vectors, AfterRex
<1>3. \A t \in Threads : Once(pairs[t])
  BY <1>1 DEF PairsOfThread
<1>4. ASSUME NEW t \in Threads, NEW u \in Threads, t # u
      PROVE  ToSet(pairs[t]) \cap ToSet(pairs[u]) = {}
  <2> SUFFICES ASSUME NEW e, e \in ToSet(pairs[t]), e \in ToSet(pairs[u]) PROVE FALSE
    OBVIOUS
  <2>1. e[1] \in handled[t] \cap handled[u]
    BY <1>1 DEF PairsOfThread
  <2> QED BY <1>2, <1>4, <2>1
<1>5. \A e : e \in A <=> \E t \in Threads : e \in ToSet(pairs[t])
  <2> TAKE e
  <2>1. ASSUME e \in A PROVE \E t \in Threads : e \in ToSet(pairs[t])
    <3>1. e \in S /\ e[1] \in Ids /\ Owns(e[1], e[2])
      BY <2>1
    <3>2. PICK t \in Threads : e[1] \in handled[t]
      BY <1>2, <3>1
    <3> QED BY <1>1, <3>1, <3>2 DEF PairsOfThread
  <2>2. ASSUME NEW t \in Threads, e \in ToSet(pairs[t]) PROVE e \in A
    BY <1>1, <2>2 DEF PairsOfThread
  <2> QED BY <2>1, <2>2
<1> HIDE DEF A, S
<1>6. FlattenSeq(pairs) \in Seq(S) /\ Once(FlattenSeq(pairs)) /\ ToSet(FlattenSeq(pairs)) = A
  BY ONLY <1>1, <1>3, <1>4, <1>5, Gathered
<1> QED BY <1>6 DEF A, S

\* Whichever threads found them, each attribute is introduced by the largest
\* concept that has it, and each object by the smallest, and by no other.
THEOREM IntroducedCorrect == Spec => []IntroducedOnce
<1>1. ASSUME CInv, phase # "digest", NEW a \in Attributes
      PROVE  /\ attrConcept[a] \in Ids
             /\ a \in IntentOf(attrConcept[a])
             /\ \A c \in Ids :
                  a \in IntentOf(c) => ExtentOf(c) \subseteq ExtentOf(attrConcept[a])
  <2> DEFINE d == attrConcept[a]
  <2>1. GoodInput /\ Digested /\ d \in Ids /\ ExtentOf(d) = cols[a]
    BY <1>1 DEF CInv, Vectors, AfterDigest, AttributesKnown
  <2>2. \A c \in Ids : a \in IntentOf(c) <=> ExtentOf(c) \subseteq cols[a]
    BY <2>1, AttributeConcept
  <2> HIDE DEF d
  <2>3. a \in IntentOf(d)
    BY <2>1, <2>2
  <2> QED BY <2>1, <2>2, <2>3 DEF d
<1>2. ASSUME CInv, P!IInv, phase = "done", NEW o \in Objects
      PROVE  LET all == FlattenSeq(pairs)
                 entries == {k \in DOMAIN all : all[k][2] = o}
             IN  /\ Cardinality(entries) = 1
                 /\ \A k \in entries :
                      /\ o \in ExtentOf(all[k][1])
                      /\ \A c \in Ids :
                           o \in ExtentOf(c) => ExtentOf(all[k][1]) \subseteq ExtentOf(c)
  <2> DEFINE all == FlattenSeq(pairs)
             entries == {k \in DOMAIN all : all[k][2] = o}
  <2>1. /\ all \in Seq(Ids \X Objects) /\ Once(all)
        /\ \A e : e \in ToSet(all) <=> e \in Ids \X Objects /\ Owns(e[1], e[2])
    BY <1>2, PairsGathered
  <2>2. /\ \E c \in Ids : Owns(c, o)
        /\ \A c, d \in Ids : Owns(c, o) /\ Owns(d, o) => c = d
    BY <1>2, ObjectConcept DEF CInv, Vectors
  <2> HIDE DEF all
  <2>3. PICK c \in Ids : Owns(c, o)
    BY <2>2
  <2>4. PICK k \in DOMAIN all : all[k] = <<c, o>>
    BY <2>1, <2>3, Members
  <2>5. ASSUME NEW j \in DOMAIN all, all[j][2] = o
        PROVE  all[j] = <<c, o>>
    <3>1. all[j] \in Ids \X Objects /\ Owns(all[j][1], all[j][2])
      BY <2>1, Members
    <3>2. all[j][1] = c
      BY <2>2, <2>3, <2>5, <3>1
    <3> QED BY <2>5, <3>1, <3>2
  <2>6. entries = {k}
    BY <2>1, <2>4, <2>5 DEF Once
  <2>7. Cardinality(entries) = 1
    BY <2>6, FS_Singleton
  <2>8. all[k][1] = c
    BY <2>4
  <2> QED BY <2>3, <2>6, <2>7, <2>8 DEF Owns, all
<1>3. CInv /\ P!IInv => IntroducedOnce
  BY <1>1, <1>2 DEF IntroducedOnce
<1> QED BY <1>3, VectorsCorrect, PassInvariant, PTL

-----------------------------------------------------------------------------
(***************************************************************************)
(* The array of integers, and the lattice that is read from it.            *)
(***************************************************************************)
\* The counts made along with the pairs.
Counts ==
  /\ rexCard \in [Ids -> Nat]
  /\ phase \in {"rex", "done"} =>
       \A t \in Threads : \A c \in handled[t] :
         rexCard[c] = Cardinality({o \in Objects : Owns(c, o)})

Laid == phase = "done" => flat = Encode(edgePairs, Rexts, Rints)

LInv == Counts /\ Laid

LEMMA SameLayout ==
  ASSUME UNCHANGED <<concepts, attrConcept, pairs, rexCard>>
  PROVE  Rexts' = Rexts /\ Rints' = Rints
<1>1. N' = N
  BY DEF N
<1>2. RexPtr' = RexPtr
  BY <1>1 DEF RexPtr
<1>3. RexAdj' = RexAdj
  BY <1>1 DEF RexAdj
<1>4. Rexts' = Rexts
  BY <1>1, <1>2, <1>3 DEF Rexts
<1> QED BY <1>1, <1>4 DEF Rints

LEMMA InitLaid == Init => LInv
<1> SUFFICES ASSUME Init PROVE LInv
  OBVIOUS
<1>1. phase = "digest" /\ rexCard = [c \in Ids |-> 0]
  BY DEF Init
<1> QED BY <1>1 DEF LInv, Counts, Laid

LEMMA RexCounts ==
  ASSUME CInv, P!IInv, Counts, NEW t \in Threads, Rex(t)
  PROVE  Counts'
<1> DEFINE c == at[t]
           objs == ReducedExtent(c)
<1>0. /\ Ids' = Ids
      /\ \A x, o : Owns(x, o)' = Owns(x, o)
  BY SameInput DEF Rex
<1>1. /\ c \in Ids /\ c \notin handled[t]
      /\ handled' = [handled EXCEPT ![t] = handled[t] \cup {c}]
      /\ handled \in [Threads -> SUBSET Ids]
  BY HandledOne DEF Rex
<1>2. phase = "rex" /\ phase' = "rex" /\ rexCard' = [rexCard EXCEPT ![c] = Len(objs)]
  BY DEF Rex
<1>3. GoodInput /\ EdgesKnown
  BY <1>2 DEF CInv, Vectors, AfterCovers
<1>4. /\ objs \in Seq(Objects) /\ Once(objs)
      /\ \A o : o \in ToSet(objs) <=> o \in Objects /\ Owns(c, o)
  BY <1>1, <1>3, ReducedOwns
<1> HIDE DEF c, objs
<1>5. ToSet(objs) = {o \in Objects : Owns(c, o)}
  BY <1>4
<1>6. Len(objs) \in Nat /\ Len(objs) = Cardinality({o \in Objects : Owns(c, o)})
  BY <1>4, <1>5, OnceCounts, LenProperties
<1>7. /\ rexCard \in [Ids -> Nat]
      /\ \A u \in Threads : \A d \in handled[u] :
           rexCard[d] = Cardinality({o \in Objects : Owns(d, o)})
  BY <1>2 DEF Counts
<1>8. rexCard' \in [Ids -> Nat] /\ rexCard'[c] = Len(objs)
      /\ \A d \in Ids : d # c => rexCard'[d] = rexCard[d]
  BY <1>1, <1>2, <1>6, <1>7
<1>9. ASSUME NEW u \in Threads, NEW d \in handled'[u]
      PROVE  rexCard'[d] = Cardinality({o \in Objects : Owns(d, o)})
  <2>1. CASE d = c
    BY <1>6, <1>8, <2>1
  <2>2. CASE d # c
    <3>1. d \in handled[u] /\ d \in Ids
      BY <1>1, <2>2
    <3> QED BY <1>7, <1>8, <2>2, <3>1
  <2> QED BY <2>1, <2>2
<1>10. \A d : {o \in Objects : Owns(d, o)}' = {o \in Objects : Owns(d, o)}
  BY <1>0
<1> QED BY <1>0, <1>8, <1>9, <1>10 DEF Counts

LEMMA LaidKept ==
  ASSUME CInv, P!IInv, LInv, [Next]_vars
  PROVE  LInv'
<1>0. UNCHANGED <<cols, concepts>>
  BY DEF Next, Step, Move, Digest, StartCovers, Cover, StartRex, Rex, Deliver, Terminated, vars
<1>1. Ids' = Ids /\ \A x, o : Owns(x, o)' = Owns(x, o)
  BY <1>0, SameInput
<1>2. \A d : {o \in Objects : Owns(d, o)}' = {o \in Objects : Owns(d, o)}
  BY <1>1
<1>3. rexCard \in [Ids -> Nat]
  BY DEF LInv, Counts
<1>4. CASE UNCHANGED <<phase, handled, flat, edgePairs, attrConcept, pairs, rexCard>>
  <2>1. Counts'
    BY <1>1, <1>2, <1>4 DEF LInv, Counts
  <2>2. Laid'
    BY <1>0, <1>4, SameLayout DEF LInv, Laid
  <2> QED BY <2>1, <2>2 DEF LInv
<1>5. ASSUME NEW t \in Threads, Move(t) PROVE LInv'
  <2>1. handled' = handled
    BY <1>5, SamePass DEF Move, P!Fetch, P!FetchEnd, P!BatchDone
  <2> QED BY <1>4, <1>5, <2>1 DEF Move
<1>6. ASSUME NEW t \in Threads, Digest(t) \/ Cover(t) PROVE LInv'
  <2>1. phase' \in {"digest", "covers"} /\ rexCard' = rexCard
    BY <1>6 DEF Digest, Cover
  <2> QED BY <1>1, <1>3, <2>1 DEF LInv, Counts, Laid
<1>7. ASSUME NEW t \in Threads, Rex(t) PROVE LInv'
  <2>1. phase' = "rex"
    BY <1>7 DEF Rex
  <2> QED BY <1>7, <2>1, RexCounts DEF LInv, Laid
<1>8. CASE StartCovers
  <2>1. phase' = "covers" /\ rexCard' = rexCard
    BY <1>8 DEF StartCovers
  <2> QED BY <1>1, <1>3, <2>1 DEF LInv, Counts, Laid
<1>9. CASE StartRex
  <2>1. phase' = "rex" /\ rexCard' = rexCard /\ \A t \in Threads : handled'[t] = {}
    BY <1>9, SamePass DEF StartRex, P!Restart
  <2> QED BY <1>1, <1>3, <2>1 DEF LInv, Counts, Laid
<1>10. CASE Deliver
  <2>1. /\ phase = "rex" /\ phase' = "done" /\ flat' = Encode(edgePairs, Rexts, Rints)
        /\ UNCHANGED <<handled, edgePairs, attrConcept, pairs, rexCard>>
    BY <1>10 DEF Deliver, passVars
  <2>2. Counts'
    BY <1>1, <1>2, <2>1 DEF LInv, Counts
  <2>3. Laid'
    BY <1>0, <2>1, SameLayout DEF Laid
  <2> QED BY <2>2, <2>3 DEF LInv
<1>11. CASE Terminated \/ UNCHANGED vars
  BY <1>4, <1>11 DEF Terminated, vars, passVars
<1> QED BY <1>5, <1>6, <1>7, <1>8, <1>9, <1>10, <1>11 DEF Next, Step

LEMMA LaidOut == Spec => []LInv
BY InitLaid, LaidKept, VectorsCorrect, PassInvariant, PTL DEF Spec

\* The array of pointers is the running sum of the counts.
LEMMA Pointers ==
  ASSUME N \in Nat, rexCard \in [Ids -> Nat]
  PROVE  /\ RexPtr \in [0 .. N -> Nat] /\ RexPtr[0] = 0
         /\ \A k \in 1 .. N : RexPtr[k] = RexPtr[k - 1] + rexCard[k - 1]
<1> DEFINE n == N
           F == [k \in 1 .. n |-> [x \in Nat |-> x + rexCard[k - 1]]]
           Def(f) == f = [c \in 0 .. n |-> IF c = 0 THEN 0 ELSE f[c - 1] + rexCard[c - 1]]
<1>0. n \in Nat /\ \A k \in 1 .. n : rexCard[k - 1] \in Nat
  BY DEF Ids
<1>1. RexPtr = CHOOSE f : Def(f)
  BY DEF RexPtr
<1> HIDE DEF n
<1>2. F \in [1 .. n -> [Nat -> Nat]]
  BY <1>0
<1>3. \A k \in 1 .. n : \A x \in Nat : F[k][x] = x + rexCard[k - 1]
  OBVIOUS
<1> HIDE DEF F
<1>4. PICK h : Iterates(h, Nat, n, 0, F)
  BY <1>0, <1>2, StepByStep
<1>5. h \in [0 .. n -> Nat] /\ h[0] = 0 /\ \A k \in 1 .. n : h[k] = h[k - 1] + rexCard[k - 1]
  <2>1. h \in [0 .. n -> Nat] /\ h[0] = 0 /\ \A k \in 1 .. n : h[k] = F[k][h[k - 1]]
    BY <1>4 DEF Iterates
  <2>2. \A k \in 1 .. n : h[k - 1] \in Nat
    BY <1>0, <2>1
  <2> QED BY <1>3, <2>1, <2>2
<1>6. Def(h)
  <2>1. \A c \in 0 .. n : h[c] = IF c = 0 THEN 0 ELSE h[c - 1] + rexCard[c - 1]
    BY <1>0, <1>5
  <2> QED BY <1>5, <2>1
<1>7. Def(RexPtr)
  <2> HIDE DEF Def
  <2> QED BY <1>1, <1>6
<1> DEFINE p == RexPtr
<1>8. /\ p = [c \in 0 .. n |-> p[c]]
      /\ \A c \in 0 .. n : p[c] = IF c = 0 THEN 0 ELSE p[c - 1] + rexCard[c - 1]
  BY <1>7
<1> HIDE DEF p, Def
<1> DEFINE T == {k \in Nat : k <= n => p[k] = h[k]}
<1>9. 0 \in T
  <2>1. 0 \in 0 .. n
    BY <1>0
  <2>2. p[0] = 0 /\ h[0] = 0
    BY <1>5, <1>8, <2>1
  <2> QED BY <2>2
<1>10. ASSUME NEW k \in Nat, k \in T PROVE k + 1 \in T
  <2> SUFFICES ASSUME k + 1 <= n PROVE p[k + 1] = h[k + 1]
    OBVIOUS
  <2>1. k + 1 \in 0 .. n /\ k + 1 \in 1 .. n /\ k + 1 # 0 /\ (k + 1) - 1 = k /\ k <= n
    BY <1>0
  <2>2. p[k] = h[k]
    BY <1>10, <2>1
  <2>3. p[k + 1] = p[k] + rexCard[k]
    BY <1>8, <2>1
  <2>4. h[k + 1] = h[k] + rexCard[k]
    BY <1>5, <2>1
  <2> QED BY <2>2, <2>3, <2>4
<1> HIDE DEF T
<1>11. Nat \subseteq T
  BY ONLY <1>9, <1>10, Induction
<1>12. \A k \in 0 .. n : p[k] = h[k]
  BY <1>0, <1>11 DEF T
<1>13. p = h
  BY <1>5, <1>8, <1>12
<1> QED BY <1>5, <1>13 DEF p, n

\* The reduced extents, found between two pointers, are the objects the
\* concepts own.
LEMMA ReducedExtents ==
  ASSUME CInv, P!IInv, Counts, phase = "done"
  PROVE  /\ Rexts \in Seq(Seq(Objects)) /\ Len(Rexts) = N
         /\ \A k \in 1 .. N : /\ Once(Rexts[k])
                              /\ \A o : o \in ToSet(Rexts[k]) <=> o \in Objects /\ Owns(k - 1, o)
<1> DEFINE all == FlattenSeq(pairs)
           row(k) == Bucket(all, k - 1)
           rows == [k \in 1 .. N |-> row(k)]
<1>1. /\ GoodInput /\ N \in Nat /\ Ids = 0 .. N - 1 /\ rexCard \in [Ids -> Nat]
      /\ \A c \in Ids : \E t \in Threads : c \in handled[t]
      /\ \A t \in Threads : \A c \in handled[t] :
           rexCard[c] = Cardinality({o \in Objects : Owns(c, o)})
  BY InputFacts, PassFacts DEF CInv, Vectors, AfterRex, Counts
<1>2. /\ all \in Seq(Ids \X Objects) /\ Once(all)
      /\ \A e : e \in ToSet(all) <=> e \in Ids \X Objects /\ Owns(e[1], e[2])
  BY PairsGathered
<1> HIDE DEF all
<1>3. \A k \in 1 .. N : k - 1 \in Ids
  <2>1. \A n \in Nat : \A k \in 1 .. n : k - 1 \in 0 .. n - 1
    OBVIOUS
  <2> QED BY ONLY <1>1, <2>1
<1>4. ASSUME NEW k \in 1 .. N
      PROVE  /\ row(k) \in Seq(Objects) /\ Once(row(k))
             /\ \A o : o \in ToSet(row(k)) <=> o \in Objects /\ Owns(k - 1, o)
  <2> DEFINE c == k - 1
  <2>1. c \in Ids
    BY <1>3
  <2> HIDE DEF c
  <2>2. /\ Bucket(all, c) \in Seq(Objects) /\ Once(Bucket(all, c))
        /\ \A o : o \in ToSet(Bucket(all, c)) <=> <<c, o>> \in ToSet(all)
    BY ONLY <1>2, <2>1, RowOf
  <2>3. \A o : <<c, o>> \in ToSet(all) <=> o \in Objects /\ Owns(c, o)
    BY <1>2, <2>1
  <2> QED BY <2>2, <2>3 DEF c
<1> HIDE DEF row
<1>5. rows \in Seq(Seq(Objects)) /\ Len(rows) = N /\ \A k \in 1 .. N : rows[k] = row(k)
  <2>1. rows \in [1 .. N -> Seq(Objects)] /\ \A k \in 1 .. N : rows[k] = row(k)
    BY <1>4
  <2> HIDE DEF rows
  <2>2. ASSUME NEW S, NEW n \in Nat, NEW r \in [1 .. n -> S] PROVE r \in Seq(S) /\ Len(r) = n
    OBVIOUS
  <2> QED BY ONLY <1>1, <2>1, <2>2
<1>6. ASSUME NEW k \in 1 .. N PROVE Len(row(k)) = rexCard[k - 1]
  <2>1. ToSet(row(k)) = {o \in Objects : Owns(k - 1, o)}
    BY <1>4
  <2>2. Len(row(k)) = Cardinality(ToSet(row(k)))
    BY <1>4, OnceCounts
  <2> QED BY <1>1, <1>3, <2>1, <2>2
<1>7. RexAdj = FlattenSeq(rows)
  BY DEF RexAdj, row, all
<1> HIDE DEF rows
<1>8. Offsets(RexPtr, rows)
  BY <1>1, <1>5, <1>6, Pointers DEF Offsets
<1>9. ASSUME NEW k \in 1 .. N
      PROVE  SubSeq(RexAdj, RexPtr[k - 1] + 1, RexPtr[k]) = row(k)
  <2>1. k \in 1 .. Len(rows)
    BY <1>5
  <2>2. SubSeq(FlattenSeq(rows), RexPtr[k - 1] + 1, RexPtr[k]) = rows[k]
    BY <1>5, <1>8, <2>1, PartBetween
  <2> QED BY <1>5, <1>7, <2>2
<1>10. Rexts = rows
  <2>1. Rexts = [k \in 1 .. N |-> row(k)]
    BY <1>9 DEF Rexts
  <2> QED BY <2>1 DEF rows
<1> QED BY <1>4, <1>5, <1>10

\* The reduced intents are the attributes the concepts introduce.
LEMMA ReducedIntents ==
  ASSUME CInv, phase = "done"
  PROVE  /\ Rints \in Seq(Seq(Attributes)) /\ Len(Rints) = N
         /\ \A k \in 1 .. N :
              /\ Once(Rints[k])
              /\ \A a : a \in ToSet(Rints[k]) <=> a \in Attributes /\ attrConcept[a] = k - 1
<1> DEFINE own(k) == {a \in Attributes : attrConcept[a] = k - 1}
           row(k) == Increasing(own(k))
<1>1. N \in Nat
  BY InputFacts DEF CInv, Vectors
<1>2. \A k : own(k) \in SUBSET Int /\ IsFiniteSet(own(k))
  <2> TAKE k
  <2>1. 0 \in Int /\ M - 1 \in Int
    BY MAssumption
  <2>2. IsFiniteSet(Attributes) /\ Attributes \subseteq Int
    BY <2>1, FS_Interval DEF Attributes
  <2>3. own(k) \subseteq Attributes
    OBVIOUS
  <2> HIDE DEF own
  <2> QED BY <2>2, <2>3, FS_Subset
<1>3. ASSUME NEW k PROVE row(k) \in Seq(own(k)) /\ Once(row(k)) /\ ToSet(row(k)) = own(k)
  <2> DEFINE S == own(k)
             s == Increasing(S)
  <2>1. S \in SUBSET Int /\ IsFiniteSet(S)
    BY <1>2
  <2> HIDE DEF S
  <2>2. /\ s \in Seq(S)
        /\ Cardinality(S) \in Nat /\ DOMAIN s = 1 .. Cardinality(S)
        /\ \A x \in S : \E i \in DOMAIN s : s[i] = x
        /\ \A i, j \in DOMAIN s : i < j => s[i] < s[j]
    BY <2>1, InOrder
  <2> HIDE DEF s
  <2>3. Once(s)
    <3> SUFFICES ASSUME NEW i \in DOMAIN s, NEW j \in DOMAIN s, s[i] = s[j], i # j PROVE FALSE
      BY DEF Once
    <3>1. i \in 1 .. Cardinality(S) /\ j \in 1 .. Cardinality(S)
      BY <2>2
    <3>3. s[i] \in S /\ s[j] \in S
      BY <2>2, ElementOfSeq
    <3>6. Cardinality(S) \in Nat
      BY <2>2
    <3>7. i \in Nat /\ j \in Nat
      BY ONLY <3>1, <3>6
    <3>8. s[i] \in Int /\ s[j] \in Int
      BY ONLY <2>1, <3>3
    <3>4. i \in Nat /\ j \in Nat /\ s[i] \in Int /\ s[j] \in Int
      BY <3>7, <3>8
    <3>2. i < j \/ j < i
      BY ONLY <3>4, i # j
    <3>5. s[i] < s[j] \/ s[j] < s[i]
      BY <2>2, <3>2
    <3> QED BY ONLY <3>4, <3>5, s[i] = s[j]
  <2>4. \A i \in DOMAIN s : s[i] \in S
    BY <2>2, ElementOfSeq
  <2>5. ToSet(s) = S
    BY <2>2, <2>4 DEF ToSet
  <2> QED BY <2>2, <2>3, <2>5 DEF s, S
<1>4. \A k : \A a : a \in own(k) <=> a \in Attributes /\ attrConcept[a] = k - 1
  OBVIOUS
<1>5. Rints = [k \in 1 .. N |-> row(k)]
  BY DEF Rints
<1> HIDE DEF own, row
<1>6. \A k : row(k) \in Seq(Attributes)
  <2> TAKE k
  <2>1. own(k) \subseteq Attributes /\ row(k) \in Seq(own(k))
    BY <1>3, <1>4
  <2> QED BY ONLY <2>1
<1>7. Rints \in Seq(Seq(Attributes)) /\ Len(Rints) = N /\ \A k \in 1 .. N : Rints[k] = row(k)
  BY <1>1, <1>5, <1>6
<1> QED BY <1>3, <1>4, <1>7

\* The lists of s share out the elements of S: they hold as many as S has.
SharesOut(s, n, S) ==
  /\ s \in Seq(Seq(S)) /\ Len(s) = n
  /\ \A k \in 1 .. n : Once(s[k])
  /\ \A x \in S : \E k \in 1 .. n : x \in ToSet(s[k])
  /\ \A x \in S : \A j, k \in 1 .. n : x \in ToSet(s[j]) /\ x \in ToSet(s[k]) => j = k

LEMMA SharedOut ==
  ASSUME NEW S, NEW n \in Nat, NEW s, SharesOut(s, n, S)
  PROVE  Len(FlattenSeq(s)) = Cardinality(S)
<1> DEFINE f == FlattenSeq(s)
<1>0. /\ s \in Seq(Seq(S)) /\ Len(s) = n
      /\ \A k \in 1 .. n : Once(s[k])
      /\ \A x \in S : \E k \in 1 .. n : x \in ToSet(s[k])
      /\ \A x \in S : \A j, k \in 1 .. n : x \in ToSet(s[j]) /\ x \in ToSet(s[k]) => j = k
  BY DEF SharesOut
<1>1. DOMAIN s = 1 .. n /\ \A k \in 1 .. n : s[k] \in Seq(S)
  BY <1>0, LenProperties, ElementOfSeq
<1>2. \A k \in 1 .. n : ToSet(s[k]) \subseteq S
  BY <1>1, ElementOfSeq, Members
<1>3. f \in Seq(S) /\ ToSet(f) = UNION {ToSet(s[k]) : k \in 1 .. n}
  BY <1>0, <1>1, FlattenElements
<1>4. Once(f)
  <2>1. \A k, j \in DOMAIN s : k # j => ToSet(s[k]) \cap ToSet(s[j]) = {}
    BY <1>0, <1>1, <1>2
  <2> QED BY <1>0, <1>1, <2>1, FlattenOnce
<1>5. ToSet(f) = S
  BY <1>0, <1>2, <1>3
<1> HIDE DEF f
<1> QED BY <1>3, <1>4, <1>5, OnceCounts DEF f

\* Each object and each attribute takes one entry of the array.
LEMMA Entries ==
  ASSUME CInv, P!IInv, Counts, phase = "done"
  PROVE  Len(FlattenSeq(Rexts)) = Cardinality(Objects) /\ Len(FlattenSeq(Rints)) = M
<1>1. GoodInput /\ AttributesKnown
  BY DEF CInv, Vectors, AfterDigest
<1>2. N \in Nat /\ Ids = 0 .. N - 1
  BY <1>1, InputFacts
<1>3. \A c \in Ids : \E k \in 1 .. N : k - 1 = c
  <2> SUFFICES ASSUME NEW n \in Nat, NEW c \in 0 .. n - 1 PROVE \E k \in 1 .. n : k - 1 = c
    BY ONLY <1>2
  <2>1. c + 1 \in 1 .. n /\ (c + 1) - 1 = c
    OBVIOUS
  <2> QED BY ONLY <2>1
<1>4. \A k \in 1 .. N : k - 1 \in Ids
  <2>1. \A n \in Nat : \A k \in 1 .. n : k - 1 \in 0 .. n - 1
    OBVIOUS
  <2> QED BY ONLY <1>2, <2>1
<1>5. \A j, k \in 1 .. N : j - 1 = k - 1 => j = k
  OBVIOUS
<1>6. Len(FlattenSeq(Rexts)) = Cardinality(Objects)
  <2> DEFINE s == Rexts
  <2>1. /\ s \in Seq(Seq(Objects)) /\ Len(s) = N
        /\ \A k \in 1 .. N : /\ Once(s[k])
                             /\ \A o : o \in ToSet(s[k]) <=> o \in Objects /\ Owns(k - 1, o)
    BY ReducedExtents
  <2> HIDE DEF s
  <2>2. \A o \in Objects : \E k \in 1 .. N : o \in ToSet(s[k])
    <3> TAKE o \in Objects
    <3>1. PICK c \in Ids : Owns(c, o)
      BY <1>1, ObjectConcept
    <3>2. PICK k \in 1 .. N : k - 1 = c
      BY <1>3
    <3>3. o \in ToSet(s[k])
      <4>1. Owns(k - 1, o)
        BY ONLY <3>1, <3>2
      <4> QED BY <2>1, <4>1
    <3> QED BY <3>3
  <2>3. \A o \in Objects : \A j, k \in 1 .. N :
          o \in ToSet(s[j]) /\ o \in ToSet(s[k]) => j = k
    <3> SUFFICES ASSUME NEW o \in Objects, NEW j \in 1 .. N, NEW k \in 1 .. N,
                        o \in ToSet(s[j]), o \in ToSet(s[k])
                 PROVE  j = k
      OBVIOUS
    <3>1. Owns(j - 1, o) /\ Owns(k - 1, o)
      BY <2>1
    <3>2. j - 1 = k - 1
      BY <1>1, <1>4, <3>1, ObjectConcept
    <3> QED BY <1>5, <3>2
  <2>4. \A k \in 1 .. N : Once(s[k])
    BY <2>1
  <2>5. SharesOut(s, N, Objects)
    BY ONLY <2>1, <2>2, <2>3, <2>4 DEF SharesOut
  <2>7. Len(FlattenSeq(s)) = Cardinality(Objects)
    BY ONLY <1>2, <2>5, SharedOut
  <2> QED BY <2>7 DEF s
<1>7. Len(FlattenSeq(Rints)) = M
  <2> DEFINE s == Rints
  <2>1. /\ s \in Seq(Seq(Attributes)) /\ Len(s) = N
        /\ \A k \in 1 .. N :
             /\ Once(s[k])
             /\ \A a : a \in ToSet(s[k]) <=> a \in Attributes /\ attrConcept[a] = k - 1
    BY ReducedIntents
  <2> HIDE DEF s
  <2>2. \A a \in Attributes : \E k \in 1 .. N : a \in ToSet(s[k])
    <3> TAKE a \in Attributes
    <3>1. attrConcept[a] \in Ids
      BY <1>1 DEF AttributesKnown
    <3>2. PICK k \in 1 .. N : k - 1 = attrConcept[a]
      BY <1>3, <3>1
    <3>3. a \in ToSet(s[k])
      BY <2>1, <3>2
    <3> QED BY <3>3
  <2>3. \A a \in Attributes : \A j, k \in 1 .. N :
          a \in ToSet(s[j]) /\ a \in ToSet(s[k]) => j = k
    BY <1>5, <2>1
  <2>4. \A k \in 1 .. N : Once(s[k])
    BY <2>1
  <2>5. SharesOut(s, N, Attributes)
    BY ONLY <2>1, <2>2, <2>3, <2>4 DEF SharesOut
  <2>7. Len(FlattenSeq(s)) = Cardinality(Attributes)
    BY ONLY <1>2, <2>5, SharedOut
  <2>6. Cardinality(Attributes) = M
    <3>1. 0 \in Int /\ M - 1 \in Int /\ (0 > M - 1 => M = 0) /\ M - 1 - 0 + 1 = M
      BY MAssumption
    <3> QED BY <3>1, FS_Interval DEF Attributes
  <2> QED BY <2>6, <2>7 DEF s
<1> QED BY <1>6, <1>7

\* The order between the concepts, and the chains of edges that lead up.
Order == {p \in Ids \X Ids : ExtentOf(p[1]) \subseteq ExtentOf(p[2])}

LEMMA ChainsAreOrder ==
  ASSUME GoodInput, EdgesKnown
  PROVE  UpTo(N, edgePairs) = Order
<1>1. /\ N \in Nat /\ Ids = 0 .. N - 1
      /\ \A c, d \in Ids : ExtentOf(c) = ExtentOf(d) => c = d
  BY InputFacts
<1>2. \A c, d \in Ids : <<c, d>> \in Order <=> ExtentOf(c) \subseteq ExtentOf(d)
  BY DEF Order
<1>3. /\ edgePairs \in Seq(Ids \X Ids)
      /\ \A c, d \in Ids : <<c, d>> \in ToSet(edgePairs) <=> Covers(d, c)
  BY DEF EdgesKnown
<1>4. Order \in SUBSET (Ids \X Ids)
  BY DEF Order
<1>5. \A c \in Ids : <<c, c>> \in Order
  BY <1>2
<1>6. \A c, d \in Ids : <<c, d>> \in Order /\ <<d, c>> \in Order => c = d
  <2> SUFFICES ASSUME NEW c \in Ids, NEW d \in Ids, <<c, d>> \in Order, <<d, c>> \in Order
               PROVE  ExtentOf(c) = ExtentOf(d)
    BY <1>1
  <2>1. ExtentOf(c) \subseteq ExtentOf(d) /\ ExtentOf(d) \subseteq ExtentOf(c)
    BY <1>2
  <2> QED BY ONLY <2>1
<1>7. \A c, d, x \in Ids : <<c, x>> \in Order /\ <<x, d>> \in Order => <<c, d>> \in Order
  BY <1>2
<1>8. \A c, d \in Ids :
        <<c, d>> \in ToSet(edgePairs) <=>
          /\ <<c, d>> \in Order /\ c # d
          /\ ~ \E x \in Ids : c # x /\ x # d /\ <<c, x>> \in Order /\ <<x, d>> \in Order
  <2> TAKE c, d \in Ids
  <2>1. Covers(d, c) <=>
          /\ ExtentOf(c) \subseteq ExtentOf(d) /\ c # d
          /\ ~ \E x \in Ids : /\ ExtentOf(c) \subseteq ExtentOf(x) /\ c # x
                              /\ ExtentOf(x) \subseteq ExtentOf(d) /\ x # d
    BY DEF Covers
  <2> QED BY <1>2, <1>3, <2>1
<1> QED BY ONLY <1>1, <1>3, <1>4, <1>5, <1>6, <1>7, <1>8, HasseChains

\* What is read from the array.
Lattice ==
  [n     |-> N,
   edges |-> edgePairs,
   rext  |-> [c \in 0 .. N - 1 |-> ToSet(Rexts[c + 1])],
   rint  |-> [c \in 0 .. N - 1 |-> ToSet(Rints[c + 1])]]

LEMMA ReadBack ==
  ASSUME CInv, P!IInv, LInv, phase = "done"
  PROVE  /\ Decode(flat) = Lattice
         /\ Len(flat) = 2 + 2 * Len(edgePairs) + 2 * N + Cardinality(Objects) + M
<1>1. GoodInput /\ EdgesKnown /\ Counts /\ flat = Encode(edgePairs, Rexts, Rints)
  BY DEF CInv, Vectors, AfterCovers, LInv, Laid
<1>2. N \in Nat /\ Ids = 0 .. N - 1
  BY <1>1, InputFacts
<1>3. edgePairs \in Seq(Nat \X Nat)
  <2>1. Ids \X Ids \subseteq Nat \X Nat
    <3>1. \A n \in Nat : 0 .. n - 1 \subseteq Nat
      OBVIOUS
    <3>2. Ids \subseteq Nat
      BY ONLY <1>2, <3>1
    <3> QED BY ONLY <3>2
  <2>2. edgePairs \in Seq(Ids \X Ids)
    BY <1>1 DEF EdgesKnown
  <2> DEFINE A == Ids \X Ids
             B == Nat \X Nat
  <2> HIDE DEF A, B
  <2>3. A \subseteq B /\ edgePairs \in Seq(A)
    BY <2>1, <2>2 DEF A, B
  <2>4. edgePairs \in Seq(B)
    BY ONLY <2>3
  <2> QED BY <2>4 DEF B
<1>4. ASSUME NEW A \in SUBSET Nat, NEW s \in Seq(Seq(A)) PROVE s \in Seq(Seq(Nat))
  <2>1. Seq(A) \subseteq Seq(Nat)
    <3> SUFFICES ASSUME NEW x \in Seq(A) PROVE x \in Seq(Nat)
      OBVIOUS
    <3>1. PICK n \in Nat : x \in [1 .. n -> A]
      BY LenProperties
    <3>2. x \in [1 .. n -> Nat]
      BY <3>1
    <3> QED BY ONLY <3>2, SeqDef
  <2> DEFINE B == Seq(A)
             D == Seq(Nat)
  <2> HIDE DEF B, D
  <2>2. B \subseteq D /\ s \in Seq(B)
    BY <2>1 DEF B, D
  <2>3. s \in Seq(D)
    BY ONLY <2>2
  <2> QED BY <2>3 DEF D
<1>5. Rexts \in Seq(Seq(Nat)) /\ Len(Rexts) = N
  <2>1. Objects \in SUBSET Nat
    <3>1. \A n \in Nat : 0 .. n - 1 \subseteq Nat
      OBVIOUS
    <3>2. Cardinality(Objects) \in Nat
      BY ObjectsAssumption, FS_CardinalityType
    <3> QED BY <3>1, <3>2, ObjectsAssumption
  <2> QED BY <1>1, <1>4, <2>1, ReducedExtents
<1>6. Rints \in Seq(Seq(Nat)) /\ Len(Rints) = N
  <2>1. Attributes \in SUBSET Nat
    BY MAssumption DEF Attributes
  <2> QED BY <1>4, <2>1, ReducedIntents
<1>7. /\ Decode(Encode(edgePairs, Rexts, Rints)) = Lattice
      /\ Len(Encode(edgePairs, Rexts, Rints)) =
           2 + 2 * Len(edgePairs) + 2 * N + Len(FlattenSeq(Rexts)) + Len(FlattenSeq(Rints))
  <2> DEFINE e == edgePairs
             r == Rexts
             i == Rints
             n == N
             back(m, a, b, c) == [n     |-> m,
                                  edges |-> a,
                                  rext  |-> [k \in 0 .. m - 1 |-> ToSet(b[k + 1])],
                                  rint  |-> [k \in 0 .. m - 1 |-> ToSet(c[k + 1])]]
             size(m, a, b, c) == 2 + 2 * Len(a) + 2 * m + Len(FlattenSeq(b)) + Len(FlattenSeq(c))
  <2>1. Lattice = back(n, e, r, i)
    BY DEF Lattice
  <2>2. ASSUME NEW a \in Seq(Nat \X Nat), NEW b \in Seq(Seq(Nat)), NEW c \in Seq(Seq(Nat)),
               Len(c) = Len(b)
        PROVE  /\ Decode(Encode(a, b, c)) = back(Len(b), a, b, c)
               /\ Len(Encode(a, b, c)) = size(Len(b), a, b, c)
    BY ONLY <2>2, RoundTrip
  <2> HIDE DEF e, r, i, n, back
  <2>3. e \in Seq(Nat \X Nat) /\ r \in Seq(Seq(Nat)) /\ i \in Seq(Seq(Nat))
        /\ Len(r) = n /\ Len(i) = n
    BY <1>3, <1>5, <1>6 DEF e, r, i, n
  <2> HIDE DEF size
  <2>4. Decode(Encode(e, r, i)) = back(n, e, r, i) /\ Len(Encode(e, r, i)) = size(n, e, r, i)
    BY ONLY <2>2, <2>3
  <2> QED BY <2>1, <2>4 DEF e, r, i, n, size
<1> QED BY <1>1, <1>7, Entries

\* The sets it stands for are the extents and intents of the concepts.
LEMMA SetsRead ==
  ASSUME CInv, P!IInv, LInv, phase = "done"
  PROVE  FullSets(Lattice) = [c \in Ids |-> [ext |-> ExtentOf(c), int |-> IntentOf(c)]]
<1> DEFINE L == Lattice
<1>1. GoodInput /\ EdgesKnown /\ Counts /\ Digested /\ AttributesKnown
  BY DEF CInv, Vectors, AfterDigest, AfterCovers, LInv
<1>2. /\ N \in Nat /\ Ids = 0 .. N - 1
      /\ cols \in AllContexts
      /\ \A c \in Ids : ExtentOf(c) \in SUBSET Objects
      /\ \A c \in Ids : IntentOf(c) = Intent(cols, ExtentOf(c))
  BY <1>1, InputFacts, Closure
<1>3. /\ L.n = N /\ L.edges = edgePairs
      /\ L.rext = [c \in Ids |-> ToSet(Rexts[c + 1])]
      /\ L.rint = [c \in Ids |-> ToSet(Rints[c + 1])]
  BY <1>2 DEF Lattice
<1>4. \A c \in Ids : \E k \in 1 .. N : k = c + 1 /\ k - 1 = c
  <2> SUFFICES ASSUME NEW n \in Nat, NEW c \in 0 .. n - 1
               PROVE  \E k \in 1 .. n : k = c + 1 /\ k - 1 = c
    BY ONLY <1>2
  <2>1. c + 1 \in 1 .. n /\ (c + 1) - 1 = c
    OBVIOUS
  <2> QED BY ONLY <2>1
<1>5. \A c \in Ids : \A o : o \in L.rext[c] <=> o \in Objects /\ Owns(c, o)
  <2> TAKE c \in Ids
  <2>1. \A k \in 1 .. N : \A o : o \in ToSet(Rexts[k]) <=> o \in Objects /\ Owns(k - 1, o)
    BY <1>1, ReducedExtents
  <2>2. PICK k \in 1 .. N : k = c + 1 /\ k - 1 = c
    BY <1>4
  <2>3. L.rext[c] = ToSet(Rexts[k])
    BY <1>3, <2>2
  <2> QED BY <2>1, <2>2, <2>3
<1>6. \A c \in Ids : \A a : a \in L.rint[c] <=> a \in Attributes /\ attrConcept[a] = c
  <2> TAKE c \in Ids
  <2>1. \A k \in 1 .. N : \A a : a \in ToSet(Rints[k]) <=> a \in Attributes /\ attrConcept[a] = k - 1
    BY <1>1, ReducedIntents
  <2>2. PICK k \in 1 .. N : k = c + 1 /\ k - 1 = c
    BY <1>4
  <2>3. L.rint[c] = ToSet(Rints[k])
    BY <1>3, <2>2
  <2> QED BY <2>1, <2>2, <2>3
<1>7. FullSets(L) =
        [c \in Ids |->
           [ext |-> UNION {L.rext[d] : d \in {x \in Ids : <<x, c>> \in Order}},
            int |-> UNION {L.rint[d] : d \in {x \in Ids : <<c, x>> \in Order}}]]
  <2>1. UpTo(L.n, L.edges) = Order
    BY <1>1, <1>3, ChainsAreOrder
  <2>2. 0 .. L.n - 1 = Ids
    BY <1>2, <1>3
  <2> HIDE DEF L
  <2> QED BY <2>1, <2>2 DEF FullSets
<1> HIDE DEF L
<1>8. \A c, d \in Ids : <<c, d>> \in Order <=> ExtentOf(c) \subseteq ExtentOf(d)
  BY DEF Order
<1>9. ASSUME NEW c \in Ids
      PROVE  UNION {L.rext[d] : d \in {x \in Ids : <<x, c>> \in Order}} = ExtentOf(c)
  <2>1. ASSUME NEW d \in Ids, <<d, c>> \in Order, NEW o \in L.rext[d] PROVE o \in ExtentOf(c)
    <3>1. ExtentOf(d) \subseteq ExtentOf(c)
      BY <1>8, <2>1
    <3>2. o \in ExtentOf(d)
      BY <1>5, <2>1 DEF Owns
    <3> QED BY <3>1, <3>2
  <2>2. ASSUME NEW o \in ExtentOf(c)
        PROVE  \E d \in Ids : <<d, c>> \in Order /\ o \in L.rext[d]
    <3>1. o \in Objects
      BY <1>2
    <3>2. PICK d \in Ids : Owns(d, o)
      BY <1>1, <3>1, ObjectConcept
    <3>3. ExtentOf(d) \subseteq ExtentOf(c)
      BY <3>2 DEF Owns
    <3> QED BY <1>5, <1>8, <3>1, <3>2, <3>3
  <2> QED BY <2>1, <2>2
<1>10. ASSUME NEW c \in Ids
       PROVE  UNION {L.rint[d] : d \in {x \in Ids : <<c, x>> \in Order}} = IntentOf(c)
  <2>1. \A a : a \in IntentOf(c) <=> a \in Attributes /\ ExtentOf(c) \subseteq cols[a]
    BY <1>2 DEF Intent
  <2>2. \A a \in Attributes : attrConcept[a] \in Ids /\ ExtentOf(attrConcept[a]) = cols[a]
    BY <1>1 DEF AttributesKnown
  <2>3. ASSUME NEW d \in Ids, <<c, d>> \in Order, NEW a \in L.rint[d] PROVE a \in IntentOf(c)
    <3>1. a \in Attributes /\ attrConcept[a] = d
      BY <1>6, <2>3
    <3>2. ExtentOf(c) \subseteq ExtentOf(d)
      BY <1>8, <2>3
    <3> QED BY <2>1, <2>2, <3>1, <3>2
  <2>4. ASSUME NEW a \in IntentOf(c)
        PROVE  \E d \in Ids : <<c, d>> \in Order /\ a \in L.rint[d]
    <3> DEFINE d == attrConcept[a]
    <3>1. a \in Attributes /\ d \in Ids /\ ExtentOf(c) \subseteq ExtentOf(d)
      BY <2>1, <2>2
    <3> QED BY <1>6, <1>8, <3>1
  <2> QED BY <2>3, <2>4
<1> QED BY <1>7, <1>9, <1>10 DEF L

Ctx == [objs |-> Objects, cols |-> cols]

\* The concepts listed are those of the context.
LEMMA AllConcepts ==
  ASSUME GoodInput
  PROVE  /\ {[ext |-> ExtentOf(c), int |-> IntentOf(c)] : c \in Ids} = ConceptsOf(Ctx)
         /\ N = Cardinality(ConceptsOf(Ctx))
<1>1. /\ Concepts(cols) = ConceptsOf(Ctx)
      /\ ConceptsOf(Ctx) = {[ext |-> X, int |-> Intent(cols, X)] : X \in Closed(cols)}
  <2>1. DOMAIN cols = Attributes
    BY InputFacts DEF AllContexts
  <2>2. /\ \A X : IntentIn(Ctx, X) = Intent(cols, X)
        /\ \A B : ExtentIn(Ctx, B) = Extent(cols, B)
    BY <2>1 DEF Ctx, IntentIn, ExtentIn, Intent, Extent
  <2>3. {ExtentIn(Ctx, B) : B \in SUBSET DOMAIN Ctx.cols} = Closed(cols)
    BY <2>1, <2>2 DEF Ctx, Closed
  <2>4. ConceptsOf(Ctx) = {[ext |-> X, int |-> IntentIn(Ctx, X)] : X \in Closed(cols)}
    BY <2>3 DEF ConceptsOf
  <2>5. ConceptsOf(Ctx) = {[ext |-> X, int |-> Intent(cols, X)] : X \in Closed(cols)}
    BY <2>2, <2>4
  <2> QED BY <2>5 DEF Concepts, Closed
<1>2. /\ \A c \in Ids : ExtentOf(c) \in Closed(cols) /\ IntentOf(c) = Intent(cols, ExtentOf(c))
      /\ \A X \in Closed(cols) : \E c \in Ids : ExtentOf(c) = X
  BY InputFacts
<1>3. N = Cardinality(Concepts(cols))
  BY InputsAssumption DEF GoodInput, N
<1>4. ASSUME NEW c \in Ids PROVE [ext |-> ExtentOf(c), int |-> IntentOf(c)] \in ConceptsOf(Ctx)
  BY <1>1, <1>2
<1>5. ASSUME NEW z \in ConceptsOf(Ctx)
      PROVE  \E c \in Ids : z = [ext |-> ExtentOf(c), int |-> IntentOf(c)]
  <2>1. PICK X \in Closed(cols) : z = [ext |-> X, int |-> Intent(cols, X)]
    BY <1>1
  <2>2. PICK c \in Ids : ExtentOf(c) = X
    BY <1>2
  <2> QED BY <1>2, <2>1, <2>2
<1> QED BY <1>1, <1>3, <1>4, <1>5

\* It is the concept lattice.
LEMMA LatticeRead ==
  ASSUME CInv, P!IInv, LInv, phase = "done"
  PROVE  IsLattice(Ctx, Lattice)
<1> DEFINE L == Lattice
<1>1. GoodInput /\ EdgesKnown /\ Counts /\ AttributesKnown
  BY DEF CInv, Vectors, AfterDigest, AfterCovers, LInv
<1>2. N \in Nat /\ Ids = 0 .. N - 1
  BY <1>1, InputFacts
<1>3. /\ L.n = N /\ L.edges = edgePairs /\ 0 .. L.n - 1 = Ids
      /\ L.rext = [c \in Ids |-> ToSet(Rexts[c + 1])]
      /\ L.rint = [c \in Ids |-> ToSet(Rints[c + 1])]
  BY <1>2 DEF Lattice
<1>4. FullSets(L) = [c \in Ids |-> [ext |-> ExtentOf(c), int |-> IntentOf(c)]]
  BY SetsRead
<1>5. \A c \in Ids : \E k \in 1 .. N : k = c + 1 /\ k - 1 = c
  <2> SUFFICES ASSUME NEW n \in Nat, NEW c \in 0 .. n - 1
               PROVE  \E k \in 1 .. n : k = c + 1 /\ k - 1 = c
    BY ONLY <1>2
  <2>1. c + 1 \in 1 .. n /\ (c + 1) - 1 = c
    OBVIOUS
  <2> QED BY ONLY <2>1
<1> HIDE DEF L
<1>6. Disjoint(L.rext)
  <2> SUFFICES ASSUME NEW c \in Ids, NEW d \in Ids, c # d, NEW o,
                      o \in L.rext[c], o \in L.rext[d]
               PROVE  FALSE
    BY <1>3 DEF Disjoint
  <2>1. \A k \in 1 .. N : \A x : x \in ToSet(Rexts[k]) <=> x \in Objects /\ Owns(k - 1, x)
    BY <1>1, ReducedExtents
  <2>2. PICK j \in 1 .. N : j = c + 1 /\ j - 1 = c
    BY <1>5
  <2>3. PICK k \in 1 .. N : k = d + 1 /\ k - 1 = d
    BY <1>5
  <2>4. o \in ToSet(Rexts[j]) /\ o \in ToSet(Rexts[k])
    BY <1>3, <2>2, <2>3
  <2>5. o \in Objects /\ Owns(c, o) /\ Owns(d, o)
    BY <2>1, <2>2, <2>3, <2>4
  <2> QED BY <1>1, <2>5, ObjectConcept
<1>7. Disjoint(L.rint)
  <2> SUFFICES ASSUME NEW c \in Ids, NEW d \in Ids, c # d, NEW a,
                      a \in L.rint[c], a \in L.rint[d]
               PROVE  FALSE
    BY <1>3 DEF Disjoint
  <2>1. \A k \in 1 .. N : \A x : x \in ToSet(Rints[k]) <=> x \in Attributes /\ attrConcept[x] = k - 1
    BY <1>1, ReducedIntents
  <2>2. PICK j \in 1 .. N : j = c + 1 /\ j - 1 = c
    BY <1>5
  <2>3. PICK k \in 1 .. N : k = d + 1 /\ k - 1 = d
    BY <1>5
  <2>4. a \in ToSet(Rints[j]) /\ a \in ToSet(Rints[k])
    BY <1>3, <2>2, <2>3
  <2> QED BY <2>1, <2>2, <2>3, <2>4
<1>8. /\ {FullSets(L)[c] : c \in Ids} = ConceptsOf(Ctx)
      /\ L.n = Cardinality(ConceptsOf(Ctx))
  <2>1. {FullSets(L)[c] : c \in Ids} = {[ext |-> ExtentOf(c), int |-> IntentOf(c)] : c \in Ids}
    BY <1>4
  <2> QED BY <1>1, <1>3, <2>1, AllConcepts
<1>9. \A c \in Ids : FullSets(L)[c].ext = ExtentOf(c)
  BY <1>4
<1> DEFINE below(c, d) == FullSets(L)[c].ext \subseteq FullSets(L)[d].ext /\ c # d
           hasse == {e \in Ids \X Ids : /\ below(e[1], e[2])
                                        /\ ~ \E x \in Ids : below(e[1], x) /\ below(x, e[2])}
<1>10. ToSet(L.edges) = hasse
  <2>1. \A c, d \in Ids : below(c, d) <=> ExtentOf(c) \subseteq ExtentOf(d) /\ c # d
    BY <1>9
  <2> HIDE DEF below
  <2>2. \A e \in Ids \X Ids :
          Covers(e[2], e[1]) <=> /\ below(e[1], e[2])
                                 /\ ~ \E x \in Ids : below(e[1], x) /\ below(x, e[2])
    <3> TAKE e \in Ids \X Ids
    <3>1. e[1] \in Ids /\ e[2] \in Ids
      OBVIOUS
    <3> QED BY <2>1, <3>1 DEF Covers
  <2>3. \A e : e \in ToSet(edgePairs) <=> e \in Ids \X Ids /\ Covers(e[2], e[1])
    BY <1>1 DEF EdgesKnown
  <2> QED BY <1>3, <2>2, <2>3
<1>11. Len(L.edges) = Cardinality(ToSet(L.edges))
  BY <1>1, <1>3, OnceCounts DEF EdgesKnown
<1> HIDE DEF hasse
<1>12. IsLattice(Ctx, L)
  <2> USE DEF hasse
  <2> QED BY <1>3, <1>6, <1>7, <1>8, <1>10, <1>11 DEF IsLattice
<1> QED BY <1>12 DEF L

\* What populateFromFlat reads back from the array the kernel returns is the
\* concept lattice of the context, and the array is as long as
\* csr_to_flat_array computes beforehand: for every context, every list of its
\* concepts, every number of threads and every batch.
THEOREM FlatCorrect == Spec => []FlatFaithful
<1>1. CInv /\ P!IInv /\ LInv => FlatFaithful
  BY ReadBack, LatticeRead DEF FlatFaithful, Ctx
<1> QED BY <1>1, VectorsCorrect, PassInvariant, LaidOut, PTL

-----------------------------------------------------------------------------
(***************************************************************************)
(* Hermes (algo/hermes.c), for every context and every order in which      *)
(* concepts with as many values come: the concepts of the clarified        *)
(* context are those that introduce something, comparing each with those   *)
(* before it, from the nearest back and with what lies below a child       *)
(* passed over, links it to its covers and to nothing else, and what is    *)
(* handed over is the AOC-poset.                                           *)
(***************************************************************************)

CONSTANTS HermesContexts, Null

VARIABLES ctx, ord, st, result

H == INSTANCE Hermes WITH Contexts <- HermesContexts

-----------------------------------------------------------------------------
(* The scan that links the concepts of a linear extension.                 *)

\* Strict orders of numbers that go up only.
Linear(B) ==
  /\ B \in SUBSET (Nat \X Nat)
  /\ \A x, y \in Nat : <<x, y>> \in B => x < y
  /\ \A x, y, z \in Nat : <<x, y>> \in B /\ <<y, z>> \in B => <<x, z>> \in B

\* No number is between x and y.
Next2(B, x, y) ==
  <<x, y>> \in B /\ ~ \E z \in Nat : <<x, z>> \in B /\ <<z, y>> \in B

\* Below y or y itself.
UpTo2(B, x, y) == x = y \/ <<x, y>> \in B

\* A set of numbers that is not empty has a least one.
LEMMA HasLeast ==
  ASSUME NEW S \in SUBSET Nat, S # {}
  PROVE  \E x \in S : \A y \in S : x <= y
<1> DEFINE less == OpToRel(<, Nat)
<1>1. IsWellFoundedOn(less, Nat)
  BY NatLessThanWellFounded
<1>2. \A x, y \in Nat : <<x, y>> \in less <=> x < y
  BY DEF OpToRel
<1> HIDE DEF less
<1>3. \E m \in S : \A j \in S : ~(<<j, m>> \in less)
  BY <1>1, WFMin
<1>4. PICK m \in S : \A j \in S : ~(<<j, m>> \in less)
  BY <1>3
<1>5. \A j \in S : m <= j
  <2> TAKE j \in S
  <2>1. j \in Nat /\ m \in Nat /\ ~(j < m)
    BY <1>2, <1>4
  <2> QED BY <2>1
<1> QED BY <1>5

\* Between two numbers there is one next to the upper, and one next to the
\* lower.
LEMMA NextBelow ==
  ASSUME NEW B, Linear(B), NEW x \in Nat, NEW y \in Nat, <<x, y>> \in B
  PROVE  \E t \in Nat : Next2(B, t, y) /\ UpTo2(B, x, t)
<1> DEFINE S == {t \in Nat : UpTo2(B, x, t) /\ <<t, y>> \in B}
           G == {d \in Nat : y - d \in S}
<1>1. \A t \in S : y - t \in G /\ y - (y - t) = t
  <2> TAKE t \in S
  <2>1. t \in Nat /\ t < y
    BY DEF Linear
  <2>2. y - t \in Nat /\ y - (y - t) = t
    BY <2>1
  <2> QED BY <2>2
<1>2. x \in S
  BY DEF UpTo2
<1>3. G \in SUBSET Nat /\ G # {}
  BY <1>1, <1>2
<1>4. PICK d \in G : \A e \in G : d <= e
  BY <1>3, HasLeast
<1>5. PICK t \in S : t = y - d
  BY <1>4
<1>6. \A u \in S : u <= t
  <2> TAKE u \in S
  <2>1. u \in Nat /\ d \in Nat /\ d <= y - u
    BY <1>1, <1>4
  <2> QED BY <1>5, <2>1
<1> HIDE DEF G
<1>7. ASSUME NEW z \in Nat, <<t, z>> \in B, <<z, y>> \in B PROVE FALSE
  <2>1. t \in Nat /\ UpTo2(B, x, t) /\ t < z
    BY <1>7 DEF Linear
  <2>2. UpTo2(B, x, z)
    BY <1>7, <2>1 DEF UpTo2, Linear
  <2>3. z \in S
    BY <1>7, <2>2
  <2> QED BY <1>6, <2>1, <2>3
<1> QED BY <1>5, <1>7 DEF Next2

\* Up to anything above x there is something next above x.
LEMMA NextAbove ==
  ASSUME NEW B, Linear(B), NEW x \in Nat, NEW y \in Nat, <<x, y>> \in B
  PROVE  \E t \in Nat : Next2(B, x, t) /\ UpTo2(B, t, y)
<1> DEFINE S == {t \in Nat : <<x, t>> \in B /\ UpTo2(B, t, y)}
<1>1. y \in S
  BY DEF UpTo2
<1>2. PICK t \in S : \A u \in S : t <= u
  <2>1. S \in SUBSET Nat /\ S # {}
    BY <1>1
  <2> HIDE DEF S
  <2> QED BY <2>1, HasLeast
<1>3. ASSUME NEW z \in Nat, <<x, z>> \in B, <<z, t>> \in B PROVE FALSE
  <2>1. t \in Nat /\ UpTo2(B, t, y) /\ z < t
    BY <1>3 DEF Linear
  <2>2. UpTo2(B, z, y)
    BY <1>3, <2>1 DEF UpTo2, Linear
  <2>3. z \in S
    BY <1>3, <2>2
  <2> QED BY <1>2, <2>1, <2>3
<1> QED BY <1>2, <1>3 DEF Next2

ScanState == [s : Int, prev : Int, visited : SUBSET Nat, children : SUBSET (Nat \X Nat)]

\* A scan and its four fields.
LEMMA ScanFields ==
  ASSUME NEW sc \in ScanState
  PROVE  /\ sc = [s |-> sc.s, prev |-> sc.prev, visited |-> sc.visited, children |-> sc.children]
         /\ sc.s \in Int /\ sc.prev \in Int /\ sc.visited \in SUBSET Nat
         /\ sc.children \in SUBSET (Nat \X Nat)
BY DEF ScanState

\* A scan with some fields replaced is a scan.
LEMMA FieldsKept ==
  ASSUME NEW S1, NEW S2, NEW S3, NEW S4, NEW sc \in [s : S1, prev : S2, visited : S3, children : S4],
         NEW a1 \in S1, NEW a2 \in S2, NEW a3 \in S3, NEW a4 \in S4
  PROVE  /\ [sc EXCEPT !.s = a1, !.prev = a2] \in [s : S1, prev : S2, visited : S3, children : S4]
         /\ [sc EXCEPT !.prev = a2] \in [s : S1, prev : S2, visited : S3, children : S4]
         /\ [sc EXCEPT !.visited = a3, !.prev = a2]
              \in [s : S1, prev : S2, visited : S3, children : S4]
         /\ [sc EXCEPT !.children = a4, !.visited = a3, !.prev = a2]
              \in [s : S1, prev : S2, visited : S3, children : S4]
OBVIOUS

\* The state of the scan when it comes to prev: the edges are those between
\* neighbours before s, and those of s with its neighbours after prev; marked
\* is what is below one of these.
Scanned(sc, B) ==
  /\ sc \in ScanState
  /\ \/ -1 <= sc.prev /\ sc.prev < sc.s
     \/ sc.s = -1 /\ sc.prev = -1
  /\ \A x, y \in Nat :
       <<x, y>> \in sc.children <=>
         Next2(B, x, y) /\ (y < sc.s \/ (y = sc.s /\ x > sc.prev))
  /\ \A x \in Nat :
       x \in sc.visited <=>
         x <= sc.prev /\ \E t \in Nat : t > sc.prev /\ Next2(B, t, sc.s) /\ <<x, t>> \in B

\* A number not yet come to is below s and not marked just when it is next
\* to s.
LEMMA MarkedOrNext ==
  ASSUME NEW B, Linear(B), NEW sc, Scanned(sc, B), sc.prev # -1
  PROVE  /\ sc.prev \in Nat /\ sc.s \in Nat /\ sc.prev < sc.s
         /\ Next2(B, sc.prev, sc.s) <=> sc.prev \notin sc.visited /\ <<sc.prev, sc.s>> \in B
<1> DEFINE p == sc.prev
           s == sc.s
<1>1. p \in Nat /\ s \in Nat /\ p < s
  BY ScanFields DEF Scanned
<1>2. ASSUME Next2(B, p, s) PROVE p \notin sc.visited
  <2> SUFFICES ASSUME NEW t \in Nat, Next2(B, t, s), <<p, t>> \in B PROVE FALSE
    BY <1>1 DEF Scanned
  <2> QED BY <1>2 DEF Next2
<1>3. ASSUME p \notin sc.visited, <<p, s>> \in B PROVE Next2(B, p, s)
  <2>1. PICK t \in Nat : Next2(B, t, s) /\ UpTo2(B, p, t)
    BY <1>1, <1>3, NextBelow
  <2>2. CASE t = p
    BY <2>1, <2>2
  <2>3. CASE <<p, t>> \in B
    <3>1. t > p
      BY <1>1, <2>3 DEF Linear
    <3>2. p <= p
      BY <1>1
    <3> QED BY <1>1, <1>3, <2>1, <2>3, <3>1, <3>2 DEF Scanned
  <2> QED BY <2>1, <2>2, <2>3 DEF UpTo2
<1> QED BY <1>1, <1>2, <1>3 DEF Next2

\* What Unmarked collects: with what is marked already it is all that is below
\* prev.
LEMMA UnmarkedRight ==
  ASSUME NEW B, Linear(B), NEW sc, Scanned(sc, B), sc.prev # -1, sc.prev \notin sc.visited
  PROVE  LET U == H!Unmarked(sc, sc.prev)
         IN  /\ U \in SUBSET Nat
             /\ \A x \in Nat : x \in U <=> <<x, sc.prev>> \in B /\ x \notin sc.visited
<1> DEFINE p == sc.prev
           s == sc.s
           V == sc.visited
           W == SUBSET Nat
           ch(x) == H!ChildrenOf(sc, x)
           first == ch(p) \ V
           step(R) == R \cup ((UNION {ch(x) : x \in R}) \ V)
           F == [k \in 1 .. s |-> [R \in W |-> step(R)]]
<1>1. p \in Nat /\ s \in Nat /\ p < s
  BY MarkedOrNext
<1>2. \A x, y \in Nat : x <= p => (y \in ch(x) <=> Next2(B, y, x))
  <2> SUFFICES ASSUME NEW x \in Nat, NEW y \in Nat, x <= p
               PROVE  y \in ch(x) <=> <<y, x>> \in sc.children
    <3> SUFFICES ASSUME NEW x \in Nat, NEW y \in Nat, x <= p
                 PROVE  <<y, x>> \in sc.children <=> Next2(B, y, x)
      OBVIOUS
    <3>1. x < s
      BY <1>1
    <3> HIDE DEF ch, first, step, F, W
    <3> QED BY <3>1 DEF Scanned
  <2>1. ch(x) = {e[1] : e \in {z \in sc.children : z[2] = x}}
    BY DEF H!ChildrenOf
  <2>2. \A e \in sc.children : e = <<e[1], e[2]>>
    BY DEF Scanned, ScanState
  <2> QED BY <2>1, <2>2
<1>3. \A x : ch(x) \in W
  BY DEF H!ChildrenOf, Scanned, ScanState
<1>4. first \in W /\ \A R \in W : step(R) \in W
  <2> HIDE DEF ch
  <2> QED BY <1>3
<1>5. F \in [1 .. s -> [W -> W]] /\ \A k \in 1 .. s : \A R \in W : F[k][R] = step(R)
  <2> HIDE DEF step, W
  <2> QED BY <1>4
<1>6. H!Unmarked(sc, p) =
        LET reach[k \in 0 .. s] == IF k = 0 THEN first ELSE step(reach[k - 1]) IN reach[s]
  BY DEF H!Unmarked
<1>7. \A R : \A z : z \in step(R) <=> z \in R \/ (z \notin V /\ \E x \in R : z \in ch(x))
  <2> HIDE DEF ch, V, W, F, first
  <2> TAKE R
  <2> TAKE z
  <2> QED BY DEF step
<1> HIDE DEF step, F, W, first, ch
<1>8. PICK h : Iterates(h, W, s, first, F)
  BY <1>1, <1>4, <1>5, StepByStep
<1>9. h \in [0 .. s -> W] /\ h[0] = first /\ \A k \in 1 .. s : h[k] = step(h[k - 1])
  <2>1. h \in [0 .. s -> W] /\ h[0] = first /\ \A k \in 1 .. s : h[k] = F[k][h[k - 1]]
    BY <1>8 DEF Iterates
  <2>2. \A k \in 1 .. s : k - 1 \in 0 .. s
    BY <1>1
  <2> QED BY <1>5, <2>1, <2>2
<1> DEFINE Def(f) == f = [k \in 0 .. s |-> IF k = 0 THEN first ELSE step(f[k - 1])]
           reach == CHOOSE f : Def(f)
<1>10. H!Unmarked(sc, p) = reach[s]
  BY <1>6
<1>11. Def(h)
  <2>1. \A k \in 0 .. s : h[k] = IF k = 0 THEN first ELSE step(h[k - 1])
    BY <1>1, <1>9
  <2>2. h = [k \in 0 .. s |-> h[k]]
    BY <1>9
  <2> QED BY <2>1, <2>2
<1>12. Def(reach)
  <2> HIDE DEF Def
  <2> QED BY <1>11
<1>13. \A k \in 0 .. s : reach[k] = IF k = 0 THEN first ELSE step(reach[k - 1])
  <2> HIDE DEF reach
  <2> QED BY <1>12
<1> HIDE DEF Def, reach
\* Only what is below prev and unmarked is collected.
<1> DEFINE Good(R) == R \in W /\ \A x \in R : <<x, p>> \in B /\ x \notin V
           T == {k \in Nat : k <= s => Good(reach[k])}
<1>14. 0 \in T
  <2>1. reach[0] = first
    BY <1>1, <1>13
  <2>2. Good(first)
    <3>1. p <= p
      BY <1>1
    <3> QED BY <1>1, <1>2, <1>4, <3>1 DEF first, Next2, W
  <2> HIDE DEF Good
  <2> QED BY <2>1, <2>2
<1>15. ASSUME NEW k \in Nat, k \in T PROVE k + 1 \in T
  <2> SUFFICES ASSUME k + 1 <= s PROVE Good(reach[k + 1])
    <3> HIDE DEF Good
    <3> QED OBVIOUS
  <2>1. k <= s /\ k + 1 \in 0 .. s /\ k + 1 # 0 /\ k + 1 - 1 = k
    BY <1>1
  <2>2. Good(reach[k])
    <3> HIDE DEF Good
    <3> QED BY <1>15, <2>1
  <2>3. reach[k + 1] = step(reach[k])
    BY <1>13, <2>1
  <2> DEFINE R == reach[k]
  <2> HIDE DEF R
  <2>4. Good(R)
    BY <2>2 DEF R
  <2>5. ASSUME NEW z, z \in step(R) PROVE <<z, p>> \in B /\ z \notin V
    <3>1. CASE z \in R
      BY <2>4, <3>1
    <3>2. CASE z \notin R
      <4>1. PICK x \in R : z \in ch(x) /\ z \notin V
        BY <1>7, <2>5, <3>2
      <4>2. x \in Nat /\ <<x, p>> \in B /\ z \in Nat
        BY <1>3, <2>4, <4>1 DEF W
      <4>3. x <= p
        BY <1>1, <4>2 DEF Linear
      <4>4. <<z, x>> \in B
        BY <1>2, <4>1, <4>2, <4>3 DEF Next2
      <4> QED BY <1>1, <4>1, <4>2, <4>4 DEF Linear
    <3> QED BY <3>1, <3>2
  <2>6. Good(step(R))
    BY <1>4, <2>4, <2>5
  <2> HIDE DEF Good
  <2> QED BY <2>3, <2>6 DEF R
<1>16. Good(reach[s])
  <2>1. s \in T
    <3> HIDE DEF T
    <3> QED BY <1>1, <1>14, <1>15, Induction
  <2> HIDE DEF Good
  <2> QED BY <1>1, <2>1
\* After k rounds all of it is, down to prev - k - 1.
<1> DEFINE Q == {k \in Nat : k <= s => \A x \in Nat :
                                x + k + 1 >= p /\ <<x, p>> \in B /\ x \notin V => x \in reach[k]}
<1>17. \A x \in Nat : <<x, p>> \in B /\ x \notin V =>
         \E w \in Nat : /\ w <= p /\ x < w /\ Next2(B, x, w)
                        /\ w = p \/ (<<w, p>> \in B /\ w \notin V)
  <2> SUFFICES ASSUME NEW x \in Nat, <<x, p>> \in B, x \notin V
               PROVE  \E w \in Nat : /\ w <= p /\ x < w /\ Next2(B, x, w)
                                     /\ w = p \/ (<<w, p>> \in B /\ w \notin V)
    OBVIOUS
  <2>1. PICK w \in Nat : Next2(B, x, w) /\ UpTo2(B, w, p)
    BY <1>1, NextAbove
  <2>2. w <= p /\ x < w /\ x <= p
    BY <1>1, <2>1 DEF UpTo2, Linear, Next2
  <2>3. w \notin V
    <3> SUFFICES ASSUME w \in V PROVE FALSE
      OBVIOUS
    <3>1. PICK t \in Nat : t > p /\ Next2(B, t, s) /\ <<w, t>> \in B
      BY DEF Scanned
    <3>2. <<x, t>> \in B
      BY <2>1, <3>1 DEF Next2, Linear
    <3> QED BY <2>2, <3>1, <3>2 DEF Scanned
  <2> QED BY <2>1, <2>2, <2>3 DEF UpTo2
<1>18. 0 \in Q
  <2> SUFFICES ASSUME NEW x \in Nat, x + 0 + 1 >= p, <<x, p>> \in B, x \notin V PROVE x \in reach[0]
    OBVIOUS
  <2>1. PICK w \in Nat : w <= p /\ x < w /\ Next2(B, x, w)
    BY <1>17
  <2>2. w = p
    BY <1>1, <2>1
  <2>3. x \in ch(p)
    BY <1>1, <1>2, <2>1, <2>2
  <2>4. reach[0] = first
    BY <1>1, <1>13
  <2> QED BY <2>3, <2>4 DEF first
<1>19. ASSUME NEW k \in Nat, k \in Q PROVE k + 1 \in Q
  <2> SUFFICES ASSUME k + 1 <= s, NEW x \in Nat, x + (k + 1) + 1 >= p, <<x, p>> \in B, x \notin V
               PROVE  x \in reach[k + 1]
    OBVIOUS
  <2>1. k <= s /\ k + 1 \in 0 .. s /\ k + 1 # 0 /\ k + 1 - 1 = k
    BY <1>1
  <2>2. reach[k + 1] = step(reach[k])
    BY <1>13, <2>1
  <2>3. PICK w \in Nat : /\ w <= p /\ x < w /\ Next2(B, x, w)
                         /\ w = p \/ (<<w, p>> \in B /\ w \notin V)
    BY <1>17
  <2>4. x \in ch(w)
    BY <1>1, <1>2, <2>3
  <2>5. CASE w = p
    <3>1. x \in first
      BY <2>4, <2>5 DEF first
    <3> DEFINE Q2 == {j \in Nat : j <= s => x \in reach[j]}
    <3>2. 0 \in Q2
      BY <1>1, <1>13, <3>1
    <3>3. ASSUME NEW j \in Nat, j \in Q2 PROVE j + 1 \in Q2
      <4> SUFFICES ASSUME j + 1 <= s PROVE x \in reach[j + 1]
        OBVIOUS
      <4>1. j <= s /\ j + 1 \in 0 .. s /\ j + 1 # 0 /\ j + 1 - 1 = j
        BY <1>1
      <4>2. reach[j + 1] = step(reach[j]) /\ x \in reach[j]
        BY <1>13, <3>3, <4>1
      <4> QED BY <1>7, <4>2
    <3>4. k + 1 \in Q2
      <4> HIDE DEF Q2
      <4> QED BY <3>2, <3>3, Induction
    <3> QED BY <3>4
  <2>6. CASE w # p
    <3>1. w + k + 1 >= p
      BY <1>1, <2>3
    <3>2. w \in reach[k]
      BY <1>19, <2>1, <2>3, <2>6, <3>1
    <3> QED BY <1>7, <2>2, <2>3, <2>4, <2>6, <3>2
  <2> QED BY <2>5, <2>6
<1>20. \A x \in Nat : <<x, p>> \in B /\ x \notin V => x \in reach[s]
  <2>1. s \in Q
    <3> HIDE DEF Q
    <3> QED BY <1>1, <1>18, <1>19, Induction
  <2> SUFFICES ASSUME NEW x \in Nat, <<x, p>> \in B, x \notin V PROVE x \in reach[s]
    OBVIOUS
  <2>2. x + s + 1 >= p /\ s <= s
    BY <1>1
  <2> QED BY <2>1, <2>2
<1> QED BY <1>10, <1>16, <1>20 DEF W

\* The steps of the scan keep to that, and begin it anew with one number more.
LEMMA ScanBegins ==
  ASSUME NEW B, Linear(B), NEW D, Linear(D), NEW sc, Scanned(sc, B), sc.prev = -1,
         \A x, y \in Nat : <<x, y>> \in D => y <= sc.s + 1,
         \A x, y \in Nat : y <= sc.s => (<<x, y>> \in D <=> <<x, y>> \in B)
  PROVE  Scanned(H!BeginNext(sc), D)
<1> DEFINE nx == H!BeginNext(sc)
           s == sc.s
<1>1. /\ sc \in ScanState
      /\ s \in Int /\ s >= -1
  BY DEF Scanned, ScanState
<1>2. nx.s = s + 1 /\ nx.prev = s /\ nx.visited = sc.visited /\ nx.children = sc.children
  BY <1>1 DEF H!BeginNext
<1>3. nx \in ScanState
  <2>1. s + 1 \in Int /\ s \in Int
    BY <1>1
  <2> QED BY <1>1, <2>1, FieldsKept DEF H!BeginNext, ScanState
<1>4. \A x, y \in Nat : y <= s => (Next2(D, x, y) <=> Next2(B, x, y))
  <2> TAKE x, y \in Nat
  <2> HAVE y <= s
  <2>1. \A z \in Nat : <<x, z>> \in B /\ <<z, y>> \in B => z <= s
    BY <1>1 DEF Linear
  <2>2. \A z \in Nat : <<x, z>> \in D /\ <<z, y>> \in D => z <= s
    BY <1>1 DEF Linear
  <2> QED BY <2>1, <2>2 DEF Next2
<1>5. ASSUME NEW x \in Nat, NEW y \in Nat
      PROVE  <<x, y>> \in nx.children <=>
               Next2(D, x, y) /\ (y < nx.s \/ (y = nx.s /\ x > nx.prev))
  <2>1. <<x, y>> \in sc.children <=> Next2(B, x, y) /\ (y < s \/ (y = s /\ x > -1))
    BY DEF Scanned
  <2>2. Next2(D, x, y) => x < y /\ y <= s + 1
    BY DEF Next2, Linear
  <2>3. (y < s \/ (y = s /\ x > -1)) <=> y <= s
    BY <1>1
  <2>4. x < y => ((y < s + 1 \/ (y = s + 1 /\ x > s)) <=> y <= s)
    BY <1>1
  <2> HIDE DEF nx
  <2> QED BY <1>2, <1>4, <2>1, <2>2, <2>3, <2>4
<1>6. ASSUME NEW x \in Nat
      PROVE  x \in nx.visited <=>
               x <= nx.prev /\ \E t \in Nat : t > nx.prev /\ Next2(D, t, nx.s) /\ <<x, t>> \in D
  <2>1. x \notin sc.visited
    BY DEF Scanned
  <2>2. \A t \in Nat : Next2(D, t, s + 1) => ~ (t > s)
    BY <1>1 DEF Next2, Linear
  <2> HIDE DEF nx
  <2> QED BY <1>2, <2>1, <2>2
<1>7. -1 <= nx.prev /\ nx.prev < nx.s
  <2> HIDE DEF nx
  <2> QED BY <1>1, <1>2
<1> HIDE DEF nx
<1>8. Scanned(nx, D)
  BY <1>3, <1>5, <1>6, <1>7 DEF Scanned
<1> QED BY <1>8 DEF nx

\* Passing over what is marked, or not below s, keeps the scan right.
LEMMA ScanPasses ==
  ASSUME NEW B, Linear(B), NEW sc, Scanned(sc, B), sc.prev # -1,
         NEW nx,
         \/ nx = H!TakeMark(sc) /\ sc.prev \in sc.visited
         \/ /\ nx = H!NotBelow(sc) /\ sc.prev \notin sc.visited
            /\ <<sc.prev, sc.s>> \notin B
  PROVE  Scanned(nx, B) /\ ~ Next2(B, sc.prev, sc.s)
<1> DEFINE p == sc.prev
           s == sc.s
<1>1. /\ sc \in ScanState
      /\ p \in Nat /\ s \in Nat /\ p < s
  BY MarkedOrNext DEF Scanned
<1>2. /\ nx.s = s /\ nx.prev = p - 1 /\ nx.visited = sc.visited \ {p}
      /\ nx.children = sc.children
  <2>1. CASE nx = H!TakeMark(sc)
    BY <1>1, <2>1 DEF H!TakeMark
  <2>2. CASE nx = H!NotBelow(sc) /\ p \notin sc.visited
    <3>1. p \notin sc.visited
      BY <2>2
    <3>2. /\ nx.s = s /\ nx.prev = p - 1 /\ nx.visited = sc.visited
          /\ nx.children = sc.children
      BY <1>1, <2>2 DEF H!NotBelow
    <3> QED BY <3>1, <3>2
  <2> QED BY <2>1, <2>2
<1>3. nx \in ScanState
  <2>1. p - 1 \in Int /\ sc.visited \ {p} \in SUBSET Nat
    BY <1>1, ScanFields
  <2>2. [sc EXCEPT !.prev = p - 1] \in ScanState
    BY <1>1, <2>1, FieldsKept DEF ScanState
  <2>3. [sc EXCEPT !.visited = sc.visited \ {p}, !.prev = p - 1] \in ScanState
    BY <1>1, <2>1, FieldsKept DEF ScanState
  <2> QED BY <2>2, <2>3 DEF H!TakeMark, H!NotBelow
<1>4. ~ Next2(B, p, s)
  <2>1. Next2(B, p, s) <=> p \notin sc.visited /\ <<p, s>> \in B
    BY MarkedOrNext
  <2> QED BY <2>1
<1>5. ASSUME NEW x \in Nat, NEW y \in Nat
      PROVE  <<x, y>> \in nx.children <=>
               Next2(B, x, y) /\ (y < nx.s \/ (y = nx.s /\ x > nx.prev))
  <2>1. <<x, y>> \in sc.children <=> Next2(B, x, y) /\ (y < s \/ (y = s /\ x > p))
    BY DEF Scanned
  <2>2. x > p - 1 <=> x > p \/ x = p
    BY <1>1
  <2> QED BY <1>2, <1>4, <2>1, <2>2
<1>6. ASSUME NEW x \in Nat
      PROVE  x \in nx.visited <=>
               x <= nx.prev /\ \E t \in Nat : t > nx.prev /\ Next2(B, t, nx.s) /\ <<x, t>> \in B
  <2>1. x \in sc.visited <=> x <= p /\ \E t \in Nat : t > p /\ Next2(B, t, s) /\ <<x, t>> \in B
    BY DEF Scanned
  <2>2. \A t \in Nat : t > p - 1 <=> t > p \/ t = p
    BY <1>1
  <2>3. x <= p - 1 <=> x <= p /\ x # p
    BY <1>1
  <2>4. x \in nx.visited <=> x \in sc.visited /\ x # p
    BY <1>2
  <2> QED BY <1>2, <1>4, <2>1, <2>2, <2>3, <2>4
<1>7. -1 <= nx.prev /\ nx.prev < nx.s
  BY <1>1, <1>2
<1>8. Scanned(nx, B)
  BY <1>3, <1>5, <1>6, <1>7 DEF Scanned
<1> QED BY <1>4, <1>8

\* Linking a child that is found keeps the scan right.
LEMMA ScanLinks ==
  ASSUME NEW B, Linear(B), NEW sc, Scanned(sc, B), sc.prev # -1,
         sc.prev \notin sc.visited, <<sc.prev, sc.s>> \in B
  PROVE  Scanned(H!LinkChild(sc), B) /\ Next2(B, sc.prev, sc.s)
<1> DEFINE p == sc.prev
           s == sc.s
           nx == H!LinkChild(sc)
           U == H!Unmarked(sc, p)
<1>1. /\ sc \in ScanState
      /\ p \in Nat /\ s \in Nat /\ p < s
  BY MarkedOrNext DEF Scanned
<1>2. U \in SUBSET Nat /\ \A x \in Nat : x \in U <=> <<x, p>> \in B /\ x \notin sc.visited
  BY UnmarkedRight
<1>3. /\ nx.s = s /\ nx.prev = p - 1 /\ nx.visited = sc.visited \cup U
      /\ nx.children = sc.children \cup {<<p, s>>}
  <2> HIDE DEF U
  <2> QED BY <1>1 DEF H!LinkChild, U
<1>4. nx \in ScanState
  <2>1. /\ p - 1 \in Int /\ sc.visited \cup U \in SUBSET Nat
        /\ sc.children \cup {<<p, s>>} \in SUBSET (Nat \X Nat)
    BY <1>1, <1>2, ScanFields
  <2>2. [sc EXCEPT !.children = sc.children \cup {<<p, s>>}, !.visited = sc.visited \cup U,
                   !.prev = p - 1] \in ScanState
    <3> HIDE DEF U
    <3> QED BY <1>1, <2>1, FieldsKept DEF ScanState
  <2> QED BY <2>2 DEF H!LinkChild
<1> HIDE DEF nx, U
<1>5. Next2(B, p, s)
  BY MarkedOrNext
<1>6. ASSUME NEW x \in Nat, NEW y \in Nat
      PROVE  <<x, y>> \in nx.children <=>
               Next2(B, x, y) /\ (y < nx.s \/ (y = nx.s /\ x > nx.prev))
  <2>1. <<x, y>> \in sc.children <=> Next2(B, x, y) /\ (y < s \/ (y = s /\ x > p))
    BY DEF Scanned
  <2>2. x > p - 1 <=> x > p \/ x = p
    BY <1>1
  <2> QED BY <1>3, <1>5, <2>1, <2>2
<1>7. ASSUME NEW x \in Nat
      PROVE  x \in nx.visited <=>
               x <= nx.prev /\ \E t \in Nat : t > nx.prev /\ Next2(B, t, nx.s) /\ <<x, t>> \in B
  <2>1. x \in sc.visited <=> x <= p /\ \E t \in Nat : t > p /\ Next2(B, t, s) /\ <<x, t>> \in B
    BY DEF Scanned
  <2>2. \A t \in Nat : t > p - 1 <=> t > p \/ t = p
    BY <1>1
  <2>3. x <= p - 1 <=> x <= p /\ x # p
    BY <1>1
  <2>4. x \in nx.visited <=> x \in sc.visited \/ (<<x, p>> \in B /\ x \notin sc.visited)
    BY <1>2, <1>3
  <2>5. <<x, p>> \in B => x <= p /\ x # p
    BY <1>1 DEF Linear
  <2> QED BY <1>1, <1>3, <1>5, <2>1, <2>2, <2>3, <2>4, <2>5
<1>8. -1 <= nx.prev /\ nx.prev < nx.s
  BY <1>1, <1>3
<1>9. Scanned(nx, B)
  BY <1>4, <1>6, <1>7, <1>8 DEF Scanned
<1> QED BY <1>5, <1>9 DEF nx

\* When it is through, all neighbours are linked and nothing is marked.
LEMMA ScanDone ==
  ASSUME NEW B, Linear(B), NEW sc, Scanned(sc, B), sc.prev = -1
  PROVE  /\ sc.visited = {} /\ sc.s \in Int /\ sc.s >= -1
         /\ sc.children \in SUBSET (Nat \X Nat)
         /\ \A x, y \in Nat : <<x, y>> \in sc.children <=> Next2(B, x, y) /\ y <= sc.s
<1>1. /\ sc \in ScanState
      /\ sc.s \in Int /\ sc.s >= -1
      /\ sc.visited \in SUBSET Nat /\ sc.children \in SUBSET (Nat \X Nat)
  BY ScanFields DEF Scanned
<1>2. sc.visited = {}
  <2>1. \A x \in Nat : x \notin sc.visited
    BY DEF Scanned
  <2> QED BY <1>1, <2>1
<1>3. \A x, y \in Nat : <<x, y>> \in sc.children <=> Next2(B, x, y) /\ y <= sc.s
  <2> TAKE x, y \in Nat
  <2>1. <<x, y>> \in sc.children <=> Next2(B, x, y) /\ (y < sc.s \/ (y = sc.s /\ x > -1))
    BY DEF Scanned
  <2>2. (y < sc.s \/ (y = sc.s /\ x > -1)) <=> y <= sc.s
    BY <1>1
  <2> QED BY <2>1, <2>2
<1> QED BY <1>1, <1>2, <1>3
-----------------------------------------------------------------------------
(* The full sets passed along the edges while the scan finds them.         *)

\* The scan has passed on what is at y to x below it, or the other way.
Reached(sc, B, x, y) ==
  \/ x = y
  \/ /\ <<x, y>> \in B
     /\ \/ y < sc.s
        \/ \E u \in Nat : u > sc.prev /\ Next2(B, u, sc.s) /\ UpTo2(B, x, u)

\* Each concept has the reduced sets of those that have reached it.
FullSoFar(sc, B, ext, int, rext, rint) ==
  /\ DOMAIN ext = 0 .. sc.s /\ DOMAIN int = 0 .. sc.s
  /\ DOMAIN rext = 0 .. sc.s /\ DOMAIN rint = 0 .. sc.s
  /\ \A c \in 0 .. sc.s :
       /\ ext[c] = UNION {rext[t] : t \in {x \in 0 .. sc.s : Reached(sc, B, x, c)}}
       /\ int[c] = UNION {rint[t] : t \in {x \in 0 .. sc.s : Reached(sc, B, c, x)}}

\* What concept t passes up to s, and S down to all heirs.
PassUp(ext, s, t) == [ext EXCEPT ![s] = @ \cup ext[t]]
PassDown(int, heirs, S) == [c \in DOMAIN int |-> IF c \in heirs THEN int[c] \cup S ELSE int[c]]

\* By the end of its scan a concept is reached from just what lies below it.
LEMMA AllReached ==
  ASSUME NEW B, Linear(B), NEW sc, Scanned(sc, B), NEW x \in Nat, NEW y \in Nat, y <= sc.s,
         sc.prev = -1 \/ y < sc.s
  PROVE  Reached(sc, B, x, y) <=> UpTo2(B, x, y)
<1>1. sc.s \in Int /\ sc.prev \in Int
  BY ScanFields DEF Scanned
<1>2. ASSUME <<x, y>> \in B, y = sc.s, sc.prev = -1
      PROVE  \E u \in Nat : u > sc.prev /\ Next2(B, u, sc.s) /\ UpTo2(B, x, u)
  <2>1. PICK u \in Nat : Next2(B, u, y) /\ UpTo2(B, x, u)
    BY <1>2, NextBelow
  <2>2. u > sc.prev
    BY <1>2
  <2> QED BY <1>2, <2>1, <2>2
<1>3. y < sc.s \/ y = sc.s
  BY <1>1
<1>4. ~ (y = sc.s /\ y < sc.s)
  BY <1>1
<1> QED BY <1>2, <1>3, <1>4 DEF Reached, UpTo2

\* A step of the scan that finds no edge passes nothing on.
LEMMA NothingPassed ==
  ASSUME NEW B, Linear(B), NEW sc, Scanned(sc, B), sc.prev # -1, ~ Next2(B, sc.prev, sc.s),
         NEW nx, nx.s = sc.s, nx.prev = sc.prev - 1,
         NEW ext, NEW int, NEW rext, NEW rint, FullSoFar(sc, B, ext, int, rext, rint)
  PROVE  FullSoFar(nx, B, ext, int, rext, rint)
<1>1. sc.prev \in Nat
  BY MarkedOrNext
<1>2. \A u \in Nat : u > sc.prev - 1 <=> u > sc.prev \/ u = sc.prev
  BY <1>1
<1>3. \A x, y : Reached(nx, B, x, y) <=> Reached(sc, B, x, y)
  BY <1>2 DEF Reached
<1> QED BY <1>3 DEF FullSoFar

\* A new concept begins with its reduced sets.
LEMMA FullBegins ==
  ASSUME NEW B, Linear(B), NEW D, Linear(D), NEW sc, Scanned(sc, B), sc.prev = -1,
         \A x, y \in Nat : <<x, y>> \in D => y <= sc.s + 1,
         \A x, y \in Nat : y <= sc.s => (<<x, y>> \in D <=> <<x, y>> \in B),
         NEW ext, NEW int, NEW rext, NEW rint, FullSoFar(sc, B, ext, int, rext, rint),
         NEW X, NEW Y, NEW nx, nx = H!BeginNext(sc)
  PROVE  FullSoFar(nx, D, H!Put(ext, nx.s, X), H!Put(int, nx.s, Y),
                   H!Put(rext, nx.s, X), H!Put(rint, nx.s, Y))
<1> DEFINE s == sc.s
           n == s + 1
           ex == H!Put(ext, n, X)
           in == H!Put(int, n, Y)
           rx == H!Put(rext, n, X)
           ri == H!Put(rint, n, Y)
<1>1. Scanned(nx, D)
  BY ScanBegins
<1>2. s \in Int /\ s >= -1
  BY ScanDone
<1>3. nx.s = n /\ nx.prev = s
  <2>1. sc \in ScanState
    BY DEF Scanned
  <2> QED BY <2>1 DEF H!BeginNext, ScanState
<1>4. n \in Nat /\ 0 .. n = (0 .. s) \cup {n} /\ n \notin 0 .. s
  BY <1>2
<1>5. /\ DOMAIN ex = 0 .. n /\ DOMAIN in = 0 .. n /\ DOMAIN rx = 0 .. n /\ DOMAIN ri = 0 .. n
      /\ ex[n] = X /\ in[n] = Y /\ rx[n] = X /\ ri[n] = Y
      /\ \A c \in 0 .. s : ex[c] = ext[c] /\ in[c] = int[c] /\ rx[c] = rext[c] /\ ri[c] = rint[c]
  <2>1. DOMAIN ext = 0 .. s /\ DOMAIN int = 0 .. s /\ DOMAIN rext = 0 .. s /\ DOMAIN rint = 0 .. s
    BY DEF FullSoFar
  <2> HIDE DEF s, n
  <2> QED BY <1>4, <2>1 DEF H!Put
<1> HIDE DEF ex, in, rx, ri
<1>6. \A x, y \in 0 .. s : Reached(nx, D, x, y) <=> Reached(sc, B, x, y)
  <2> SUFFICES ASSUME NEW x \in 0 .. s, NEW y \in 0 .. s
               PROVE  Reached(nx, D, x, y) <=> Reached(sc, B, x, y)
    OBVIOUS
  <2>1. x \in Nat /\ y \in Nat /\ y <= s /\ y <= n /\ y < n
    BY <1>2
  <2>2. Reached(sc, B, x, y) <=> UpTo2(B, x, y)
    BY <2>1, AllReached
  <2>3. Reached(nx, D, x, y) <=> UpTo2(D, x, y)
    BY <1>1, <1>3, <2>1, AllReached
  <2> QED BY <2>1, <2>2, <2>3 DEF UpTo2
<1>7. \A x \in 0 .. n : (Reached(nx, D, x, n) <=> x = n) /\ (Reached(nx, D, n, x) <=> x = n)
  <2> SUFFICES ASSUME NEW x \in 0 .. n
               PROVE  (Reached(nx, D, x, n) <=> x = n) /\ (Reached(nx, D, n, x) <=> x = n)
    OBVIOUS
  <2>1. x \in Nat /\ n \in Nat /\ ~ (n < n) /\ ~ (n < x)
    BY <1>4
  <2>2. <<n, x>> \notin D
    BY <2>1 DEF Linear
  <2>3. \A u \in Nat : ~ (u > s /\ Next2(D, u, n))
    BY <1>2 DEF Next2, Linear
  <2>4. Reached(nx, D, n, x) <=> x = n
    BY <2>2 DEF Reached
  <2>5. Reached(nx, D, x, n) <=> x = n
    BY <1>3, <2>1, <2>3 DEF Reached
  <2> QED BY <2>4, <2>5
<1>8. ASSUME NEW c \in 0 .. n
      PROVE  ex[c] = UNION {rx[t] : t \in {x \in 0 .. n : Reached(nx, D, x, c)}}
  <2>1. CASE c = n
    <3>1. {x \in 0 .. n : Reached(nx, D, x, c)} = {n}
      BY <1>4, <1>7, <2>1
    <3> HIDE DEF n
    <3> QED BY <1>5, <2>1, <3>1
  <2>2. CASE c \in 0 .. s
    <3>1. {x \in 0 .. n : Reached(nx, D, x, c)} = {x \in 0 .. s : Reached(sc, B, x, c)}
      <4> HIDE DEF n, s
      <4> QED BY <1>4, <1>6, <1>7, <2>2
    <3>2. ext[c] = UNION {rext[t] : t \in {x \in 0 .. s : Reached(sc, B, x, c)}}
      BY <2>2 DEF FullSoFar
    <3>3. \A t \in {x \in 0 .. s : Reached(sc, B, x, c)} : rx[t] = rext[t]
      <4> HIDE DEF n, s
      <4> QED BY <1>5
    <3> HIDE DEF n, s
    <3> QED BY <1>5, <2>2, <3>1, <3>2, <3>3
  <2> QED BY <1>4, <2>1, <2>2
<1>9. ASSUME NEW c \in 0 .. n
      PROVE  in[c] = UNION {ri[t] : t \in {x \in 0 .. n : Reached(nx, D, c, x)}}
  <2>1. CASE c = n
    <3>1. {x \in 0 .. n : Reached(nx, D, c, x)} = {n}
      BY <1>4, <1>7, <2>1
    <3> HIDE DEF n
    <3> QED BY <1>5, <2>1, <3>1
  <2>2. CASE c \in 0 .. s
    <3>1. {x \in 0 .. n : Reached(nx, D, c, x)} = {x \in 0 .. s : Reached(sc, B, c, x)}
      <4> HIDE DEF n, s
      <4> QED BY <1>4, <1>6, <1>7, <2>2
    <3>2. int[c] = UNION {rint[t] : t \in {x \in 0 .. s : Reached(sc, B, c, x)}}
      BY <2>2 DEF FullSoFar
    <3>3. \A t \in {x \in 0 .. s : Reached(sc, B, c, x)} : ri[t] = rint[t]
      <4> HIDE DEF n, s
      <4> QED BY <1>5
    <3> HIDE DEF n, s
    <3> QED BY <1>5, <2>2, <3>1, <3>2, <3>3
  <2> QED BY <1>4, <2>1, <2>2
<1>10. FullSoFar(nx, D, ex, in, rx, ri)
  <2> HIDE DEF n, s
  <2> QED BY <1>3, <1>5, <1>8, <1>9 DEF FullSoFar
<1> QED BY <1>3, <1>10 DEF ex, in, rx, ri

\* An edge found passes the extent up and the intent down to all that is below.
LEMMA FullLinks ==
  ASSUME NEW B, Linear(B), NEW sc, Scanned(sc, B), sc.prev # -1,
         sc.prev \notin sc.visited, <<sc.prev, sc.s>> \in B,
         NEW nx, nx.s = sc.s, nx.prev = sc.prev - 1,
         NEW ext, NEW int, NEW rext, NEW rint, FullSoFar(sc, B, ext, int, rext, rint),
         NEW heirs, heirs = {sc.prev} \cup H!Unmarked(sc, sc.prev)
  PROVE  FullSoFar(nx, B, PassUp(ext, sc.s, sc.prev), PassDown(int, heirs, rint[sc.s]), rext, rint)
<1> DEFINE s == sc.s
           p == sc.prev
           I == 0 .. s
           ex == [ext EXCEPT ![s] = @ \cup ext[p]]
           in == [c \in DOMAIN int |-> IF c \in heirs THEN int[c] \cup rint[s] ELSE int[c]]
<1>1. p \in Nat /\ s \in Nat /\ p < s /\ p \in I /\ s \in I /\ p # s
  BY MarkedOrNext
<1>2. Next2(B, p, s)
  BY ScanLinks
<1>3. \A x \in Nat : x \in heirs <=> x = p \/ (<<x, p>> \in B /\ x \notin sc.visited)
  BY <1>1, UnmarkedRight
<1>4. \A x \in Nat : \A y \in I :
        Reached(nx, B, x, y) <=> Reached(sc, B, x, y) \/ (y = s /\ UpTo2(B, x, p))
  <2> SUFFICES ASSUME NEW x \in Nat, NEW y \in I
               PROVE  Reached(nx, B, x, y) <=> Reached(sc, B, x, y) \/ (y = s /\ UpTo2(B, x, p))
    OBVIOUS
  <2>1. \A u \in Nat : u > p - 1 <=> u > p \/ u = p
    BY <1>1
  <2>2. y \in Nat /\ (y < s \/ y = s)
    BY <1>1
  <2>3. CASE y < s
    <3>1. y # s
      BY <1>1, <2>3
    <3> QED BY <2>3, <3>1 DEF Reached
  <2>4. CASE y = s
    <3>1. UpTo2(B, x, p) => <<x, s>> \in B
      BY <1>1, <1>2 DEF UpTo2, Next2, Linear
    <3>2. ~ (y < s)
      BY <1>1, <2>4
    <3> QED BY <1>1, <1>2, <2>1, <2>4, <3>1, <3>2 DEF Reached
  <2> QED BY <2>2, <2>3, <2>4
<1>5. \A x \in Nat : Reached(sc, B, x, p) <=> UpTo2(B, x, p)
  BY <1>1, AllReached
<1>6. \A x \in Nat : x \in heirs => UpTo2(B, x, p)
  BY <1>3 DEF UpTo2
<1>7. \A x \in Nat : UpTo2(B, x, p) /\ x \notin heirs => Reached(sc, B, x, s)
  <2> SUFFICES ASSUME NEW x \in Nat, <<x, p>> \in B, x \in sc.visited
               PROVE  Reached(sc, B, x, s)
    BY <1>3 DEF UpTo2
  <2>1. PICK t \in Nat : t > p /\ Next2(B, t, s) /\ <<x, t>> \in B
    BY DEF Scanned
  <2>2. <<x, s>> \in B
    BY <1>1, <2>1 DEF Next2, Linear
  <2> QED BY <2>1, <2>2 DEF Reached, UpTo2
<1>8. /\ DOMAIN ext = I /\ DOMAIN int = I /\ DOMAIN rext = I /\ DOMAIN rint = I
      /\ \A c \in I : /\ ext[c] = UNION {rext[t] : t \in {x \in I : Reached(sc, B, x, c)}}
                      /\ int[c] = UNION {rint[t] : t \in {x \in I : Reached(sc, B, c, x)}}
  BY DEF FullSoFar
<1>9. I \in SUBSET Nat
  BY <1>1
<1> HIDE DEF I, s, p
<1>10. DOMAIN ex = I /\ DOMAIN in = I
  BY <1>8
<1>11. ASSUME NEW c \in I
       PROVE  ex[c] = UNION {rext[t] : t \in {x \in I : Reached(nx, B, x, c)}}
  <2>1. CASE c = s
    <3>1. ex[c] = ext[s] \cup ext[p]
      BY <1>8, <2>1
    <3>2. {x \in I : Reached(nx, B, x, c)} =
            {x \in I : Reached(sc, B, x, s)} \cup {x \in I : Reached(sc, B, x, p)}
      BY <1>1, <1>4, <1>5, <1>9, <2>1
    <3>3. /\ ext[s] = UNION {rext[t] : t \in {x \in I : Reached(sc, B, x, s)}}
          /\ ext[p] = UNION {rext[t] : t \in {x \in I : Reached(sc, B, x, p)}}
      BY <1>1, <1>8
    <3> DEFINE S1 == {x \in I : Reached(sc, B, x, s)}
               S2 == {x \in I : Reached(sc, B, x, p)}
    <3>4. (UNION {rext[t] : t \in S1}) \cup (UNION {rext[t] : t \in S2})
            = UNION {rext[t] : t \in S1 \cup S2}
      <4> HIDE DEF S1, S2
      <4> QED OBVIOUS
    <3> QED BY <3>1, <3>2, <3>3, <3>4
  <2>2. CASE c # s
    <3>1. ex[c] = ext[c]
      BY <1>8, <2>2
    <3>2. {x \in I : Reached(nx, B, x, c)} = {x \in I : Reached(sc, B, x, c)}
      BY <1>4, <1>9, <2>2
    <3> QED BY <1>8, <3>1, <3>2
  <2> QED BY <2>1, <2>2
<1>12. ASSUME NEW c \in I
       PROVE  in[c] = UNION {rint[t] : t \in {x \in I : Reached(nx, B, c, x)}}
  <2> DEFINE S1 == {x \in I : Reached(sc, B, c, x)}
  <2>1. int[c] = UNION {rint[t] : t \in S1}
    BY <1>8
  <2>2. CASE c \in heirs
    <3>1. in[c] = int[c] \cup rint[s]
      BY <1>8, <2>2
    <3>2. {x \in I : Reached(nx, B, c, x)} = S1 \cup {s}
      BY <1>1, <1>4, <1>6, <1>9, <2>2
    <3>3. (UNION {rint[t] : t \in S1}) \cup rint[s] = UNION {rint[t] : t \in S1 \cup {s}}
      <4> HIDE DEF S1
      <4> QED OBVIOUS
    <3> HIDE DEF S1, in
    <3> QED BY <2>1, <3>1, <3>2, <3>3
  <2>3. CASE c \notin heirs
    <3>1. in[c] = int[c]
      BY <1>8, <2>3
    <3>2. {x \in I : Reached(nx, B, c, x)} = S1
      BY <1>4, <1>7, <1>9, <2>3
    <3> QED BY <2>1, <3>1, <3>2
  <2> QED BY <2>2, <2>3
<1> HIDE DEF ex, in
<1>13. FullSoFar(nx, B, ex, in, rext, rint)
  BY <1>8, <1>10, <1>11, <1>12 DEF FullSoFar, I, s
<1> QED BY <1>13 DEF ex, in, s, p, PassUp, PassDown
-----------------------------------------------------------------------------
(* Clarification: the classes, and the concepts made of them.              *)

\* The rows and the columns equal to one, and the classes in a set.
RowClass(c, o) == {x \in c.objs : H!Row(c, x) = H!Row(c, o)}
ColClass(c, a) == {b \in DOMAIN c.cols : c.cols[b] = c.cols[a]}
ColClasses(c, I) == {ColClass(c, a) : a \in I}

ObjClasses(c) ==
  {H!RefSet(RowClass(c, o), ColClasses(c, H!Row(c, o))) : o \in c.objs}
AttrClasses(c) ==
  {H!RefSet(ColClass(c, a), {RowClass(c, o) : o \in c.cols[a]}) : a \in DOMAIN c.cols}

\* The attributes whose column includes that of a.
Above(c, a) == {b \in DOMAIN c.cols : c.cols[a] \subseteq c.cols[b]}

\* The intents of the concepts that introduce something, and such a concept.
IntroducerIntents(c) ==
  {H!Row(c, o) : o \in c.objs} \cup {Above(c, a) : a \in DOMAIN c.cols}
HConcept(c, I) ==
  [ext |-> {o \in c.objs : H!Row(c, o) = I}, int |-> {a \in DOMAIN c.cols : Above(c, a) = I},
   values |-> ColClasses(c, I)]

\* Reference sets of single elements, of any, and those that come of them.
Singles(X, V) == {H!RefSet({x}, V[x]) : x \in X}
RefSets(Y, R, W) == {H!RefSet(R[y], W[y]) : y \in Y}
Synced(X, V, Y, R, Cl) ==
  RefSets(Y, R, [y \in Y |-> {Cl[x] : x \in {z \in X : R[y] \in V[z]}}])

\* Merging sets with equal values and renaming their members by classes.
LEMMA ClarifyOnce ==
  ASSUME NEW X, NEW Y, NEW V, NEW R, NEW W, NEW Cl, \A x \in X : Cl[x] = {z \in X : V[z] = V[x]}
  PROVE  H!Clarified(Singles(X, V), RefSets(Y, R, W)) =
           <<RefSets(X, Cl, V), Synced(X, V, Y, R, Cl)>>
<1> DEFINE S == Singles(X, V)
           T == RefSets(Y, R, W)
           merged == RefSets(X, Cl, V)
<1>1. \A r, v : H!RefSet(r, v).refs = r /\ H!RefSet(r, v).values = v
  BY DEF H!RefSet
<1>2. \A s : s \in S <=> \E x \in X : s = H!RefSet({x}, V[x])
  BY DEF Singles
<1>3. \A t : t \in T <=> \E y \in Y : t = H!RefSet(R[y], W[y])
  BY DEF RefSets
<1>4. \A t : t \in merged <=> \E x \in X : t = H!RefSet(Cl[x], V[x])
  BY DEF RefSets
<1> HIDE DEF S, T, merged
<1> DEFINE cls(v) == UNION {s.refs : s \in {t \in S : t.values = v}}
<1>5. \A x \in X : cls(V[x]) = Cl[x]
  <2> TAKE x \in X
  <2>1. \A z : z \in cls(V[x]) <=> \E s \in S : s.values = V[x] /\ z \in s.refs
    OBVIOUS
  <2>2. \A z : z \in cls(V[x]) <=> z \in X /\ V[z] = V[x]
    <3> TAKE z
    <3>1. ASSUME NEW s \in S, s.values = V[x], z \in s.refs PROVE z \in X /\ V[z] = V[x]
      <4>1. PICK w \in X : s = H!RefSet({w}, V[w])
        BY <1>2
      <4> QED BY <1>1, <3>1, <4>1
    <3>2. ASSUME z \in X, V[z] = V[x] PROVE \E s \in S : s.values = V[x] /\ z \in s.refs
      <4>1. H!RefSet({z}, V[z]) \in S
        BY <1>2, <3>2
      <4> WITNESS H!RefSet({z}, V[z]) \in S
      <4> QED BY <1>1, <3>2
    <3> HIDE DEF cls
    <3> QED BY <2>1, <3>1, <3>2
  <2> HIDE DEF cls
  <2> QED BY <2>2
<1>6. H!MergeEqual(S) = merged
  <2>1. H!MergeEqual(S) = {H!RefSet(cls(v), v) : v \in {s.values : s \in S}}
    BY DEF H!MergeEqual
  <2>2. \A v : v \in {s.values : s \in S} <=> \E x \in X : v = V[x]
    <3> TAKE v
    <3>1. ASSUME NEW s \in S, v = s.values PROVE \E x \in X : v = V[x]
      <4>1. PICK x \in X : s = H!RefSet({x}, V[x])
        BY <1>2
      <4>2. v = V[x]
        BY <1>1, <3>1, <4>1
      <4> QED BY <4>2
    <3>2. ASSUME NEW x \in X, v = V[x] PROVE \E s \in S : v = s.values
      <4>1. H!RefSet({x}, V[x]) \in S
        BY <1>2
      <4> QED BY <1>1, <3>2, <4>1
    <3> QED BY <3>1, <3>2
  <2> HIDE DEF cls
  <2>3. \A t : t \in H!MergeEqual(S) <=> \E v \in {s.values : s \in S} : t = H!RefSet(cls(v), v)
    BY <2>1
  <2>4. \A t : t \in H!MergeEqual(S) <=> \E x \in X : t = H!RefSet(cls(V[x]), V[x])
    BY <2>2, <2>3
  <2>5. \A t : t \in H!MergeEqual(S) <=> t \in merged
    BY <1>4, <1>5, <2>4
  <2> QED BY <2>1, <2>5
<1> HIDE DEF cls
<1> DEFINE sync(r) == {s.refs : s \in {x \in merged : r \in x.values}}
<1>7. \A r : sync(r) = {Cl[x] : x \in {z \in X : r \in V[z]}}
  <2> TAKE r
  <2>1. ASSUME NEW q, q \in sync(r) PROVE q \in {Cl[x] : x \in {z \in X : r \in V[z]}}
    <3>1. PICK s \in merged : r \in s.values /\ q = s.refs
      BY <2>1
    <3>2. PICK x \in X : s = H!RefSet(Cl[x], V[x])
      BY <1>4
    <3> QED BY <1>1, <3>1, <3>2
  <2>2. ASSUME NEW x \in X, r \in V[x] PROVE Cl[x] \in sync(r)
    <3> DEFINE s == H!RefSet(Cl[x], V[x])
    <3>1. s \in merged /\ s.refs = Cl[x] /\ s.values = V[x]
      BY <1>1, <1>4
    <3> HIDE DEF s
    <3> QED BY <2>2, <3>1
  <2> QED BY <2>1, <2>2
<1>8. {H!RefSet(t.refs, sync(t.refs)) : t \in T} = Synced(X, V, Y, R, Cl)
  <2> DEFINE val == [y \in Y |-> {Cl[x] : x \in {z \in X : R[y] \in V[z]}}]
  <2>1. \A y \in Y : val[y] = sync(R[y])
    <3> HIDE DEF sync
    <3> QED BY <1>7
  <2> HIDE DEF sync, val
  <2>2. \A t : t \in Synced(X, V, Y, R, Cl) <=> \E y \in Y : t = H!RefSet(R[y], val[y])
    BY DEF Synced, RefSets, val
  <2>3. ASSUME NEW t \in T PROVE H!RefSet(t.refs, sync(t.refs)) \in Synced(X, V, Y, R, Cl)
    <3>1. PICK y \in Y : t = H!RefSet(R[y], W[y])
      BY <1>3
    <3>2. t.refs = R[y]
      BY <1>1, <3>1
    <3> QED BY <2>1, <2>2, <3>2
  <2>4. ASSUME NEW y \in Y PROVE H!RefSet(R[y], val[y]) \in {H!RefSet(t.refs, sync(t.refs)) : t \in T}
    <3> DEFINE t == H!RefSet(R[y], W[y])
    <3>1. t \in T /\ t.refs = R[y]
      BY <1>1, <1>3
    <3> HIDE DEF t
    <3>2. H!RefSet(t.refs, sync(t.refs)) \in {H!RefSet(u.refs, sync(u.refs)) : u \in T}
      BY <3>1
    <3> QED BY <2>1, <3>1, <3>2
  <2>5. \A t : t \in {H!RefSet(u.refs, sync(u.refs)) : u \in T} => t \in Synced(X, V, Y, R, Cl)
    BY <2>3
  <2>6. \A t : t \in Synced(X, V, Y, R, Cl) => t \in {H!RefSet(u.refs, sync(u.refs)) : u \in T}
    BY <2>2, <2>4
  <2> QED BY <2>5, <2>6
<1>9. H!Clarified(S, T) = <<merged, {H!RefSet(t.refs, sync(t.refs)) : t \in T}>>
  BY <1>6 DEF H!Clarified
<1> HIDE DEF sync
<1>10. H!Clarified(S, T) = <<merged, Synced(X, V, Y, R, Cl)>>
  BY <1>8, <1>9
<1> QED BY <1>10 DEF S, T, merged

\* Whichever side is clarified first, the clarified context is the same
\* (build_hermes).
LEMMA ClarifyExact ==
  ASSUME ctx.cols \in [DOMAIN ctx.cols -> SUBSET ctx.objs]
  PROVE  H!ClarifyBoth = [objs |-> ObjClasses(ctx), attrs |-> AttrClasses(ctx)]
<1> DEFINE A == DOMAIN ctx.cols
           O == ctx.objs
           row(o) == H!Row(ctx, o)
           col == ctx.cols
           rc == [o \in O |-> RowClass(ctx, o)]
           cc == [a \in A |-> ColClass(ctx, a)]
           oa == [o \in O |-> ColClasses(ctx, row(o))]
           ao == [a \in A |-> {RowClass(ctx, o) : o \in col[a]}]
           ones(S) == {{x} : x \in S}
           oo == [o \in O |-> {o}]
           aa == [a \in A |-> {a}]
           no == [x \in A \cup O |-> {}]
           o1 == [o \in O |-> ones(row(o))]
           a1 == [a \in A |-> ones(col[a])]
<1>1. \A o \in O : \A a \in A : a \in row(o) <=> o \in col[a]
  BY DEF H!Row
<1>2. \A o \in O : row(o) \in SUBSET A
  BY DEF H!Row
<1>3. \A a \in A : col[a] \in SUBSET O
  OBVIOUS
<1>4. \A a, b \in A : a \in cc[b] <=> col[a] = col[b]
  BY DEF ColClass
<1>5. \A o, x \in O : o \in rc[x] <=> row(o) = row(x)
  BY DEF RowClass
<1>6. \A a \in A : \A o \in O : cc[a] \in oa[o] <=> a \in row(o)
  <2> SUFFICES ASSUME NEW a \in A, NEW o \in O, cc[a] \in oa[o] PROVE a \in row(o)
    BY DEF ColClasses
  <2>1. PICK b \in row(o) : cc[a] = ColClass(ctx, b)
    BY DEF ColClasses
  <2>2. b \in A /\ a \in cc[a]
    BY <1>2, <1>4
  <2>3. col[a] = col[b]
    BY <2>1, <2>2 DEF ColClass
  <2> QED BY <1>1, <2>1, <2>2, <2>3
<1>7. \A a \in A : \A o \in O : rc[o] \in ao[a] <=> o \in col[a]
  <2> SUFFICES ASSUME NEW a \in A, NEW o \in O, rc[o] \in ao[a] PROVE o \in col[a]
    OBVIOUS
  <2>1. PICK x \in col[a] : rc[o] = RowClass(ctx, x)
    OBVIOUS
  <2>2. x \in O /\ o \in rc[o]
    BY <1>3, <1>5
  <2>3. row(o) = row(x)
    BY <2>1, <2>2 DEF RowClass
  <2> QED BY <1>1, <2>1, <2>2, <2>3
<1>8. \A S, T : ones(S) = ones(T) => S = T
  <2> SUFFICES ASSUME NEW S, NEW T, ones(S) = ones(T) PROVE S \subseteq T
    OBVIOUS
  <2>1. \A x \in S : \E y \in T : {x} = {y}
    OBVIOUS
  <2> QED BY <2>1
<1>9. \A S : \A x : {x} \in ones(S) <=> x \in S
  OBVIOUS
<1> DEFINE objs == RefSets(O, rc, oa)
           attrs == RefSets(A, cc, ao)
<1>10. objs = ObjClasses(ctx) /\ attrs = AttrClasses(ctx)
  BY DEF ObjClasses, AttrClasses, RefSets
<1>11. CASE H!Cardinality(H!Attrs) > H!Cardinality(O)
  <2> DEFINE fst == H!Clarified(H!AttrCols, H!ObjectRefs)
             snd == H!Clarified(fst[2], fst[1])
             so == Singles(O, oa)
             sa == RefSets(A, cc, a1)
  <2>1. H!AttrCols = Singles(A, a1)
    BY DEF H!AttrCols, H!Attrs, Singles
  <2>2. H!ObjectRefs = RefSets(O, oo, no)
    BY DEF H!ObjectRefs, RefSets
  <2>3. \A a \in A : cc[a] = {b \in A : a1[b] = a1[a]}
    <3> HIDE DEF ones
    <3> QED BY <1>8 DEF ColClass
  <2>4. \A o \in O : {cc[a] : a \in {b \in A : oo[o] \in a1[b]}} = oa[o]
    <3> TAKE o \in O
    <3>1. {b \in A : oo[o] \in a1[b]} = row(o)
      <4> HIDE DEF ones, row
      <4> QED BY <1>1, <1>2, <1>9
    <3>2. {cc[a] : a \in row(o)} = {ColClass(ctx, a) : a \in row(o)}
      BY <1>2
    <3> HIDE DEF a1, cc, row, oo
    <3> QED BY <3>1, <3>2 DEF ColClasses
  <2>5. fst = <<sa, so>>
    <3>1. Synced(A, a1, O, oo, cc) = so
      <4>1. \A o \in O : [x \in O |-> {cc[a] : a \in {b \in A : oo[x] \in a1[b]}}][o] = oa[o]
        BY <2>4
      <4> HIDE DEF cc, a1, oa
      <4> QED BY <4>1 DEF Synced, RefSets, Singles
    <3> HIDE DEF oo, a1, no, cc, oa, A, O
    <3>2. H!Clarified(Singles(A, a1), RefSets(O, oo, no)) =
            <<RefSets(A, cc, a1), Synced(A, a1, O, oo, cc)>>
      BY ONLY <2>3, ClarifyOnce
    <3> QED BY <2>1, <2>2, <3>1, <3>2
  <2>6. \A o \in O : rc[o] = {x \in O : oa[x] = oa[o]}
    <3> TAKE o \in O
    <3>1. \A x \in O : oa[x] = oa[o] <=> row(x) = row(o)
      <4> TAKE x \in O
      <4>1. ASSUME oa[x] = oa[o] PROVE row(x) = row(o)
        <5>1. \A a \in A : a \in row(x) <=> a \in row(o)
          <6> HIDE DEF oa, cc, row
          <6> QED BY <1>6, <4>1
        <5> HIDE DEF row
        <5> QED BY <1>2, <5>1
      <4> QED BY <4>1
    <3> QED BY <3>1 DEF RowClass
  <2>7. \A a \in A : {rc[o] : o \in {x \in O : cc[a] \in oa[x]}} = ao[a]
    <3> TAKE a \in A
    <3>1. {x \in O : cc[a] \in oa[x]} = col[a]
      <4> HIDE DEF oa, cc, row
      <4> QED BY <1>1, <1>3, <1>6
    <3>2. {rc[o] : o \in col[a]} = {RowClass(ctx, o) : o \in col[a]}
      BY <1>3
    <3> HIDE DEF rc, oa, cc
    <3> QED BY <3>1, <3>2
  <2>8. snd = <<objs, attrs>>
    <3>1. Synced(O, oa, A, cc, rc) = attrs
      <4>1. \A a \in A : [x \in A |-> {rc[o] : o \in {z \in O : cc[x] \in oa[z]}}][a] = ao[a]
        BY <2>7
      <4> HIDE DEF cc, oa, rc, ao
      <4> QED BY <4>1 DEF Synced, RefSets
    <3>2. fst[2] = so /\ fst[1] = sa
      <4> HIDE DEF fst, so, sa
      <4> QED BY <2>5
    <3> HIDE DEF fst, oo, a1, no, cc, oa, rc, ao, A, O
    <3>3. H!Clarified(Singles(O, oa), RefSets(A, cc, a1)) =
            <<RefSets(O, rc, oa), Synced(O, oa, A, cc, rc)>>
      BY ONLY <2>6, ClarifyOnce
    <3> QED BY <3>1, <3>2, <3>3
  <2>9. H!ClarifyBoth = [objs |-> snd[1], attrs |-> snd[2]]
    BY <1>11 DEF H!ClarifyBoth
  <2> HIDE DEF snd, objs, attrs
  <2> QED BY <1>10, <2>8, <2>9
<1>12. CASE ~ (H!Cardinality(H!Attrs) > H!Cardinality(O))
  <2> DEFINE fst == H!Clarified(H!ObjectRows, H!AttrRefs)
             snd == H!Clarified(fst[2], fst[1])
             so == RefSets(O, rc, o1)
             sa == Singles(A, ao)
  <2>1. H!ObjectRows = Singles(O, o1)
    BY DEF H!ObjectRows, Singles
  <2>2. H!AttrRefs = RefSets(A, aa, no)
    BY DEF H!AttrRefs, H!Attrs, RefSets
  <2>3. \A o \in O : rc[o] = {x \in O : o1[x] = o1[o]}
    <3> HIDE DEF ones, row
    <3>1. \A x, o \in O : o1[x] = o1[o] <=> row(x) = row(o)
      BY <1>8
    <3> QED BY <3>1 DEF RowClass, row
  <2>4. \A a \in A : {rc[o] : o \in {x \in O : aa[a] \in o1[x]}} = ao[a]
    <3> TAKE a \in A
    <3>1. {x \in O : aa[a] \in o1[x]} = col[a]
      <4> HIDE DEF ones, row
      <4> QED BY <1>1, <1>3, <1>9
    <3>2. {rc[o] : o \in col[a]} = {RowClass(ctx, o) : o \in col[a]}
      BY <1>3
    <3> HIDE DEF o1, rc, aa
    <3> QED BY <3>1, <3>2
  <2>5. fst = <<so, sa>>
    <3>1. Synced(O, o1, A, aa, rc) = sa
      <4>1. \A a \in A : [x \in A |-> {rc[o] : o \in {z \in O : aa[x] \in o1[z]}}][a] = ao[a]
        BY <2>4
      <4> HIDE DEF o1, rc, ao
      <4> QED BY <4>1 DEF Synced, RefSets, Singles
    <3> HIDE DEF aa, o1, no, rc, ao, A, O
    <3>2. H!Clarified(Singles(O, o1), RefSets(A, aa, no)) =
            <<RefSets(O, rc, o1), Synced(O, o1, A, aa, rc)>>
      BY ONLY <2>3, ClarifyOnce
    <3> QED BY <2>1, <2>2, <3>1, <3>2
  <2>6. \A a \in A : cc[a] = {b \in A : ao[b] = ao[a]}
    <3> TAKE a \in A
    <3>1. \A b \in A : ao[b] = ao[a] <=> col[b] = col[a]
      <4> TAKE b \in A
      <4>1. ASSUME ao[b] = ao[a] PROVE col[b] = col[a]
        <5>1. \A o \in O : o \in col[b] <=> o \in col[a]
          <6> HIDE DEF ao, rc
          <6> QED BY <1>7, <4>1
        <5> QED BY <1>3, <5>1
      <4> QED BY <4>1
    <3> QED BY <3>1 DEF ColClass
  <2>7. \A o \in O : {cc[a] : a \in {b \in A : rc[o] \in ao[b]}} = oa[o]
    <3> TAKE o \in O
    <3>1. {b \in A : rc[o] \in ao[b]} = row(o)
      <4> HIDE DEF ao, rc, row
      <4> QED BY <1>1, <1>2, <1>7
    <3>2. {cc[a] : a \in row(o)} = {ColClass(ctx, a) : a \in row(o)}
      BY <1>2
    <3> HIDE DEF cc, ao, rc, row
    <3> QED BY <3>1, <3>2 DEF ColClasses
  <2>8. snd = <<attrs, objs>>
    <3>1. Synced(A, ao, O, rc, cc) = objs
      <4>1. \A o \in O : [x \in O |-> {cc[a] : a \in {b \in A : rc[x] \in ao[b]}}][o] = oa[o]
        BY <2>7
      <4> HIDE DEF cc, oa, rc, ao
      <4> QED BY <4>1 DEF Synced, RefSets
    <3>2. fst[2] = sa /\ fst[1] = so
      <4> HIDE DEF fst, so, sa
      <4> QED BY <2>5
    <3> HIDE DEF fst, aa, o1, no, cc, oa, rc, ao, A, O
    <3>3. H!Clarified(Singles(A, ao), RefSets(O, rc, o1)) =
            <<RefSets(A, cc, ao), Synced(A, ao, O, rc, cc)>>
      BY ONLY <2>6, ClarifyOnce
    <3> QED BY <3>1, <3>2, <3>3
  <2>9. H!ClarifyBoth = [objs |-> snd[2], attrs |-> snd[1]]
    BY <1>12 DEF H!ClarifyBoth
  <2> HIDE DEF snd, objs, attrs
  <2> QED BY <1>10, <2>8, <2>9
<1> QED BY <1>11, <1>12
\* Row and column classes stand for their members.
LEMMA ClassFacts ==
  ASSUME NEW c, c.cols \in [DOMAIN c.cols -> SUBSET c.objs]
  PROVE  /\ \A I \in IntroducerIntents(c) :
              /\ I \in SUBSET DOMAIN c.cols
              /\ \A a \in DOMAIN c.cols : ColClass(c, a) \in ColClasses(c, I) <=> a \in I
         /\ \A I, J \in IntroducerIntents(c) :
              /\ ColClasses(c, I) \subseteq ColClasses(c, J) <=> I \subseteq J
              /\ ColClasses(c, I) = ColClasses(c, J) => I = J
         /\ \A o \in c.objs : \A a \in DOMAIN c.cols :
              RowClass(c, o) \in {RowClass(c, x) : x \in c.cols[a]} <=> o \in c.cols[a]
<1> DEFINE A == DOMAIN c.cols
           O == c.objs
           cls(a) == ColClass(c, a)
<1>1. \A a, b \in A : cls(a) = cls(b) => c.cols[a] = c.cols[b]
  <2> TAKE a, b \in A
  <2> HAVE cls(a) = cls(b)
  <2>1. a \in cls(a)
    BY DEF ColClass
  <2> QED BY <2>1 DEF ColClass
<1>2. \A I \in IntroducerIntents(c) :
        I \in SUBSET A /\ \A a, b \in A : c.cols[a] = c.cols[b] /\ a \in I => b \in I
  <2> TAKE I \in IntroducerIntents(c)
  <2>1. CASE \E o \in O : I = H!Row(c, o)
    BY <2>1 DEF H!Row
  <2>2. CASE \E a \in A : I = Above(c, a)
    BY <2>2 DEF Above
  <2> QED BY <2>1, <2>2 DEF IntroducerIntents
<1>3. \A I \in IntroducerIntents(c) : \A a \in A : cls(a) \in ColClasses(c, I) <=> a \in I
  <2> TAKE I \in IntroducerIntents(c)
  <2> TAKE a \in A
  <2> SUFFICES ASSUME cls(a) \in ColClasses(c, I) PROVE a \in I
    BY DEF ColClasses
  <2>1. PICK b \in I : cls(a) = cls(b)
    BY DEF ColClasses
  <2>2. b \in A
    BY <1>2
  <2>3. c.cols[b] = c.cols[a]
    BY <1>1, <2>1, <2>2
  <2> QED BY <1>2, <2>2, <2>3
<1>4. \A I, J \in IntroducerIntents(c) : ColClasses(c, I) \subseteq ColClasses(c, J) => I \subseteq J
  <2> TAKE I, J \in IntroducerIntents(c)
  <2> HAVE ColClasses(c, I) \subseteq ColClasses(c, J)
  <2> SUFFICES ASSUME NEW a \in I PROVE a \in J
    OBVIOUS
  <2>1. a \in A /\ cls(a) \in ColClasses(c, I)
    BY <1>2 DEF ColClasses
  <2> QED BY <1>3, <2>1
<1>5. \A I, J : I \subseteq J => ColClasses(c, I) \subseteq ColClasses(c, J)
  BY DEF ColClasses
<1>6. \A o \in O : \A a \in A : RowClass(c, o) \in {RowClass(c, x) : x \in c.cols[a]} => o \in c.cols[a]
  <2> TAKE o \in O
  <2> TAKE a \in A
  <2> HAVE RowClass(c, o) \in {RowClass(c, x) : x \in c.cols[a]}
  <2>1. PICK x \in c.cols[a] : RowClass(c, o) = RowClass(c, x)
    OBVIOUS
  <2>2. x \in O
    OBVIOUS
  <2>3. o \in RowClass(c, o)
    BY DEF RowClass
  <2>4. H!Row(c, o) = H!Row(c, x)
    BY <2>1, <2>3 DEF RowClass
  <2>5. a \in H!Row(c, x)
    BY DEF H!Row
  <2> QED BY <2>4, <2>5 DEF H!Row
<1>7. \A I, J \in IntroducerIntents(c) : ColClasses(c, I) = ColClasses(c, J) => I = J
  <2> TAKE I, J \in IntroducerIntents(c)
  <2> HAVE ColClasses(c, I) = ColClasses(c, J)
  <2>1. ColClasses(c, I) \subseteq ColClasses(c, J) /\ ColClasses(c, J) \subseteq ColClasses(c, I)
    OBVIOUS
  <2>2. I \subseteq J /\ J \subseteq I
    BY <1>4, <2>1
  <2> QED BY <2>2
<1> QED BY <1>2, <1>3, <1>4, <1>5, <1>6, <1>7

\* The relation of an attribute class to those above it.
LEMMA DomExact ==
  ASSUME NEW c, c.cols \in [DOMAIN c.cols -> SUBSET c.objs]
  PROVE  \A d : d \in H!DomRelation(AttrClasses(c)) <=>
           \E a \in DOMAIN c.cols : d = H!RefSet(ColClass(c, a), ColClasses(c, Above(c, a)))
<1> DEFINE A == DOMAIN c.cols
           objs(a) == {RowClass(c, o) : o \in c.cols[a]}
           ac(a) == H!RefSet(ColClass(c, a), objs(a))
           AC == AttrClasses(c)
           up(s) == {t.refs : t \in {x \in AC : x = s \/ s.values \subseteq x.values}}
<1>1. \A r, v : H!RefSet(r, v).refs = r /\ H!RefSet(r, v).values = v
  BY DEF H!RefSet
<1>2. \A s : s \in AC <=> \E a \in A : s = ac(a)
  BY DEF AttrClasses
<1>3. \A a, b \in A : objs(a) \subseteq objs(b) <=> c.cols[a] \subseteq c.cols[b]
  <2> TAKE a, b \in A
  <2>1. ASSUME objs(a) \subseteq objs(b) PROVE c.cols[a] \subseteq c.cols[b]
    <3> SUFFICES ASSUME NEW o \in c.cols[a] PROVE o \in c.cols[b]
      OBVIOUS
    <3>1. o \in c.objs /\ RowClass(c, o) \in objs(b)
      BY <2>1
    <3> QED BY <3>1, ClassFacts
  <2> QED BY <2>1
<1>4. \A a \in A : up(ac(a)) = ColClasses(c, Above(c, a))
  <2> TAKE a \in A
  <2> HIDE DEF objs, AC
  <2>1. ASSUME NEW q \in up(ac(a)) PROVE q \in ColClasses(c, Above(c, a))
    <3>1. PICK x \in AC : q = x.refs /\ (x = ac(a) \/ ac(a).values \subseteq x.values)
      OBVIOUS
    <3>2. PICK b \in A : x = ac(b)
      BY <1>2
    <3>3. x.refs = ColClass(c, b) /\ x.values = objs(b) /\ ac(a).values = objs(a)
      BY <1>1, <3>2
    <3>4. c.cols[a] \subseteq c.cols[b]
      BY <1>3, <3>1, <3>3
    <3> QED BY <3>1, <3>3, <3>4 DEF ColClasses, Above
  <2>2. ASSUME NEW b \in Above(c, a) PROVE ColClass(c, b) \in up(ac(a))
    <3> DEFINE x == ac(b)
    <3>1. b \in A /\ objs(a) \subseteq objs(b)
      BY <1>3 DEF Above
    <3>2. x \in AC /\ x.refs = ColClass(c, b) /\ ac(a).values \subseteq x.values
      BY <1>1, <1>2, <3>1
    <3> HIDE DEF x, ac
    <3> QED BY <3>2
  <2> HIDE DEF up
  <2> QED BY <2>1, <2>2 DEF ColClasses
<1>5. H!DomRelation(AC) = {H!RefSet(s.refs, up(s)) : s \in AC}
  BY DEF H!DomRelation
<1> HIDE DEF up, objs, AC
<1> TAKE d
<1>6. ASSUME NEW s \in AC, d = H!RefSet(s.refs, up(s))
      PROVE  \E a \in A : d = H!RefSet(ColClass(c, a), ColClasses(c, Above(c, a)))
  <2>1. PICK a \in A : s = ac(a)
    BY <1>2
  <2>2. s.refs = ColClass(c, a)
    BY <1>1, <2>1
  <2>3. up(s) = ColClasses(c, Above(c, a))
    BY <1>4, <2>1
  <2> QED BY <1>6, <2>2, <2>3
<1>7. ASSUME NEW a \in A, d = H!RefSet(ColClass(c, a), ColClasses(c, Above(c, a)))
      PROVE  \E s \in AC : d = H!RefSet(s.refs, up(s))
  <2>1. ac(a) \in AC /\ ac(a).refs = ColClass(c, a) /\ up(ac(a)) = ColClasses(c, Above(c, a))
    BY <1>1, <1>2, <1>4
  <2> HIDE DEF ac
  <2> QED BY <1>7, <2>1
<1> QED BY <1>5, <1>6, <1>7 DEF AC

\* The concepts made of the classes are those that introduce something, each
\* with what it introduces.
LEMMA ConceptsExact ==
  ASSUME NEW c, c.cols \in [DOMAIN c.cols -> SUBSET c.objs]
  PROVE  H!ConceptSets(ObjClasses(c), H!DomRelation(AttrClasses(c))) =
           {HConcept(c, I) : I \in IntroducerIntents(c)}
<1> DEFINE A == DOMAIN c.cols
           O == c.objs
           II == IntroducerIntents(c)
           OC == ObjClasses(c)
           DC == H!DomRelation(AttrClasses(c))
           int(v) == UNION {d.refs : d \in {x \in DC : x.values = v}}
           ext(v) == UNION {s.refs : s \in {x \in OC : x.values = v}}
<1>1. \A r, v : H!RefSet(r, v).refs = r /\ H!RefSet(r, v).values = v
  BY DEF H!RefSet
<1>2. \A s : s \in OC <=> \E o \in O : s = H!RefSet(RowClass(c, o), ColClasses(c, H!Row(c, o)))
  BY DEF ObjClasses
<1>3. \A d : d \in DC <=> \E a \in A : d = H!RefSet(ColClass(c, a), ColClasses(c, Above(c, a)))
  BY DomExact
<1>4. (\A o \in O : H!Row(c, o) \in II) /\ (\A a \in A : Above(c, a) \in II)
  BY DEF IntroducerIntents
<1>5. H!ConceptSets(OC, DC) =
        {[ext |-> ext(v), int |-> int(v), values |-> v] : v \in {s.values : s \in OC \cup DC}}
  BY DEF H!ConceptSets
<1> HIDE DEF OC, DC
<1>6. \A I \in II : int(ColClasses(c, I)) = {a \in A : Above(c, a) = I}
  <2> TAKE I \in II
  <2> DEFINE v == ColClasses(c, I)
  <2>1. ASSUME NEW d \in DC, d.values = v, NEW b \in d.refs PROVE b \in A /\ Above(c, b) = I
    <3>1. PICK a \in A : d = H!RefSet(ColClass(c, a), ColClasses(c, Above(c, a)))
      BY <1>3
    <3>2. d.refs = ColClass(c, a) /\ d.values = ColClasses(c, Above(c, a))
      BY <1>1, <3>1
    <3>3. b \in A /\ c.cols[b] = c.cols[a]
      BY <2>1, <3>2 DEF ColClass
    <3>4. Above(c, a) = I
      BY <1>4, <2>1, <3>2, ClassFacts
    <3> QED BY <3>3, <3>4 DEF Above
  <2>2. ASSUME NEW a \in A, Above(c, a) = I PROVE \E d \in DC : d.values = v /\ a \in d.refs
    <3> DEFINE d == H!RefSet(ColClass(c, a), ColClasses(c, Above(c, a)))
    <3>1. d \in DC /\ d.values = v /\ d.refs = ColClass(c, a)
      BY <1>1, <1>3, <2>2
    <3>2. a \in ColClass(c, a)
      BY DEF ColClass
    <3> HIDE DEF d
    <3> QED BY <3>1, <3>2
  <2> HIDE DEF v
  <2>3. int(v) = {a \in A : Above(c, a) = I}
    BY <2>1, <2>2
  <2> QED BY <2>3 DEF v
<1>7. \A I \in II : ext(ColClasses(c, I)) = {o \in O : H!Row(c, o) = I}
  <2> TAKE I \in II
  <2> DEFINE v == ColClasses(c, I)
  <2>1. ASSUME NEW d \in OC, d.values = v, NEW b \in d.refs PROVE b \in O /\ H!Row(c, b) = I
    <3>1. PICK o \in O : d = H!RefSet(RowClass(c, o), ColClasses(c, H!Row(c, o)))
      BY <1>2
    <3>2. d.refs = RowClass(c, o) /\ d.values = ColClasses(c, H!Row(c, o))
      BY <1>1, <3>1
    <3>3. b \in O /\ H!Row(c, b) = H!Row(c, o)
      BY <2>1, <3>2 DEF RowClass
    <3>4. H!Row(c, o) = I
      BY <1>4, <2>1, <3>2, ClassFacts
    <3> QED BY <3>3, <3>4
  <2>2. ASSUME NEW o \in O, H!Row(c, o) = I PROVE \E d \in OC : d.values = v /\ o \in d.refs
    <3> DEFINE d == H!RefSet(RowClass(c, o), ColClasses(c, H!Row(c, o)))
    <3>1. d \in OC /\ d.values = v /\ d.refs = RowClass(c, o)
      BY <1>1, <1>2, <2>2
    <3>2. o \in RowClass(c, o)
      BY DEF RowClass
    <3> HIDE DEF d
    <3> QED BY <3>1, <3>2
  <2> HIDE DEF v
  <2>3. ext(v) = {o \in O : H!Row(c, o) = I}
    BY <2>1, <2>2
  <2> QED BY <2>3 DEF v
<1>8. \A v : v \in {s.values : s \in OC \cup DC} <=> \E I \in II : v = ColClasses(c, I)
  <2> TAKE v
  <2>1. ASSUME NEW s \in OC \cup DC, v = s.values PROVE \E I \in II : v = ColClasses(c, I)
    <3>1. CASE s \in OC
      <4>1. PICK o \in O : s = H!RefSet(RowClass(c, o), ColClasses(c, H!Row(c, o)))
        BY <1>2, <3>1
      <4>2. v = ColClasses(c, H!Row(c, o))
        BY <1>1, <2>1, <4>1
      <4> QED BY <1>4, <4>2
    <3>2. CASE s \in DC
      <4>1. PICK a \in A : s = H!RefSet(ColClass(c, a), ColClasses(c, Above(c, a)))
        BY <1>3, <3>2
      <4>2. v = ColClasses(c, Above(c, a))
        BY <1>1, <2>1, <4>1
      <4> QED BY <1>4, <4>2
    <3> QED BY <3>1, <3>2
  <2>2. ASSUME NEW I \in II, v = ColClasses(c, I) PROVE \E s \in OC \cup DC : v = s.values
    <3>1. CASE \E o \in O : I = H!Row(c, o)
      <4>1. PICK o \in O : I = H!Row(c, o)
        BY <3>1
      <4> DEFINE s == H!RefSet(RowClass(c, o), ColClasses(c, H!Row(c, o)))
      <4>2. s \in OC /\ s.values = v
        BY <1>1, <1>2, <2>2, <4>1
      <4> HIDE DEF s
      <4> QED BY <4>2
    <3>2. CASE \E a \in A : I = Above(c, a)
      <4>1. PICK a \in A : I = Above(c, a)
        BY <3>2
      <4> DEFINE s == H!RefSet(ColClass(c, a), ColClasses(c, Above(c, a)))
      <4>2. s \in DC /\ s.values = v
        BY <1>1, <1>3, <2>2, <4>1
      <4> HIDE DEF s
      <4> QED BY <4>2
    <3> QED BY <3>1, <3>2 DEF IntroducerIntents
  <2> QED BY <2>1, <2>2
<1>9. \A I \in II : HConcept(c, I) =
        [ext |-> ext(ColClasses(c, I)), int |-> int(ColClasses(c, I)), values |-> ColClasses(c, I)]
  <2> HIDE DEF ext, int
  <2> QED BY <1>6, <1>7 DEF HConcept
<1> HIDE DEF ext, int, II
<1> DEFINE rec(v) == [ext |-> ext(v), int |-> int(v), values |-> v]
<1>10. {rec(v) : v \in {s.values : s \in OC \cup DC}} = {HConcept(c, I) : I \in II}
  <2>1. \A I \in II : HConcept(c, I) = rec(ColClasses(c, I))
    BY <1>9
  <2> HIDE DEF rec
  <2> QED BY <1>8, <2>1
<1> QED BY <1>5, <1>10 DEF II, OC, DC

\* What the linking needs of a concept: a finite set of values that is its own.
LEMMA ValuesApart ==
  ASSUME NEW c, c.cols \in [DOMAIN c.cols -> SUBSET c.objs], IsFiniteSet(DOMAIN c.cols)
  PROVE  /\ \A I \in IntroducerIntents(c) : IsFiniteSet(HConcept(c, I).values)
         /\ \A I, J \in IntroducerIntents(c) :
              HConcept(c, I).values = HConcept(c, J).values => I = J
<1>1. \A I : HConcept(c, I).values = ColClasses(c, I)
  BY DEF HConcept
<1>2. ASSUME NEW I \in IntroducerIntents(c) PROVE IsFiniteSet(ColClasses(c, I))
  <2>1. I \in SUBSET DOMAIN c.cols
    BY ClassFacts
  <2>2. IsFiniteSet(I)
    BY <2>1, FS_Subset
  <2>3. ColClasses(c, I) = {ColClass(c, a) : a \in I}
    BY DEF ColClasses
  <2> DEFINE f == [a \in I |-> ColClass(c, a)]
  <2>4. ColClasses(c, I) = {f[a] : a \in I}
    BY <2>3
  <2> HIDE DEF f
  <2> QED BY <2>2, <2>4, FiniteImage
<1> QED BY <1>1, <1>2, ClassFacts

\* The comparison of two concepts, by one look at the context or by their
\* values, tells which is above.
LEMMA ParentRight ==
  ASSUME ctx.cols \in [DOMAIN ctx.cols -> SUBSET ctx.objs],
         DOMAIN ctx.cols \subseteq Nat, ctx.objs \subseteq Nat,
         NEW I \in IntroducerIntents(ctx), NEW J \in IntroducerIntents(ctx)
  PROVE  LET T == HConcept(ctx, I)
             S == HConcept(ctx, J)
         IN  H!IsParent(T, S) <=> S.values \subseteq T.values
<1> DEFINE T == HConcept(ctx, I)
           S == HConcept(ctx, J)
           A == DOMAIN ctx.cols
           O == ctx.objs
<1>1. /\ T.ext = {o \in O : H!Row(ctx, o) = I}
      /\ S.ext = {o \in O : H!Row(ctx, o) = J} /\ S.int = {a \in A : Above(ctx, a) = J}
      /\ T.values = ColClasses(ctx, I) /\ S.values = ColClasses(ctx, J)
  BY DEF HConcept
<1>2. S.values \subseteq T.values <=> J \subseteq I
  BY <1>1, ClassFacts
<1>3. \A X : X \subseteq Nat /\ X # {} => H!LeastOf(X) \in X
  <2> TAKE X
  <2> HAVE X \subseteq Nat /\ X # {}
  <2>1. \E x \in X : \A y \in X : x <= y
    BY HasLeast
  <2> QED BY <2>1 DEF H!LeastOf
<1>4. ASSUME T.ext # {}, S.ext = {}
      PROVE  H!LeastOf(S.int) \in H!Row(ctx, H!LeastOf(T.ext)) <=> J \subseteq I
  <2>1. S.int # {}
    BY <1>1, <1>4 DEF IntroducerIntents
  <2>2. PICK o \in T.ext : o = H!LeastOf(T.ext)
    BY <1>1, <1>3, <1>4
  <2>3. PICK a \in S.int : a = H!LeastOf(S.int)
    BY <1>1, <1>3, <2>1
  <2>4. o \in O /\ H!Row(ctx, o) = I /\ a \in A /\ Above(ctx, a) = J
    BY <1>1
  <2>5. a \in J
    BY <2>4 DEF Above
  <2>6. a \in I => J \subseteq I
    BY <2>4 DEF Above, H!Row
  <2> QED BY <2>2, <2>3, <2>4, <2>5, <2>6
<1> HIDE DEF T, S
<1>5. H!IsParent(T, S) <=> S.values \subseteq T.values
  BY <1>2, <1>4 DEF H!IsParent
<1> QED BY <1>5 DEF T, S
-----------------------------------------------------------------------------
(* The linear extension, and the invariant of the whole run.               *)

\* Objects are numbers, and attributes numbered from 0, as the readers of the
\* native code number them (fca4j_jni.c).
HermesAssumption ==
  \A c \in HermesContexts :
    /\ c.objs \subseteq Nat
    /\ \E m \in Nat : c.cols \in [0 .. m - 1 -> SUBSET c.objs]

\* The concepts to be placed.
Family(c) == {HConcept(c, I) : I \in IntroducerIntents(c)}

\* Those of F that are placed, one after the other, and those that are left:
\* the more values the sooner.
ArrangedIn(F, left, placed) ==
  /\ placed \in Seq(F) /\ F = left \cup {placed[k] : k \in 1 .. Len(placed)}
  /\ \A j, k \in 1 .. Len(placed) :
       /\ placed[j] = placed[k] => j = k
       /\ j < k => Cardinality(placed[k].values) <= Cardinality(placed[j].values)
  /\ \A k \in 1 .. Len(placed) :
       /\ placed[k] \notin left
       /\ \A x \in left : Cardinality(x.values) <= Cardinality(placed[k].values)

\* <<x, y>>: the concept at y is above the one at x.
BelowOf(placed) ==
  {e \in (0 .. Len(placed) - 1) \X (0 .. Len(placed) - 1) :
     e[1] # e[2] /\ placed[e[2] + 1].values \subseteq placed[e[1] + 1].values}

\* The order on places is inclusion of values the other way.
LEMMA BelowPairs ==
  ASSUME NEW placed, NEW x, NEW y
  PROVE  <<x, y>> \in BelowOf(placed) <=>
           /\ x \in 0 .. Len(placed) - 1 /\ y \in 0 .. Len(placed) - 1
           /\ x # y /\ placed[y + 1].values \subseteq placed[x + 1].values
BY DEF BelowOf

\* The placed concepts are a linear extension: the more values the sooner.
LEMMA PlacedLinear ==
  ASSUME NEW F, NEW left, NEW placed, ArrangedIn(F, left, placed),
         \A x \in F : IsFiniteSet(x.values), \A x, y \in F : x.values = y.values => x = y
  PROVE  Linear(BelowOf(placed))
<1> DEFINE B == BelowOf(placed)
           n == Len(placed)
           v(x) == placed[x + 1].values
<1>1. n \in Nat
  BY DEF ArrangedIn
<1>2. B \in SUBSET (Nat \X Nat)
  BY <1>1 DEF BelowOf
<1>3. \A x, y \in 0 .. n - 1 : x # y /\ v(y) \subseteq v(x) => x < y
  <2> TAKE x, y \in 0 .. n - 1
  <2> HAVE x # y /\ v(y) \subseteq v(x)
  <2>1. x \in Nat /\ y \in Nat /\ x + 1 \in 1 .. n /\ y + 1 \in 1 .. n
    BY <1>1
  <2>2. placed[x + 1] \in F /\ placed[y + 1] \in F /\ placed[x + 1] # placed[y + 1]
    <3>1. x + 1 # y + 1
      BY <2>1
    <3> QED BY <2>1, <3>1 DEF ArrangedIn
  <2>3. IsFiniteSet(v(x)) /\ v(x) # v(y)
    BY <2>2
  <2>4. Cardinality(v(x)) \in Nat /\ Cardinality(v(y)) \in Nat
    <3>1. IsFiniteSet(v(y))
      BY <2>2
    <3> HIDE DEF v
    <3> QED BY <2>3, <3>1, FS_CardinalityType
  <2>5. Cardinality(v(y)) < Cardinality(v(x))
    <3>1. v(y) \in SUBSET v(x)
      OBVIOUS
    <3> HIDE DEF v
    <3>2. Cardinality(v(y)) <= Cardinality(v(x)) /\ Cardinality(v(x)) # Cardinality(v(y))
      BY <2>3, <3>1, FS_Subset
    <3> QED BY <2>4, <3>2
  <2>6. ~ (y < x)
    <3> SUFFICES ASSUME y < x PROVE FALSE
      OBVIOUS
    <3>1. y + 1 < x + 1
      BY <2>1
    <3>2. Cardinality(v(x)) <= Cardinality(v(y))
      BY <2>1, <3>1 DEF ArrangedIn
    <3> HIDE DEF v
    <3> QED BY <2>4, <2>5, <3>2
  <2> QED BY <2>1, <2>6
<1>4. \A x, y \in Nat : <<x, y>> \in B => x < y
  BY <1>3, BelowPairs
<1>5. \A x, y, z \in Nat : <<x, y>> \in B /\ <<y, z>> \in B => <<x, z>> \in B
  <2> TAKE x, y, z \in Nat
  <2> HAVE <<x, y>> \in B /\ <<y, z>> \in B
  <2>1. x < y /\ y < z
    BY <1>4
  <2>2. x # z
    BY <2>1
  <2> QED BY <2>2, BelowPairs
<1> QED BY <1>2, <1>4, <1>5 DEF Linear

\* One of those with the most values comes next.
LEMMA PlaceNext ==
  ASSUME NEW F, NEW left, NEW placed, ArrangedIn(F, left, placed),
         \A x \in F : IsFiniteSet(x.values), \A x, y \in F : x.values = y.values => x = y,
         NEW c \in left, \A x \in left : Cardinality(x.values) <= Cardinality(c.values)
  PROVE  LET B == BelowOf(placed)
             D == BelowOf(Append(placed, c))
         IN  /\ ArrangedIn(F, left \ {c}, Append(placed, c))
             /\ \A x, y \in Nat : <<x, y>> \in D => y <= Len(placed)
             /\ \A x, y \in Nat : y <= Len(placed) - 1 => (<<x, y>> \in D <=> <<x, y>> \in B)
<1> DEFINE n == Len(placed)
           new == Append(placed, c)
           B == BelowOf(placed)
           D == BelowOf(new)
           size(x) == Cardinality(x.values)
<1>1. /\ n \in Nat /\ placed \in Seq(F) /\ c \in F
      /\ \A k \in 1 .. n : placed[k] \in F
  BY DEF ArrangedIn
<1>2. /\ Len(new) = n + 1 /\ new[n + 1] = c /\ new \in Seq(F)
      /\ \A k \in 1 .. n : new[k] = placed[k]
  BY <1>1
<1>3. 1 .. n + 1 = (1 .. n) \cup {n + 1} /\ n + 1 \notin 1 .. n
  BY <1>1
<1> HIDE DEF new, n
<1>4. ArrangedIn(F, left \ {c}, new)
  <2>1. F = (left \ {c}) \cup {new[k] : k \in 1 .. n + 1}
    BY <1>1, <1>2, <1>3 DEF ArrangedIn, n
  <2>2. ASSUME NEW j \in 1 .. n + 1, NEW k \in 1 .. n + 1
        PROVE  (new[j] = new[k] => j = k) /\ (j < k => size(new[k]) <= size(new[j]))
    <3>1. CASE j \in 1 .. n /\ k \in 1 .. n
      BY <1>2, <3>1 DEF ArrangedIn, n
    <3>2. CASE j \in 1 .. n /\ k = n + 1
      BY <1>1, <1>2, <3>2 DEF ArrangedIn, n
    <3>3. CASE j = n + 1 /\ k \in 1 .. n
      <4>1. ~ (j < k)
        BY <1>1, <3>3
      <4> QED BY <1>1, <1>2, <3>3, <4>1 DEF ArrangedIn, n
    <3>4. CASE j = n + 1 /\ k = n + 1
      BY <1>1, <3>4
    <3> QED BY <1>3, <3>1, <3>2, <3>3, <3>4
  <2>3. ASSUME NEW k \in 1 .. n + 1
        PROVE  new[k] \notin left \ {c} /\ \A x \in left \ {c} : size(x) <= size(new[k])
    BY <1>1, <1>2, <1>3 DEF ArrangedIn, n
  <2> QED BY <1>2, <2>1, <2>2, <2>3 DEF ArrangedIn
<1>5. Linear(D)
  BY <1>4, PlacedLinear
<1>6. \A x, y \in Nat : <<x, y>> \in D => y <= n
  <2> TAKE x, y \in Nat
  <2> HAVE <<x, y>> \in D
  <2>1. y \in 0 .. (n + 1) - 1
    BY <1>2, BelowPairs
  <2> QED BY <1>1, <2>1
<1>7. \A x, y \in Nat : y <= n - 1 => (<<x, y>> \in D <=> <<x, y>> \in B)
  <2> SUFFICES ASSUME NEW x \in Nat, NEW y \in Nat, y <= n - 1
               PROVE  <<x, y>> \in D <=> <<x, y>> \in B
    OBVIOUS
  <2>1. y \in 0 .. n - 1 /\ y + 1 \in 1 .. n /\ (n + 1) - 1 = n
    BY <1>1
  <2>2. <<x, y>> \in D <=>
          x \in 0 .. n /\ y \in 0 .. n /\ x # y /\ new[y + 1].values \subseteq new[x + 1].values
    BY <1>2, <2>1, BelowPairs
  <2>3. <<x, y>> \in B <=>
          x \in 0 .. n - 1 /\ y \in 0 .. n - 1 /\ x # y
            /\ placed[y + 1].values \subseteq placed[x + 1].values
    BY BelowPairs DEF n
  <2>4. <<x, y>> \in D => x < y
    BY <1>5 DEF Linear
  <2>5. x < y => x \in 0 .. n - 1 /\ x \in 0 .. n /\ y \in 0 .. n /\ x + 1 \in 1 .. n
    BY <1>1, <2>1
  <2>6. x \in 0 .. n - 1 => x \in 0 .. n /\ y \in 0 .. n /\ x + 1 \in 1 .. n
    BY <1>1, <2>1
  <2>7. \A k \in 1 .. n : new[k] = placed[k]
    BY <1>2
  <2> QED BY <2>1, <2>2, <2>3, <2>4, <2>5, <2>6, <2>7
<1> QED BY <1>4, <1>6, <1>7 DEF new, n

\* The scan is where it should be among the concepts placed, the sets are
\* passed on that far, and the edges wait for the end.
HermesInv ==
  /\ ctx \in HermesContexts
  /\ {"left", "placed", "scan"} \subseteq DOMAIN st
  /\ ArrangedIn(Family(ctx), st.left, st.placed)
  /\ Scanned(st.scan, BelowOf(st.placed)) /\ st.scan.s = Len(st.placed) - 1
  /\ {"n", "ext", "int", "rext", "rint", "edges", "maximals", "minimals"} \subseteq DOMAIN ord
  /\ ord.n = Len(st.placed) /\ ord.rext = [c \in DOMAIN ord.rext |-> ord.rext[c]]
  /\ FullSoFar(st.scan, BelowOf(st.placed), ord.ext, ord.int, ord.rext, ord.rint)
  /\ \A c \in 0 .. st.scan.s : /\ ord.rext[c] = st.placed[c + 1].ext
                               /\ ord.rint[c] = st.placed[c + 1].int
  /\ \/ ord.edges = {} /\ result = Null
     \/ /\ H!AtRest(st.scan) /\ st.left = {} /\ ord.edges = st.scan.children
        /\ result \in {Null, H!CoToFlat(ord)}

\* Both modules take Cardinality from FiniteSets.
LEMMA CardinalityHere ==
  ASSUME NEW S
  PROVE  H!Cardinality(S) = Cardinality(S)
BY DEF H!Cardinality, Cardinality

\* A context has finitely many attributes, and concepts that differ in values.
LEMMA HermesContext ==
  ASSUME HermesAssumption, NEW c \in HermesContexts
  PROVE  /\ c.objs \subseteq Nat /\ DOMAIN c.cols \subseteq Nat
         /\ c.cols \in [DOMAIN c.cols -> SUBSET c.objs] /\ IsFiniteSet(DOMAIN c.cols)
         /\ \A x \in Family(c) : IsFiniteSet(x.values)
         /\ \A x, y \in Family(c) : x.values = y.values => x = y
<1>1. PICK m \in Nat : c.cols \in [0 .. m - 1 -> SUBSET c.objs]
  BY DEF HermesAssumption
<1>2. DOMAIN c.cols = 0 .. m - 1
  BY <1>1
<1>3. IsFiniteSet(0 .. m - 1)
  BY FS_Interval
<1>4. /\ c.objs \subseteq Nat /\ DOMAIN c.cols \subseteq Nat
      /\ c.cols \in [DOMAIN c.cols -> SUBSET c.objs] /\ IsFiniteSet(DOMAIN c.cols)
  BY <1>1, <1>2, <1>3 DEF HermesAssumption
<1>5. \A x \in Family(c) : IsFiniteSet(x.values)
  BY <1>4, ValuesApart DEF Family
<1>6. \A x, y \in Family(c) : x.values = y.values => x = y
  BY <1>4, ValuesApart DEF Family
<1> QED BY <1>4, <1>5, <1>6

\* Nothing is placed at first, and all is to be.
LEMMA HermesInit ==
  ASSUME HermesAssumption, H!Init
  PROVE  HermesInv
<1>1. ctx \in HermesContexts /\ ord = H!CoEmpty /\ result = Null
  BY DEF H!Init
<1>2. st = [left |-> Family(ctx), placed |-> << >>, scan |-> H!ScanStart]
  <2>1. ctx.cols \in [DOMAIN ctx.cols -> SUBSET ctx.objs]
    BY <1>1, HermesContext
  <2>2. st = [left |-> H!ConceptSets(H!ClarifyBoth.objs, H!DomRelation(H!ClarifyBoth.attrs)),
              placed |-> << >>, scan |-> H!ScanStart]
    BY DEF H!Init
  <2>3. H!ClarifyBoth.objs = ObjClasses(ctx) /\ H!ClarifyBoth.attrs = AttrClasses(ctx)
    BY <2>1, ClarifyExact
  <2> QED BY <2>1, <2>2, <2>3, ConceptsExact DEF Family
<1>3. st.left = Family(ctx) /\ st.placed = << >> /\ st.scan = H!ScanStart
  BY <1>2
<1>4. Len(st.placed) = 0 /\ 1 .. Len(st.placed) = {} /\ 0 .. Len(st.placed) - 1 = {}
  BY <1>3
<1>5. ArrangedIn(Family(ctx), st.left, st.placed)
  BY <1>3, <1>4 DEF ArrangedIn
<1>6. BelowOf(st.placed) = {}
  BY <1>4 DEF BelowOf
<1>7. /\ H!ScanStart.s = -1 /\ H!ScanStart.prev = -1
      /\ H!ScanStart.visited = {} /\ H!ScanStart.children = {}
      /\ H!ScanStart \in ScanState
  BY DEF H!ScanStart, ScanState
<1>8. \A x, y \in Nat : ~ Next2({}, x, y)
  BY DEF Next2
<1>9. Scanned(H!ScanStart, {})
  BY <1>7, <1>8 DEF Scanned
<1>10. /\ ord.n = 0 /\ ord.ext = << >> /\ ord.int = << >> /\ ord.rext = << >> /\ ord.rint = << >>
       /\ ord.edges = {}
       /\ {"n", "ext", "int", "rext", "rint", "edges", "maximals", "minimals"} \subseteq DOMAIN ord
  BY <1>1 DEF H!CoEmpty
<1>11. 0 .. st.scan.s = {} /\ DOMAIN << >> = {}
  BY <1>3, <1>7
<1>12. FullSoFar(st.scan, {}, ord.ext, ord.int, ord.rext, ord.rint)
  BY <1>10, <1>11 DEF FullSoFar
<1>13. {"left", "placed", "scan"} \subseteq DOMAIN st
  BY <1>2
<1>14. Scanned(st.scan, BelowOf(st.placed)) /\ st.scan.s = Len(st.placed) - 1
  <2>1. Scanned(st.scan, BelowOf(st.placed))
    BY <1>3, <1>6, <1>9
  <2>2. st.scan.s = -1 /\ Len(st.placed) = 0
    BY <1>3, <1>4, <1>7
  <2> QED BY ONLY <2>1, <2>2
<1>15. FullSoFar(st.scan, BelowOf(st.placed), ord.ext, ord.int, ord.rext, ord.rint)
  BY <1>6, <1>12
<1>16. \A c \in 0 .. st.scan.s : ord.rext[c] = st.placed[c + 1].ext /\ ord.rint[c] = st.placed[c + 1].int
  BY <1>11
<1>17. ord.n = Len(st.placed) /\ ord.rext = [c \in DOMAIN ord.rext |-> ord.rext[c]]
  BY <1>4, <1>10
<1> QED BY <1>1, <1>5, <1>10, <1>13, <1>14, <1>15, <1>16, <1>17 DEF HermesInv

\* Placing the next concept starts its scan (AddConcept).
LEMMA HermesAdds ==
  ASSUME HermesAssumption, HermesInv, H!AddConcept
  PROVE  HermesInv'
<1> DEFINE F == Family(ctx)
           n == Len(st.placed)
           B == BelowOf(st.placed)
           sc == st.scan
<1>1. PICK c \in st.left :
        /\ \A x \in st.left : H!Cardinality(x.values) <= H!Cardinality(c.values)
        /\ ord' = H!CoAddConcept(ord, c.ext, c.int, c.ext, c.int)
        /\ st' = [st EXCEPT !.left = @ \ {c}, !.placed = Append(@, c), !.scan = H!BeginNext(@)]
  BY DEF H!AddConcept
<1>2. H!AtRest(sc) /\ ctx' = ctx /\ result' = result
  BY DEF H!AddConcept
<1>3. /\ ctx \in HermesContexts /\ {"left", "placed", "scan"} \subseteq DOMAIN st /\ st.left # {}
      /\ ArrangedIn(F, st.left, st.placed) /\ Scanned(sc, B) /\ sc.s = n - 1
      /\ {"n", "ext", "int", "rext", "rint", "edges", "maximals", "minimals"} \subseteq DOMAIN ord
      /\ ord.n = n /\ FullSoFar(sc, B, ord.ext, ord.int, ord.rext, ord.rint)
      /\ \A k \in 0 .. sc.s : ord.rext[k] = st.placed[k + 1].ext /\ ord.rint[k] = st.placed[k + 1].int
      /\ ord.edges = {} /\ result = Null
  BY DEF HermesInv
<1>4. /\ st'.left = st.left \ {c} /\ st'.placed = Append(st.placed, c)
      /\ st'.scan = H!BeginNext(sc) /\ DOMAIN st' = DOMAIN st
  BY <1>1, <1>3
<1>5. \A x \in F : IsFiniteSet(x.values)
  BY <1>3, HermesContext
<1>6. \A x, y \in F : x.values = y.values => x = y
  BY <1>3, HermesContext
<1> HIDE DEF F
<1>7. \A x \in st.left : Cardinality(x.values) <= Cardinality(c.values)
  BY <1>1, CardinalityHere
<1> DEFINE D == BelowOf(Append(st.placed, c))
<1>8. /\ ArrangedIn(F, st.left \ {c}, Append(st.placed, c))
      /\ \A x, y \in Nat : <<x, y>> \in D => y <= n
      /\ \A x, y \in Nat : y <= n - 1 => (<<x, y>> \in D <=> <<x, y>> \in B)
  <2>1. ArrangedIn(F, st.left, st.placed) /\ c \in st.left
    BY <1>3
  <2>2. /\ ArrangedIn(F, st.left \ {c}, Append(st.placed, c))
        /\ \A x, y \in Nat : <<x, y>> \in BelowOf(Append(st.placed, c)) => y <= Len(st.placed)
        /\ \A x, y \in Nat : y <= Len(st.placed) - 1 =>
             (<<x, y>> \in BelowOf(Append(st.placed, c)) <=> <<x, y>> \in BelowOf(st.placed))
    BY ONLY <1>5, <1>6, <1>7, <2>1, PlaceNext
  <2> QED BY <2>2
<1>9. Linear(B) /\ Linear(D)
  BY <1>3, <1>5, <1>6, <1>8, PlacedLinear
<1>10. n \in Nat /\ sc.s + 1 = n /\ sc.prev = -1
  BY <1>2, <1>3 DEF ArrangedIn, H!AtRest
<1>11. /\ \A x, y \in Nat : <<x, y>> \in D => y <= sc.s + 1
       /\ \A x, y \in Nat : y <= sc.s => (<<x, y>> \in D <=> <<x, y>> \in B)
  <2> HIDE DEF D, B, n, sc
  <2> QED BY <1>3, <1>8, <1>10
<1> DEFINE nx == H!BeginNext(sc)
<1>12. Scanned(nx, D)
  <2> HIDE DEF D, B, n, sc
  <2> QED BY <1>3, <1>9, <1>10, <1>11, ScanBegins
<1>13. nx.s = n
  <2>1. sc \in ScanState
    BY <1>3 DEF Scanned
  <2> QED BY <1>10, <2>1 DEF H!BeginNext, ScanState
<1>14. FullSoFar(nx, D, H!Put(ord.ext, n, c.ext), H!Put(ord.int, n, c.int),
                 H!Put(ord.rext, n, c.ext), H!Put(ord.rint, n, c.int))
  <2>1. nx = H!BeginNext(sc)
    OBVIOUS
  <2> HIDE DEF D, B, n, sc, nx
  <2>2. FullSoFar(nx, D, H!Put(ord.ext, nx.s, c.ext), H!Put(ord.int, nx.s, c.int),
                 H!Put(ord.rext, nx.s, c.ext), H!Put(ord.rint, nx.s, c.int))
    BY <1>3, <1>9, <1>10, <1>11, <2>1, FullBegins
  <2> QED BY <1>13, <2>2
<1>15. /\ DOMAIN ord' = DOMAIN ord /\ ord'.n = n + 1 /\ ord'.edges = ord.edges
       /\ ord'.ext = H!Put(ord.ext, n, c.ext) /\ ord'.int = H!Put(ord.int, n, c.int)
       /\ ord'.rext = H!Put(ord.rext, n, c.ext) /\ ord'.rint = H!Put(ord.rint, n, c.int)
  BY <1>1, <1>3 DEF H!CoAddConcept
<1>16. Len(Append(st.placed, c)) = n + 1 /\ Append(st.placed, c)[n + 1] = c
       /\ \A k \in 1 .. n : Append(st.placed, c)[k] = st.placed[k]
  BY <1>3 DEF ArrangedIn
<1>17. \A k \in 0 .. nx.s : /\ ord'.rext[k] = Append(st.placed, c)[k + 1].ext
                            /\ ord'.rint[k] = Append(st.placed, c)[k + 1].int
  <2>1. DOMAIN ord.rext = 0 .. n - 1 /\ DOMAIN ord.rint = 0 .. n - 1
    BY <1>3 DEF FullSoFar
  <2> SUFFICES ASSUME NEW k \in 0 .. n
               PROVE  /\ ord'.rext[k] = Append(st.placed, c)[k + 1].ext
                      /\ ord'.rint[k] = Append(st.placed, c)[k + 1].int
    BY <1>13
  <2>2. CASE k = n
    <3>1. ord'.rext[k] = c.ext /\ ord'.rint[k] = c.int
      BY <1>15, <2>2 DEF H!Put
    <3> HIDE DEF n
    <3> QED BY <1>16, <2>2, <3>1
  <2>3. CASE k # n
    <3>1. k \in 0 .. n - 1 /\ k + 1 \in 1 .. n
      BY <1>10, <2>3
    <3>2. ord'.rext[k] = ord.rext[k] /\ ord'.rint[k] = ord.rint[k]
      BY <1>15, <2>1, <2>3, <3>1 DEF H!Put
    <3> HIDE DEF n
    <3> QED BY <1>3, <1>16, <3>1, <3>2
  <2> QED BY <2>2, <2>3
<1>18. result = Null
  BY <1>3
<1> HIDE DEF D, B, n, sc, nx
<1>19. D = BelowOf(st'.placed) /\ nx = st'.scan /\ Len(st'.placed) = n + 1
  BY <1>4, <1>16 DEF D, nx
<1>20. F = Family(ctx')
  BY <1>2 DEF F
<1>21. nx.s = Len(st'.placed) - 1
  BY <1>10, <1>13, <1>19
<1>22. FullSoFar(nx, D, ord'.ext, ord'.int, ord'.rext, ord'.rint)
  BY <1>14, <1>15
<1>23. ArrangedIn(Family(ctx'), st'.left, st'.placed)
  BY <1>4, <1>8, <1>20
<1>24. {"left", "placed", "scan"} \subseteq DOMAIN st'
  BY <1>3, <1>4
<1>25. {"n", "ext", "int", "rext", "rint", "edges", "maximals", "minimals"} \subseteq DOMAIN ord'
  BY <1>3, <1>15
<1>26. \A k \in 0 .. st'.scan.s : /\ ord'.rext[k] = st'.placed[k + 1].ext
                                  /\ ord'.rint[k] = st'.placed[k + 1].int
  BY <1>4, <1>17, <1>19
<1>27. ctx' \in HermesContexts /\ result' = Null /\ ord'.edges = {} /\ ord'.n = Len(st'.placed)
       /\ ord'.rext = [k \in DOMAIN ord'.rext |-> ord'.rext[k]]
  BY <1>2, <1>3, <1>15, <1>18, <1>19 DEF H!Put
<1>28. Scanned(st'.scan, BelowOf(st'.placed)) /\ st'.scan.s = Len(st'.placed) - 1
  BY <1>12, <1>19, <1>21
<1>29. FullSoFar(st'.scan, BelowOf(st'.placed), ord'.ext, ord'.int, ord'.rext, ord'.rint)
  BY <1>19, <1>22
<1> QED BY <1>23, <1>24, <1>25, <1>26, <1>27, <1>28, <1>29 DEF HermesInv
\* A scan step moves nothing but the scan and what it passes on.
LEMMA HermesScans ==
  ASSUME HermesAssumption, HermesInv, ~ H!AtRest(st.scan),
         NEW nx, st' = [st EXCEPT !.scan = nx],
         Scanned(nx, BelowOf(st.placed)), nx.s = st.scan.s,
         ctx' = ctx, result' = result,
         DOMAIN ord' = DOMAIN ord, ord'.n = ord.n, ord'.edges = ord.edges,
         ord'.rext = ord.rext, ord'.rint = ord.rint,
         FullSoFar(nx, BelowOf(st.placed), ord'.ext, ord'.int, ord.rext, ord.rint)
  PROVE  HermesInv'
<1>1. st'.left = st.left /\ st'.placed = st.placed /\ st'.scan = nx /\ DOMAIN st' = DOMAIN st
  BY DEF HermesInv
<1>2. result = Null /\ result' = Null /\ ord.edges = {}
  BY DEF HermesInv
<1>3. ArrangedIn(Family(ctx'), st'.left, st'.placed)
  BY <1>1 DEF HermesInv
<1>4. ctx' \in HermesContexts /\ {"left", "placed", "scan"} \subseteq DOMAIN st'
      /\ {"n", "ext", "int", "rext", "rint", "edges", "maximals", "minimals"} \subseteq DOMAIN ord'
  BY <1>1 DEF HermesInv
<1>5. Scanned(st'.scan, BelowOf(st'.placed)) /\ st'.scan.s = Len(st'.placed) - 1
  BY <1>1 DEF HermesInv
<1>6. FullSoFar(st'.scan, BelowOf(st'.placed), ord'.ext, ord'.int, ord'.rext, ord'.rint)
  BY <1>1
<1>7. ord'.n = Len(st'.placed) /\ ord'.edges = {}
      /\ ord'.rext = [c \in DOMAIN ord'.rext |-> ord'.rext[c]]
  BY <1>1, <1>2 DEF HermesInv
<1>8. \A c \in 0 .. st'.scan.s : /\ ord'.rext[c] = st'.placed[c + 1].ext
                                 /\ ord'.rint[c] = st'.placed[c + 1].int
  BY <1>1 DEF HermesInv
<1> QED BY <1>2, <1>3, <1>4, <1>5, <1>6, <1>7, <1>8 DEF HermesInv

\* The concepts placed are a linear extension.
LEMMA HermesFacts ==
  ASSUME HermesAssumption, HermesInv
  PROVE  Linear(BelowOf(st.placed))
<1>1. \A x \in Family(ctx) : IsFiniteSet(x.values)
  BY HermesContext DEF HermesInv
<1>2. \A x, y \in Family(ctx) : x.values = y.values => x = y
  BY HermesContext DEF HermesInv
<1>3. ArrangedIn(Family(ctx), st.left, st.placed)
  BY DEF HermesInv
<1> QED BY <1>1, <1>2, <1>3, PlacedLinear

\* A marked concept is passed over (PassOver).
LEMMA HermesPassesOver ==
  ASSUME HermesAssumption, HermesInv, H!PassOver
  PROVE  HermesInv'
<1> DEFINE sc == st.scan
           nx == H!TakeMark(sc)
           B == BelowOf(st.placed)
<1>1. /\ sc.prev # -1 /\ sc.prev \in sc.visited /\ ~ H!AtRest(sc)
      /\ st' = [st EXCEPT !.scan = nx] /\ ctx' = ctx /\ ord' = ord /\ result' = result
  BY DEF H!PassOver, H!AtRest, HermesInv
<1>2. Linear(B) /\ Scanned(sc, B) /\ FullSoFar(sc, B, ord.ext, ord.int, ord.rext, ord.rint)
  BY HermesFacts DEF HermesInv
<1>3. nx.s = sc.s /\ nx.prev = sc.prev - 1
  <2>1. sc \in ScanState
    BY <1>2 DEF Scanned
  <2> QED BY <2>1 DEF H!TakeMark, ScanState
<1> HIDE DEF sc, nx, B
<1>4. Scanned(nx, B) /\ ~ Next2(B, sc.prev, sc.s)
  BY <1>1, <1>2, <1>3, ScanPasses DEF nx
<1>5. FullSoFar(nx, B, ord.ext, ord.int, ord.rext, ord.rint)
  BY <1>1, <1>2, <1>3, <1>4, NothingPassed
<1> QED BY <1>1, <1>3, <1>4, <1>5, HermesScans DEF sc, B

\* A concept that is not marked is compared (Compare).
LEMMA HermesCompares ==
  ASSUME HermesAssumption, HermesInv, H!Compare
  PROVE  HermesInv'
<1> DEFINE sc == st.scan
           t == sc.prev
           s == sc.s
           B == BelowOf(st.placed)
           heirs == {t} \cup H!Unmarked(sc, t)
           parent == H!IsParent(st.placed[t + 1], st.placed[s + 1])
<1>1. sc.prev # -1 /\ sc.prev \notin sc.visited /\ ~ H!AtRest(sc) /\ ctx' = ctx /\ result' = result
  BY DEF H!Compare, H!AtRest
<1>2. /\ Linear(B) /\ Scanned(sc, B) /\ FullSoFar(sc, B, ord.ext, ord.int, ord.rext, ord.rint)
      /\ s = Len(st.placed) - 1 /\ st.placed \in Seq(Family(ctx)) /\ ctx \in HermesContexts
  BY HermesFacts DEF HermesInv, ArrangedIn
<1>3. t \in Nat /\ s \in Nat /\ t < s
  BY <1>1, <1>2, MarkedOrNext
<1>4. t + 1 \in 1 .. Len(st.placed) /\ s + 1 \in 1 .. Len(st.placed)
      /\ t \in 0 .. Len(st.placed) - 1 /\ s \in 0 .. Len(st.placed) - 1 /\ t # s
  BY <1>2, <1>3
<1>5. parent <=> <<t, s>> \in B
  <2>1. PICK I \in IntroducerIntents(ctx) : st.placed[t + 1] = HConcept(ctx, I)
    BY <1>2, <1>4 DEF Family
  <2>2. PICK J \in IntroducerIntents(ctx) : st.placed[s + 1] = HConcept(ctx, J)
    BY <1>2, <1>4 DEF Family
  <2>3. /\ ctx.objs \subseteq Nat /\ DOMAIN ctx.cols \subseteq Nat
        /\ ctx.cols \in [DOMAIN ctx.cols -> SUBSET ctx.objs]
    BY <1>2, HermesContext
  <2>4. H!IsParent(HConcept(ctx, I), HConcept(ctx, J)) <=>
          HConcept(ctx, J).values \subseteq HConcept(ctx, I).values
    BY <2>3, ParentRight
  <2>5. parent <=> st.placed[s + 1].values \subseteq st.placed[t + 1].values
    BY <2>1, <2>2, <2>4
  <2>6. <<t, s>> \in B <=> st.placed[s + 1].values \subseteq st.placed[t + 1].values
    BY <1>4, BelowPairs
  <2> QED BY <2>5, <2>6
<1>6. sc \in ScanState
  BY <1>2 DEF Scanned
<1>7. CASE parent
  <2> DEFINE nx == H!LinkChild(sc)
             ex == [ord.ext EXCEPT ![s] = @ \cup ord.ext[t]]
             in == [c \in DOMAIN ord.int |-> IF c \in heirs THEN ord.int[c] \cup ord.rint[s]
                                             ELSE ord.int[c]]
  <2>1. /\ st' = [st EXCEPT !.scan = nx]
        /\ ord' = [ord EXCEPT !.ext[s] = @ \cup ord.ext[t],
                              !.int = [c \in DOMAIN @ |-> IF c \in heirs THEN @[c] \cup ord.rint[s]
                                                          ELSE @[c]]]
    <3> HIDE DEF heirs
    <3> QED BY <1>7 DEF H!Compare, heirs, HermesInv
  <2>2. /\ DOMAIN ord' = DOMAIN ord /\ ord'.n = ord.n /\ ord'.edges = ord.edges
        /\ ord'.rext = ord.rext /\ ord'.rint = ord.rint /\ ord'.ext = ex /\ ord'.int = in
    <3>1. {"n", "ext", "int", "rext", "rint", "edges"} \subseteq DOMAIN ord
      BY DEF HermesInv
    <3> HIDE DEF heirs, s, t
    <3> QED BY <2>1, <3>1
  <2>3. nx.s = s /\ nx.prev = t - 1
    <3> DEFINE U == H!Unmarked(sc, t)
    <3> HIDE DEF U
    <3> QED BY <1>6 DEF H!LinkChild, ScanState, U
  <2>4. Scanned(nx, B)
    <3> HIDE DEF B, sc, heirs
    <3> QED BY <1>1, <1>2, <1>5, <1>7, ScanLinks
  <2>5. FullSoFar(nx, B, ex, in, ord.rext, ord.rint)
    <3>1. /\ Linear(B) /\ Scanned(sc, B) /\ sc.prev # -1 /\ sc.prev \notin sc.visited
          /\ <<sc.prev, sc.s>> \in B /\ nx.s = sc.s /\ nx.prev = sc.prev - 1
          /\ FullSoFar(sc, B, ord.ext, ord.int, ord.rext, ord.rint)
          /\ heirs = {sc.prev} \cup H!Unmarked(sc, sc.prev)
      BY <1>1, <1>2, <1>5, <1>7, <2>3
    <3> HIDE DEF B, sc, heirs, nx
    <3>2. FullSoFar(nx, B, PassUp(ord.ext, sc.s, sc.prev), PassDown(ord.int, heirs, ord.rint[sc.s]),
                    ord.rext, ord.rint)
      BY ONLY <3>1, FullLinks
    <3> QED BY <3>2 DEF PassUp, PassDown
  <2> HIDE DEF nx, ex, in, heirs
  <2>6. FullSoFar(nx, B, ord'.ext, ord'.int, ord.rext, ord.rint)
    BY <2>2, <2>5
  <2> QED BY <1>1, <2>1, <2>2, <2>3, <2>4, <2>6, HermesScans
<1>8. CASE ~ parent
  <2> DEFINE nx == H!NotBelow(sc)
  <2>1. st' = [st EXCEPT !.scan = nx] /\ ord' = ord
    <3> HIDE DEF heirs
    <3> QED BY <1>8 DEF H!Compare, HermesInv
  <2>2. nx.s = s /\ nx.prev = t - 1
    BY <1>6 DEF H!NotBelow, ScanState
  <2>3. <<t, s>> \notin B
    BY <1>5, <1>8
  <2>4. /\ Linear(B) /\ Scanned(sc, B) /\ sc.prev # -1 /\ sc.prev \notin sc.visited
        /\ <<sc.prev, sc.s>> \notin B /\ nx.s = sc.s /\ nx.prev = sc.prev - 1
        /\ nx = H!NotBelow(sc) /\ FullSoFar(sc, B, ord.ext, ord.int, ord.rext, ord.rint)
    BY <1>1, <1>2, <2>2, <2>3
  <2> HIDE DEF B, sc, nx, heirs
  <2>5. Scanned(nx, B) /\ ~ Next2(B, sc.prev, sc.s)
    BY ONLY <2>4, ScanPasses
  <2>6. FullSoFar(nx, B, ord.ext, ord.int, ord.rext, ord.rint)
    BY ONLY <2>4, <2>5, NothingPassed
  <2>7. FullSoFar(nx, B, ord'.ext, ord'.int, ord.rext, ord.rint)
    BY <2>1, <2>6
  <2> QED BY <1>1, <2>1, <2>2, <2>5, <2>7, HermesScans DEF B, sc
<1> QED BY <1>7, <1>8

\* The edges are posed at the end (PoseEdges).
LEMMA HermesPoses ==
  ASSUME HermesAssumption, HermesInv, H!PoseEdges
  PROVE  HermesInv'
<1>1. /\ H!AtRest(st.scan) /\ st.left = {} /\ result = Null
      /\ ord' = H!CoAddEdges(ord, st.scan.children) /\ result' = H!CoToFlat(ord')
      /\ ctx' = ctx /\ st' = st
  BY DEF H!PoseEdges
<1>2. {"n", "ext", "int", "rext", "rint", "edges", "maximals", "minimals"} \subseteq DOMAIN ord
      /\ ord.edges \in {{}, st.scan.children}
  BY <1>1 DEF HermesInv
<1>3. /\ DOMAIN ord' = DOMAIN ord /\ ord'.n = ord.n /\ ord'.ext = ord.ext /\ ord'.int = ord.int
      /\ ord'.rext = ord.rext /\ ord'.rint = ord.rint
      /\ ord'.edges = ord.edges \cup st.scan.children
  BY <1>1, <1>2 DEF H!CoAddEdges
<1>4. ord'.edges = st'.scan.children
  BY <1>1, <1>2, <1>3
<1> QED BY <1>1, <1>3, <1>4 DEF HermesInv, H!AtRest

\* Every step keeps the invariant.
LEMMA HermesSteps ==
  ASSUME HermesAssumption, HermesInv, [H!Next]_(H!vars)
  PROVE  HermesInv'
<1>1. CASE H!AddConcept
  BY <1>1, HermesAdds
<1>2. CASE H!PassOver
  BY <1>2, HermesPassesOver
<1>3. CASE H!Compare
  BY <1>3, HermesCompares
<1>4. CASE H!PoseEdges
  BY <1>4, HermesPoses
<1>5. CASE UNCHANGED H!vars
  BY <1>5 DEF H!vars, HermesInv, H!AtRest
<1> QED BY <1>1, <1>2, <1>3, <1>4, <1>5 DEF H!Next

\* The invariant of hermes_compute_hasse, between two comparisons as well as
\* between two concepts.
THEOREM HermesKeeps == HermesAssumption /\ H!Spec => []HermesInv
<1> SUFFICES ASSUME HermesAssumption PROVE H!Spec => []HermesInv
  OBVIOUS
<1>1. H!Init => HermesInv
  BY HermesInit
<1>2. HermesInv /\ [H!Next]_(H!vars) => HermesInv'
  BY HermesSteps
<1> QED BY <1>1, <1>2, PTL DEF H!Spec

\* Between two concepts: the placed ones are linked by exactly their covers and
\* their full sets are right (hermes_compute_hasse).
THEOREM HermesPlacedExact == HermesAssumption /\ H!Spec => []H!PlacedExact
<1> SUFFICES ASSUME HermesAssumption PROVE H!Spec => []H!PlacedExact
  OBVIOUS
<1>1. ASSUME HermesInv PROVE H!PlacedExact
  <2> SUFFICES ASSUME H!AtRest(st.scan) PROVE H!PlacedExact
    BY DEF H!PlacedExact
  <2> DEFINE sc == st.scan
             B == BelowOf(st.placed)
             ids == 0 .. sc.s
             v(c) == st.placed[c + 1].values
             above == [c \in ids |-> {x \in ids : v(c) \subseteq v(x)}]
  <2>1. /\ Linear(B) /\ Scanned(sc, B) /\ sc.prev = -1
        /\ FullSoFar(sc, B, ord.ext, ord.int, ord.rext, ord.rint)
        /\ sc.s = Len(st.placed) - 1
    BY <1>1, HermesFacts DEF HermesInv, H!AtRest
  <2>2. /\ sc.visited = {} /\ sc.children \in SUBSET (Nat \X Nat) /\ sc.s \in Int
        /\ \A x, y \in Nat : <<x, y>> \in sc.children <=> Next2(B, x, y) /\ y <= sc.s
    <3> HIDE DEF sc, B
    <3> QED BY <2>1, ScanDone
  <2>3. \A x, y : <<x, y>> \in B <=> x \in ids /\ y \in ids /\ x # y /\ v(y) \subseteq v(x)
    BY <2>1, BelowPairs
  <2>4. \A x, y \in ids : UpTo2(B, x, y) <=> v(y) \subseteq v(x)
    BY <2>3 DEF UpTo2
  <2>5. \A x, y \in ids : Reached(sc, B, x, y) <=> v(y) \subseteq v(x)
    <3> TAKE x, y \in ids
    <3>1. x \in Nat /\ y \in Nat /\ y <= sc.s
      BY <2>2
    <3>2. Reached(sc, B, x, y) <=> UpTo2(B, x, y)
      <4> HIDE DEF sc, B
      <4> QED BY <2>1, <3>1, AllReached
    <3> HIDE DEF B, sc, ids, v
    <3> QED BY <2>4, <3>2
  <2>6. \A t, s \in ids : t # s /\ above[t] \subseteq above[s] <=> <<t, s>> \in B
    <3> TAKE t, s \in ids
    <3>1. above[t] \subseteq above[s] <=> v(s) \subseteq v(t)
      <4> HIDE DEF ids, v
      <4>1. t \in above[t]
        OBVIOUS
      <4>2. ASSUME above[t] \subseteq above[s] PROVE v(s) \subseteq v(t)
        BY <4>1, <4>2
      <4> QED BY <4>2
    <3> HIDE DEF B, ids, v, above
    <3> QED BY <2>3, <3>1
  <2>7. \A e : e \in sc.children <=>
          e \in ids \X ids /\ <<e[1], e[2]>> \in B
            /\ ~ \E z \in ids : <<e[1], z>> \in B /\ <<z, e[2]>> \in B
    <3>1. \A x, y, z : <<x, y>> \in B => x \in ids /\ y \in ids
      BY <2>3
    <3>2. ids \in SUBSET Nat /\ \A y \in ids : y <= sc.s
      BY <2>2
    <3> HIDE DEF sc, B, ids, v
    <3>3. \A x, y \in Nat : <<x, y>> \in sc.children <=>
            x \in ids /\ y \in ids /\ <<x, y>> \in B
              /\ ~ \E z \in ids : <<x, z>> \in B /\ <<z, y>> \in B
      BY <2>2, <3>1, <3>2 DEF Next2
    <3>4. \A e \in sc.children : e = <<e[1], e[2]>> /\ e[1] \in Nat /\ e[2] \in Nat
      BY <2>2
    <3> QED BY <3>2, <3>3, <3>4
  <2>8. H!ScanExact(sc, above)
    <3> DEFINE lies(x, y) == above[x] \subseteq above[y] /\ x # y
               Cov == {e \in ids \X ids : /\ lies(e[1], e[2])
                                          /\ ~ \E x \in ids : lies(e[1], x) /\ lies(x, e[2])}
    <3>1. sc.children = Cov
      <4>1. \A x, y \in ids : lies(x, y) <=> <<x, y>> \in B
        BY <2>6
      <4> HIDE DEF sc, B, ids, v, above, lies
      <4>2. ASSUME NEW e \in ids \X ids PROVE e \in Cov <=> e \in sc.children
        <5>1. e[1] \in ids /\ e[2] \in ids
          OBVIOUS
        <5> QED BY <2>7, <4>1, <5>1
      <4>3. \A e \in sc.children : e \in ids \X ids
        BY <2>7
      <4> QED BY <4>2, <4>3
    <3> HIDE DEF above
    <3> QED BY <2>2, <3>1 DEF H!ScanExact
  <2>9. ASSUME NEW c \in ids
        PROVE  /\ ord.ext[c] = UNION {ord.rext[t] : t \in {x \in ids : v(c) \subseteq v(x)}}
               /\ ord.int[c] = UNION {ord.rint[t] : t \in {x \in ids : v(x) \subseteq v(c)}}
    <3>1. /\ {x \in ids : v(c) \subseteq v(x)} = {x \in ids : Reached(sc, B, x, c)}
          /\ {x \in ids : v(x) \subseteq v(c)} = {x \in ids : Reached(sc, B, c, x)}
      <4> HIDE DEF sc, B, ids, v
      <4> QED BY <2>5
    <3> HIDE DEF B, v
    <3> QED BY <2>1, <3>1 DEF FullSoFar
  <2> QED BY <2>8, <2>9 DEF H!PlacedExact
<1> QED BY <1>1, HermesKeeps, PTL
-----------------------------------------------------------------------------
(* What is handed over is the AOC-poset.                                   *)

\* The extents a flat order stands for, when its edges are the neighbours.
LEMMA FlatFull ==
  ASSUME NEW len \in Nat, NEW B, Linear(B),
         \A x, y \in Nat : <<x, y>> \in B => x < len /\ y < len,
         NEW E \in SUBSET (Nat \X Nat), \A x, y \in Nat : <<x, y>> \in E <=> Next2(B, x, y),
         NEW ord0, ord0.n = len, ord0.edges = H!SetToBag(E), DOMAIN ord0.rext = 0 .. len - 1,
         ord0.rext = [c \in 0 .. len - 1 |-> ord0.rext[c]],
         NEW full, DOMAIN full = 0 .. len - 1, full = [c \in 0 .. len - 1 |-> full[c]],
         \A c \in 0 .. len - 1 :
           full[c] = UNION {ord0.rext[t] : t \in {x \in 0 .. len - 1 : UpTo2(B, x, c)}}
  PROVE  H!FlatExtents(ord0) = full
<1> DEFINE ids == 0 .. len - 1
           r == ord0.rext
           all == UNION {r[t] : t \in ids}
           W == [ids -> SUBSET all]
           ch(c) == {x \in E : x[2] = c}
           step(f) == [c \in DOMAIN f |-> f[c] \cup UNION {f[e[1]] : e \in ch(c)}]
           FF == [k \in 1 .. len |-> [f \in W |-> step(f)]]
           init == [c \in ids |-> r[c]]
<1>1. ids \in SUBSET Nat /\ \A c \in Nat : c < len => c \in ids
  OBVIOUS
<1>2. \A c \in Nat : \A e \in ch(c) : /\ e[1] \in ids /\ e[1] < c /\ <<e[1], c>> \in B
                                      /\ e = <<e[1], c>>
  <2> TAKE c \in Nat
  <2> TAKE e \in ch(c)
  <2>1. e \in Nat \X Nat /\ e[2] = c /\ e = <<e[1], e[2]>>
    OBVIOUS
  <2>2. Next2(B, e[1], c)
    BY <2>1
  <2> QED BY <2>1, <2>2 DEF Next2, Linear
<1>3. init \in W
  <2> HIDE DEF r, ids
  <2>1. \A c \in ids : r[c] \in SUBSET all
    OBVIOUS
  <2> HIDE DEF all
  <2> QED BY <2>1
<1>4. ASSUME NEW f \in W PROVE step(f) \in W /\ \A c \in ids :
        step(f)[c] = f[c] \cup UNION {f[e[1]] : e \in ch(c)}
  <2> HIDE DEF ch, all
  <2>1. DOMAIN f = ids
    OBVIOUS
  <2>2. \A c \in ids : \A e \in ch(c) : f[e[1]] \in SUBSET all
    BY <1>1, <1>2
  <2>3. \A c \in ids : f[c] \cup UNION {f[e[1]] : e \in ch(c)} \in SUBSET all
    BY <2>2
  <2> HIDE DEF ids
  <2> QED BY <2>1, <2>3
<1> HIDE DEF step
<1>5. FF \in [1 .. len -> [W -> W]] /\ \A k \in 1 .. len : \A f \in W : FF[k][f] = step(f)
  <2> HIDE DEF W
  <2> QED BY <1>4
<1> HIDE DEF FF
<1>6. r = init
  OBVIOUS
<1>7. H!FlatExtents(ord0) =
        LET ext[k \in 0 .. len] == IF k = 0 THEN r ELSE step(ext[k - 1]) IN ext[len]
  <2>1. H!BagToSet(ord0.edges) = E
    BY DEF H!BagToSet, H!SetToBag
  <2> QED BY <2>1 DEF H!FlatExtents, step
<1> HIDE DEF W, init, r
<1>8. PICK h : Iterates(h, W, len, init, FF)
  BY <1>3, <1>5, StepByStep
<1>9. h \in [0 .. len -> W] /\ h[0] = init /\ \A k \in 1 .. len : h[k] = step(h[k - 1])
  <2>1. h \in [0 .. len -> W] /\ h[0] = init /\ \A k \in 1 .. len : h[k] = FF[k][h[k - 1]]
    BY <1>8 DEF Iterates
  <2>2. \A k \in 1 .. len : k - 1 \in 0 .. len
    OBVIOUS
  <2> QED BY <1>5, <2>1, <2>2
<1> DEFINE Def(f) == f = [k \in 0 .. len |-> IF k = 0 THEN r ELSE step(f[k - 1])]
           got == CHOOSE f : Def(f)
<1>10. H!FlatExtents(ord0) = got[len]
  BY <1>7
<1>11. Def(h)
  <2>1. \A k \in 0 .. len : h[k] = IF k = 0 THEN r ELSE step(h[k - 1])
    BY <1>6, <1>9
  <2>2. h = [k \in 0 .. len |-> h[k]]
    BY <1>9
  <2> QED BY <2>1, <2>2
<1>12. Def(got)
  <2> HIDE DEF Def
  <2> QED BY <1>11
<1>13. \A k \in 0 .. len : got[k] = IF k = 0 THEN r ELSE step(got[k - 1])
  <2> HIDE DEF got
  <2> QED BY <1>12
<1> HIDE DEF Def, got
\* After k rounds those up to k are right, and none has too much.
<1> DEFINE Good(f, k) == /\ f \in W
                         /\ \A c \in ids : /\ r[c] \subseteq f[c] /\ f[c] \subseteq full[c]
                                           /\ c <= k => f[c] = full[c]
           T == {k \in Nat : k <= len => Good(got[k], k)}
<1>14. \A c \in ids : full[c] = UNION {r[t] : t \in {x \in ids : UpTo2(B, x, c)}}
  BY DEF r
<1>15. \A c \in ids : \A x \in ids : \A o : UpTo2(B, x, c) /\ o \in full[x] => o \in full[c]
  <2> HIDE DEF ids, r
  <2> TAKE c \in ids
  <2> TAKE x \in ids
  <2> TAKE o
  <2> HAVE UpTo2(B, x, c) /\ o \in full[x]
  <2>1. PICK t \in ids : UpTo2(B, t, x) /\ o \in r[t]
    BY <1>14
  <2>2. UpTo2(B, t, c)
    BY <1>1, <2>1 DEF UpTo2, Linear
  <2>3. t \in {y \in ids : UpTo2(B, y, c)}
    BY <2>1, <2>2
  <2>4. full[c] = UNION {r[y] : y \in {z \in ids : UpTo2(B, z, c)}}
    BY <1>14
  <2> QED BY <2>1, <2>3, <2>4
<1>16. \A c \in ids : r[c] \subseteq full[c]
  <2> HIDE DEF ids, r
  <2> TAKE c \in ids
  <2>1. c \in {x \in ids : UpTo2(B, x, c)}
    BY DEF UpTo2
  <2>2. full[c] = UNION {r[t] : t \in {x \in ids : UpTo2(B, x, c)}}
    BY <1>14
  <2> QED BY <2>1, <2>2
<1>17. ASSUME NEW c \in ids, NEW o \in full[c], o \notin r[c]
       PROVE  \E e \in ch(c) : o \in full[e[1]]
  <2>1. PICK t \in ids : UpTo2(B, t, c) /\ o \in r[t]
    <3>1. full[c] = UNION {r[t] : t \in {x \in ids : UpTo2(B, x, c)}}
      BY <1>14
    <3> HIDE DEF ids, r
    <3> QED BY <1>17, <3>1
  <2>2. <<t, c>> \in B /\ t \in Nat /\ c \in Nat
    BY <1>17, <2>1 DEF UpTo2
  <2>3. PICK u \in Nat : Next2(B, u, c) /\ UpTo2(B, t, u)
    BY <2>2, NextBelow
  <2>4. <<u, c>> \in ch(c) /\ u \in ids
    <3>1. <<u, c>> \in E /\ <<u, c>>[2] = c
      BY <2>2, <2>3
    <3>2. u \in ids
      BY <1>1, <2>2, <2>3 DEF Next2
    <3> QED BY <3>1, <3>2
  <2>5. o \in full[u]
    <3> HIDE DEF ids, r, ch
    <3> QED BY <1>14, <2>1, <2>3, <2>4
  <2>6. <<u, c>>[1] = u
    OBVIOUS
  <2> HIDE DEF ch, ids, r
  <2> QED BY <2>4, <2>5, <2>6
<1>18. 0 \in T
  <2>1. got[0] = r
    BY <1>13
  <2>2. \A c \in ids : c <= 0 => r[c] = full[c]
    <3> TAKE c \in ids
    <3> HAVE c <= 0
    <3>1. \A e \in ch(c) : FALSE
      BY <1>1, <1>2
    <3> HIDE DEF ids, r, ch
    <3> QED BY <1>16, <1>17, <3>1
  <2> HIDE DEF ids, r
  <2> QED BY <1>3, <1>6, <1>16, <2>1, <2>2
<1>19. ASSUME NEW k \in Nat, k \in T PROVE k + 1 \in T
  <2> SUFFICES ASSUME k + 1 <= len PROVE Good(got[k + 1], k + 1)
    <3> HIDE DEF Good
    <3> QED OBVIOUS
  <2>1. k <= len /\ k + 1 \in 0 .. len /\ k + 1 # 0 /\ k + 1 - 1 = k
    OBVIOUS
  <2>2. got[k + 1] = step(got[k])
    BY <1>13, <2>1
  <2> DEFINE f == got[k]
             g == step(f)
  <2>3. Good(f, k)
    <3> HIDE DEF Good
    <3> QED BY <1>19, <2>1
  <2> HIDE DEF f
  <2>4. f \in W /\ g \in W /\ \A c \in ids : g[c] = f[c] \cup UNION {f[e[1]] : e \in ch(c)}
    BY <1>4, <2>3
  <2> HIDE DEF g
  <2>5. ASSUME NEW c \in ids
        PROVE  r[c] \subseteq g[c] /\ g[c] \subseteq full[c] /\ (c <= k + 1 => g[c] = full[c])
    <3>1. \A e \in ch(c) : e[1] \in ids /\ UpTo2(B, e[1], c) /\ (c <= k + 1 => e[1] <= k)
      BY <1>1, <1>2 DEF UpTo2
    <3> HIDE DEF ids, r, ch
    <3>2. r[c] \subseteq g[c]
      BY <2>3, <2>4
    <3>3. g[c] \subseteq full[c]
      <4> SUFFICES ASSUME NEW o \in g[c] PROVE o \in full[c]
        OBVIOUS
      <4>1. CASE o \in f[c]
        BY <2>3, <4>1
      <4>2. CASE \E e \in ch(c) : o \in f[e[1]]
        <5>1. PICK e \in ch(c) : o \in f[e[1]]
          BY <4>2
        <5>2. o \in full[e[1]]
          BY <2>3, <3>1, <5>1
        <5> QED BY <1>15, <3>1, <5>2
      <4> QED BY <2>4, <4>1, <4>2
    <3>4. ASSUME c <= k + 1, NEW o \in full[c] PROVE o \in g[c]
      <4>1. CASE o \in r[c]
        BY <3>2, <4>1
      <4>2. CASE o \notin r[c]
        <5>1. PICK e \in ch(c) : o \in full[e[1]]
          BY <1>17, <4>2
        <5>2. o \in f[e[1]]
          BY <2>3, <3>1, <3>4, <5>1
        <5> QED BY <2>4, <5>1, <5>2
      <4> QED BY <4>1, <4>2
    <3> QED BY <3>2, <3>3, <3>4
  <2>6. Good(g, k + 1)
    <3> HIDE DEF ids, r
    <3> QED BY <2>4, <2>5
  <2> HIDE DEF Good
  <2> QED BY <2>2, <2>6 DEF f, g
<1>20. Good(got[len], len)
  <2>1. len \in T
    <3> HIDE DEF T
    <3> QED BY <1>18, <1>19, Induction
  <2> HIDE DEF Good
  <2> QED BY <2>1
<1>21. got[len] = full
  <2>1. \A c \in ids : c <= len
    OBVIOUS
  <2>2. DOMAIN full = ids
    OBVIOUS
  <2>3. got[len] \in [ids -> SUBSET all] /\ \A c \in ids : got[len][c] = full[c]
    <3> HIDE DEF ids, all
    <3> QED BY <1>20, <2>1 DEF W
  <2>4. full = [c \in ids |-> full[c]]
    OBVIOUS
  <2> HIDE DEF ids, all
  <2> QED BY <2>3, <2>4
<1> QED BY <1>10, <1>21

\* The covers of a family of sets, each known by the place it has in ext.
LEMMA CoversPlaced ==
  ASSUME NEW ext, \A c, d \in DOMAIN ext : ext[c] = ext[d] => c = d,
         NEW E, E \in SUBSET ((DOMAIN ext) \X (DOMAIN ext)),
         \A x, y \in DOMAIN ext :
           <<x, y>> \in E <=> /\ ext[x] \subseteq ext[y] /\ x # y
                              /\ ~ \E z \in DOMAIN ext : /\ ext[x] \subseteq ext[z] /\ x # z
                                                         /\ ext[z] \subseteq ext[y] /\ z # y,
         NEW L, L.edges = H!SetToBag(E)
  PROVE  H!IsCoverOrder(L, ext)
<1> DEFINE D == DOMAIN ext
           S == {ext[c] : c \in D}
           id == [X \in S |-> CHOOSE c \in D : ext[c] = X]
           cov == H!Covers(S)
<1>1. \A c \in D : ext[c] \in S /\ id[ext[c]] = c
  <2> TAKE c \in D
  <2>1. ext[c] \in S
    OBVIOUS
  <2>2. id[ext[c]] = CHOOSE d \in D : ext[d] = ext[c]
    BY <2>1
  <2> QED BY <2>1, <2>2
<1>2. \A X \in S : id[X] \in D /\ ext[id[X]] = X
  <2> TAKE X \in S
  <2>1. PICK c \in D : X = ext[c]
    OBVIOUS
  <2> HIDE DEF id, S
  <2> QED BY <1>1, <2>1
<1> HIDE DEF id
<1>3. ASSUME NEW c \in D, NEW d \in D PROVE <<ext[c], ext[d]>> \in cov <=> <<c, d>> \in E
  <2>1. <<ext[c], ext[d]>> \in cov <=>
          /\ ext[c] \subseteq ext[d] /\ ext[c] # ext[d]
          /\ ~ \E X \in S : ext[c] \subseteq X /\ X \subseteq ext[d] /\ X # ext[c] /\ X # ext[d]
    <3>1. ext[c] \in S /\ ext[d] \in S
      OBVIOUS
    <3> HIDE DEF S
    <3> QED BY <3>1 DEF H!Covers
  <2>2. (\E X \in S : ext[c] \subseteq X /\ X \subseteq ext[d] /\ X # ext[c] /\ X # ext[d]) <=>
          \E z \in D : ext[c] \subseteq ext[z] /\ ext[z] \subseteq ext[d] /\ z # c /\ z # d
    <3>1. ASSUME NEW X \in S, ext[c] \subseteq X, X \subseteq ext[d], X # ext[c], X # ext[d]
          PROVE  \E z \in D : ext[c] \subseteq ext[z] /\ ext[z] \subseteq ext[d] /\ z # c /\ z # d
      <4>1. PICK z \in D : X = ext[z]
        OBVIOUS
      <4> QED BY <3>1, <4>1
    <3>2. ASSUME NEW z \in D, ext[c] \subseteq ext[z], ext[z] \subseteq ext[d], z # c, z # d
          PROVE  \E X \in S : ext[c] \subseteq X /\ X \subseteq ext[d] /\ X # ext[c] /\ X # ext[d]
      <4>1. ext[z] \in S /\ ext[z] # ext[c] /\ ext[z] # ext[d]
        BY <3>2
      <4> QED BY <3>2, <4>1
    <3> HIDE DEF S
    <3> QED BY <3>1, <3>2
  <2> HIDE DEF cov, S
  <2> QED BY <2>1, <2>2
<1>4. \A p \in cov : /\ p = <<p[1], p[2]>> /\ p[1] \in S /\ p[2] \in S
                   /\ p = <<ext[id[p[1]]], ext[id[p[2]]]>>
  <2>1. \A p \in cov : p = <<p[1], p[2]>> /\ p[1] \in S /\ p[2] \in S
    <3> HIDE DEF S
    <3> QED BY DEF H!Covers
  <2> HIDE DEF cov, S
  <2> QED BY <1>2, <2>1
<1>5. {<<id[p[1]], id[p[2]]>> : p \in cov} = E
  <2>1. ASSUME NEW p \in cov PROVE <<id[p[1]], id[p[2]]>> \in E
    <3> HIDE DEF cov, S
    <3>1. id[p[1]] \in D /\ id[p[2]] \in D /\ <<ext[id[p[1]]], ext[id[p[2]]]>> \in cov
      BY <1>2, <1>4
    <3> QED BY <1>3, <3>1
  <2>2. ASSUME NEW e \in E PROVE \E p \in cov : e = <<id[p[1]], id[p[2]]>>
    <3>1. PICK c \in D, d \in D : e = <<c, d>>
      <4>1. E \in SUBSET (D \X D)
        OBVIOUS
      <4> HIDE DEF D
      <4> QED BY <4>1
    <3> HIDE DEF cov, S
    <3>2. <<ext[c], ext[d]>> \in cov
      BY <1>3, <3>1
    <3> WITNESS <<ext[c], ext[d]>> \in cov
    <3> QED BY <1>1, <3>1
  <2> HIDE DEF cov
  <2> QED BY <2>1, <2>2
<1>6. L.edges = H!SetToBag({<<id[p[1]], id[p[2]]>> : p \in cov})
  BY <1>5
<1> QED BY <1>6 DEF H!IsCoverOrder, id

\* The objects that have all of I.
HavingAll(c, I) == {o \in c.objs : I \subseteq H!Row(c, o)}

\* The intents of introducers and their extents determine each other, and each
\* introduces what it should.
LEMMA IntroducersRight ==
  ASSUME NEW c, c.cols \in [DOMAIN c.cols -> SUBSET c.objs]
  PROVE  /\ {HavingAll(c, I) : I \in IntroducerIntents(c)} = H!IntroducerExtents(c)
         /\ \A I, J \in IntroducerIntents(c) :
              HavingAll(c, I) \subseteq HavingAll(c, J) <=> J \subseteq I
         /\ \A I \in IntroducerIntents(c) :
              /\ HConcept(c, I).ext = H!Introduced(c, HavingAll(c, I)).rext
              /\ HConcept(c, I).int = H!Introduced(c, HavingAll(c, I)).rint
<1> DEFINE A == DOMAIN c.cols
           O == c.objs
           II == IntroducerIntents(c)
           ext(I) == HavingAll(c, I)
<1>1. \A o \in O : ext(H!Row(c, o)) = H!ObjectExtent(c, o)
  BY DEF HavingAll, H!ObjectExtent
<1>2. \A a \in A : ext(Above(c, a)) = c.cols[a]
  BY DEF HavingAll, Above, H!Row
<1>3. \A I \in II : (\E o \in O : I = H!Row(c, o)) \/ (\E a \in A : I = Above(c, a))
  BY DEF IntroducerIntents
<1>4. (\A o \in O : H!Row(c, o) \in II) /\ (\A a \in A : Above(c, a) \in II)
  BY DEF IntroducerIntents
<1>5. \A I \in II : I \in SUBSET A
  BY ClassFacts
<1>6. \A I, J \in II : ext(I) \subseteq ext(J) => J \subseteq I
  <2> TAKE I, J \in II
  <2> HAVE ext(I) \subseteq ext(J)
  <2>1. CASE \E o \in O : I = H!Row(c, o)
    <3>1. PICK o \in O : I = H!Row(c, o)
      BY <2>1
    <3>2. o \in ext(I)
      BY <3>1 DEF HavingAll
    <3> QED BY <3>1, <3>2 DEF HavingAll
  <2>2. CASE \E a \in A : I = Above(c, a)
    <3>1. PICK a \in A : I = Above(c, a)
      BY <2>2
    <3>2. \A x \in c.cols[a] : x \in ext(J)
      BY <1>2, <3>1
    <3>3. ASSUME NEW b \in J PROVE b \in I
      <4>1. b \in A /\ \A x \in c.cols[a] : b \in H!Row(c, x)
        BY <1>5, <3>2 DEF HavingAll
      <4> QED BY <3>1, <4>1 DEF Above, H!Row
    <3> QED BY <3>3
  <2> QED BY <1>3, <2>1, <2>2
<1>7. \A I, J : J \subseteq I => ext(I) \subseteq ext(J)
  BY DEF HavingAll
<1>8. \A I, J \in II : ext(I) = ext(J) => I = J
  <2> TAKE I, J \in II
  <2> HAVE ext(I) = ext(J)
  <2>1. ext(I) \subseteq ext(J) /\ ext(J) \subseteq ext(I)
    OBVIOUS
  <2>2. I \subseteq J /\ J \subseteq I
    BY <1>6, <2>1
  <2> QED BY <2>2
<1> HIDE DEF II, ext
<1>9. {ext(I) : I \in II} = H!IntroducerExtents(c)
  BY <1>1, <1>2, <1>3, <1>4 DEF H!IntroducerExtents
<1>10. ASSUME NEW I \in II
       PROVE  /\ HConcept(c, I).ext = H!Introduced(c, ext(I)).rext
              /\ HConcept(c, I).int = H!Introduced(c, ext(I)).rint
  <2>1. \A o \in O : H!ObjectExtent(c, o) = ext(I) <=> H!Row(c, o) = I
    BY <1>1, <1>4, <1>8
  <2>2. \A a \in A : c.cols[a] = ext(I) <=> Above(c, a) = I
    BY <1>2, <1>4, <1>8
  <2> QED BY <2>1, <2>2 DEF HConcept, H!Introduced
<1> QED BY <1>6, <1>7, <1>9, <1>10 DEF II, ext
\* Once all are placed and compared, the flat order is the AOC-poset.
LEMMA PosetComplete ==
  ASSUME HermesAssumption, HermesInv, H!AtRest(st.scan), st.left = {},
         NEW L, L.n = ord.n, L.edges = H!SetToBag(st.scan.children),
         L.rext = ord.rext, L.rint = ord.rint
  PROVE  H!IsAocPoset(ctx, L)
<1> DEFINE len == Len(st.placed)
           ids == 0 .. len - 1
           sc == st.scan
           B == BelowOf(st.placed)
           II == IntroducerIntents(ctx)
           E == sc.children
           il == [c \in ids |-> CHOOSE I \in II : st.placed[c + 1] = HConcept(ctx, I)]
           full == [c \in ids |-> HavingAll(ctx, il[c])]
<1>1. /\ Linear(B) /\ Scanned(sc, B) /\ sc.prev = -1 /\ sc.s = len - 1 /\ ord.n = len
      /\ ArrangedIn(Family(ctx), {}, st.placed) /\ ctx \in HermesContexts
      /\ DOMAIN ord.rext = 0 .. sc.s /\ DOMAIN ord.rint = 0 .. sc.s
      /\ ord.rext = [c \in DOMAIN ord.rext |-> ord.rext[c]]
      /\ \A c \in 0 .. sc.s : ord.rext[c] = st.placed[c + 1].ext /\ ord.rint[c] = st.placed[c + 1].int
  BY HermesFacts DEF HermesInv, H!AtRest, FullSoFar
<1>2. /\ ctx.cols \in [DOMAIN ctx.cols -> SUBSET ctx.objs]
      /\ \A x, y \in Family(ctx) : x.values = y.values => x = y
  BY <1>1, HermesContext
<1>3. /\ len \in Nat /\ \A c \in ids : c \in Nat /\ c + 1 \in 1 .. len
      /\ \A k \in 1 .. len : k - 1 \in ids /\ (k - 1) + 1 = k
  BY <1>1 DEF ArrangedIn
<1>4. /\ E \in SUBSET (Nat \X Nat) /\ \A x, y \in Nat : <<x, y>> \in E <=> Next2(B, x, y) /\ y <= sc.s
  <2> HIDE DEF sc, B
  <2> QED BY <1>1, ScanDone DEF sc
<1>5. \A x, y : <<x, y>> \in B <=>
        x \in ids /\ y \in ids /\ x # y /\ st.placed[y + 1].values \subseteq st.placed[x + 1].values
  BY BelowPairs
<1>6. \A c \in ids : il[c] \in II /\ st.placed[c + 1] = HConcept(ctx, il[c])
  <2> TAKE c \in ids
  <2>1. \E I \in II : st.placed[c + 1] = HConcept(ctx, I)
    BY <1>1, <1>3 DEF ArrangedIn, Family
  <2> HIDE DEF ids, II
  <2> QED BY <2>1
<1>7. \A I \in II : \E c \in ids : il[c] = I
  <2> TAKE I \in II
  <2>1. HConcept(ctx, I) \in Family(ctx)
    BY DEF Family
  <2>2. PICK k \in 1 .. len : st.placed[k] = HConcept(ctx, I)
    BY <1>1, <2>1 DEF ArrangedIn
  <2>3. k - 1 \in ids /\ st.placed[(k - 1) + 1] = HConcept(ctx, I)
    BY <1>3, <2>2
  <2>4. HConcept(ctx, il[k - 1]) = HConcept(ctx, I) /\ il[k - 1] \in II
    <3> HIDE DEF il, ids, II
    <3> QED BY <1>6, <2>3
  <2>5. il[k - 1] = I
    <3>1. ColClasses(ctx, il[k - 1]) = ColClasses(ctx, I)
      <4> HIDE DEF il
      <4> QED BY <2>4 DEF HConcept
    <3> HIDE DEF il
    <3> QED BY <1>2, <2>4, <3>1, ClassFacts
  <2> HIDE DEF il, ids
  <2> QED BY <2>3, <2>5
<1> HIDE DEF il
<1>8. \A x, y \in ids : st.placed[y + 1].values \subseteq st.placed[x + 1].values <=> il[y] \subseteq il[x]
  <2> TAKE x, y \in ids
  <2>1. /\ st.placed[x + 1].values = ColClasses(ctx, il[x])
        /\ st.placed[y + 1].values = ColClasses(ctx, il[y])
    <3>1. \A J : HConcept(ctx, J).values = ColClasses(ctx, J)
      BY DEF HConcept
    <3>2. /\ st.placed[x + 1] = HConcept(ctx, il[x])
          /\ st.placed[y + 1] = HConcept(ctx, il[y])
      <4> HIDE DEF ids, II
      <4> QED BY <1>6
    <3> QED BY <3>1, <3>2
  <2>2. il[x] \in II /\ il[y] \in II
    <3> HIDE DEF ids, II
    <3> QED BY <1>6
  <2> QED BY <1>2, <2>1, <2>2, ClassFacts
<1>9. \A x, y \in ids : il[x] = il[y] => x = y
  <2> TAKE x, y \in ids
  <2> HAVE il[x] = il[y]
  <2>1. st.placed[x + 1] = st.placed[y + 1] /\ x + 1 \in 1 .. len /\ y + 1 \in 1 .. len
        /\ x \in Nat /\ y \in Nat
    <3> HIDE DEF ids, II, len
    <3> QED BY <1>3, <1>6
  <2>2. x + 1 = y + 1
    BY <1>1, <2>1 DEF ArrangedIn
  <2> QED BY <2>1, <2>2
<1>10. /\ {HavingAll(ctx, I) : I \in II} = H!IntroducerExtents(ctx)
       /\ \A I, J \in II : HavingAll(ctx, I) \subseteq HavingAll(ctx, J) <=> J \subseteq I
       /\ \A I \in II : /\ HConcept(ctx, I).ext = H!Introduced(ctx, HavingAll(ctx, I)).rext
                        /\ HConcept(ctx, I).int = H!Introduced(ctx, HavingAll(ctx, I)).rint
  BY <1>2, IntroducersRight
<1>11. \A x, y \in ids : UpTo2(B, x, y) <=> il[y] \subseteq il[x]
  <2> HIDE DEF ids, B
  <2> QED BY <1>5, <1>8 DEF UpTo2
<1>12. /\ DOMAIN full = ids /\ full = [c \in ids |-> full[c]]
       /\ \A c \in ids : full[c] = HavingAll(ctx, il[c])
  OBVIOUS
<1>13. \A c \in ids : ord.rext[c] = HConcept(ctx, il[c]).ext /\ ord.rint[c] = HConcept(ctx, il[c]).int
  <2>1. 0 .. sc.s = ids
    BY <1>1
  <2> HIDE DEF ids, II, sc
  <2> QED BY <1>1, <1>6, <2>1
<1> HIDE DEF full
<1>14. ASSUME NEW c \in ids
       PROVE  full[c] = UNION {ord.rext[t] : t \in {x \in ids : UpTo2(B, x, c)}}
  <2> HIDE DEF ids, B, II
  <2>1. ASSUME NEW o \in full[c] PROVE \E t \in ids : UpTo2(B, t, c) /\ o \in ord.rext[t]
    <3>1. o \in ctx.objs /\ il[c] \subseteq H!Row(ctx, o)
      BY <1>12 DEF HavingAll
    <3>2. H!Row(ctx, o) \in II
      BY <3>1 DEF II, IntroducerIntents
    <3>3. PICK t \in ids : il[t] = H!Row(ctx, o)
      BY <1>7, <3>2
    <3>4. o \in ord.rext[t]
      BY <1>13, <3>1, <3>3 DEF HConcept
    <3> QED BY <1>11, <3>1, <3>3, <3>4
  <2>2. ASSUME NEW t \in ids, UpTo2(B, t, c), NEW o \in ord.rext[t] PROVE o \in full[c]
    <3>1. o \in ctx.objs /\ H!Row(ctx, o) = il[t]
      BY <1>13 DEF HConcept
    <3> QED BY <1>11, <1>12, <2>2, <3>1 DEF HavingAll
  <2> QED BY <2>1, <2>2
<1>15. \A x, y \in Nat : <<x, y>> \in B => x < len /\ y < len
  <2>1. \A x \in ids : x < len
    BY <1>3
  <2> HIDE DEF ids, B, len
  <2> QED BY <1>5, <2>1
<1>16. \A x, y \in Nat : <<x, y>> \in E <=> Next2(B, x, y)
  <2>1. \A y \in Nat : y < len => y <= sc.s
    BY <1>1, <1>3
  <2> HIDE DEF B, E, sc, len
  <2> QED BY <1>4, <1>15, <2>1 DEF Next2
<1>17. H!FlatExtents(L) = full
  <2>1. /\ L.n = len /\ L.edges = H!SetToBag(E) /\ DOMAIN L.rext = 0 .. len - 1
        /\ L.rext = [c \in 0 .. len - 1 |-> L.rext[c]] /\ L.rext = ord.rext
    BY <1>1
  <2>2. \A c \in 0 .. len - 1 : full[c] = UNION {L.rext[t] : t \in {x \in 0 .. len - 1 : UpTo2(B, x, c)}}
    BY <1>14, <2>1
  <2>3. DOMAIN full = 0 .. len - 1 /\ full = [c \in 0 .. len - 1 |-> full[c]]
    BY <1>12
  <2>4. len \in Nat /\ Linear(B) /\ E \in SUBSET (Nat \X Nat)
    BY <1>1, <1>3, <1>4
  <2> HIDE DEF len, B, E
  <2> QED BY ONLY <1>15, <1>16, <2>1, <2>2, <2>3, <2>4, FlatFull
<1>18. H!IsCoverOrder(L, full)
  <2>1. \A c, d \in DOMAIN full : full[c] = full[d] => c = d
    <3> SUFFICES ASSUME NEW c \in ids, NEW d \in ids, full[c] = full[d] PROVE c = d
      BY <1>12
    <3> HIDE DEF ids, II
    <3>1. HavingAll(ctx, il[c]) \subseteq HavingAll(ctx, il[d])
          /\ HavingAll(ctx, il[d]) \subseteq HavingAll(ctx, il[c])
      BY <1>12
    <3>2. il[c] \subseteq il[d] /\ il[d] \subseteq il[c]
      BY <1>6, <1>10, <3>1
    <3>3. il[c] = il[d]
      BY <3>2
    <3> QED BY <1>9, <3>3
  <2>2. \A x, y \in ids : full[x] \subseteq full[y] /\ x # y <=> <<x, y>> \in B
    <3> HIDE DEF ids, II, B
    <3> TAKE x, y \in ids
    <3>1. il[x] \in II /\ il[y] \in II
      BY <1>6
    <3>2. full[x] = HavingAll(ctx, il[x]) /\ full[y] = HavingAll(ctx, il[y])
      BY <1>12
    <3>3. HavingAll(ctx, il[x]) \subseteq HavingAll(ctx, il[y]) <=> il[y] \subseteq il[x]
      BY <1>10, <3>1
    <3>4. st.placed[y + 1].values \subseteq st.placed[x + 1].values <=> il[y] \subseteq il[x]
      BY <1>8
    <3>5. <<x, y>> \in B <=> x # y /\ st.placed[y + 1].values \subseteq st.placed[x + 1].values
      BY <1>5
    <3> QED BY <3>2, <3>3, <3>4, <3>5
  <2>3. \A x, y \in ids : <<x, y>> \in E <=>
          /\ full[x] \subseteq full[y] /\ x # y
          /\ ~ \E z \in ids : full[x] \subseteq full[z] /\ x # z /\ full[z] \subseteq full[y] /\ z # y
    <3> TAKE x, y \in ids
    <3>1. x \in Nat /\ y \in Nat /\ \A z \in ids : z \in Nat
      BY <1>3
    <3>2. \A z : <<x, z>> \in B => z \in ids
      BY <1>5
    <3> HIDE DEF ids, B, E
    <3>3. <<x, y>> \in E <=> <<x, y>> \in B /\ ~ \E z \in ids : <<x, z>> \in B /\ <<z, y>> \in B
      BY <1>16, <3>1, <3>2 DEF Next2
    <3> QED BY <2>2, <3>3
  <2>4. E \in SUBSET (ids \X ids)
    <3>1. \A e \in E : e \in Nat \X Nat /\ e = <<e[1], e[2]>> /\ e[1] \in Nat /\ e[2] \in Nat
      BY <1>4
    <3>2. \A e \in E : <<e[1], e[2]>> \in B
      <4> HIDE DEF B, E
      <4> QED BY <1>16, <3>1 DEF Next2
    <3>3. \A e \in E : e[1] \in ids /\ e[2] \in ids
      <4> HIDE DEF E, ids, B
      <4> QED BY <1>5, <3>2
    <3> HIDE DEF E, ids
    <3> QED BY <3>1, <3>3
  <2>5. L.edges = H!SetToBag(E) /\ DOMAIN full = ids
    BY <1>12
  <2> HIDE DEF E, ids
  <2> QED BY ONLY <2>1, <2>3, <2>4, <2>5, CoversPlaced
<1>19. {full[c] : c \in DOMAIN full} = H!IntroducerExtents(ctx)
  <2> HIDE DEF ids, II
  <2>1. {full[c] : c \in ids} = {HavingAll(ctx, I) : I \in II}
    BY <1>6, <1>7, <1>12
  <2> QED BY <1>10, <1>12, <2>1
<1>20. \A c \in DOMAIN full :
         [rext |-> L.rext[c], rint |-> L.rint[c]] = H!Introduced(ctx, full[c])
  <2> SUFFICES ASSUME NEW c \in ids
               PROVE  [rext |-> L.rext[c], rint |-> L.rint[c]] = H!Introduced(ctx, full[c])
    BY <1>12
  <2> HIDE DEF ids, II
  <2>1. /\ L.rext[c] = H!Introduced(ctx, full[c]).rext
        /\ L.rint[c] = H!Introduced(ctx, full[c]).rint
    BY <1>6, <1>10, <1>12, <1>13
  <2>2. H!Introduced(ctx, full[c]) =
          [rext |-> H!Introduced(ctx, full[c]).rext, rint |-> H!Introduced(ctx, full[c]).rint]
    BY DEF H!Introduced
  <2> QED BY <2>1, <2>2
<1>21. DOMAIN L.rext = 0 .. L.n - 1 /\ DOMAIN L.rint = 0 .. L.n - 1
  BY <1>1
<1> HIDE DEF ids
<1> QED BY <1>17, <1>18, <1>19, <1>20, <1>21 DEF H!IsAocPoset, H!IsOrderOf

\* What a builder of AOC-posets promises.
HermesPromise == INSTANCE OrderBuilder WITH wanted <- "poset"

\* Both instances speak of the same AOC-poset.
LEMMA SamePoset ==
  ASSUME NEW c, NEW L
  PROVE  H!IsAocPoset(c, L) <=> HermesPromise!IsAocPoset(c, L)
<1>1. \A o : H!Row(c, o) = HermesPromise!Row(c, o)
  BY DEF H!Row, HermesPromise!Row
<1>2. \A o : H!ObjectExtent(c, o) = HermesPromise!ObjectExtent(c, o)
  BY <1>1 DEF H!ObjectExtent, HermesPromise!ObjectExtent
<1>3. H!IntroducerExtents(c) = HermesPromise!IntroducerExtents(c)
  BY <1>2 DEF H!IntroducerExtents, HermesPromise!IntroducerExtents
<1>4. \A X : H!Introduced(c, X) = HermesPromise!Introduced(c, X)
  BY <1>2 DEF H!Introduced, HermesPromise!Introduced
<1>5. H!FlatExtents(L) = HermesPromise!FlatExtents(L)
  BY DEF H!FlatExtents, HermesPromise!FlatExtents, H!BagToSet, HermesPromise!BagToSet
<1>6. \A S : H!Covers(S) = HermesPromise!Covers(S)
  BY DEF H!Covers, HermesPromise!Covers
<1>7. \A S : H!SetToBag(S) = HermesPromise!SetToBag(S)
  BY DEF H!SetToBag, HermesPromise!SetToBag
<1>8. \A ext : H!IsCoverOrder(L, ext) <=> HermesPromise!IsCoverOrder(L, ext)
  BY <1>6, <1>7 DEF H!IsCoverOrder, HermesPromise!IsCoverOrder
<1> QED BY <1>3, <1>4, <1>5, <1>8 DEF H!IsAocPoset, H!IsOrderOf,
                                     HermesPromise!IsAocPoset, HermesPromise!IsOrderOf

\* Hermes hands over one order, the AOC-poset of its context, whatever the
\* order in which concepts with as many values come (build_hermes).
THEOREM HermesRefinesBuilder ==
  HermesAssumption /\ H!Spec =>
    HermesPromise!Init /\ [][HermesPromise!Next]_(HermesPromise!vars)
<1> SUFFICES ASSUME HermesAssumption
             PROVE  H!Spec => HermesPromise!Init /\ [][HermesPromise!Next]_(HermesPromise!vars)
  OBVIOUS
<1>1. H!Init => HermesPromise!Init
  <2> SUFFICES ASSUME H!Init PROVE HermesPromise!Init
    OBVIOUS
  <2>1. ctx \in HermesContexts /\ result = Null
    BY DEF H!Init
  <2>2. ctx.cols \in [DOMAIN ctx.cols -> SUBSET ctx.objs]
    BY <2>1, HermesContext
  <2> QED BY <2>1, <2>2 DEF HermesPromise!Init
<1>2. HermesInv /\ [H!Next]_(H!vars) => [HermesPromise!Next]_(HermesPromise!vars)
  <2> SUFFICES ASSUME HermesInv, [H!Next]_(H!vars) PROVE [HermesPromise!Next]_(HermesPromise!vars)
    OBVIOUS
  <2>1. CASE H!PoseEdges
    <3>1. /\ H!AtRest(st.scan) /\ st.left = {} /\ result = Null /\ ctx' = ctx
          /\ ord' = H!CoAddEdges(ord, st.scan.children) /\ result' = H!CoToFlat(ord')
      BY <2>1 DEF H!PoseEdges
    <3>2. {"n", "ext", "int", "rext", "rint", "edges", "maximals", "minimals"} \subseteq DOMAIN ord
          /\ ord.edges \in {{}, st.scan.children}
      BY <3>1 DEF HermesInv
    <3>3. /\ ord'.n = ord.n /\ ord'.rext = ord.rext /\ ord'.rint = ord.rint
          /\ ord'.edges = ord.edges \cup st.scan.children
      BY <3>1, <3>2 DEF H!CoAddEdges
    <3>4. ord'.edges = st.scan.children
      BY <3>2, <3>3
    <3>5. /\ result'.n = ord.n /\ result'.edges = H!SetToBag(st.scan.children)
          /\ result'.rext = ord.rext /\ result'.rint = ord.rint
      BY <3>1, <3>3, <3>4 DEF H!CoToFlat
    <3>6. H!IsAocPoset(ctx, result')
      BY <3>1, <3>5, PosetComplete
    <3>7. HermesPromise!IsAocPoset(ctx, result')
      BY <3>6, SamePoset
    <3>8. CASE result' = Null
      BY <3>1, <3>8 DEF HermesPromise!vars
    <3>9. CASE result' # Null
      BY <3>1, <3>7, <3>9 DEF HermesPromise!Next, HermesPromise!HandOver
    <3> QED BY <3>8, <3>9
  <2>2. CASE H!AddConcept \/ H!PassOver \/ H!Compare \/ UNCHANGED H!vars
    BY <2>2 DEF H!AddConcept, H!PassOver, H!Compare, H!vars, HermesPromise!vars
  <2> QED BY <2>1, <2>2 DEF H!Next
<1> QED BY <1>1, <1>2, HermesKeeps, PTL DEF H!Spec
=============================================================================
