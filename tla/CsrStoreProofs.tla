--------------------------- MODULE CsrStoreProofs ---------------------------
(***************************************************************************)
(* Two proofs about the order store.                                       *)
(*                                                                         *)
(* The first is that it answers right, for any number of concepts and any  *)
(* edges a caller may have put between them: it never reads a stale        *)
(* adjacency, its bottom-up iterator is complete, its two passes leave the *)
(* full sets of the order, and reduce and closure leave the least and the  *)
(* greatest set of edges of the same order.  Nothing there is about a      *)
(* context.                                                                *)
(*                                                                         *)
(* The second is about a caller, the native lattice builder: whatever the  *)
(* context, what it fills in, completes and turns back is the concept      *)
(* lattice of that context, with the full sets that go with it.            *)
(*                                                                         *)
(* Of FormalContextProofs only the lemmas about lists, the array of the    *)
(* kernel and Hasse diagrams are used.                                     *)
(***************************************************************************)
EXTENDS CsrStore, NativeLatticeCbO, FormalContextProofs

-----------------------------------------------------------------------------
(***************************************************************************)
(* Chains of edges: the pairs a graph joins are the least relation that    *)
(* has the pairs of equals and that an edge prolongs.                      *)
(***************************************************************************)
\* R has all <<c, c>>, and goes on along the edges E.
Prolonged(R, I, E) ==
  /\ R \subseteq I \X I
  /\ \A c \in I : <<c, c>> \in R
  /\ \A c \in I : \A e \in E : <<c, e[1]>> \in R => <<c, e[2]>> \in R

Reaches(R, I, E) ==
  Prolonged(R, I, E) /\ \A T : Prolonged(T, I, E) => R \subseteq T

\* n rounds reach all there is to be reached: each that does not reach
\* everything reaches one more.
LEMMA AllReached ==
  ASSUME NEW N \in Nat, NEW B \in Seq((0 .. N - 1) \X (0 .. N - 1))
  PROVE  Reaches(UpTo(N, B), 0 .. N - 1, ToSet(B))
<1> DEFINE I == 0 .. N - 1
           E == ToSet(B)
<1>1. PICK r : Chained(r, I, N, B) /\ UpTo(N, B) = r[N]
  BY UpToSteps
<1>2. E \subseteq I \X I
  BY DEF ToSet
<1>3. /\ \A k \in 0 .. N : r[k] \subseteq I \X I
      /\ \A c, d \in I : <<c, d>> \in r[0] <=> c = d
      /\ \A k \in 1 .. N : \A c, d \in I :
           <<c, d>> \in r[k] <=>
             \/ <<c, d>> \in r[k - 1]
             \/ \E e \in E : e[2] = d /\ <<c, e[1]>> \in r[k - 1]
  BY <1>1 DEF Chained
<1>b. ASSUME NEW k \in Nat, k + 1 <= N, NEW c \in I, NEW d \in I
      PROVE  <<c, d>> \in r[k + 1] <=>
               \/ <<c, d>> \in r[k]
               \/ \E e \in E : e[2] = d /\ <<c, e[1]>> \in r[k]
  <2>1. PICK j \in 1 .. N : j = k + 1 /\ j - 1 = k
    BY <1>b
  <2> HIDE DEF I, E
  <2>2. \A x, y \in I : <<x, y>> \in r[j] <=>
          \/ <<x, y>> \in r[j - 1]
          \/ \E e \in E : e[2] = y /\ <<x, e[1]>> \in r[j - 1]
    BY ONLY <1>3, <2>1
  <2> QED BY <2>1, <2>2
<1> DEFINE From(k, c) == {d \in I : <<c, d>> \in r[k]}
           Full(k, c) == \A e \in E : e[1] \in From(k, c) => e[2] \in From(k, c)
           S == {k \in Nat : k <= N =>
                   \A c \in I : Full(k, c) \/ Cardinality(From(k, c)) >= k + 1}
<1>4. IsFiniteSet(I) /\ Cardinality(I) = N
  BY FS_Interval
<1>5. \A k, c : /\ From(k, c) \subseteq I /\ IsFiniteSet(From(k, c))
                /\ Cardinality(From(k, c)) \in Nat /\ Cardinality(From(k, c)) <= N
  <2> TAKE k, c
  <2>1. From(k, c) \subseteq I
    OBVIOUS
  <2> HIDE DEF From
  <2> QED BY <1>4, <2>1, FS_Subset, FS_CardinalityType
<1>6. 0 \in S
  <2> SUFFICES ASSUME 0 <= N, NEW c \in I PROVE Cardinality(From(0, c)) >= 1
    <3> HIDE DEF Full, From
    <3>1. \A c \in I : Cardinality(From(0, c)) >= 1 => Cardinality(From(0, c)) >= 0 + 1
      BY <1>5
    <3> QED BY <3>1
  <2>1. From(0, c) = {c}
    BY <1>3
  <2>2. Cardinality({c}) = 1
    BY FS_Singleton
  <2> HIDE DEF From
  <2>3. Cardinality(From(0, c)) = 1
    BY ONLY <2>1, <2>2
  <2> QED BY ONLY <2>3
<1>7. ASSUME NEW k \in Nat, k \in S PROVE k + 1 \in S
  <2> SUFFICES ASSUME k + 1 <= N, NEW c \in I, ~Full(k + 1, c)
               PROVE  Cardinality(From(k + 1, c)) >= (k + 1) + 1
    <3> HIDE DEF Full, From
    <3> QED OBVIOUS
  <2>1. k + 1 \in 1 .. N /\ (k + 1) - 1 = k /\ k <= N
    OBVIOUS
  <2>2. From(k, c) \subseteq From(k + 1, c)
    BY <1>3, <2>1
  <2>3. ASSUME Full(k, c) PROVE FALSE
    <3>a. \A d \in I : <<c, d>> \in r[k + 1] <=>
             \/ <<c, d>> \in r[k]
             \/ \E e \in E : e[2] = d /\ <<c, e[1]>> \in r[k]
      <4> HIDE DEF I, E, S, From, Full
      <4> QED BY <1>b
    <3>1. \A d \in From(k + 1, c) : d \in From(k, c)
      <4> TAKE d \in From(k + 1, c)
      <4>1. CASE <<c, d>> \in r[k]
        BY <4>1
      <4>2. CASE \E e \in E : e[2] = d /\ <<c, e[1]>> \in r[k]
        BY <1>2, <2>3, <4>2
      <4> QED BY <3>a, <4>1, <4>2
    <3>2. From(k + 1, c) = From(k, c)
      BY <2>2, <3>1
    <3> QED BY <2>3, <3>2
  <2>4. PICK e \in E : e[1] \in From(k, c) /\ e[2] \notin From(k, c)
    BY <2>3
  <2>5. e[2] \in From(k + 1, c)
    <3>1. e[2] \in I /\ <<c, e[1]>> \in r[k]
      BY <1>2, <2>4
    <3> QED BY <1>3, <2>1, <3>1
  <2>6. Cardinality(From(k, c)) >= k + 1
    BY <1>7, <2>1, <2>3
  <2> HIDE DEF From
  <2>7. Cardinality(From(k, c)) <= Cardinality(From(k + 1, c))
        /\ (Cardinality(From(k, c)) = Cardinality(From(k + 1, c)) => From(k, c) = From(k + 1, c))
    BY <1>5, <2>2, FS_Subset
  <2> QED BY <1>5, <2>4, <2>5, <2>6, <2>7
<1>8. Nat \subseteq S
  <2> HIDE DEF S
  <2> QED BY ONLY <1>6, <1>7, Induction
<1>9. ASSUME NEW c \in I PROVE Full(N, c)
  <2>1. N \in S
    BY <1>8
  <2> HIDE DEF Full, From
  <2>2. Full(N, c) \/ Cardinality(From(N, c)) >= N + 1
    BY <2>1
  <2> QED BY <1>5, <2>2
<1>10. Prolonged(r[N], I, E)
  <2>1. r[N] \subseteq I \X I
    BY <1>3
  <2>2. ASSUME NEW c \in I PROVE <<c, c>> \in r[N]
    <3> DEFINE T == {k \in Nat : k <= N => <<c, c>> \in r[k]}
    <3>1. 0 \in T
      BY <1>3
    <3>2. ASSUME NEW k \in Nat, k \in T PROVE k + 1 \in T
      <4> SUFFICES ASSUME k + 1 <= N PROVE <<c, c>> \in r[k + 1]
        OBVIOUS
      <4>1. k + 1 \in 1 .. N /\ (k + 1) - 1 = k /\ k <= N
        OBVIOUS
      <4> QED BY <1>3, <3>2, <4>1
    <3> HIDE DEF T
    <3>3. Nat \subseteq T
      BY ONLY <3>1, <3>2, Induction
    <3> QED BY <3>3 DEF T
  <2>3. ASSUME NEW c \in I, NEW e \in E, <<c, e[1]>> \in r[N] PROVE <<c, e[2]>> \in r[N]
    BY <1>2, <1>9, <2>3
  <2> QED BY <2>1, <2>2, <2>3 DEF Prolonged
<1>11. ASSUME NEW T, Prolonged(T, I, E) PROVE r[N] \subseteq T
  <2> DEFINE K == {k \in Nat : k <= N => r[k] \subseteq T}
  <2>1. 0 \in K
    <3> SUFFICES ASSUME NEW p \in r[0] PROVE p \in T
      OBVIOUS
    <3>1. p = <<p[1], p[2]>> /\ p[1] \in I /\ p[2] \in I
      BY <1>3
    <3> QED BY <1>3, <1>11, <3>1 DEF Prolonged
  <2>2. ASSUME NEW k \in Nat, k \in K PROVE k + 1 \in K
    <3> SUFFICES ASSUME k + 1 <= N, NEW p \in r[k + 1] PROVE p \in T
      OBVIOUS
    <3>1. k + 1 \in 1 .. N /\ (k + 1) - 1 = k /\ k <= N /\ k + 1 \in 0 .. N
      OBVIOUS
    <3>2. p = <<p[1], p[2]>> /\ p[1] \in I /\ p[2] \in I
      BY <1>3, <3>1
    <3>3. r[k] \subseteq T
      BY <2>2, <3>1
    <3>a. <<p[1], p[2]>> \in r[k + 1]
      BY <3>2
    <3>4. \/ <<p[1], p[2]>> \in r[k]
          \/ \E e \in E : e[2] = p[2] /\ <<p[1], e[1]>> \in r[k]
      <4> HIDE DEF I, E, K
      <4> QED BY <1>b, <3>1, <3>2, <3>a
    <3> QED BY <1>11, <3>2, <3>3, <3>4 DEF Prolonged
  <2> HIDE DEF K
  <2>3. Nat \subseteq K
    BY ONLY <2>1, <2>2, Induction
  <2>4. N \in Nat /\ N <= N
    OBVIOUS
  <2>5. N \in K
    BY ONLY <2>3, <2>4
  <2> QED BY ONLY <2>4, <2>5 DEF K
<1> HIDE DEF I, E
<1> QED BY <1>1, <1>10, <1>11 DEF Reaches, I, E

\* Chains can be put together, and each has a first edge and a last one.
Transitive(R, I) ==
  \A c, x, d \in I : <<c, x>> \in R /\ <<x, d>> \in R => <<c, d>> \in R

FirstEdge(R, I, E) ==
  \A c, d \in I : <<c, d>> \in R /\ c # d => \E e \in E : e[1] = c /\ <<e[2], d>> \in R

LastEdge(R, I, E) ==
  \A c, d \in I : <<c, d>> \in R /\ c # d => \E e \in E : e[2] = d /\ <<c, e[1]>> \in R

LEMMA ReachFacts ==
  ASSUME NEW I, NEW E \in SUBSET (I \X I), NEW R, Reaches(R, I, E)
  PROVE  /\ R \subseteq I \X I /\ E \subseteq R
         /\ \A c \in I : <<c, c>> \in R
         /\ Transitive(R, I) /\ FirstEdge(R, I, E) /\ LastEdge(R, I, E)
<1>1. /\ R \subseteq I \X I
      /\ \A c \in I : <<c, c>> \in R
      /\ \A c \in I : \A e \in E : <<c, e[1]>> \in R => <<c, e[2]>> \in R
      /\ \A T : Prolonged(T, I, E) => R \subseteq T
  BY DEF Reaches, Prolonged
<1>2. \A e \in E : e = <<e[1], e[2]>> /\ e[1] \in I /\ e[2] \in I
  OBVIOUS
<1>3. E \subseteq R
  BY <1>1, <1>2
<1>4. ASSUME NEW c \in I, NEW x \in I, NEW d \in I, <<c, x>> \in R, <<x, d>> \in R
      PROVE  <<c, d>> \in R
  <2> DEFINE T == {p \in I \X I : \A b \in I : <<b, p[1]>> \in R => <<b, p[2]>> \in R}
  <2>1. Prolonged(T, I, E)
    BY <1>1, <1>2 DEF Prolonged
  <2>2. <<x, d>> \in T
    BY <1>1, <1>4, <2>1
  <2> QED BY <1>4, <2>2
<1>5. ASSUME NEW c \in I, NEW d \in I, <<c, d>> \in R, c # d
      PROVE  \E e \in E : e[1] = c /\ <<e[2], d>> \in R
  <2> DEFINE T == {p \in I \X I : p[1] = p[2] \/ \E e \in E : e[1] = p[1] /\ <<e[2], p[2]>> \in R}
  <2>1. Prolonged(T, I, E)
    <3>1. ASSUME NEW b \in I, NEW e \in E, <<b, e[1]>> \in T PROVE <<b, e[2]>> \in T
      <4>1. <<b, e[2]>> \in I \X I
        BY <1>2
      <4>2. CASE b = e[1]
        BY <1>1, <1>2, <4>1, <4>2
      <4>3. CASE b # e[1]
        <5>1. PICK f \in E : f[1] = b /\ <<f[2], e[1]>> \in R
          BY <3>1, <4>3
        <5>2. <<f[2], e[2]>> \in R
          BY <1>1, <1>2, <5>1
        <5> QED BY <4>1, <5>1, <5>2
      <4> QED BY <4>2, <4>3
    <3> QED BY <3>1 DEF Prolonged
  <2>2. <<c, d>> \in T
    BY <1>1, <1>5, <2>1
  <2> QED BY <1>5, <2>2
<1>6. ASSUME NEW c \in I, NEW d \in I, <<c, d>> \in R, c # d
      PROVE  \E e \in E : e[2] = d /\ <<c, e[1]>> \in R
  <2> DEFINE T == {p \in R : p[1] = p[2] \/ \E e \in E : e[2] = p[2] /\ <<p[1], e[1]>> \in R}
  <2>1. Prolonged(T, I, E)
    BY <1>1, <1>2 DEF Prolonged
  <2>2. <<c, d>> \in T
    BY <1>1, <1>6, <2>1
  <2> QED BY <1>6, <2>2
<1> QED BY <1>1, <1>3, <1>4, <1>5, <1>6 DEF Transitive, FirstEdge, LastEdge

\* More edges reach more.
LEMMA ReachMore ==
  ASSUME NEW I, NEW E, NEW F, E \subseteq F, NEW R, NEW Q, Reaches(R, I, E), Reaches(Q, I, F)
  PROVE  R \subseteq Q
<1>1. Prolonged(Q, I, E)
  BY DEF Reaches, Prolonged
<1> QED BY <1>1 DEF Reaches

\* The edges turned round.
LEMMA ReachInverse ==
  ASSUME NEW I, NEW E \in SUBSET (I \X I), NEW F \in SUBSET (I \X I),
         \A c, d \in I : <<c, d>> \in E <=> <<d, c>> \in F,
         NEW R, NEW Q, Reaches(R, I, E), Reaches(Q, I, F)
  PROVE  \A c, d \in I : <<c, d>> \in R <=> <<d, c>> \in Q
<1>1. ASSUME NEW A \in SUBSET (I \X I), NEW B \in SUBSET (I \X I),
             \A c, d \in I : <<c, d>> \in A => <<d, c>> \in B,
             NEW X, NEW Y, Reaches(X, I, A), Reaches(Y, I, B)
      PROVE  \A c, d \in I : <<c, d>> \in X => <<d, c>> \in Y
  <2> DEFINE T == {p \in I \X I : <<p[2], p[1]>> \in Y}
  <2>1. /\ Y \subseteq I \X I /\ B \subseteq Y
        /\ \A c \in I : <<c, c>> \in Y
        /\ \A c, x, d \in I : <<c, x>> \in Y /\ <<x, d>> \in Y => <<c, d>> \in Y
    <3>1. Reaches(Y, I, B) /\ B \in SUBSET (I \X I)
      BY <1>1
    <3> QED BY ONLY <3>1, ReachFacts DEF Transitive
  <2>2. \A e \in A : e = <<e[1], e[2]>> /\ e[1] \in I /\ e[2] \in I
    OBVIOUS
  <2>3. \A e \in A : <<e[2], e[1]>> \in Y
    BY <1>1, <2>1, <2>2
  <2>4. Prolonged(T, I, A)
    BY <2>1, <2>2, <2>3 DEF Prolonged
  <2>5. X \subseteq T
    BY <1>1, <2>4 DEF Reaches
  <2> QED BY <2>5
<1>2. \A c, d \in I : <<c, d>> \in R => <<d, c>> \in Q
  BY <1>1
<1>3. \A c, d \in I : <<c, d>> \in Q => <<d, c>> \in R
  <2>1. \A c, d \in I : <<c, d>> \in F => <<d, c>> \in E
    OBVIOUS
  <2> QED BY <1>1, <2>1
<1> QED BY <1>2, <1>3

-----------------------------------------------------------------------------
(***************************************************************************)
(* The rows of the adjacency, and lists without some of their elements.    *)
(***************************************************************************)
\* The positions of ps whose key is k.
At(ps, k) == {j \in DOMAIN ps : ps[j][1] = k}

\* q leads from the entries of row, one by one, to the positions in P.
FilledFrom(row, ps, P, q) ==
  /\ \A i \in DOMAIN row : q[i] \in P /\ row[i] = ps[q[i]][2]
  /\ \A i, j \in DOMAIN row : q[i] = q[j] => i = j
  /\ \A p \in P : \E i \in DOMAIN row : q[i] = p

\* row is the row of k.
IsRow(row, ps, k) ==
  /\ Len(row) = Cardinality(At(ps, k))
  /\ \E q : FilledFrom(row, ps, At(ps, k), q)
  /\ \A x : x \in ToSet(row) <=> <<k, x>> \in ToSet(ps)

LEMMA RowFilled ==
  ASSUME NEW A, NEW B, NEW ps \in Seq(A \X B), NEW k \in A
  PROVE  Bucket(ps, k) \in Seq(B) /\ IsRow(Bucket(ps, k), ps, k)
<1> DEFINE P == At(ps, k)
           q == Increasing(P)
           s == Pick(ps, P)
           m == Cardinality(P)
           b == Bucket(ps, k)
<1>1. P \in SUBSET DOMAIN ps /\ \A j : j \in P <=> j \in DOMAIN ps /\ ps[j][1] = k
  BY DEF At
<1>2. b = [j \in DOMAIN s |-> s[j][2]]
  BY DEF Bucket, At
<1>3. s = [i \in 1 .. m |-> ps[q[i]]]
  BY DEF Pick
<1>4. \A j \in DOMAIN ps : ps[j] = <<ps[j][1], ps[j][2]>> /\ ps[j][2] \in B
  <2> TAKE j \in DOMAIN ps
  <2>1. ps[j] \in A \X B
    BY LenProperties, ElementOfSeq
  <2> QED BY <2>1
<1>5. P \in SUBSET Int /\ IsFiniteSet(P)
  BY <1>1, FS_Interval, FS_Subset
<1>6. /\ q \in Seq(P) /\ m \in Nat /\ DOMAIN q = 1 .. m
      /\ \A x \in P : \E i \in 1 .. m : q[i] = x
      /\ \A i, j \in 1 .. m : i < j => q[i] < q[j]
  BY <1>5, InOrder
<1> HIDE DEF P, q, s, b, m
<1>7. \A i \in 1 .. m : q[i] \in P /\ q[i] \in Int
  <2>1. \A i \in 1 .. m : q[i] \in P
    BY ONLY <1>6, LenProperties, ElementOfSeq
  <2> QED BY <1>5, <2>1
<1>8. \A i, j \in 1 .. m : q[i] = q[j] => i = j
  <2> SUFFICES ASSUME NEW i \in 1 .. m, NEW j \in 1 .. m, q[i] = q[j]
               PROVE  i = j
    OBVIOUS
  <2>1. ~ (q[i] < q[j]) /\ ~ (q[j] < q[i])
    BY <1>7
  <2> QED BY <1>6, <2>1
<1>9. b = [i \in 1 .. m |-> ps[q[i]][2]]
  BY <1>2, <1>3
<1>10. \A i \in 1 .. m : b[i] = ps[q[i]][2] /\ b[i] \in B /\ q[i] \in DOMAIN ps
  BY <1>1, <1>4, <1>7, <1>9
<1>11. b \in Seq(B) /\ DOMAIN b = 1 .. m /\ Len(b) = m
  BY <1>6, <1>9, <1>10
<1>12. FilledFrom(b, ps, P, q)
  BY <1>6, <1>7, <1>8, <1>10, <1>11 DEF FilledFrom
<1>13. ASSUME NEW x PROVE x \in ToSet(b) <=> <<k, x>> \in ToSet(ps)
  <2>1. ASSUME x \in ToSet(b) PROVE <<k, x>> \in ToSet(ps)
    <3>1. PICK i \in 1 .. m : x = b[i]
      BY <1>11, <2>1 DEF ToSet
    <3>2. ps[q[i]] = <<k, x>> /\ q[i] \in DOMAIN ps
      BY <1>1, <1>4, <1>7, <1>10, <3>1
    <3> QED BY <3>2 DEF ToSet
  <2>2. ASSUME <<k, x>> \in ToSet(ps) PROVE x \in ToSet(b)
    <3>1. PICK j \in DOMAIN ps : ps[j] = <<k, x>>
      BY <2>2 DEF ToSet
    <3>2. j \in P
      BY <1>1, <3>1
    <3>3. PICK i \in 1 .. m : q[i] = j
      BY <1>6, <3>2
    <3>4. b[i] = x
      BY <1>10, <3>1, <3>3
    <3> QED BY <1>11, <3>4 DEF ToSet
  <2> QED BY <2>1, <2>2
<1> QED BY <1>11, <1>12, <1>13 DEF P, b, m, IsRow

LEMMA WithoutFacts ==
  ASSUME NEW S, NEW s \in Seq(S), NEW X
  PROVE  /\ Without(s, X) \in Seq(S)
         /\ ToSet(Without(s, X)) = ToSet(s) \ X
         /\ Once(s) => Once(Without(s, X))
         /\ Len(Without(s, X)) <= Len(s)
<1> DEFINE P == {k \in DOMAIN s : s[k] \notin X}
           w == Without(s, X)
<1>1. w = Pick(s, P) /\ P \in SUBSET DOMAIN s
  BY DEF Without
<1>2. w \in Seq(S) /\ ToSet(w) = {s[k] : k \in P}
  BY <1>1, Picked
<1>3. PICK q : \A j, k \in DOMAIN w : q[k] \in P /\ w[k] = s[q[k]] /\ (q[j] = q[k] => j = k)
  <2>1. \E q : \A j, k \in DOMAIN Pick(s, P) :
          /\ q[k] \in P /\ Pick(s, P)[k] = s[q[k]]
          /\ q[j] = q[k] => j = k
    <3> HIDE DEF P
    <3> QED BY <1>1, PickedApart
  <2> HIDE DEF P, w
  <2> QED BY <1>1, <2>1
<1>4. ToSet(w) = ToSet(s) \ X
  BY <1>2 DEF ToSet
<1>5. Once(s) => Once(w)
  BY <1>1, <1>3 DEF Once
<1>6. Len(w) <= Len(s)
  <2>1. DOMAIN s = 1 .. Len(s) /\ Len(s) \in Nat
    BY LenProperties
  <2>2. IsFiniteSet(DOMAIN s) /\ Cardinality(DOMAIN s) = Len(s)
    BY <2>1, FS_Interval
  <2>3. Cardinality(P) <= Cardinality(DOMAIN s) /\ IsFiniteSet(P) /\ Cardinality(P) \in Nat
    BY <1>1, <2>2, FS_Subset, FS_CardinalityType
  <2>4. w = [k \in 1 .. Cardinality(P) |-> s[Increasing(P)[k]]]
    BY <1>1 DEF Pick
  <2>5. Len(w) = Cardinality(P)
    BY <2>3, <2>4
  <2> QED BY <2>2, <2>3, <2>5
<1> HIDE DEF w
<1> QED BY <1>2, <1>4, <1>5, <1>6 DEF w

\* Turning edges round twice, and what is turned round.
LEMMA Swapped ==
  ASSUME NEW A, NEW B, NEW ps \in Seq(A \X B)
  PROVE  /\ Swap(ps) \in Seq(B \X A) /\ DOMAIN Swap(ps) = DOMAIN ps
         /\ \A j \in DOMAIN ps : Swap(ps)[j][1] = ps[j][2] /\ Swap(ps)[j][2] = ps[j][1]
         /\ \A x, y : <<x, y>> \in ToSet(Swap(ps)) <=> <<y, x>> \in ToSet(ps)
<1>1. DOMAIN ps = 1 .. Len(ps) /\ Len(ps) \in Nat
  BY LenProperties
<1>2. \A j \in DOMAIN ps : ps[j] = <<ps[j][1], ps[j][2]>> /\ ps[j][1] \in A /\ ps[j][2] \in B
  <2> TAKE j \in DOMAIN ps
  <2>1. ps[j] \in A \X B
    BY LenProperties, ElementOfSeq
  <2> QED BY <2>1
<1> DEFINE t == Swap(ps)
<1>3. t = [j \in 1 .. Len(ps) |-> <<ps[j][2], ps[j][1]>>]
  BY <1>1 DEF Swap
<1> HIDE DEF t
<1>4. t \in Seq(B \X A) /\ DOMAIN t = DOMAIN ps
  BY <1>1, <1>2, <1>3
<1>5. \A j \in DOMAIN ps : t[j] = <<ps[j][2], ps[j][1]>>
  BY <1>1, <1>3
<1>6. ASSUME NEW x, NEW y PROVE <<x, y>> \in ToSet(t) <=> <<y, x>> \in ToSet(ps)
  <2>1. ASSUME NEW j \in DOMAIN ps PROVE t[j] = <<x, y>> <=> ps[j] = <<y, x>>
    BY <1>2, <1>5
  <2> QED BY <1>4, <2>1 DEF ToSet
<1> QED BY <1>4, <1>5, <1>6 DEF t

-----------------------------------------------------------------------------
(***************************************************************************)
(* The order the edges generate.                                           *)
(***************************************************************************)
Edges == ToSet(buf)
Chains == UpTo(n, buf)

Typed == n \in Nat /\ buf \in Seq(Ids \X Ids)

\* No edge leads back to where a chain to it began.
Loopless(R, E) == \A e \in E : <<e[2], e[1]>> \notin R

Acyclic == Loopless(Chains, Edges)

Antisymmetric(R, I) == \A c, d \in I : <<c, d>> \in R /\ <<d, c>> \in R => c = d

LEMMA PartialOrder ==
  ASSUME NEW I, NEW E \in SUBSET (I \X I), NEW R, Reaches(R, I, E), Loopless(R, E)
  PROVE  Antisymmetric(R, I) /\ \A e \in E : e[1] # e[2]
<1>1. /\ R \subseteq I \X I /\ E \subseteq R
      /\ \A c \in I : <<c, c>> \in R
      /\ Transitive(R, I) /\ FirstEdge(R, I, E)
  BY ReachFacts
<1>2. \A e \in E : e[1] \in I /\ e[2] \in I /\ e[1] # e[2]
  BY <1>1 DEF Loopless
<1>3. ASSUME NEW c \in I, NEW d \in I, <<c, d>> \in R, <<d, c>> \in R, c # d PROVE FALSE
  <2>1. PICK e \in E : e[1] = c /\ <<e[2], d>> \in R
    BY <1>1, <1>3 DEF FirstEdge
  <2>2. <<e[2], e[1]>> \in R
    BY <1>1, <1>2, <1>3, <2>1 DEF Transitive
  <2> QED BY <2>2 DEF Loopless
<1> QED BY <1>2, <1>3 DEF Antisymmetric

\* An edge up to where no chain leads back from closes no cycle.
LEMMA OneMoreEdge ==
  ASSUME NEW I, NEW E \in SUBSET (I \X I), NEW e \in I \X I, NEW R, NEW Q,
         Reaches(R, I, E), Reaches(Q, I, E \cup {e}),
         Loopless(R, E), <<e[2], e[1]>> \notin R
  PROVE  Loopless(Q, E \cup {e})
<1> DEFINE T == R \cup {p \in I \X I : <<p[1], e[1]>> \in R /\ <<e[2], p[2]>> \in R}
<1>1. /\ R \subseteq I \X I /\ E \subseteq R
      /\ \A c \in I : <<c, c>> \in R
      /\ Transitive(R, I)
  BY ReachFacts
<1>2. \A f \in E : f = <<f[1], f[2]>> /\ f[1] \in I /\ f[2] \in I /\ f \in R
  BY <1>1
<1>3. e[1] \in I /\ e[2] \in I
  OBVIOUS
<1>4. Prolonged(T, I, E \cup {e})
  <2>1. T \subseteq I \X I /\ \A c \in I : <<c, c>> \in T
    BY <1>1
  <2>2. ASSUME NEW c \in I, NEW f \in E, <<c, f[1]>> \in T PROVE <<c, f[2]>> \in T
    <3>1. <<c, f[2]>> \in I \X I
      BY <1>2
    <3>2. CASE <<c, f[1]>> \in R
      <4>1. <<c, f[2]>> \in R
        BY <1>1, <1>2, <3>2 DEF Transitive
      <4> QED BY <4>1
    <3>3. CASE <<c, e[1]>> \in R /\ <<e[2], f[1]>> \in R
      <4>1. <<e[2], f[2]>> \in R
        BY <1>1, <1>2, <1>3, <3>3 DEF Transitive
      <4> QED BY <3>1, <3>3, <4>1
    <3> QED BY <2>2, <3>2, <3>3
  <2>3. ASSUME NEW c \in I, <<c, e[1]>> \in T PROVE <<c, e[2]>> \in T
    <3>1. <<c, e[1]>> \in R
      BY <2>3
    <3> QED BY <1>1, <1>3, <3>1
  <2> HIDE DEF T
  <2> QED BY <2>1, <2>2, <2>3 DEF Prolonged
<1>5. Q \subseteq T
  BY <1>4 DEF Reaches
<1>6. ASSUME NEW f \in E, <<f[2], f[1]>> \in Q PROVE FALSE
  <2>1. <<f[2], f[1]>> \notin R
    BY DEF Loopless
  <2>2. <<f[2], e[1]>> \in R /\ <<e[2], f[1]>> \in R /\ <<f[1], f[2]>> \in R
    BY <1>2, <1>5, <1>6, <2>1
  <2>3. <<e[2], f[2]>> \in R
    BY <1>1, <1>2, <1>3, <2>2 DEF Transitive
  <2>4. <<e[2], e[1]>> \in R
    BY <1>1, <1>2, <1>3, <2>2, <2>3 DEF Transitive
  <2> QED BY <2>4
<1>7. <<e[2], e[1]>> \notin Q
  BY <1>5
<1> QED BY <1>6, <1>7 DEF Loopless

LEMMA OrderFacts ==
  ASSUME Typed
  PROVE  /\ Edges \in SUBSET (Ids \X Ids) /\ Reaches(Chains, Ids, Edges)
         /\ Chains \subseteq Ids \X Ids /\ Edges \subseteq Chains
         /\ \A c \in Ids : <<c, c>> \in Chains
         /\ Transitive(Chains, Ids) /\ FirstEdge(Chains, Ids, Edges)
         /\ LastEdge(Chains, Ids, Edges)
         /\ Acyclic => Antisymmetric(Chains, Ids) /\ \A e \in Edges : e[1] # e[2]
<1>1. Edges \in SUBSET (Ids \X Ids)
  BY DEF Typed, Edges, ToSet
<1>2. Reaches(Chains, Ids, Edges)
  BY AllReached DEF Typed, Ids, Edges, Chains
<1> QED BY <1>1, <1>2, ReachFacts, PartialOrder DEF Acyclic

LEMMA OutRows ==
  ASSUME Typed, Csr = BuildCsr, NEW c \in Ids
  PROVE  /\ Csr.out[c] = Bucket(buf, c) /\ Csr.in[c] = Bucket(Swap(buf), c)
         /\ Csr.out[c] \in Seq(Ids) /\ Csr.in[c] \in Seq(Ids)
         /\ \A d \in Ids : d \in ToSet(Csr.out[c]) <=> <<c, d>> \in Edges
         /\ \A d \in Ids : d \in ToSet(Csr.in[c]) <=> <<d, c>> \in Edges
         /\ Len(Csr.out[c]) = Cardinality(At(buf, c))
         /\ Len(Csr.in[c]) = Cardinality({j \in DOMAIN buf : buf[j][2] = c})
         /\ \E q : FilledFrom(Csr.out[c], buf, At(buf, c), q)
<1>1. Csr.out[c] = Bucket(buf, c) /\ Csr.in[c] = Bucket(Swap(buf), c)
  BY DEF BuildCsr
<1>2. /\ Swap(buf) \in Seq(Ids \X Ids) /\ DOMAIN Swap(buf) = DOMAIN buf
      /\ \A j \in DOMAIN buf : Swap(buf)[j][1] = buf[j][2] /\ Swap(buf)[j][2] = buf[j][1]
      /\ \A x, y : <<x, y>> \in ToSet(Swap(buf)) <=> <<y, x>> \in Edges
  BY Swapped DEF Typed, Edges
<1>3. Bucket(buf, c) \in Seq(Ids) /\ IsRow(Bucket(buf, c), buf, c)
  BY RowFilled DEF Typed
<1>4. Bucket(Swap(buf), c) \in Seq(Ids) /\ IsRow(Bucket(Swap(buf), c), Swap(buf), c)
  BY <1>2, RowFilled
<1>5. At(Swap(buf), c) = {j \in DOMAIN buf : buf[j][2] = c}
  BY <1>2 DEF At
<1> QED BY <1>1, <1>2, <1>3, <1>4, <1>5 DEF IsRow, Edges

-----------------------------------------------------------------------------
(***************************************************************************)
(* topoBottomUp takes every concept, those below it first: at any time the *)
(* concepts in the queue are those without an edge to come from a concept  *)
(* that was not taken off it.                                              *)
(***************************************************************************)
Into(rem, w) == {j \in rem : buf[j][2] = w}

Degrees == [Ids -> Int]
States == [indeg : Degrees, queue : Seq(Ids)]

\* The edges at the positions in rem have not been followed yet.
Sorting(s, rem) ==
  /\ s \in States /\ rem \subseteq DOMAIN buf
  /\ \A w \in Ids : s.indeg[w] = Cardinality(Into(rem, w))
  /\ Once(s.queue)
  /\ \A w \in Ids : w \in ToSet(s.queue) <=> s.indeg[w] = 0
  /\ \A j \in DOMAIN buf : j \notin rem => buf[j][1] \in ToSet(s.queue)
  /\ \A j \in DOMAIN buf : \A k \in DOMAIN s.queue :
       buf[j][2] = s.queue[k] => \E i \in DOMAIN s.queue : i < k /\ s.queue[i] = buf[j][1]

\* r begins with s.
Extends(s, r) == Len(s) <= Len(r) /\ \A i \in 1 .. Len(s) : r[i] = s[i]

LEMMA Appended ==
  ASSUME NEW S, NEW s \in Seq(S), NEW x \in S
  PROVE  /\ Append(s, x) \in Seq(S) /\ Len(Append(s, x)) = Len(s) + 1
         /\ Len(s) \in Nat /\ DOMAIN s = 1 .. Len(s)
         /\ \A i \in 1 .. Len(s) : Append(s, x)[i] = s[i]
         /\ Append(s, x)[Len(s) + 1] = x
         /\ ToSet(Append(s, x)) = ToSet(s) \cup {x}
         /\ Once(s) /\ x \notin ToSet(s) => Once(Append(s, x))
<1> DEFINE a == Append(s, x)
<1>1. /\ a \in Seq(S) /\ Len(a) = Len(s) + 1
      /\ Len(s) \in Nat /\ DOMAIN s = 1 .. Len(s)
      /\ \A i \in 1 .. Len(s) : a[i] = s[i]
      /\ a[Len(s) + 1] = x /\ DOMAIN a = 1 .. Len(s) + 1
  BY AppendProperties, LenProperties
<1> HIDE DEF a
<1>2. ToSet(a) = ToSet(s) \cup {x}
  <2>1. ASSUME NEW y \in ToSet(a) PROVE y \in ToSet(s) \cup {x}
    <3>1. PICK i \in 1 .. Len(s) + 1 : a[i] = y
      BY <1>1, <2>1 DEF ToSet
    <3>2. CASE i = Len(s) + 1
      BY <1>1, <3>1, <3>2
    <3>3. CASE i \in 1 .. Len(s)
      BY <1>1, <3>1, <3>3 DEF ToSet
    <3> QED BY <1>1, <3>1, <3>2, <3>3
  <2>2. ASSUME NEW y \in ToSet(s) \cup {x} PROVE y \in ToSet(a)
    <3>1. CASE y = x
      BY <1>1, <3>1 DEF ToSet
    <3>2. CASE y \in ToSet(s)
      <4>1. PICK i \in 1 .. Len(s) : s[i] = y
        BY <1>1, <3>2 DEF ToSet
      <4>2. i \in DOMAIN a /\ a[i] = y
        BY <1>1, <4>1
      <4> QED BY <4>2 DEF ToSet
    <3> QED BY <2>2, <3>1, <3>2
  <2> QED BY <2>1, <2>2
<1>3. ASSUME Once(s), x \notin ToSet(s) PROVE Once(a)
  <2> SUFFICES ASSUME NEW i \in 1 .. Len(s) + 1, NEW j \in 1 .. Len(s) + 1, a[i] = a[j], i # j
               PROVE  FALSE
    BY <1>1 DEF Once
  <2>1. \A k \in 1 .. Len(s) : s[k] # x
    BY <1>1, <1>3 DEF ToSet
  <2>2. CASE i = Len(s) + 1
    <3>1. j \in 1 .. Len(s)
      BY <1>1, <2>2
    <3> QED BY <1>1, <2>1, <2>2, <3>1
  <2>3. CASE j = Len(s) + 1
    <3>1. i \in 1 .. Len(s)
      BY <1>1, <2>3
    <3> QED BY <1>1, <2>1, <2>3, <3>1
  <2>4. CASE i \in 1 .. Len(s) /\ j \in 1 .. Len(s)
    BY <1>1, <1>3, <2>4 DEF Once
  <2> QED BY <1>1, <2>2, <2>3, <2>4
<1> QED BY <1>1, <1>2, <1>3 DEF a

LEMMA BufFacts ==
  ASSUME Typed
  PROVE  /\ DOMAIN buf = 1 .. Len(buf) /\ Len(buf) \in Nat
         /\ \A j \in DOMAIN buf : /\ buf[j] = <<buf[j][1], buf[j][2]>> /\ buf[j] \in Edges
                                  /\ buf[j][1] \in Ids /\ buf[j][2] \in Ids
         /\ \A rem, w : rem \subseteq DOMAIN buf =>
              /\ IsFiniteSet(Into(rem, w)) /\ Cardinality(Into(rem, w)) \in Nat
              /\ Into(rem, w) \subseteq rem
<1>1. DOMAIN buf = 1 .. Len(buf) /\ Len(buf) \in Nat
  BY LenProperties DEF Typed
<1>2. ASSUME NEW j \in DOMAIN buf
      PROVE  /\ buf[j] = <<buf[j][1], buf[j][2]>> /\ buf[j] \in Edges
             /\ buf[j][1] \in Ids /\ buf[j][2] \in Ids
  <2>1. buf[j] \in Ids \X Ids
    BY LenProperties, ElementOfSeq DEF Typed
  <2> QED BY <2>1 DEF Edges, ToSet
<1>3. IsFiniteSet(DOMAIN buf)
  BY <1>1, FS_Interval
<1>4. ASSUME NEW rem, NEW w, rem \subseteq DOMAIN buf
      PROVE  /\ IsFiniteSet(Into(rem, w)) /\ Cardinality(Into(rem, w)) \in Nat
             /\ Into(rem, w) \subseteq rem
  <2>1. Into(rem, w) \subseteq rem
    BY DEF Into
  <2> QED BY <1>3, <1>4, <2>1, FS_Subset, FS_CardinalityType
<1> QED BY <1>1, <1>2, <1>4

\* One edge out of a concept in the queue is followed.
LEMMA ReleaseOne ==
  ASSUME Typed, NEW s, NEW rem, Sorting(s, rem), NEW j \in rem, buf[j][1] \in ToSet(s.queue)
  PROVE  /\ Sorting(Release(s, buf[j][2]), rem \ {j})
         /\ Extends(s.queue, Release(s, buf[j][2]).queue)
<1> DEFINE w == buf[j][2]
           t == Release(s, w)
           left == rem \ {j}
<1>1. /\ s.indeg \in Degrees /\ s.queue \in Seq(Ids) /\ rem \subseteq DOMAIN buf
      /\ \A x \in Ids : s.indeg[x] = Cardinality(Into(rem, x))
      /\ Once(s.queue)
      /\ \A x \in Ids : x \in ToSet(s.queue) <=> s.indeg[x] = 0
      /\ \A i \in DOMAIN buf : i \notin rem => buf[i][1] \in ToSet(s.queue)
      /\ \A i \in DOMAIN buf : \A k \in DOMAIN s.queue :
           buf[i][2] = s.queue[k] => \E l \in DOMAIN s.queue : l < k /\ s.queue[l] = buf[i][1]
  BY DEF Sorting, States
<1>2. w \in Ids /\ buf[j][1] \in Ids /\ j \in DOMAIN buf
  BY <1>1, BufFacts
<1>3. /\ t.indeg = [s.indeg EXCEPT ![w] = @ - 1]
      /\ t.queue = IF s.indeg[w] = 1 THEN Append(s.queue, w) ELSE s.queue
  BY DEF Release
<1>4. t = [indeg |-> t.indeg, queue |-> t.queue]
  BY DEF Release
<1> HIDE DEF t, w, left
<1>5. \A x \in Ids : /\ IsFiniteSet(Into(rem, x)) /\ Cardinality(Into(rem, x)) \in Nat
                     /\ IsFiniteSet(Into(left, x)) /\ Cardinality(Into(left, x)) \in Nat
  BY <1>1, BufFacts DEF left
<1>6. Cardinality(Into(left, w)) = Cardinality(Into(rem, w)) - 1
  <2>1. Into(left, w) = Into(rem, w) \ {j} /\ j \in Into(rem, w)
    BY DEF Into, left, w
  <2>2. IsFiniteSet(Into(rem, w))
    BY <1>2, <1>5
  <2>3. Cardinality(Into(rem, w) \ {j}) = Cardinality(Into(rem, w)) - 1
    BY ONLY <2>1, <2>2, FS_RemoveElement
  <2> QED BY <2>1, <2>3
<1>7. \A x \in Ids : x # w => Into(left, x) = Into(rem, x)
  BY DEF Into, left, w
<1>8. t.indeg \in Degrees /\ \A x \in Ids : t.indeg[x] = Cardinality(Into(left, x))
  <2>1. \A x \in Ids : t.indeg[x] = IF x = w THEN s.indeg[w] - 1 ELSE s.indeg[x]
    BY <1>1, <1>2, <1>3 DEF Degrees
  <2>2. t.indeg = [x \in Ids |-> t.indeg[x]]
    BY <1>1, <1>3 DEF Degrees
  <2>3. \A x \in Ids : t.indeg[x] = Cardinality(Into(left, x))
    BY <1>1, <1>2, <1>6, <1>7, <2>1
  <2>4. \A x \in Ids : t.indeg[x] \in Int
    BY <1>5, <2>3
  <2> QED BY <2>2, <2>3, <2>4 DEF Degrees
<1>9. s.indeg[w] \in Nat /\ s.indeg[w] # 0 /\ t.indeg[w] = s.indeg[w] - 1
  <2>1. Cardinality(Into(left, w)) \in Nat /\ Cardinality(Into(rem, w)) \in Nat
    BY <1>2, <1>5
  <2> QED BY <1>1, <1>2, <1>6, <1>8, <2>1
<1>10. \A x \in Ids : x # w => t.indeg[x] = s.indeg[x]
  BY <1>1, <1>7, <1>8
<1>11. CASE s.indeg[w] # 1
  <2>1. t.queue = s.queue /\ t.indeg[w] # 0
    BY <1>3, <1>9, <1>11
  <2>2. \A x \in Ids : x \in ToSet(t.queue) <=> t.indeg[x] = 0
    BY <1>1, <1>9, <1>10, <2>1
  <2>3. \A i \in DOMAIN buf : i \notin left => buf[i][1] \in ToSet(t.queue)
    BY <1>1, <2>1 DEF left
  <2>4. t \in States
    BY <1>1, <1>4, <1>8, <2>1 DEF States
  <2>5. Extends(s.queue, t.queue)
    BY <1>1, <2>1, LenProperties DEF Extends
  <2>6. left \subseteq DOMAIN buf
    BY <1>1 DEF left
  <2>7. Sorting(t, left)
    BY <1>1, <1>8, <2>1, <2>2, <2>3, <2>4, <2>6 DEF Sorting
  <2> QED BY <2>5, <2>7 DEF left, t, w
<1>12. CASE s.indeg[w] = 1
  <2>1. t.queue = Append(s.queue, w) /\ t.indeg[w] = 0 /\ w \notin ToSet(s.queue)
    BY <1>1, <1>2, <1>3, <1>9, <1>12
  <2>2. /\ t.queue \in Seq(Ids) /\ Len(t.queue) = Len(s.queue) + 1
        /\ Len(s.queue) \in Nat /\ DOMAIN s.queue = 1 .. Len(s.queue)
        /\ \A i \in 1 .. Len(s.queue) : t.queue[i] = s.queue[i]
        /\ t.queue[Len(s.queue) + 1] = w
        /\ ToSet(t.queue) = ToSet(s.queue) \cup {w}
        /\ Once(t.queue)
    BY ONLY <1>1, <1>2, <2>1, Appended
  <2>3. DOMAIN t.queue = 1 .. Len(s.queue) + 1
    BY <2>2, LenProperties
  <2>4. \A x \in Ids : x \in ToSet(t.queue) <=> t.indeg[x] = 0
    BY <1>1, <1>9, <1>10, <2>1, <2>2
  <2>5. \A i \in DOMAIN buf : i \notin left => buf[i][1] \in ToSet(s.queue)
    BY <1>1 DEF left
  <2>6. ASSUME NEW i \in DOMAIN buf, NEW k \in DOMAIN t.queue, buf[i][2] = t.queue[k]
        PROVE  \E l \in DOMAIN t.queue : l < k /\ t.queue[l] = buf[i][1]
    <3>1. CASE k = Len(s.queue) + 1
      <4>1. buf[i][2] = w /\ Cardinality(Into(left, w)) = 0
        BY <1>2, <1>8, <2>1, <2>2, <2>6, <3>1
      <4>2. Into(left, w) = {}
        BY <1>2, <1>5, <4>1, FS_EmptySet
      <4>3. i \notin left
        BY <4>1, <4>2 DEF Into
      <4>4. PICK l \in 1 .. Len(s.queue) : s.queue[l] = buf[i][1]
        BY <2>2, <2>5, <4>3 DEF ToSet
      <4>5. l \in DOMAIN t.queue /\ l < k /\ t.queue[l] = s.queue[l]
        BY <2>2, <2>3, <3>1
      <4> QED BY <4>4, <4>5
    <3>2. CASE k # Len(s.queue) + 1
      <4>1. k \in 1 .. Len(s.queue)
        BY <2>2, <2>3, <3>2
      <4>2. PICK l \in 1 .. Len(s.queue) : l < k /\ s.queue[l] = buf[i][1]
        BY <1>1, <2>2, <2>6, <4>1
      <4> QED BY <2>2, <2>3, <4>2
    <3> QED BY <3>1, <3>2
  <2>7. t \in States
    BY <1>4, <1>8, <2>2 DEF States
  <2>8. Extends(s.queue, t.queue)
    BY <2>2 DEF Extends
  <2>9. left \subseteq DOMAIN buf
    BY <1>1 DEF left
  <2>10. Sorting(t, left)
    BY <1>8, <2>2, <2>4, <2>5, <2>6, <2>7, <2>9 DEF Sorting
  <2> QED BY <2>8, <2>10 DEF left, t, w
<1> QED BY <1>11, <1>12

LEMMA ExtendsMore ==
  ASSUME NEW S, NEW s \in Seq(S), NEW r \in Seq(S), NEW t \in Seq(S),
         Extends(s, r), Extends(r, t)
  PROVE  Extends(s, t)
<1>1. Len(s) \in Nat /\ Len(r) \in Nat /\ Len(t) \in Nat
  BY LenProperties
<1> QED BY <1>1 DEF Extends

LEMMA ExtendsElements ==
  ASSUME NEW S, NEW s \in Seq(S), NEW r \in Seq(S), Extends(s, r)
  PROVE  ToSet(s) \subseteq ToSet(r)
<1>1. Len(s) \in Nat /\ Len(r) \in Nat /\ DOMAIN s = 1 .. Len(s) /\ DOMAIN r = 1 .. Len(r)
  BY LenProperties
<1>2. \A i \in DOMAIN s : i \in DOMAIN r /\ r[i] = s[i]
  BY <1>1 DEF Extends
<1> QED BY <1>2 DEF ToSet

LEMMA ReleaseTyped ==
  ASSUME NEW s \in States, NEW w \in Ids
  PROVE  Release(s, w) \in States
<1>1. s.indeg \in Degrees /\ s.queue \in Seq(Ids)
  BY DEF States
<1>2. [s.indeg EXCEPT ![w] = @ - 1] \in Degrees
  BY <1>1 DEF Degrees
<1>3. Append(s.queue, w) \in Seq(Ids)
  BY <1>1, AppendProperties
<1> QED BY <1>1, <1>2, <1>3 DEF Release, States

LEMMA ReleaseRuns ==
  ASSUME NEW s \in States, NEW row \in Seq(Ids)
  PROVE  \E p : /\ InTurn(Release, s, row) = p[Len(row)] /\ p[0] = s
                /\ \A k \in 1 .. Len(row) : p[k] = Release(p[k - 1], row[k])
<1> DEFINE m == Len(row)
           F == [k \in 1 .. m |-> [x \in States |-> Release(x, row[k])]]
           Def(f) == f = [k \in 0 .. m |-> IF k = 0 THEN s ELSE Release(f[k - 1], row[k])]
           p == CHOOSE f : Def(f)
<1>1. InTurn(Release, s, row) = p[Len(row)]
  BY DEF InTurn
<1>2. m \in Nat /\ \A k \in 1 .. m : row[k] \in Ids
  BY LenProperties, ElementOfSeq
<1> HIDE DEF m
<1>3. F \in [1 .. m -> [States -> States]]
  BY <1>2, ReleaseTyped
<1>4. \A k \in 1 .. m : \A x \in States : F[k][x] = Release(x, row[k])
  OBVIOUS
<1> HIDE DEF F
<1>5. PICK h : Iterates(h, States, m, s, F)
  BY <1>2, <1>3, StepByStep
<1>6. h \in [0 .. m -> States] /\ h[0] = s /\ \A k \in 1 .. m : h[k] = Release(h[k - 1], row[k])
  <2>1. h \in [0 .. m -> States] /\ h[0] = s /\ \A k \in 1 .. m : h[k] = F[k][h[k - 1]]
    BY <1>5 DEF Iterates
  <2>2. \A k \in 1 .. m : h[k - 1] \in States
    BY <1>2, <2>1
  <2> QED BY <1>4, <2>1, <2>2
<1>7. Def(h)
  <2>1. \A k \in 0 .. m : h[k] = IF k = 0 THEN s ELSE Release(h[k - 1], row[k])
    BY <1>2, <1>6
  <2> QED BY <1>6, <2>1
<1>8. Def(p)
  <2> HIDE DEF Def
  <2> QED BY <1>7
<1>9. \A k \in 0 .. m : p[k] = IF k = 0 THEN s ELSE Release(p[k - 1], row[k])
  <2>1. p = [k \in 0 .. m |-> IF k = 0 THEN s ELSE Release(p[k - 1], row[k])]
    BY <1>8
  <2> HIDE DEF p
  <2> QED BY <2>1
<1> HIDE DEF p, Def
<1>10. p[0] = s /\ \A k \in 1 .. m : p[k] = Release(p[k - 1], row[k])
  <2>1. 0 \in 0 .. m /\ \A k \in 1 .. m : k \in 0 .. m /\ k # 0
    BY <1>2
  <2> QED BY <1>9, <2>1
<1> QED BY <1>1, <1>10 DEF m

\* All edges out of a concept in the queue are followed.
LEMMA ReleaseRow ==
  ASSUME Typed, NEW s, NEW rem, Sorting(s, rem), NEW v \in Ids, v \in ToSet(s.queue),
         At(buf, v) \subseteq rem, NEW row \in Seq(Ids), NEW q,
         FilledFrom(row, buf, At(buf, v), q)
  PROVE  /\ Sorting(InTurn(Release, s, row), rem \ At(buf, v))
         /\ Extends(s.queue, InTurn(Release, s, row).queue)
<1> DEFINE m == Len(row)
           left(k) == rem \ {q[i] : i \in 1 .. k}
<1>1. s \in States /\ s.queue \in Seq(Ids)
  BY DEF Sorting, States
<1>2. PICK p : /\ InTurn(Release, s, row) = p[m] /\ p[0] = s
               /\ \A k \in 1 .. m : p[k] = Release(p[k - 1], row[k])
  BY <1>1, ReleaseRuns
<1>3. m \in Nat /\ DOMAIN row = 1 .. m
  BY LenProperties
<1>4. /\ \A i \in 1 .. m : q[i] \in At(buf, v) /\ row[i] = buf[q[i]][2]
      /\ \A i, j \in 1 .. m : q[i] = q[j] => i = j
      /\ \A j \in At(buf, v) : \E i \in 1 .. m : q[i] = j
  BY <1>3 DEF FilledFrom
<1> HIDE DEF m
<1> DEFINE T == {k \in Nat : k <= m => Sorting(p[k], left(k)) /\ Extends(s.queue, p[k].queue)}
<1>5. 0 \in T
  <2>1. left(0) = rem
    OBVIOUS
  <2>2. Extends(s.queue, s.queue)
    BY <1>1, LenProperties DEF Extends
  <2> HIDE DEF left
  <2> QED BY <1>2, <2>1, <2>2
<1>6. ASSUME NEW k \in Nat, k \in T PROVE k + 1 \in T
  <2> SUFFICES ASSUME k + 1 <= m
               PROVE  Sorting(p[k + 1], left(k + 1)) /\ Extends(s.queue, p[k + 1].queue)
    <3> HIDE DEF left
    <3> QED OBVIOUS
  <2>1. k + 1 \in 1 .. m /\ k <= m /\ \A i \in 1 .. k : i \in 1 .. m /\ i # k + 1
    BY <1>3
  <2>2. Sorting(p[k], left(k)) /\ Extends(s.queue, p[k].queue)
    BY <1>6, <2>1
  <2>3. p[k + 1] = Release(p[k], row[k + 1])
    <3>1. PICK i \in 1 .. m : i = k + 1 /\ i - 1 = k
      BY <2>1
    <3> QED BY <1>2, <3>1
  <2> DEFINE j == q[k + 1]
  <2>4. j \in At(buf, v) /\ row[k + 1] = buf[j][2] /\ \A i \in 1 .. k : q[i] # j
    BY <1>4, <2>1
  <2>5. j \in left(k) /\ buf[j][1] = v
    BY <2>4 DEF At
  <2>6. left(k + 1) = left(k) \ {j}
    <3>1. 1 .. k + 1 = (1 .. k) \cup {k + 1}
      OBVIOUS
    <3> QED BY <3>1
  <2>7. p[k].queue \in Seq(Ids) /\ v \in ToSet(p[k].queue)
    <3>1. p[k].queue \in Seq(Ids)
      BY <2>2 DEF Sorting, States
    <3> QED BY <1>1, <2>2, <3>1, ExtendsElements
  <2> HIDE DEF left, j, T
  <2>8. Sorting(p[k + 1], left(k + 1)) /\ Extends(p[k].queue, p[k + 1].queue)
    <3>1. buf[j][1] \in ToSet(p[k].queue)
      BY <2>5, <2>7
    <3>2. /\ Sorting(Release(p[k], buf[j][2]), left(k) \ {j})
          /\ Extends(p[k].queue, Release(p[k], buf[j][2]).queue)
      BY <2>2, <2>5, <3>1, ReleaseOne
    <3> QED BY <2>3, <2>4, <2>6, <3>2
  <2>9. p[k + 1].queue \in Seq(Ids)
    BY <2>8 DEF Sorting, States
  <2> QED BY <1>1, <2>2, <2>7, <2>8, <2>9, ExtendsMore
<1> HIDE DEF T
<1>7. Nat \subseteq T
  BY ONLY <1>5, <1>6, Induction
<1>8. Sorting(p[m], left(m)) /\ Extends(s.queue, p[m].queue)
  <2> HIDE DEF left
  <2>1. m \in T /\ m <= m
    BY <1>3, <1>7
  <2> QED BY <2>1 DEF T
<1>9. left(m) = rem \ At(buf, v)
  BY <1>4
<1> HIDE DEF left
<1> QED BY <1>2, <1>8, <1>9

LEMMA ReleaseRowTyped ==
  ASSUME NEW s \in States, NEW row \in Seq(Ids)
  PROVE  InTurn(Release, s, row) \in States
<1>1. Len(row) \in Nat /\ \A k \in 1 .. Len(row) : row[k] \in Ids
  BY LenProperties, ElementOfSeq
<1>2. PICK p : /\ InTurn(Release, s, row) = p[Len(row)] /\ p[0] = s
               /\ \A k \in 1 .. Len(row) : p[k] = Release(p[k - 1], row[k])
  BY ReleaseRuns
<1> DEFINE T == {k \in Nat : k <= Len(row) => p[k] \in States}
<1>3. 0 \in T
  BY <1>2
<1>4. ASSUME NEW k \in Nat, k \in T PROVE k + 1 \in T
  <2> SUFFICES ASSUME k + 1 <= Len(row) PROVE p[k + 1] \in States
    OBVIOUS
  <2>1. PICK i \in 1 .. Len(row) : i = k + 1 /\ i - 1 = k
    BY <1>1
  <2>2. p[k] \in States
    BY <1>1, <1>4
  <2> QED BY <1>1, <1>2, <2>1, <2>2, ReleaseTyped
<1> HIDE DEF T
<1>5. Nat \subseteq T
  BY ONLY <1>3, <1>4, Induction
<1> QED BY <1>1, <1>2, <1>5 DEF T

LEMMA TakeOffTyped ==
  ASSUME Typed, Csr = BuildCsr, NEW s \in States, NEW k \in Nat \ {0}
  PROVE  TakeOff(s, k) \in States
<1>1. s.queue \in Seq(Ids)
  BY DEF States
<1>2. CASE Len(s.queue) < k
  BY <1>2 DEF TakeOff
<1>3. CASE ~ (Len(s.queue) < k)
  <2>1. s.queue[k] \in Ids
    <3>1. Len(s.queue) \in Nat
      BY <1>1, LenProperties
    <3>2. k \in 1 .. Len(s.queue)
      BY <1>3, <3>1
    <3> QED BY <1>1, <3>2, ElementOfSeq
  <2>2. Csr.out[s.queue[k]] \in Seq(Ids)
    BY <2>1, OutRows
  <2>3. InTurn(Release, s, Csr.out[s.queue[k]]) \in States
    BY <2>2, ReleaseRowTyped
  <2> QED BY <1>3, <2>3 DEF TakeOff
<1> QED BY <1>2, <1>3

\* The edges not yet followed after k turns.
Left(s, k) ==
  {j \in DOMAIN buf : \A i \in 1 .. k : i <= Len(s.queue) => s.queue[i] # buf[j][1]}

LEMMA TakeOffOne ==
  ASSUME Typed, Csr = BuildCsr, NEW k \in Nat, NEW s, Sorting(s, Left(s, k))
  PROVE  Sorting(TakeOff(s, k + 1), Left(TakeOff(s, k + 1), k + 1))
<1> DEFINE t == TakeOff(s, k + 1)
<1>1. s \in States /\ s.queue \in Seq(Ids) /\ Once(s.queue)
  BY DEF Sorting, States
<1>2. Len(s.queue) \in Nat /\ DOMAIN s.queue = 1 .. Len(s.queue)
  BY <1>1, LenProperties
<1>3. CASE Len(s.queue) < k + 1
  <2>1. t = s
    BY <1>3 DEF TakeOff
  <2>2. Left(s, k + 1) = Left(s, k)
    BY <1>2, <1>3 DEF Left
  <2> QED BY <2>1, <2>2
<1>4. CASE ~ (Len(s.queue) < k + 1)
  <2> DEFINE v == s.queue[k + 1]
  <2>1. k + 1 \in 1 .. Len(s.queue) /\ k + 1 \in DOMAIN s.queue
    BY <1>2, <1>4
  <2>2. v \in Ids /\ v \in ToSet(s.queue)
    BY <1>1, <2>1, ElementOfSeq DEF ToSet
  <2>3. \A i \in 1 .. k : i \in DOMAIN s.queue /\ s.queue[i] # v
    <3>1. \A i \in 1 .. k : i \in DOMAIN s.queue /\ i # k + 1
      BY <1>2, <2>1
    <3> QED BY <1>1, <2>1, <3>1 DEF Once
  <2>4. At(buf, v) \subseteq Left(s, k)
    BY <2>3 DEF At, Left
  <2>5. t = InTurn(Release, s, Csr.out[v])
    BY <1>4 DEF TakeOff
  <2> HIDE DEF v, t
  <2>6. PICK q : FilledFrom(Csr.out[v], buf, At(buf, v), q)
    BY <2>2, OutRows
  <2>7. Csr.out[v] \in Seq(Ids)
    BY <2>2, OutRows
  <2>8. Sorting(t, Left(s, k) \ At(buf, v)) /\ Extends(s.queue, t.queue)
    BY <2>2, <2>4, <2>5, <2>6, <2>7, ReleaseRow
  <2>9. Left(t, k + 1) = Left(s, k) \ At(buf, v)
    <3>1. t.queue \in Seq(Ids)
      BY <2>8 DEF Sorting, States
    <3>2. Len(t.queue) \in Nat /\ Len(s.queue) <= Len(t.queue)
          /\ \A i \in 1 .. Len(s.queue) : t.queue[i] = s.queue[i]
      BY <2>8, <3>1, LenProperties DEF Extends
    <3>3. \A i \in 1 .. k + 1 : /\ i <= Len(t.queue) /\ t.queue[i] = s.queue[i]
                                /\ i \in 1 .. k \/ i = k + 1
                                /\ i <= Len(s.queue)
      BY <1>2, <2>1, <3>2
    <3>4. \A i \in 1 .. k : i \in 1 .. k + 1
      OBVIOUS
    <3>5. k + 1 \in 1 .. k + 1 /\ s.queue[k + 1] = v
      BY DEF v
    <3>6. ASSUME NEW j \in DOMAIN buf PROVE j \in Left(t, k + 1) <=> j \in Left(s, k) /\ j \notin At(buf, v)
      <4>1. j \in Left(t, k + 1) <=> \A i \in 1 .. k + 1 : s.queue[i] # buf[j][1]
        BY <3>3 DEF Left
      <4>2. j \in Left(s, k) <=> \A i \in 1 .. k : s.queue[i] # buf[j][1]
        BY <3>3, <3>4 DEF Left
      <4>3. j \in At(buf, v) <=> v = buf[j][1]
        BY DEF At
      <4> QED BY <3>3, <3>4, <3>5, <4>1, <4>2, <4>3
    <3>7. Left(t, k + 1) \subseteq DOMAIN buf /\ Left(s, k) \subseteq DOMAIN buf
      BY DEF Left
    <3> QED BY <3>6, <3>7
  <2> QED BY <2>8, <2>9 DEF t
<1> QED BY <1>3, <1>4

\* Where topoBottomUp starts.
Start == [indeg |-> [c \in Ids |-> Len(Csr.in[c])], queue |-> Increasing(Minimals)]

LEMMA StartSorting ==
  ASSUME Typed, Csr = BuildCsr
  PROVE  Sorting(Start, Left(Start, 0))
<1> DEFINE q == Increasing(Minimals)
<1>1. Minimals \subseteq Ids /\ IsFiniteSet(Minimals) /\ Minimals \in SUBSET Int
  <2>1. Minimals \subseteq Ids
    BY DEF Minimals
  <2>2. IsFiniteSet(Ids) /\ Ids \subseteq Int
    BY FS_Interval DEF Ids, Typed
  <2> QED BY <2>1, <2>2, FS_Subset
<1>2. /\ q \in Seq(Minimals) /\ \A x \in Minimals : \E k \in DOMAIN q : q[k] = x
      /\ \A k, j \in DOMAIN q : k < j => q[k] < q[j]
  BY ONLY <1>1, InOrder
<1> HIDE DEF q
<1>3. DOMAIN q = 1 .. Len(q) /\ Len(q) \in Nat /\ \A k \in DOMAIN q : q[k] \in Minimals
  BY ONLY <1>2, LenProperties, ElementOfSeq
<1>4. \A k \in DOMAIN q : q[k] \in Int /\ q[k] \in Ids
  BY <1>1, <1>3
<1>5. q \in Seq(Ids)
  <2>1. q \in [1 .. Len(q) -> Minimals]
    BY <1>2, LenProperties
  <2>2. q \in [1 .. Len(q) -> Ids]
    BY <1>1, <2>1
  <2> QED BY <1>3, <2>2, SeqDef
<1>6. Once(q)
  <2> SUFFICES ASSUME NEW i \in DOMAIN q, NEW j \in DOMAIN q, q[i] = q[j] PROVE i = j
    BY DEF Once
  <2>1. ~ (q[i] < q[j]) /\ ~ (q[j] < q[i])
    BY <1>4
  <2>2. i \in Int /\ j \in Int
    BY <1>3
  <2> QED BY <1>2, <2>1, <2>2
<1>7. ToSet(q) = Minimals
  BY <1>2, <1>3 DEF ToSet
<1>8. /\ Start.queue = q /\ Start \in States
      /\ \A w \in Ids : Start.indeg[w] = Len(Csr.in[w])
  <2>1. \A w \in Ids : Len(Csr.in[w]) \in Int
    <3> TAKE w \in Ids
    <3>1. Csr.in[w] \in Seq(Ids)
      BY OutRows
    <3> QED BY <3>1, LenProperties
  <2>2. [c \in Ids |-> Len(Csr.in[c])] \in Degrees
    BY <2>1 DEF Degrees
  <2> QED BY <1>5, <2>2 DEF Start, States, q
<1>9. Left(Start, 0) = DOMAIN buf
  BY DEF Left
<1>10. \A w \in Ids : Start.indeg[w] = Cardinality(Into(DOMAIN buf, w))
  BY <1>8, OutRows DEF Into
<1>11. ASSUME NEW w \in Ids PROVE w \in ToSet(q) <=> Start.indeg[w] = 0
  <2>1. Csr.in[w] \in Seq(Ids)
    BY OutRows
  <2>2. Len(Csr.in[w]) = 0 <=> Csr.in[w] = <<>>
    BY <2>1, EmptySeq, LenProperties
  <2> QED BY <1>7, <1>8, <2>2 DEF Minimals
<1>12. ASSUME NEW j \in DOMAIN buf, NEW k \in DOMAIN q, buf[j][2] = q[k] PROVE FALSE
  <2>1. buf[j] = <<buf[j][1], q[k]>> /\ buf[j] \in Edges /\ buf[j][1] \in Ids /\ q[k] \in Ids
    BY <1>4, <1>12, BufFacts
  <2>2. buf[j][1] \in ToSet(Csr.in[q[k]])
    <3> DEFINE from == buf[j][1]
               to == q[k]
    <3>1. from \in Ids /\ to \in Ids /\ <<from, to>> \in Edges
      BY <2>1
    <3> HIDE DEF from, to
    <3>2. from \in ToSet(Csr.in[to])
      BY <3>1, OutRows
    <3> QED BY <3>2 DEF from, to
  <2>3. Csr.in[q[k]] = <<>>
    BY <1>3 DEF Minimals
  <2>4. ToSet(<<>>) = {}
    BY DEF ToSet
  <2> QED BY <2>2, <2>3, <2>4
<1> QED BY <1>6, <1>8, <1>9, <1>10, <1>11, <1>12 DEF Sorting

LEMMA TakeOffRuns ==
  ASSUME Typed, Csr = BuildCsr
  PROVE  \E p : /\ TopoBottomUp = p[n].queue /\ p[0] = Start
                /\ \A k \in 1 .. n : p[k] = TakeOff(p[k - 1], k)
<1> DEFINE row == [k \in 1 .. n |-> k]
           F == [k \in 1 .. n |-> [x \in States |-> TakeOff(x, k)]]
           Def(f) == f = [k \in 0 .. Len(row) |-> IF k = 0 THEN Start ELSE TakeOff(f[k - 1], row[k])]
           p == CHOOSE f : Def(f)
<1>1. TopoBottomUp = p[Len(row)].queue
  BY DEF TopoBottomUp, InTurn, Start
<1>2. n \in Nat
  BY DEF Typed
<1>3. Len(row) = n /\ \A k \in 1 .. n : row[k] = k
  BY <1>2
<1> HIDE DEF row
<1>4. F \in [1 .. n -> [States -> States]]
  BY <1>2, TakeOffTyped
<1>5. \A k \in 1 .. n : \A x \in States : F[k][x] = TakeOff(x, k)
  OBVIOUS
<1> HIDE DEF F
<1>6. Start \in States
  BY StartSorting DEF Sorting
<1>7. PICK h : Iterates(h, States, n, Start, F)
  BY <1>2, <1>4, <1>6, StepByStep
<1>8. h \in [0 .. n -> States] /\ h[0] = Start /\ \A k \in 1 .. n : h[k] = TakeOff(h[k - 1], k)
  <2>1. h \in [0 .. n -> States] /\ h[0] = Start /\ \A k \in 1 .. n : h[k] = F[k][h[k - 1]]
    BY <1>7 DEF Iterates
  <2>2. \A k \in 1 .. n : h[k - 1] \in States
    BY <1>2, <2>1
  <2> QED BY <1>5, <2>1, <2>2
<1>9. Def(h)
  <2>1. \A k \in 0 .. n : h[k] = IF k = 0 THEN Start ELSE TakeOff(h[k - 1], row[k])
    BY <1>2, <1>3, <1>8
  <2> QED BY <1>3, <1>8, <2>1
<1>10. Def(p)
  <2> HIDE DEF Def
  <2> QED BY <1>9
<1>11. \A k \in 0 .. n : p[k] = IF k = 0 THEN Start ELSE TakeOff(p[k - 1], row[k])
  <2>1. p = [k \in 0 .. n |-> IF k = 0 THEN Start ELSE TakeOff(p[k - 1], row[k])]
    BY <1>3, <1>10
  <2> HIDE DEF p
  <2> QED BY <2>1
<1> HIDE DEF p, Def
<1>12. p[0] = Start /\ \A k \in 1 .. n : p[k] = TakeOff(p[k - 1], k)
  <2>1. 0 \in 0 .. n /\ \A k \in 1 .. n : k \in 0 .. n /\ k # 0
    BY <1>2
  <2> QED BY <1>3, <1>11, <2>1
<1> QED BY <1>1, <1>3, <1>12

\* order has every concept once, after those with an edge to it.
Sorted(order, I, E) ==
  /\ order \in Seq(I) /\ Once(order) /\ ToSet(order) = I
  /\ \A i, k \in DOMAIN order : <<order[i], order[k]>> \in E => i < k

\* A concept that were left out would have one below it that is left out too.
LEMMA NoneLeft ==
  ASSUME Typed, Acyclic, NEW s, Sorting(s, Left(s, n))
  PROVE  ToSet(s.queue) = Ids
<1> DEFINE W == Ids \ ToSet(s.queue)
           Up(w) == {x \in Ids : <<w, x>> \in Chains}
           size == [w \in Ids |-> Cardinality(Up(w))]
           sizes == {size[w] : w \in W}
<1>1. /\ s.queue \in Seq(Ids) /\ Once(s.queue)
      /\ \A w \in Ids : s.indeg[w] = Cardinality(Into(Left(s, n), w))
      /\ \A w \in Ids : w \in ToSet(s.queue) <=> s.indeg[w] = 0
  BY DEF Sorting, States
<1>2. n \in Nat /\ IsFiniteSet(Ids) /\ Cardinality(Ids) = n
  <2>1. n \in Nat /\ 0 \in Int /\ n - 1 \in Int
    BY DEF Typed
  <2>2. IsFiniteSet(0 .. n - 1) /\ Cardinality(0 .. n - 1) = n
    BY ONLY <2>1, FS_Interval
  <2> QED BY <2>1, <2>2 DEF Ids
<1>3. ToSet(s.queue) \subseteq Ids
  BY <1>1, LenProperties, ElementOfSeq DEF ToSet
<1>4. Len(s.queue) \in Nat /\ DOMAIN s.queue = 1 .. Len(s.queue) /\ Len(s.queue) <= n
  <2>1. Cardinality(ToSet(s.queue)) <= n
    BY <1>2, <1>3, FS_Subset
  <2> QED BY <1>1, <2>1, OnceCounts, LenProperties
<1>5. \A j \in Left(s, n) : buf[j][1] \notin ToSet(s.queue)
  <2>1. \A i \in 1 .. Len(s.queue) : i \in 1 .. n /\ i <= Len(s.queue)
    BY <1>2, <1>4
  <2> QED BY <1>4, <2>1 DEF Left, ToSet
<1>6. ASSUME NEW w \in W PROVE \E v \in W : <<v, w>> \in Edges
  <2>1. Cardinality(Into(Left(s, n), w)) # 0
    BY <1>1
  <2>2. Into(Left(s, n), w) # {}
    BY <2>1, FS_EmptySet
  <2>3. PICK j \in Left(s, n) : buf[j][2] = w
    BY <2>2 DEF Into
  <2>4. j \in DOMAIN buf
    BY DEF Left
  <2> QED BY <1>5, <2>3, <2>4, BufFacts
<1>7. /\ Chains \subseteq Ids \X Ids /\ Edges \subseteq Chains
      /\ \A c \in Ids : <<c, c>> \in Chains
      /\ Transitive(Chains, Ids) /\ \A e \in Edges : <<e[2], e[1]>> \notin Chains
  BY OrderFacts DEF Acyclic, Loopless
<1> SUFFICES ASSUME W # {} PROVE FALSE
  BY <1>3
<1>8. \A w : /\ Up(w) \subseteq Ids /\ IsFiniteSet(Up(w)) /\ Cardinality(Up(w)) \in Nat
  <2> TAKE w
  <2>1. Up(w) \subseteq Ids
    OBVIOUS
  <2> HIDE DEF Up
  <2> QED BY <1>2, <2>1, FS_Subset, FS_CardinalityType
<1>9. ASSUME NEW w \in W PROVE \E v \in W : size[w] < size[v]
  <2>1. PICK v \in W : <<v, w>> \in Edges
    BY <1>6
  <2>2. v \in Up(v) /\ v \notin Up(w) /\ Up(w) \subseteq Up(v)
    BY <1>7, <2>1 DEF Transitive
  <2> HIDE DEF Up
  <2>3. Cardinality(Up(w)) <= Cardinality(Up(v))
        /\ (Cardinality(Up(w)) = Cardinality(Up(v)) => Up(w) = Up(v))
    BY <1>8, <2>2, FS_Subset
  <2>4. Cardinality(Up(w)) < Cardinality(Up(v))
    BY <1>8, <2>2, <2>3
  <2> QED BY <2>4
<1>10. IsFiniteSet(W)
  BY <1>2, FS_Subset
<1>11. \A w \in W : size[w] \in Nat
  <2> HIDE DEF Up
  <2> QED BY <1>8
<1> HIDE DEF W, size
<1>12. sizes \in SUBSET Int /\ sizes # {}
  BY <1>11
<1>13. IsFiniteSet(sizes)
  BY ONLY <1>10, FiniteImage
<1>14. PICK w \in W : size[w] = Max(sizes)
  <2>1. Max(sizes) \in sizes
    BY ONLY <1>12, <1>13, HasMax
  <2> QED BY <2>1
<1>15. \A x \in sizes : x <= Max(sizes)
  BY ONLY <1>12, <1>13, HasMax
<1> HIDE DEF sizes
<1>16. PICK v \in W : size[w] < size[v]
  BY <1>9
<1>17. size[v] \in sizes
  BY DEF sizes
<1> QED BY <1>11, <1>14, <1>15, <1>16, <1>17

LEMMA TopoSorted ==
  ASSUME Typed, Csr = BuildCsr, Acyclic
  PROVE  Sorted(TopoBottomUp, Ids, Edges)
<1>1. PICK p : /\ TopoBottomUp = p[n].queue /\ p[0] = Start
               /\ \A k \in 1 .. n : p[k] = TakeOff(p[k - 1], k)
  BY TakeOffRuns
<1>2. n \in Nat
  BY DEF Typed
<1> DEFINE T == {k \in Nat : k <= n => Sorting(p[k], Left(p[k], k))}
<1>3. 0 \in T
  BY <1>1, StartSorting
<1>4. ASSUME NEW k \in Nat, k \in T PROVE k + 1 \in T
  <2> SUFFICES ASSUME k + 1 <= n PROVE Sorting(p[k + 1], Left(p[k + 1], k + 1))
    OBVIOUS
  <2>1. PICK i \in 1 .. n : i = k + 1 /\ i - 1 = k
    BY <1>2
  <2>2. p[k + 1] = TakeOff(p[k], k + 1)
    BY <1>1, <2>1
  <2>3. Sorting(p[k], Left(p[k], k))
    BY <1>2, <1>4
  <2> HIDE DEF T
  <2> QED BY <2>2, <2>3, TakeOffOne
<1> HIDE DEF T
<1>5. Nat \subseteq T
  BY ONLY <1>3, <1>4, Induction
<1>6. Sorting(p[n], Left(p[n], n))
  BY <1>2, <1>5 DEF T
<1> DEFINE order == p[n].queue
<1>7. /\ order \in Seq(Ids) /\ Once(order)
      /\ \A j \in DOMAIN buf : \A k \in DOMAIN order :
           buf[j][2] = order[k] => \E i \in DOMAIN order : i < k /\ order[i] = buf[j][1]
  BY <1>6 DEF Sorting, States
<1>8. ToSet(order) = Ids
  BY <1>6, NoneLeft
<1> HIDE DEF order
<1>9. ASSUME NEW i \in DOMAIN order, NEW k \in DOMAIN order, <<order[i], order[k]>> \in Edges
      PROVE  i < k
  <2>1. PICK j \in DOMAIN buf : buf[j] = <<order[i], order[k]>>
    BY <1>9 DEF Edges, ToSet
  <2>2. PICK l \in DOMAIN order : l < k /\ order[l] = order[i]
    BY <1>7, <2>1
  <2> QED BY <1>7, <2>2 DEF Once
<1> QED BY <1>1, <1>7, <1>8, <1>9 DEF Sorted, order

\* Every list that is sorted is what TopoComplete asks of the order.
LEMMA TopoRight ==
  ASSUME Typed, Csr = BuildCsr, Acyclic
  PROVE  TopoComplete
<1> DEFINE order == TopoBottomUp
           place(c) == CHOOSE k \in DOMAIN order : order[k] = c
<1>1. /\ order \in Seq(Ids) /\ Once(order) /\ ToSet(order) = Ids
      /\ \A i, k \in DOMAIN order : <<order[i], order[k]>> \in Edges => i < k
  BY TopoSorted DEF Sorted
<1> HIDE DEF order
<1>2. n \in Nat /\ Cardinality(Ids) = n
  BY FS_Interval DEF Ids, Typed
<1>3. Len(order) = n
  BY <1>1, <1>2, OnceCounts
<1>4. \A c \in Ids : place(c) \in DOMAIN order /\ order[place(c)] = c
  BY <1>1 DEF ToSet
<1>5. ASSUME NEW j \in DOMAIN buf PROVE place(buf[j][1]) < place(buf[j][2])
  <2>1. buf[j] = <<buf[j][1], buf[j][2]>> /\ buf[j] \in Edges /\ buf[j][1] \in Ids /\ buf[j][2] \in Ids
    BY BufFacts
  <2> HIDE DEF place
  <2> QED BY <1>1, <1>4, <2>1
<1> QED BY <1>1, <1>3, <1>5 DEF TopoComplete, order

-----------------------------------------------------------------------------
(***************************************************************************)
(* One pass along a sorted list of the concepts hands all sets on: when    *)
(* the turn of a concept comes it has been given all it is to have.        *)
(***************************************************************************)
\* All that R hands to each concept.
Handed(rsets, R) == [c \in Ids |-> UNION {rsets[d] : d \in {x \in Ids : <<x, c>> \in R}}]

\* The row of a concept holds those it has an edge to.
RowsOf(rows, E) == \A c, d \in Ids : d \in ToSet(rows[c]) <=> <<c, d>> \in E

LEMMA HandedFacts ==
  ASSUME NEW R \in SUBSET (Ids \X Ids), NEW rsets
  PROVE  /\ \A c \in Ids : \A x : x \in Handed(rsets, R)[c] <=>
              \E d \in Ids : <<d, c>> \in R /\ x \in rsets[d]
         /\ Handed(rsets, R) = [c \in Ids |-> Handed(rsets, R)[c]]
BY DEF Handed

Visit(rsets, rows, f, c) ==
  [d \in Ids |-> IF d \in ToSet(rows[c]) \/ d = c THEN f[d] \cup (f[c] \cup rsets[c]) ELSE f[d]]

Given(sets) == [c \in Ids |-> IF sets[c] = Null THEN {} ELSE sets[c]]

Within(sets, rsets, U) ==
  Given(sets) \in [Ids -> SUBSET U] /\ \A c \in Ids : rsets[c] \subseteq U

LEMMA PropagateRuns ==
  ASSUME NEW order \in Seq(Ids), NEW sets, NEW rsets, NEW rows, NEW U, Within(sets, rsets, U)
  PROVE  \E p : /\ Propagate(sets, rsets, order, rows) = p[Len(order)] /\ p[0] = Given(sets)
                /\ \A k \in 1 .. Len(order) : p[k] = Visit(rsets, rows, p[k - 1], order[k])
<1> DEFINE S == [Ids -> SUBSET U]
           m == Len(order)
           F == [k \in 1 .. m |-> [x \in S |-> Visit(rsets, rows, x, order[k])]]
           Def(f) == f = [k \in 0 .. m |-> IF k = 0 THEN Given(sets)
                                           ELSE Visit(rsets, rows, f[k - 1], order[k])]
           p == CHOOSE f : Def(f)
<1>1. Propagate(sets, rsets, order, rows) = p[m]
  BY DEF Propagate, InTurn, Visit, Given
<1>2. m \in Nat /\ \A k \in 1 .. m : order[k] \in Ids
  BY LenProperties, ElementOfSeq
<1> HIDE DEF m
<1>a. \A x \in S : \A c \in Ids : Visit(rsets, rows, x, c) \in S
  BY DEF Visit, Within
<1>b. Given(sets) \in S
  BY DEF Within
<1> HIDE DEF S
<1>3. F \in [1 .. m -> [S -> S]]
  BY <1>2, <1>a
<1>4. \A k \in 1 .. m : \A x \in S : F[k][x] = Visit(rsets, rows, x, order[k])
  OBVIOUS
<1> HIDE DEF F
<1>5. PICK h : Iterates(h, S, m, Given(sets), F)
  BY <1>2, <1>3, <1>b, StepByStep
<1>6. /\ h \in [0 .. m -> S] /\ h[0] = Given(sets)
      /\ \A k \in 1 .. m : h[k] = Visit(rsets, rows, h[k - 1], order[k])
  <2>1. h \in [0 .. m -> S] /\ h[0] = Given(sets) /\ \A k \in 1 .. m : h[k] = F[k][h[k - 1]]
    BY <1>5 DEF Iterates
  <2>2. \A k \in 1 .. m : h[k - 1] \in S
    BY <1>2, <2>1
  <2> QED BY <1>4, <2>1, <2>2
<1>7. Def(h)
  <2>1. \A k \in 0 .. m : h[k] = IF k = 0 THEN Given(sets) ELSE Visit(rsets, rows, h[k - 1], order[k])
    BY <1>2, <1>6
  <2> QED BY <1>6, <2>1
<1>8. Def(p)
  <2> HIDE DEF Def
  <2> QED BY <1>7
<1>9. \A k \in 0 .. m : p[k] = IF k = 0 THEN Given(sets) ELSE Visit(rsets, rows, p[k - 1], order[k])
  <2>1. p = [k \in 0 .. m |-> IF k = 0 THEN Given(sets) ELSE Visit(rsets, rows, p[k - 1], order[k])]
    BY <1>8
  <2> HIDE DEF p
  <2> QED BY <2>1
<1> HIDE DEF p, Def
<1>10. p[0] = Given(sets) /\ \A k \in 1 .. m : p[k] = Visit(rsets, rows, p[k - 1], order[k])
  <2>1. 0 \in 0 .. m /\ \A k \in 1 .. m : k \in 0 .. m /\ k # 0
    BY <1>2
  <2> QED BY <1>9, <2>1
<1> QED BY <1>1, <1>10 DEF m

\* f has nothing too much; those that have had their turn have it all, and so
\* do those they have an edge to.
HandedOn(f, k, order, E, G) ==
  /\ f \in [Ids -> SUBSET UNION {G[c] : c \in Ids}]
  /\ \A c \in Ids : f[c] \subseteq G[c]
  /\ \A i \in DOMAIN order : i <= k => f[order[i]] = G[order[i]]
  /\ \A i \in DOMAIN order : \A d \in Ids :
       i <= k /\ <<order[i], d>> \in E => G[order[i]] \subseteq f[d]

LEMMA HandOn ==
  ASSUME NEW E \in SUBSET (Ids \X Ids), NEW R, Reaches(R, Ids, E),
         NEW order, Sorted(order, Ids, E), NEW rows, RowsOf(rows, E),
         NEW rsets, NEW k \in Nat, k + 1 <= Len(order),
         NEW f, HandedOn(f, k, order, E, Handed(rsets, R))
  PROVE  HandedOn(Visit(rsets, rows, f, order[k + 1]), k + 1, order, E, Handed(rsets, R))
<1> DEFINE G == Handed(rsets, R)
           c == order[k + 1]
           own == f[c] \cup rsets[c]
           t == Visit(rsets, rows, f, c)
           U == UNION {G[x] : x \in Ids}
<1>1. /\ R \subseteq Ids \X Ids /\ E \subseteq R
      /\ \A x \in Ids : <<x, x>> \in R
      /\ Transitive(R, Ids) /\ LastEdge(R, Ids, E)
  BY ReachFacts
<1>2. /\ order \in Seq(Ids) /\ Once(order) /\ ToSet(order) = Ids
      /\ \A i, j \in DOMAIN order : <<order[i], order[j]>> \in E => i < j
  BY DEF Sorted
<1>3. DOMAIN order = 1 .. Len(order) /\ Len(order) \in Nat /\ \A i \in DOMAIN order : order[i] \in Ids
  BY <1>2, LenProperties, ElementOfSeq
<1>4. k + 1 \in DOMAIN order /\ c \in Ids
  BY <1>3
<1>5. \A x \in Ids : \A y : y \in G[x] <=> \E d \in Ids : <<d, x>> \in R /\ y \in rsets[d]
  BY <1>1, HandedFacts
<1>6. /\ f \in [Ids -> SUBSET U]
      /\ \A x \in Ids : f[x] \subseteq G[x]
      /\ \A i \in DOMAIN order : i <= k => f[order[i]] = G[order[i]]
      /\ \A i \in DOMAIN order : \A d \in Ids :
           i <= k /\ <<order[i], d>> \in E => G[order[i]] \subseteq f[d]
  BY DEF HandedOn
<1>7. t = [d \in Ids |-> IF d \in ToSet(rows[c]) \/ d = c THEN f[d] \cup own ELSE f[d]]
  BY DEF Visit
<1>a. \A d \in Ids : d \in ToSet(rows[c]) <=> <<c, d>> \in E
  BY <1>4 DEF RowsOf
<1>b. \A d \in Ids : t[d] = IF <<c, d>> \in E \/ d = c THEN f[d] \cup own ELSE f[d]
  BY <1>7, <1>a
<1> HIDE DEF c, t, G
<1>8. own = G[c]
  <2>1. ASSUME NEW y \in own PROVE y \in G[c]
    BY <1>1, <1>4, <1>5, <1>6
  <2>2. ASSUME NEW y \in G[c] PROVE y \in own
    <3>1. PICK d \in Ids : <<d, c>> \in R /\ y \in rsets[d]
      BY <1>4, <1>5
    <3>2. CASE d = c
      BY <3>1, <3>2
    <3>3. CASE d # c
      <4>1. PICK e \in E : e[2] = c /\ <<d, e[1]>> \in R
        BY <1>1, <1>4, <3>1, <3>3 DEF LastEdge
      <4>2. e = <<e[1], c>> /\ e[1] \in Ids
        BY <4>1
      <4>3. PICK i \in DOMAIN order : order[i] = e[1]
        BY <1>2, <4>2 DEF ToSet
      <4>4. <<order[i], order[k + 1]>> \in E
        BY <4>2, <4>3 DEF c
      <4>5. i <= k
        <5>1. i < k + 1
          BY <1>2, <1>4, <4>4
        <5> QED BY <1>3, <5>1
      <4>6. y \in G[e[1]]
        BY <1>5, <3>1, <4>1, <4>2
      <4>7. G[order[i]] \subseteq f[c]
        BY <1>4, <1>6, <4>2, <4>3, <4>5
      <4> QED BY <4>3, <4>6, <4>7
    <3> QED BY <3>2, <3>3
  <2> QED BY <2>1, <2>2
<1> HIDE DEF own
<1>9. \A d \in Ids : <<c, d>> \in E => G[c] \subseteq G[d]
  BY <1>1, <1>4, <1>5 DEF Transitive
<1>10. \A d \in Ids : t[d] \subseteq G[d] /\ f[d] \subseteq t[d]
  <2> TAKE d \in Ids
  <2>1. f[d] \subseteq G[d] /\ t[d] = IF <<c, d>> \in E \/ d = c THEN f[d] \cup G[c] ELSE f[d]
    BY <1>6, <1>8, <1>b
  <2>2. <<c, d>> \in E \/ d = c => G[c] \subseteq G[d]
    BY <1>9
  <2> QED BY ONLY <2>1, <2>2
<1>11. t[c] = G[c] /\ \A d \in Ids : <<c, d>> \in E => G[c] \subseteq t[d]
  BY <1>4, <1>6, <1>8, <1>b
<1>12. t \in [Ids -> SUBSET U]
  <2>1. \A d \in Ids : t[d] \subseteq U
    BY <1>10
  <2>2. t = [d \in Ids |-> t[d]]
    BY <1>7
  <2> HIDE DEF U
  <2> QED BY <2>1, <2>2
<1>13. \A i \in DOMAIN order : i <= k + 1 => i <= k \/ order[i] = c
  BY <1>3 DEF c
<1>14. \A i \in DOMAIN order : i <= k + 1 => t[order[i]] = G[order[i]]
  <2> TAKE i \in DOMAIN order
  <2> HAVE i <= k + 1
  <2>1. CASE order[i] = c
    BY <1>11, <2>1
  <2>2. CASE i <= k
    <3>1. f[order[i]] = G[order[i]] /\ order[i] \in Ids
      BY <1>3, <1>6, <2>2
    <3> QED BY <1>10, <3>1
  <2> QED BY <1>13, <2>1, <2>2
<1>15. \A i \in DOMAIN order : \A d \in Ids :
         i <= k + 1 /\ <<order[i], d>> \in E => G[order[i]] \subseteq t[d]
  BY <1>6, <1>10, <1>11, <1>13
<1> QED BY <1>10, <1>12, <1>14, <1>15 DEF HandedOn, t, G, c

LEMMA PropagateRight ==
  ASSUME NEW E \in SUBSET (Ids \X Ids), NEW R, Reaches(R, Ids, E),
         NEW order, Sorted(order, Ids, E), NEW rows, RowsOf(rows, E),
         NEW sets, NEW rsets, \A c \in Ids : sets[c] \in {Null, Handed(rsets, R)[c]}
  PROVE  Propagate(sets, rsets, order, rows) = Handed(rsets, R)
<1> DEFINE G == Handed(rsets, R)
           U == UNION {G[x] : x \in Ids}
           m == Len(order)
<1>1. R \subseteq Ids \X Ids /\ \A x \in Ids : <<x, x>> \in R
  BY ReachFacts
<1>2. order \in Seq(Ids) /\ ToSet(order) = Ids
  BY DEF Sorted
<1>3. DOMAIN order = 1 .. m /\ m \in Nat
  BY <1>2, LenProperties
<1>4. /\ G = [c \in Ids |-> G[c]]
      /\ \A c \in Ids : \A x : x \in G[c] <=> \E d \in Ids : <<d, c>> \in R /\ x \in rsets[d]
  <2>1. R \in SUBSET (Ids \X Ids)
    BY <1>1
  <2>2. /\ Handed(rsets, R) = [c \in Ids |-> Handed(rsets, R)[c]]
        /\ \A c \in Ids : \A x : x \in Handed(rsets, R)[c] <=>
              \E d \in Ids : <<d, c>> \in R /\ x \in rsets[d]
    BY ONLY <2>1, HandedFacts
  <2> HIDE DEF G
  <2>3. G = Handed(rsets, R)
    BY DEF G
  <2> QED BY ONLY <2>2, <2>3
<1> HIDE DEF G, m
<1>5. \A c \in Ids : rsets[c] \subseteq U
  BY <1>1, <1>4
<1>6. \A c \in Ids : Given(sets)[c] \subseteq G[c]
  BY DEF Given, G
<1>7. Given(sets) \in [Ids -> SUBSET U]
  BY <1>6 DEF Given
<1>8. PICK p : /\ Propagate(sets, rsets, order, rows) = p[m] /\ p[0] = Given(sets)
               /\ \A k \in 1 .. m : p[k] = Visit(rsets, rows, p[k - 1], order[k])
  <2>1. Within(sets, rsets, U)
    BY <1>5, <1>7 DEF Within
  <2> HIDE DEF U
  <2> QED BY <1>2, <2>1, PropagateRuns DEF m
<1> DEFINE T == {k \in Nat : k <= m => HandedOn(p[k], k, order, E, G)}
<1>9. 0 \in T
  <2>1. \A i \in DOMAIN order : ~ (i <= 0)
    BY <1>3
  <2>2. HandedOn(Given(sets), 0, order, E, G)
    BY <1>6, <1>7, <2>1 DEF HandedOn
  <2> QED BY <1>8, <2>2
<1>10. ASSUME NEW k \in Nat, k \in T PROVE k + 1 \in T
  <2> SUFFICES ASSUME k + 1 <= m PROVE HandedOn(p[k + 1], k + 1, order, E, G)
    OBVIOUS
  <2>1. PICK i \in 1 .. m : i = k + 1 /\ i - 1 = k
    BY <1>3
  <2>2. p[k + 1] = Visit(rsets, rows, p[k], order[k + 1])
    BY <1>8, <2>1
  <2>3. HandedOn(p[k], k, order, E, G)
    BY <1>3, <1>10
  <2> HIDE DEF T
  <2> QED BY <2>2, <2>3, HandOn DEF G, m
<1> HIDE DEF T
<1>11. Nat \subseteq T
  BY ONLY <1>9, <1>10, Induction
<1>12. HandedOn(p[m], m, order, E, G)
  BY <1>3, <1>11 DEF T
<1>13. ASSUME NEW c \in Ids PROVE p[m][c] = G[c]
  <2>1. PICK i \in 1 .. m : order[i] = c
    BY <1>2, <1>3 DEF ToSet
  <2> QED BY <1>3, <1>12, <2>1 DEF HandedOn
<1>14. p[m] = [c \in Ids |-> p[m][c]]
  BY <1>12 DEF HandedOn
<1> QED BY <1>4, <1>8, <1>13, <1>14 DEF G

-----------------------------------------------------------------------------
(***************************************************************************)
(* The full sets.                                                          *)
(***************************************************************************)
ExtIn(N, R, rext, c) == UNION {rext[d] : d \in {x \in 0 .. N - 1 : <<x, c>> \in R}}
IntIn(N, R, rint, c) == UNION {rint[d] : d \in {x \in 0 .. N - 1 : <<c, x>> \in R}}

Right(N, R, ext, int, rext, rint) ==
  \A c \in 0 .. N - 1 :
    ext[c] \in {Null, ExtIn(N, R, rext, c)} /\ int[c] \in {Null, IntIn(N, R, rint, c)}

LEMMA FullSetsOf ==
  ASSUME NEW N, NEW B, NEW rext, NEW rint, NEW c \in 0 .. N - 1
  PROVE  LET full == FullSets([n |-> N, edges |-> B, rext |-> rext, rint |-> rint])
         IN  /\ full[c].ext = ExtIn(N, UpTo(N, B), rext, c)
             /\ full[c].int = IntIn(N, UpTo(N, B), rint, c)
<1> DEFINE L == [n |-> N, edges |-> B, rext |-> rext, rint |-> rint]
           up == UpTo(N, B)
<1>1. L.n = N /\ L.edges = B /\ L.rext = rext /\ L.rint = rint
  OBVIOUS
<1> HIDE DEF L
<1>2. FullSets(L) = [x \in 0 .. N - 1 |-> [ext |-> ExtIn(N, up, rext, x), int |-> IntIn(N, up, rint, x)]]
  BY <1>1 DEF FullSets, ExtIn, IntIn
<1>3. FullSets(L)[c] = [ext |-> ExtIn(N, up, rext, c), int |-> IntIn(N, up, rint, c)]
  BY <1>2
<1> QED BY <1>3 DEF L

LEMMA RightFullSets ==
  FullSetsRight <=> Right(n, Chains, extents, intents, rextents, rintents)
<1> DEFINE full == FullSets([n |-> n, edges |-> buf, rext |-> rextents, rint |-> rintents])
<1>1. \A c \in 0 .. n - 1 : /\ full[c].ext = ExtIn(n, Chains, rextents, c)
                            /\ full[c].int = IntIn(n, Chains, rintents, c)
  BY FullSetsOf DEF Chains
<1>2. FullSetsRight <=> \A c \in 0 .. n - 1 : /\ extents[c] \in {Null, full[c].ext}
                                              /\ intents[c] \in {Null, full[c].int}
  BY DEF FullSetsRight, Ids
<1> HIDE DEF full
<1> QED BY <1>1, <1>2 DEF Right

LEMMA RightFullSetsNext ==
  FullSetsRight' <=> Right(n', UpTo(n', buf'), extents', intents', rextents', rintents')
<1> DEFINE full == FullSets([n |-> n', edges |-> buf', rext |-> rextents', rint |-> rintents'])
<1>1. \A c \in 0 .. n' - 1 : /\ full[c].ext = ExtIn(n', UpTo(n', buf'), rextents', c)
                             /\ full[c].int = IntIn(n', UpTo(n', buf'), rintents', c)
  BY FullSetsOf
<1>2. FullSetsRight' <=> \A c \in 0 .. n' - 1 : /\ extents'[c] \in {Null, full[c].ext}
                                                /\ intents'[c] \in {Null, full[c].int}
  BY DEF FullSetsRight, Ids
<1> HIDE DEF full
<1> QED BY <1>1, <1>2 DEF Right

\* The order upside down.
Under == UpTo(n, Swap(buf))

LEMMA UnderFacts ==
  ASSUME Typed
  PROVE  /\ Swap(buf) \in Seq(Ids \X Ids) /\ ToSet(Swap(buf)) \in SUBSET (Ids \X Ids)
         /\ Reaches(Under, Ids, ToSet(Swap(buf)))
         /\ \A c, d \in Ids : <<c, d>> \in ToSet(Swap(buf)) <=> <<d, c>> \in Edges
         /\ \A c, d \in Ids : <<c, d>> \in Chains <=> <<d, c>> \in Under
<1> DEFINE F == ToSet(Swap(buf))
<1>1. Swap(buf) \in Seq(Ids \X Ids) /\ \A x, y : <<x, y>> \in F <=> <<y, x>> \in Edges
  BY Swapped DEF Typed, Edges
<1>2. F \in SUBSET (Ids \X Ids)
  <2>1. \A j \in DOMAIN Swap(buf) : Swap(buf)[j] \in Ids \X Ids
    BY <1>1, LenProperties, ElementOfSeq
  <2> QED BY <2>1 DEF ToSet
<1>3. Reaches(Under, Ids, F)
  <2>1. Swap(buf) \in Seq((0 .. n - 1) \X (0 .. n - 1))
    BY <1>1 DEF Ids
  <2> QED BY <2>1, AllReached DEF Typed, Ids, Under
<1>4. \A c, d \in Ids : <<c, d>> \in Edges <=> <<d, c>> \in F
  BY <1>1
<1> HIDE DEF F
<1>5. \A c, d \in Ids : <<c, d>> \in Chains <=> <<d, c>> \in Under
  <2>1. Edges \in SUBSET (Ids \X Ids) /\ Reaches(Chains, Ids, Edges)
    BY OrderFacts
  <2> QED BY ONLY <1>2, <1>3, <1>4, <2>1, ReachInverse
<1> QED BY <1>1, <1>2, <1>3, <1>4, <1>5 DEF F

LEMMA Reversed ==
  ASSUME NEW I, NEW E, NEW F, NEW s, Sorted(s, I, E),
         \A c, d \in I : <<c, d>> \in F => <<d, c>> \in E
  PROVE  Sorted(Reverse(s), I, F)
<1> DEFINE r == Reverse(s)
           m == Len(s)
           turn(k) == (m - k) + 1
<1>1. /\ s \in Seq(I) /\ Once(s) /\ ToSet(s) = I
      /\ \A i, k \in DOMAIN s : <<s[i], s[k]>> \in E => i < k
  BY DEF Sorted
<1>2. DOMAIN s = 1 .. m /\ m \in Nat /\ \A k \in 1 .. m : s[k] \in I
  BY <1>1, LenProperties, ElementOfSeq
<1>3. r = [k \in 1 .. m |-> s[turn(k)]]
  BY DEF Reverse
<1> HIDE DEF r, m
<1>4. \A k \in 1 .. m : turn(k) \in 1 .. m /\ turn(turn(k)) = k
  BY <1>2
<1>5. \A i, k \in 1 .. m : turn(i) < turn(k) => k < i
  BY <1>2
<1>6. \A i, k \in 1 .. m : turn(i) = turn(k) => i = k
  BY <1>2
<1> HIDE DEF turn
<1>7. r \in Seq(I) /\ DOMAIN r = 1 .. m /\ \A k \in 1 .. m : r[k] = s[turn(k)]
  BY <1>2, <1>3, <1>4
<1>8. Once(r)
  BY <1>1, <1>2, <1>4, <1>6, <1>7 DEF Once
<1>9. ToSet(r) = I
  <2>1. ASSUME NEW x \in I PROVE x \in ToSet(r)
    <3>1. PICK k \in 1 .. m : s[k] = x
      BY <1>1, <1>2 DEF ToSet
    <3>2. turn(k) \in 1 .. m /\ r[turn(k)] = x
      BY <1>4, <1>7, <3>1
    <3> QED BY <1>7, <3>2 DEF ToSet
  <2>2. ToSet(r) \subseteq I
    BY <1>2, <1>4, <1>7 DEF ToSet
  <2> QED BY <2>1, <2>2
<1>10. ASSUME NEW i \in 1 .. m, NEW k \in 1 .. m, <<r[i], r[k]>> \in F PROVE i < k
  <2>1. turn(i) \in 1 .. m /\ turn(k) \in 1 .. m /\ r[i] = s[turn(i)] /\ r[k] = s[turn(k)]
    BY <1>4, <1>7
  <2>2. <<s[turn(k)], s[turn(i)]>> \in E
    BY <1>2, <1>10, <2>1
  <2>3. turn(k) < turn(i)
    BY <1>1, <1>2, <2>1, <2>2
  <2> QED BY <1>5, <2>3
<1> QED BY <1>7, <1>8, <1>9, <1>10 DEF Sorted, r

\* What the two passes give.
LEMMA ExtentsComputed ==
  ASSUME Typed, Csr = BuildCsr, Acyclic, FullSetsRight
  PROVE  Propagate(extents, rextents, TopoBottomUp, Csr.out) =
           [c \in Ids |-> ExtIn(n, Chains, rextents, c)]
<1>1. Edges \in SUBSET (Ids \X Ids) /\ Reaches(Chains, Ids, Edges)
  BY OrderFacts
<1>2. Sorted(TopoBottomUp, Ids, Edges)
  BY TopoSorted
<1>3. RowsOf(Csr.out, Edges)
  BY OutRows DEF RowsOf
<1>4. Handed(rextents, Chains) = [c \in Ids |-> ExtIn(n, Chains, rextents, c)]
  BY DEF Handed, ExtIn, Ids
<1>5. \A c \in Ids : extents[c] \in {Null, Handed(rextents, Chains)[c]}
  BY <1>4, RightFullSets DEF Right, Ids
<1> QED BY <1>1, <1>2, <1>3, <1>4, <1>5, PropagateRight

LEMMA IntentsComputed ==
  ASSUME Typed, Csr = BuildCsr, Acyclic, FullSetsRight
  PROVE  Propagate(intents, rintents, TopDown, Csr.in) =
           [c \in Ids |-> IntIn(n, Chains, rintents, c)]
<1> DEFINE F == ToSet(Swap(buf))
<1>1. /\ F \in SUBSET (Ids \X Ids) /\ Reaches(Under, Ids, F)
      /\ \A c, d \in Ids : <<c, d>> \in F <=> <<d, c>> \in Edges
      /\ \A c, d \in Ids : <<c, d>> \in Chains <=> <<d, c>> \in Under
  BY UnderFacts
<1> HIDE DEF F
<1>2. Sorted(TopDown, Ids, F)
  <2>1. \A c, d \in Ids : <<c, d>> \in F => <<d, c>> \in Edges
    BY <1>1
  <2> QED BY <2>1, TopoSorted, Reversed DEF TopDown
<1>3. RowsOf(Csr.in, F)
  BY <1>1, OutRows DEF RowsOf
<1>4. Handed(rintents, Under) = [c \in Ids |-> IntIn(n, Chains, rintents, c)]
  <2>1. \A c \in Ids : {x \in Ids : <<x, c>> \in Under} = {x \in Ids : <<c, x>> \in Chains}
    BY <1>1
  <2> QED BY <2>1 DEF Handed, IntIn, Ids
<1>5. \A c \in Ids : intents[c] \in {Null, Handed(rintents, Under)[c]}
  BY <1>4, RightFullSets DEF Right, Ids
<1> QED BY <1>1, <1>2, <1>3, <1>4, <1>5, PropagateRight

-----------------------------------------------------------------------------
(***************************************************************************)
(* The search of reduce and closure finds all there is above its start:    *)
(* each turn uses up an entry of the stack or the edges out of a concept,  *)
(* so that the stack is empty at the end.                                  *)
(***************************************************************************)
Searches == [seen : Seq(Ids), stack : Seq(Ids)]

\* The edges out of concepts that were not seen.
NotYet(seen) == {j \in DOMAIN buf : buf[j][1] \notin ToSet(seen)}

Searching(s, k, start) ==
  /\ s \in Searches /\ Once(s.seen)
  /\ \A v \in ToSet(start) : v \in ToSet(s.seen) \cup ToSet(s.stack)
  /\ \A v, d \in Ids : v \in ToSet(s.seen) /\ <<v, d>> \in Edges =>
                         d \in ToSet(s.seen) \cup ToSet(s.stack)
  /\ \A v \in ToSet(s.seen) \cup ToSet(s.stack) : \E x \in ToSet(start) : <<x, v>> \in Chains
  /\ s.stack = <<>> \/ Len(s.stack) + Cardinality(NotYet(s.seen)) + k <= Len(start) + Len(buf)

LEMMA FrontElements ==
  ASSUME NEW S, NEW s \in Seq(S), s # <<>>
  PROVE  ToSet(s) = ToSet(Front(s)) \cup {Last(s)}
<1>1. /\ Front(s) \in Seq(S) /\ Len(s) \in Nat \ {0} /\ Len(Front(s)) = Len(s) - 1
      /\ \A k \in 1 .. Len(s) - 1 : Front(s)[k] = s[k]
  BY LastAndFront
<1>2. Last(s) = s[Len(s)]
  BY DEF Last
<1>3. DOMAIN s = 1 .. Len(s) /\ DOMAIN Front(s) = 1 .. Len(s) - 1
  BY <1>1, LenProperties
<1>4. 1 .. Len(s) = (1 .. Len(s) - 1) \cup {Len(s)}
  BY <1>1
<1>5. ASSUME NEW x \in ToSet(s) PROVE x \in ToSet(Front(s)) \cup {Last(s)}
  <2>1. PICK k \in 1 .. Len(s) : s[k] = x
    BY <1>3, <1>5 DEF ToSet
  <2>2. CASE k = Len(s)
    BY <1>2, <2>1, <2>2
  <2>3. CASE k \in 1 .. Len(s) - 1
    BY <1>1, <1>3, <2>1, <2>3 DEF ToSet
  <2> QED BY <1>4, <2>2, <2>3
<1>6. Last(s) \in ToSet(s)
  BY <1>2, <1>3, <1>4 DEF ToSet
<1>7. ASSUME NEW x \in ToSet(Front(s)) PROVE x \in ToSet(s)
  <2>1. PICK k \in 1 .. Len(s) - 1 : Front(s)[k] = x
    BY <1>3, <1>7 DEF ToSet
  <2>2. k \in DOMAIN s /\ s[k] = x
    BY <1>1, <1>3, <1>4, <2>1
  <2> QED BY <2>2 DEF ToSet
<1> QED BY <1>5, <1>6, <1>7

LEMMA TurnShape ==
  ASSUME Typed, Csr = BuildCsr, NEW s \in Searches, NEW k
  PROVE  /\ Turn(s, k) \in Searches
         /\ s.stack = <<>> => Turn(s, k) = s
         /\ s.stack # <<>> /\ Last(s.stack) \in ToSet(s.seen) =>
              Turn(s, k) = [seen |-> s.seen, stack |-> Front(s.stack)]
         /\ s.stack # <<>> /\ Last(s.stack) \notin ToSet(s.seen) =>
              LET seen == Append(s.seen, Last(s.stack))
              IN  Turn(s, k) = [seen |-> seen,
                                stack |-> Front(s.stack)
                                          \o Without(Csr.out[Last(s.stack)], ToSet(seen))]
<1>1. s.seen \in Seq(Ids) /\ s.stack \in Seq(Ids)
  BY DEF Searches
<1>2. CASE s.stack = <<>>
  <2>1. Turn(s, k) = s
    BY <1>2 DEF Turn
  <2> QED BY <1>2, <2>1
<1>3. CASE s.stack # <<>>
  <2> DEFINE v == Last(s.stack)
             rest == Front(s.stack)
             seen == Append(s.seen, v)
             more == Without(Csr.out[v], ToSet(seen))
  <2>1. v \in Ids /\ rest \in Seq(Ids)
    BY <1>1, <1>3, LastAndFront
  <2>2. Csr.out[v] \in Seq(Ids)
    BY <2>1, OutRows
  <2>3. more \in Seq(Ids)
    BY <2>2, WithoutFacts
  <2>4. seen \in Seq(Ids)
    BY <1>1, <2>1, AppendProperties
  <2>5. rest \o more \in Seq(Ids)
    <3> HIDE DEF rest, more
    <3> QED BY <2>1, <2>3, ConcatProperties
  <2>6. Turn(s, k) = IF v \in ToSet(s.seen) THEN [seen |-> s.seen, stack |-> rest]
                     ELSE [seen |-> seen, stack |-> rest \o more]
    BY <1>3 DEF Turn
  <2> HIDE DEF v, rest, seen, more
  <2>7. Turn(s, k) \in Searches
    BY <1>1, <2>1, <2>4, <2>5, <2>6 DEF Searches
  <2> QED BY <1>3, <2>6, <2>7 DEF v, rest, seen, more
<1> QED BY <1>2, <1>3

LEMMA TurnKeeps ==
  ASSUME Typed, Csr = BuildCsr, NEW start \in Seq(Ids), NEW k \in Nat,
         NEW s, Searching(s, k, start), NEW i
  PROVE  Searching(Turn(s, i), k + 1, start)
<1> DEFINE t == Turn(s, i)
           room == Len(start) + Len(buf)
<1>1. /\ s \in Searches /\ s.seen \in Seq(Ids) /\ s.stack \in Seq(Ids) /\ Once(s.seen)
      /\ \A v \in ToSet(start) : v \in ToSet(s.seen) \cup ToSet(s.stack)
      /\ \A v, d \in Ids : v \in ToSet(s.seen) /\ <<v, d>> \in Edges =>
                             d \in ToSet(s.seen) \cup ToSet(s.stack)
      /\ \A v \in ToSet(s.seen) \cup ToSet(s.stack) : \E x \in ToSet(start) : <<x, v>> \in Chains
      /\ s.stack = <<>> \/ Len(s.stack) + Cardinality(NotYet(s.seen)) + k <= room
  BY DEF Searching, Searches
<1>2. \A S \in SUBSET DOMAIN buf : IsFiniteSet(S) /\ Cardinality(S) \in Nat
  <2>1. IsFiniteSet(DOMAIN buf)
    BY BufFacts, FS_Interval
  <2> QED BY <2>1, FS_Subset, FS_CardinalityType
<1>3. \A q : NotYet(q) \in SUBSET DOMAIN buf
  BY DEF NotYet
<1>4. room \in Nat
  BY BufFacts, LenProperties
<1> HIDE DEF room
<1>5. CASE s.stack = <<>>
  <2>1. Turn(s, i) = s
    BY <1>1, <1>5, TurnShape
  <2> QED BY <1>1, <1>5, <2>1 DEF Searching
<1>6. CASE s.stack # <<>>
  <2> DEFINE v == Last(s.stack)
             rest == Front(s.stack)
  <2>1. /\ v \in Ids /\ rest \in Seq(Ids) /\ Len(s.stack) \in Nat \ {0}
        /\ Len(rest) = Len(s.stack) - 1
    BY <1>1, <1>6, LastAndFront
  <2>2. ToSet(s.stack) = ToSet(rest) \cup {v}
    BY <1>1, <1>6, FrontElements
  <2>3. Len(s.stack) + Cardinality(NotYet(s.seen)) + k <= room
    BY <1>1, <1>6
  <2>4. CASE v \in ToSet(s.seen)
    <3>1. t = [seen |-> s.seen, stack |-> rest] /\ t \in Searches
      BY <1>1, <1>6, <2>4, TurnShape
    <3>2. t.seen = s.seen /\ t.stack = rest
      BY <3>1
    <3>3. Cardinality(NotYet(s.seen)) \in Nat
      BY <1>2, <1>3
    <3> HIDE DEF v, rest, t
    <3>4. Len(t.stack) + Cardinality(NotYet(t.seen)) + (k + 1) <= room
      BY <1>4, <2>1, <2>3, <3>2, <3>3
    <3>5. ToSet(t.seen) \cup ToSet(t.stack) = ToSet(s.seen) \cup ToSet(s.stack)
      BY <2>2, <2>4, <3>2
    <3>6. /\ \A x \in ToSet(start) : x \in ToSet(t.seen) \cup ToSet(t.stack)
          /\ \A x, d \in Ids : x \in ToSet(t.seen) /\ <<x, d>> \in Edges =>
                                 d \in ToSet(t.seen) \cup ToSet(t.stack)
          /\ \A x \in ToSet(t.seen) \cup ToSet(t.stack) : \E y \in ToSet(start) : <<y, x>> \in Chains
      BY <1>1, <3>2, <3>5
    <3>7. Once(t.seen)
      BY <1>1, <3>2
    <3> QED BY <3>1, <3>4, <3>6, <3>7 DEF Searching, t, room
  <2>5. CASE v \notin ToSet(s.seen)
    <3> DEFINE seen == Append(s.seen, v)
               row == Csr.out[v]
               more == Without(row, ToSet(seen))
    <3>1. t = [seen |-> seen, stack |-> rest \o more] /\ t \in Searches
      BY <1>1, <1>6, <2>5, TurnShape
    <3>2. ToSet(seen) = ToSet(s.seen) \cup {v} /\ Once(seen)
      BY <1>1, <2>1, <2>5, Appended
    <3>3. /\ row \in Seq(Ids) /\ Len(row) = Cardinality(At(buf, v))
          /\ \A d \in Ids : d \in ToSet(row) <=> <<v, d>> \in Edges
      BY <2>1, OutRows
    <3> HIDE DEF v, rest, t, seen, row
    <3>4. more \in Seq(Ids) /\ ToSet(more) = ToSet(row) \ ToSet(seen) /\ Len(more) <= Len(row)
      BY <3>3, WithoutFacts
    <3> HIDE DEF more
    <3>5. t.seen = seen /\ t.stack = rest \o more
      BY <3>1
    <3>6. ToSet(t.stack) = ToSet(rest) \cup ToSet(more)
      BY ONLY <2>1, <3>4, <3>5, ConcatElements
    <3>7. ToSet(row) \subseteq Ids
      BY <3>3, LenProperties, ElementOfSeq DEF ToSet
    <3>8. \A d \in Ids : <<v, d>> \in Edges => d \in ToSet(t.seen) \cup ToSet(t.stack)
      BY <3>3, <3>4, <3>5, <3>6
    <3>9. ToSet(s.seen) \cup ToSet(s.stack) \subseteq ToSet(t.seen) \cup ToSet(t.stack)
      BY <2>2, <3>2, <3>5, <3>6
    <3>10. ToSet(t.seen) \cup ToSet(t.stack) \subseteq
             ToSet(s.seen) \cup ToSet(s.stack) \cup {d \in Ids : <<v, d>> \in Edges}
      BY <2>2, <3>2, <3>3, <3>4, <3>5, <3>6, <3>7
    <3>11. ASSUME NEW d \in Ids, <<v, d>> \in Edges
           PROVE  \E x \in ToSet(start) : <<x, d>> \in Chains
      <4>1. PICK x \in ToSet(start) : <<x, v>> \in Chains
        BY <1>1, <2>2
      <4>2. x \in Ids
        BY LenProperties, ElementOfSeq DEF ToSet
      <4> QED BY <2>1, <3>11, <4>1, <4>2, OrderFacts DEF Transitive
    <3>12. NotYet(seen) = NotYet(s.seen) \ At(buf, v) /\ At(buf, v) \subseteq NotYet(s.seen)
      BY <2>5, <3>2 DEF NotYet, At
    <3>13. Cardinality(NotYet(seen)) = Cardinality(NotYet(s.seen)) - Cardinality(At(buf, v))
      <4>1. IsFiniteSet(NotYet(s.seen)) /\ IsFiniteSet(At(buf, v))
        BY <1>2, <1>3, <3>12
      <4>2. NotYet(s.seen) \cap At(buf, v) = At(buf, v)
        BY <3>12
      <4> QED BY <3>12, <4>1, <4>2, FS_Difference
    <3>14. Len(t.stack) = Len(rest) + Len(more) /\ Len(rest) \in Nat /\ Len(more) \in Nat
           /\ Len(row) \in Nat
      <4>1. Len(rest \o more) = Len(rest) + Len(more)
        BY ONLY <2>1, <3>4, ConcatProperties
      <4>2. Len(rest) \in Nat /\ Len(more) \in Nat /\ Len(row) \in Nat
        BY ONLY <2>1, <3>3, <3>4, LenProperties
      <4> QED BY <3>5, <4>1, <4>2
    <3>15. Len(t.stack) + Cardinality(NotYet(t.seen)) + (k + 1) <= room
      <4>1. Cardinality(NotYet(s.seen)) \in Nat /\ Cardinality(NotYet(seen)) \in Nat
        BY <1>2, <1>3
      <4>2. Cardinality(NotYet(t.seen)) = Cardinality(NotYet(s.seen)) - Len(row)
        BY <3>3, <3>5, <3>13
      <4>3. Len(t.stack) = Len(rest) + Len(more) /\ Len(rest) = Len(s.stack) - 1
            /\ Len(more) <= Len(row) /\ Len(s.stack) + Cardinality(NotYet(s.seen)) + k <= room
        BY <2>1, <2>3, <3>4, <3>14
      <4>4. /\ Len(s.stack) \in Nat /\ Len(rest) \in Nat /\ Len(more) \in Nat /\ Len(row) \in Nat
            /\ room \in Nat /\ k \in Nat /\ Cardinality(NotYet(s.seen)) \in Nat
        BY <1>4, <2>1, <3>14, <4>1
      <4> DEFINE c == Cardinality(NotYet(s.seen))
                 d == Cardinality(NotYet(t.seen))
                 l == Len(t.stack)
                 r == Len(rest)
                 m == Len(more)
                 w == Len(row)
                 z == Len(s.stack)
      <4>5. /\ d = c - w /\ l = r + m /\ r = z - 1 /\ m <= w /\ z + c + k <= room
            /\ c \in Nat /\ r \in Nat /\ m \in Nat /\ w \in Nat /\ z \in Nat /\ room \in Nat /\ k \in Nat
        BY <4>2, <4>3, <4>4
      <4> HIDE DEF c, d, l, r, m, w, z
      <4>6. l + d + (k + 1) <= room
        BY ONLY <4>5
      <4> QED BY <4>6 DEF d, l
    <3>16. /\ \A x \in ToSet(start) : x \in ToSet(t.seen) \cup ToSet(t.stack)
           /\ \A x \in ToSet(t.seen) \cup ToSet(t.stack) : \E y \in ToSet(start) : <<y, x>> \in Chains
      BY <1>1, <3>9, <3>10, <3>11
    <3>17. \A x, d \in Ids : x \in ToSet(t.seen) /\ <<x, d>> \in Edges =>
                               d \in ToSet(t.seen) \cup ToSet(t.stack)
      BY <1>1, <3>2, <3>5, <3>8, <3>9
    <3>18. Once(t.seen)
      BY <3>2, <3>5
    <3> QED BY <3>1, <3>15, <3>16, <3>17, <3>18 DEF Searching, t, room
  <2> QED BY <2>4, <2>5
<1> QED BY <1>5, <1>6

\* p has what the turns of a search make of its start.
SearchRun(p, start) ==
  /\ Search(start) = p[Len(start) + Len(buf)].seen
  /\ p[0] = [seen |-> <<>>, stack |-> start]
  /\ \A k \in 1 .. Len(start) + Len(buf) : p[k] = Turn(p[k - 1], k)

LEMMA SearchRuns ==
  ASSUME Typed, Csr = BuildCsr, NEW start \in Seq(Ids)
  PROVE  \E p : SearchRun(p, start)
<1> DEFINE m == Len(start) + Len(buf)
           row == [k \in 1 .. m |-> k]
           b == [seen |-> <<>>, stack |-> start]
           F == [k \in 1 .. m |-> [x \in Searches |-> Turn(x, k)]]
           Def(f) == f = [k \in 0 .. Len(row) |-> IF k = 0 THEN b ELSE Turn(f[k - 1], row[k])]
           p == CHOOSE f : Def(f)
<1>1. Search(start) = p[Len(row)].seen
  BY DEF Search, InTurn
<1>2. m \in Nat
  BY BufFacts, LenProperties
<1>a. b \in Searches
  BY EmptySeq DEF Searches
<1> HIDE DEF m, b
<1>3. Len(row) = m /\ \A k \in 1 .. m : row[k] = k
  BY <1>2
<1> HIDE DEF row
<1>4. F \in [1 .. m -> [Searches -> Searches]]
  BY <1>2, TurnShape
<1>5. \A k \in 1 .. m : \A x \in Searches : F[k][x] = Turn(x, k)
  OBVIOUS
<1> HIDE DEF F
<1>7. PICK h : Iterates(h, Searches, m, b, F)
  BY <1>2, <1>4, <1>a, StepByStep
<1>8. h \in [0 .. m -> Searches] /\ h[0] = b /\ \A k \in 1 .. m : h[k] = Turn(h[k - 1], k)
  <2>1. h \in [0 .. m -> Searches] /\ h[0] = b /\ \A k \in 1 .. m : h[k] = F[k][h[k - 1]]
    BY <1>7 DEF Iterates
  <2>2. \A k \in 1 .. m : h[k - 1] \in Searches
    BY <1>2, <2>1
  <2> QED BY <1>5, <2>1, <2>2
<1>9. Def(h)
  <2>1. \A k \in 0 .. m : h[k] = IF k = 0 THEN b ELSE Turn(h[k - 1], row[k])
    BY <1>2, <1>3, <1>8
  <2> QED BY <1>3, <1>8, <2>1
<1>10. Def(p)
  <2> HIDE DEF Def
  <2> QED BY <1>9
<1>11. \A k \in 0 .. m : p[k] = IF k = 0 THEN b ELSE Turn(p[k - 1], row[k])
  <2>1. p = [k \in 0 .. m |-> IF k = 0 THEN b ELSE Turn(p[k - 1], row[k])]
    BY <1>3, <1>10
  <2> HIDE DEF p
  <2> QED BY <2>1
<1> HIDE DEF p, Def
<1>12. p[0] = b /\ \A k \in 1 .. m : p[k] = Turn(p[k - 1], k)
  <2>1. 0 \in 0 .. m /\ \A k \in 1 .. m : k \in 0 .. m /\ k # 0
    BY <1>2
  <2> QED BY <1>3, <1>11, <2>1
<1> QED BY <1>1, <1>3, <1>12 DEF m, b, SearchRun

\* The concepts on a chain from one of start.
Above(start) == {v \in Ids : \E x \in ToSet(start) : <<x, v>> \in Chains}

LEMMA SearchRight ==
  ASSUME Typed, Csr = BuildCsr, NEW start \in Seq(Ids)
  PROVE  /\ Search(start) \in Seq(Ids) /\ Once(Search(start))
         /\ ToSet(Search(start)) = Above(start)
<1> DEFINE m == Len(start) + Len(buf)
           b == [seen |-> <<>>, stack |-> start]
<1>0. PICK p : SearchRun(p, start)
  BY SearchRuns
<1>1. /\ Search(start) = p[m].seen /\ p[0] = b
      /\ \A k \in 1 .. m : p[k] = Turn(p[k - 1], k)
  BY <1>0 DEF SearchRun
<1>2. m \in Nat /\ Len(start) \in Nat /\ Len(buf) \in Nat /\ DOMAIN buf = 1 .. Len(buf)
  BY BufFacts, LenProperties
<1>3. ToSet(start) \subseteq Ids
  BY LenProperties, ElementOfSeq DEF ToSet
<1> DEFINE T == {k \in Nat : k <= m => Searching(p[k], k, start)}
<1>4. 0 \in T
  <2>1. b \in Searches /\ b.seen = <<>> /\ b.stack = start
    BY EmptySeq DEF Searches
  <2> HIDE DEF b
  <2>2. ToSet(<<>>) = {} /\ Once(<<>>)
    BY DEF ToSet, Once
  <2>3. NotYet(<<>>) = DOMAIN buf
    BY <2>2 DEF NotYet
  <2>4. Cardinality(NotYet(<<>>)) = Len(buf)
    <3>0. ASSUME NEW L \in Nat PROVE Cardinality(1 .. L) = L
      <4>1. Cardinality(1 .. L) = IF 1 > L THEN 0 ELSE L - 1 + 1
        BY FS_Interval
      <4> QED BY <4>1
    <3>1. Cardinality(1 .. Len(buf)) = Len(buf)
      BY <1>2, <3>0
    <3> QED BY <1>2, <2>3, <3>1
  <2>5. Len(b.stack) + Cardinality(NotYet(b.seen)) + 0 <= Len(start) + Len(buf)
    BY <1>2, <2>1, <2>4
  <2>6. \A v \in ToSet(start) : <<v, v>> \in Chains
    BY <1>3, OrderFacts
  <2>7. Searching(b, 0, start)
    BY <2>1, <2>2, <2>5, <2>6 DEF Searching
  <2> QED BY <1>1, <2>7
<1>5. ASSUME NEW k \in Nat, k \in T PROVE k + 1 \in T
  <2> SUFFICES ASSUME k + 1 <= m PROVE Searching(p[k + 1], k + 1, start)
    OBVIOUS
  <2>1. PICK i \in 1 .. m : i = k + 1 /\ i - 1 = k
    BY <1>2
  <2>2. p[k + 1] = Turn(p[k], k + 1)
    BY <1>1, <2>1
  <2>3. Searching(p[k], k, start)
    BY <1>2, <1>5
  <2> HIDE DEF T
  <2> QED BY <2>2, <2>3, TurnKeeps
<1> HIDE DEF T
<1>6. Nat \subseteq T
  BY ONLY <1>4, <1>5, Induction
<1>7. Searching(p[m], m, start)
  BY <1>2, <1>6 DEF T
<1> DEFINE s == p[m]
<1>8. /\ s.seen \in Seq(Ids) /\ s.stack \in Seq(Ids) /\ Once(s.seen)
      /\ \A v \in ToSet(start) : v \in ToSet(s.seen) \cup ToSet(s.stack)
      /\ \A v, d \in Ids : v \in ToSet(s.seen) /\ <<v, d>> \in Edges =>
                             d \in ToSet(s.seen) \cup ToSet(s.stack)
      /\ \A v \in ToSet(s.seen) \cup ToSet(s.stack) : \E x \in ToSet(start) : <<x, v>> \in Chains
      /\ s.stack = <<>> \/ Len(s.stack) + Cardinality(NotYet(s.seen)) + m <= m
  BY <1>7 DEF Searching, Searches
<1> HIDE DEF s
<1>9. s.stack = <<>>
  <2>1. Len(s.stack) \in Nat
    BY <1>8, LenProperties
  <2>2. Cardinality(NotYet(s.seen)) \in Nat
    <3>1. IsFiniteSet(DOMAIN buf) /\ NotYet(s.seen) \subseteq DOMAIN buf
      BY <1>2, FS_Interval DEF NotYet
    <3> QED BY <3>1, FS_Subset, FS_CardinalityType
  <2> HIDE DEF m
  <2> DEFINE l == Len(s.stack)
             c == Cardinality(NotYet(s.seen))
  <2>3. ASSUME l + c + m <= m PROVE l = 0
    <3>1. l \in Nat /\ c \in Nat /\ m \in Nat
      BY <1>2, <2>1, <2>2
    <3> HIDE DEF l, c
    <3> QED BY ONLY <2>3, <3>1
  <2> QED BY <1>8, <2>3, EmptySeq
<1>10. ToSet(s.stack) = {}
  BY <1>9 DEF ToSet
<1>11. ASSUME NEW v \in Ids, NEW x \in ToSet(start), <<x, v>> \in Chains PROVE v \in ToSet(s.seen)
  <2> DEFINE Q == {q \in Ids \X Ids : q[1] \in ToSet(s.seen) => q[2] \in ToSet(s.seen)}
  <2>1. Edges \in SUBSET (Ids \X Ids) /\ Reaches(Chains, Ids, Edges)
    BY OrderFacts
  <2>2. ASSUME NEW c \in Ids, NEW e \in Edges, <<c, e[1]>> \in Q PROVE <<c, e[2]>> \in Q
    <3>1. e[1] \in Ids /\ e[2] \in Ids /\ e = <<e[1], e[2]>>
      BY <2>1
    <3>2. e[1] \in ToSet(s.seen) => e[2] \in ToSet(s.seen)
      BY <1>8, <1>10, <3>1
    <3> QED BY <2>2, <3>1, <3>2
  <2>3. Prolonged(Q, Ids, Edges)
    BY <2>2 DEF Prolonged
  <2>4. <<x, v>> \in Q
    BY <1>11, <2>1, <2>3 DEF Reaches
  <2>5. x \in ToSet(s.seen)
    BY <1>8, <1>10
  <2> QED BY <2>4, <2>5
<1>12. ASSUME NEW v \in ToSet(s.seen) PROVE v \in Above(start)
  <2>1. v \in Ids
    BY <1>8, LenProperties, ElementOfSeq DEF ToSet
  <2> QED BY <1>8, <2>1 DEF Above
<1>13. ToSet(s.seen) = Above(start)
  BY <1>11, <1>12 DEF Above
<1> QED BY <1>1, <1>8, <1>13 DEF s

\* Rebuilding the edges from rows.
Lists(rows) == \A c \in Ids : rows[c] \in Seq(Ids)

LEMMA EdgesRebuilt ==
  ASSUME Typed, NEW rows, Lists(rows)
  PROVE  /\ EdgesOf(rows) \in Seq(Ids \X Ids)
         /\ RowsOf(rows, ToSet(EdgesOf(rows)))
         /\ (\A c \in Ids : Once(rows[c])) => Once(EdgesOf(rows))
<1> DEFINE part(k) == [j \in DOMAIN rows[k - 1] |-> <<k - 1, rows[k - 1][j]>>]
           parts == [k \in 1 .. n |-> part(k)]
           E == ToSet(EdgesOf(rows))
<1>1. n \in Nat /\ Ids = 0 .. n - 1
  BY DEF Typed, Ids
<1>2. \A k \in 1 .. n : k - 1 \in Ids
  BY <1>1
<1>3. ASSUME NEW k \in 1 .. n
      PROVE  /\ part(k) \in Seq(Ids \X Ids) /\ DOMAIN part(k) = DOMAIN rows[k - 1]
             /\ \A c, d : <<c, d>> \in ToSet(part(k)) <=> c = k - 1 /\ d \in ToSet(rows[k - 1])
             /\ Once(rows[k - 1]) => Once(part(k))
  <2> DEFINE c0 == k - 1
             r == rows[c0]
             q == part(k)
  <2>1. c0 \in Ids /\ r \in Seq(Ids)
    BY <1>2 DEF Lists
  <2>2. q = [j \in DOMAIN r |-> <<c0, r[j]>>]
    OBVIOUS
  <2> HIDE DEF c0, r, q
  <2>3. DOMAIN r = 1 .. Len(r) /\ Len(r) \in Nat /\ \A j \in DOMAIN r : r[j] \in Ids
    BY <2>1, LenProperties, ElementOfSeq
  <2>4. q \in Seq(Ids \X Ids) /\ DOMAIN q = DOMAIN r /\ \A j \in DOMAIN r : q[j] = <<c0, r[j]>>
    BY <2>1, <2>2, <2>3
  <2>5. ASSUME NEW c, NEW d PROVE <<c, d>> \in ToSet(q) <=> c = c0 /\ d \in ToSet(r)
    <3>1. ASSUME NEW j \in DOMAIN r PROVE q[j] = <<c, d>> <=> c = c0 /\ r[j] = d
      BY <2>4
    <3> QED BY <2>4, <3>1 DEF ToSet
  <2>6. Once(r) => Once(q)
    BY <2>4 DEF Once
  <2> QED BY <2>4, <2>5, <2>6 DEF c0, r, q
<1>4. EdgesOf(rows) = FlattenSeq(parts)
  BY DEF EdgesOf
<1>5. \A k \in 1 .. n : parts[k] = part(k)
  OBVIOUS
<1>6. parts = [k \in 1 .. n |-> parts[k]]
  OBVIOUS
<1> HIDE DEF parts, part
<1>7. parts \in Seq(Seq(Ids \X Ids)) /\ DOMAIN parts = 1 .. n
  <2>1. \A k \in 1 .. n : parts[k] \in Seq(Ids \X Ids)
    BY <1>3, <1>5
  <2>2. parts \in [1 .. n -> Seq(Ids \X Ids)]
    BY ONLY <1>6, <2>1
  <2> QED BY ONLY <1>1, <2>2, SeqDef
<1>8. /\ FlattenSeq(parts) \in Seq(Ids \X Ids)
      /\ ToSet(FlattenSeq(parts)) = UNION {ToSet(parts[k]) : k \in DOMAIN parts}
  BY ONLY <1>7, FlattenElements
<1>9. ASSUME NEW c \in Ids, NEW d \in Ids PROVE d \in ToSet(rows[c]) <=> <<c, d>> \in E
  <2>1. PICK k \in 1 .. n : k - 1 = c
    <3>1. c + 1 \in 1 .. n /\ (c + 1) - 1 = c
      BY <1>1
    <3> QED BY <3>1
  <2>2. ASSUME d \in ToSet(rows[c]) PROVE <<c, d>> \in E
    <3>1. <<c, d>> \in ToSet(parts[k])
      BY <1>3, <1>5, <2>1, <2>2
    <3> QED BY <1>4, <1>7, <1>8, <3>1
  <2>3. ASSUME <<c, d>> \in E PROVE d \in ToSet(rows[c])
    <3>1. PICK i \in 1 .. n : <<c, d>> \in ToSet(parts[i])
      BY <1>4, <1>7, <1>8, <2>3
    <3> QED BY <1>3, <1>5, <3>1
  <2> QED BY <2>2, <2>3
<1>10. ASSUME \A c \in Ids : Once(rows[c]) PROVE Once(FlattenSeq(parts))
  <2>1. \A k \in DOMAIN parts : Once(parts[k])
    BY <1>2, <1>3, <1>5, <1>7, <1>10
  <2>2. ASSUME NEW k \in DOMAIN parts, NEW i \in DOMAIN parts, k # i
        PROVE  ToSet(parts[k]) \cap ToSet(parts[i]) = {}
    <3> SUFFICES ASSUME NEW e \in ToSet(parts[k]), e \in ToSet(parts[i]) PROVE FALSE
      OBVIOUS
    <3>1. parts[k] \in Seq(Ids \X Ids)
      BY <1>3, <1>5, <1>7
    <3>2. e = <<e[1], e[2]>>
      <4>1. PICK j \in DOMAIN parts[k] : parts[k][j] = e
        BY DEF ToSet
      <4>2. e \in Ids \X Ids
        BY <3>1, <4>1, LenProperties, ElementOfSeq
      <4> QED BY <4>2
    <3>3. <<e[1], e[2]>> \in ToSet(parts[k]) /\ <<e[1], e[2]>> \in ToSet(parts[i])
      BY <3>2
    <3>4. e[1] = k - 1 /\ e[1] = i - 1
      BY <1>3, <1>5, <1>7, <3>3
    <3> QED BY <1>1, <1>7, <2>2, <3>4
  <2> QED BY ONLY <1>7, <2>1, <2>2, FlattenOnce
<1> QED BY <1>4, <1>8, <1>9, <1>10 DEF RowsOf

-----------------------------------------------------------------------------
(***************************************************************************)
(* What closure and reduce leave.                                          *)
(***************************************************************************)
Closed == EdgesOf([u \in Ids |-> Search(Csr.out[u])])
Reduced == EdgesOf([u \in Ids |-> Kept(u)])

LEMMA ClosedRight ==
  ASSUME Typed, Csr = BuildCsr, Acyclic
  PROVE  /\ Closed \in Seq(Ids \X Ids) /\ Once(Closed)
         /\ ToSet(Closed) = {p \in Chains : p[1] # p[2]}
         /\ UpTo(n, Closed) = Chains
<1> DEFINE rows == [u \in Ids |-> Search(Csr.out[u])]
           F == {p \in Chains : p[1] # p[2]}
<1>1. \A u \in Ids : /\ rows[u] \in Seq(Ids) /\ Once(rows[u])
                     /\ ToSet(rows[u]) = Above(Csr.out[u])
  <2> TAKE u \in Ids
  <2>1. Csr.out[u] \in Seq(Ids)
    BY OutRows
  <2> QED BY <2>1, SearchRight
<1> HIDE DEF rows
<1>2. /\ Edges \in SUBSET (Ids \X Ids) /\ Reaches(Chains, Ids, Edges)
      /\ Chains \subseteq Ids \X Ids /\ Edges \subseteq Chains
      /\ \A c \in Ids : <<c, c>> \in Chains
      /\ Transitive(Chains, Ids) /\ FirstEdge(Chains, Ids, Edges)
      /\ Antisymmetric(Chains, Ids) /\ \A e \in Edges : e[1] # e[2]
  BY OrderFacts
<1>3. ASSUME NEW c \in Ids, NEW d \in Ids
      PROVE  d \in ToSet(rows[c]) <=> <<c, d>> \in Chains /\ c # d
  <2>1. d \in ToSet(rows[c]) <=> \E x \in ToSet(Csr.out[c]) : <<x, d>> \in Chains
    BY <1>1 DEF Above
  <2>2. \A x \in ToSet(Csr.out[c]) : x \in Ids
    <3>1. Csr.out[c] \in Seq(Ids)
      BY OutRows
    <3> QED BY <3>1, LenProperties, ElementOfSeq DEF ToSet
  <2>3. \A x \in Ids : x \in ToSet(Csr.out[c]) <=> <<c, x>> \in Edges
    BY OutRows
  <2>4. ASSUME NEW x \in Ids, <<c, x>> \in Edges, <<x, d>> \in Chains
        PROVE  <<c, d>> \in Chains /\ c # d
    <3>1. <<c, x>> \in Chains /\ c # x
      BY <1>2, <2>4
    <3> QED BY <1>2, <2>4, <3>1 DEF Transitive, Antisymmetric
  <2>5. ASSUME <<c, d>> \in Chains, c # d
        PROVE  \E x \in Ids : <<c, x>> \in Edges /\ <<x, d>> \in Chains
    <3>1. PICK e \in Edges : e[1] = c /\ <<e[2], d>> \in Chains
      BY <1>2, <2>5 DEF FirstEdge
    <3>2. e = <<c, e[2]>> /\ e[2] \in Ids
      BY <1>2, <3>1
    <3> QED BY <3>1, <3>2
  <2> QED BY <2>1, <2>2, <2>3, <2>4, <2>5
<1>4. /\ Closed \in Seq(Ids \X Ids) /\ Once(Closed)
      /\ \A c, d \in Ids : d \in ToSet(rows[c]) <=> <<c, d>> \in ToSet(Closed)
  <2>1. Lists(rows) /\ Closed = EdgesOf(rows)
    BY <1>1 DEF Lists, Closed, rows
  <2>2. \A c \in Ids : Once(rows[c])
    BY <1>1
  <2> QED BY <2>1, <2>2, EdgesRebuilt DEF RowsOf
<1>5. ToSet(Closed) \subseteq Ids \X Ids
  BY <1>4, LenProperties, ElementOfSeq DEF ToSet
<1>6. ToSet(Closed) = F
  <2>1. \A c, d \in Ids : <<c, d>> \in ToSet(Closed) <=> <<c, d>> \in F
    BY <1>3, <1>4
  <2>2. F \subseteq Ids \X Ids
    BY <1>2
  <2> HIDE DEF F
  <2> QED BY ONLY <1>5, <2>1, <2>2
<1>7. UpTo(n, Closed) = Chains
  <2>1. Reaches(UpTo(n, Closed), Ids, F)
    <3>1. Closed \in Seq((0 .. n - 1) \X (0 .. n - 1)) /\ n \in Nat
      BY <1>4 DEF Ids, Typed
    <3>2. Reaches(UpTo(n, Closed), 0 .. n - 1, ToSet(Closed))
      BY ONLY <3>1, AllReached
    <3> HIDE DEF F
    <3> QED BY <1>6, <3>2 DEF Ids
  <2>2. Edges \subseteq F
    BY <1>2
  <2>3. Chains \subseteq UpTo(n, Closed)
    <3> HIDE DEF F
    <3> QED BY ONLY <1>2, <2>1, <2>2, ReachMore
  <2>4. Prolonged(Chains, Ids, F)
    <3>1. ASSUME NEW c \in Ids, NEW e \in F, <<c, e[1]>> \in Chains PROVE <<c, e[2]>> \in Chains
      <4>1. e = <<e[1], e[2]>> /\ e \in Chains /\ e[1] \in Ids /\ e[2] \in Ids
        BY <1>2
      <4> QED BY <1>2, <3>1, <4>1 DEF Transitive
    <3> HIDE DEF F
    <3> QED BY <1>2, <3>1 DEF Prolonged
  <2>5. UpTo(n, Closed) \subseteq Chains
    <3> HIDE DEF F
    <3> QED BY <2>1, <2>4 DEF Reaches
  <2> QED BY ONLY <2>3, <2>5
<1> QED BY <1>4, <1>6, <1>7

\* The pairs next to each other in the order R.
Covers(R, I) ==
  {p \in I \X I : /\ p \in R /\ p[1] # p[2]
                  /\ ~ \E x \in I : p[1] # x /\ x # p[2] /\ <<p[1], x>> \in R /\ <<x, p[2]>> \in R}

\* An edge is kept when no chain of two edges or more goes where it does.
LEMMA KeptRight ==
  ASSUME Typed, Csr = BuildCsr, Acyclic, NEW c \in Ids
  PROVE  /\ Kept(c) \in Seq(Ids)
         /\ \A d \in Ids : d \in ToSet(Kept(c)) <=> <<c, d>> \in Covers(Chains, Ids)
<1> DEFINE row == Csr.out[c]
           parts == [k \in DOMAIN row |-> Csr.out[row[k]]]
           beyond == FlattenSeq(parts)
<1>1. row \in Seq(Ids) /\ \A d \in Ids : d \in ToSet(row) <=> <<c, d>> \in Edges
  BY OutRows
<1>2. Kept(c) = Without(row, ToSet(Search(beyond)))
  BY DEF Kept
<1> HIDE DEF row
<1>3. DOMAIN row = 1 .. Len(row) /\ Len(row) \in Nat /\ \A k \in DOMAIN row : row[k] \in Ids
  BY <1>1, LenProperties, ElementOfSeq
<1>4. \A k \in DOMAIN row : parts[k] = Csr.out[row[k]] /\ parts[k] \in Seq(Ids)
  BY <1>3, OutRows
<1>5. parts \in Seq(Seq(Ids)) /\ DOMAIN parts = DOMAIN row
  <2>1. parts = [k \in 1 .. Len(row) |-> parts[k]]
    BY <1>3
  <2> HIDE DEF parts
  <2>2. \A k \in 1 .. Len(row) : parts[k] \in Seq(Ids)
    BY <1>3, <1>4
  <2>3. parts \in [1 .. Len(row) -> Seq(Ids)]
    BY ONLY <2>1, <2>2
  <2> QED BY ONLY <1>3, <2>3, SeqDef
<1> HIDE DEF parts
<1>6. beyond \in Seq(Ids) /\ ToSet(beyond) = UNION {ToSet(parts[k]) : k \in DOMAIN parts}
  BY ONLY <1>5, FlattenElements
<1>7. ToSet(Search(beyond)) = Above(beyond)
  <2> HIDE DEF beyond
  <2> QED BY <1>6, SearchRight
<1>8. Kept(c) \in Seq(Ids) /\ ToSet(Kept(c)) = ToSet(row) \ Above(beyond)
  BY <1>1, <1>2, <1>7, WithoutFacts
<1> HIDE DEF beyond
<1>9. ASSUME NEW z \in Ids
      PROVE  z \in ToSet(beyond) <=> \E y \in Ids : <<c, y>> \in Edges /\ <<y, z>> \in Edges
  <2>1. ASSUME z \in ToSet(beyond) PROVE \E y \in Ids : <<c, y>> \in Edges /\ <<y, z>> \in Edges
    <3>1. PICK k \in DOMAIN row : z \in ToSet(parts[k])
      BY <1>5, <1>6, <2>1
    <3>2. row[k] \in Ids /\ row[k] \in ToSet(row) /\ z \in ToSet(Csr.out[row[k]])
      BY <1>3, <1>4, <3>1 DEF ToSet
    <3>3. <<row[k], z>> \in Edges
      BY <3>2, OutRows
    <3> QED BY <1>1, <3>2, <3>3
  <2>2. ASSUME NEW y \in Ids, <<c, y>> \in Edges, <<y, z>> \in Edges PROVE z \in ToSet(beyond)
    <3>1. PICK k \in DOMAIN row : row[k] = y
      BY <1>1, <2>2 DEF ToSet
    <3>2. z \in ToSet(Csr.out[y])
      BY <2>2, OutRows
    <3> QED BY <1>4, <1>5, <1>6, <3>1, <3>2
  <2> QED BY <2>1, <2>2
<1>10. /\ Edges \in SUBSET (Ids \X Ids) /\ Edges \subseteq Chains
       /\ \A x \in Ids : <<x, x>> \in Chains
       /\ Transitive(Chains, Ids) /\ FirstEdge(Chains, Ids, Edges)
       /\ Antisymmetric(Chains, Ids) /\ \A e \in Edges : e[1] # e[2]
  BY OrderFacts
<1>a. \A x, d \in Ids : <<x, d>> \in Chains /\ x # d =>
        \E y \in Ids : <<x, y>> \in Edges /\ <<y, d>> \in Chains /\ <<x, y>> \in Chains /\ x # y
  <2> SUFFICES ASSUME NEW x \in Ids, NEW d \in Ids, <<x, d>> \in Chains, x # d
               PROVE  \E y \in Ids : <<x, y>> \in Edges /\ <<y, d>> \in Chains /\ <<x, y>> \in Chains /\ x # y
    OBVIOUS
  <2>1. PICK e \in Edges : e[1] = x /\ <<e[2], d>> \in Chains
    BY <1>10 DEF FirstEdge
  <2>2. e = <<x, e[2]>> /\ e[2] \in Ids /\ e[1] # e[2]
    BY <1>10, <2>1
  <2> QED BY <1>10, <2>1, <2>2
<1>b. \A x, y \in Ids : <<x, y>> \in Edges => <<x, y>> \in Chains /\ x # y
  BY <1>10
<1>c. \A x, y, z \in Ids : <<x, y>> \in Chains /\ <<y, z>> \in Chains => <<x, z>> \in Chains
  BY <1>10 DEF Transitive
<1>d. \A x, y \in Ids : <<x, y>> \in Chains /\ <<y, x>> \in Chains => x = y
  BY <1>10 DEF Antisymmetric
<1>11. ASSUME NEW d \in Ids PROVE d \in ToSet(Kept(c)) <=> <<c, d>> \in Covers(Chains, Ids)
  <2>1. d \in ToSet(Kept(c)) <=>
          /\ <<c, d>> \in Edges
          /\ ~ \E z \in ToSet(beyond) : <<z, d>> \in Chains
    BY <1>1, <1>8 DEF Above
  <2>2. \A z \in ToSet(beyond) : z \in Ids
    BY <1>6, LenProperties, ElementOfSeq DEF ToSet
  <2>3. <<c, d>> \in Covers(Chains, Ids) <=>
          /\ <<c, d>> \in Chains /\ c # d
          /\ ~ \E x \in Ids : c # x /\ x # d /\ <<c, x>> \in Chains /\ <<x, d>> \in Chains
    BY DEF Covers
  <2>4. ASSUME NEW x \in Ids, c # x, x # d, <<c, x>> \in Chains, <<x, d>> \in Chains
        PROVE  \E z \in ToSet(beyond) : <<z, d>> \in Chains
    <3>1. PICK y \in Ids : <<c, y>> \in Edges /\ <<y, x>> \in Chains
      BY <1>a, <2>4
    <3>2. <<y, d>> \in Chains /\ y # d
      BY <1>c, <1>d, <2>4, <3>1
    <3>3. PICK z \in Ids : <<y, z>> \in Edges /\ <<z, d>> \in Chains
      BY <1>a, <3>2
    <3>4. z \in ToSet(beyond)
      BY <1>9, <3>1, <3>3
    <3> QED BY <3>3, <3>4
  <2>5. ASSUME NEW z \in ToSet(beyond), <<z, d>> \in Chains
        PROVE  \E x \in Ids : c # x /\ x # d /\ <<c, x>> \in Chains /\ <<x, d>> \in Chains
    <3>1. PICK y \in Ids : <<c, y>> \in Edges /\ <<y, z>> \in Edges
      BY <1>9, <2>2
    <3>2. z \in Ids /\ <<c, y>> \in Chains /\ c # y /\ <<y, z>> \in Chains /\ y # z
      BY <1>b, <2>2, <3>1
    <3>3. <<y, d>> \in Chains /\ y # d
      BY <1>c, <1>d, <2>5, <3>2
    <3> QED BY <3>2, <3>3
  <2>6. ASSUME <<c, d>> \in Chains, c # d,
               ~ \E x \in Ids : c # x /\ x # d /\ <<c, x>> \in Chains /\ <<x, d>> \in Chains
        PROVE  <<c, d>> \in Edges
    <3>1. PICK y \in Ids : <<c, y>> \in Edges /\ <<y, d>> \in Chains /\ <<c, y>> \in Chains /\ c # y
      BY <1>a, <2>6
    <3> QED BY <2>6, <3>1
  <2> QED BY <1>b, <2>1, <2>3, <2>4, <2>5, <2>6
<1> QED BY <1>8, <1>11

LEMMA ReducedRight ==
  ASSUME Typed, Csr = BuildCsr, Acyclic
  PROVE  /\ Reduced \in Seq(Ids \X Ids) /\ ToSet(Reduced) = Covers(Chains, Ids)
         /\ UpTo(n, Reduced) = Chains
<1> DEFINE rows == [u \in Ids |-> Kept(u)]
           H == Covers(Chains, Ids)
<1>1. \A c \in Ids : /\ rows[c] \in Seq(Ids)
                     /\ \A d \in Ids : d \in ToSet(rows[c]) <=> <<c, d>> \in H
  BY KeptRight
<1>2. Reduced = EdgesOf(rows)
  BY DEF Reduced
<1> HIDE DEF rows
<1>3. /\ Reduced \in Seq(Ids \X Ids)
      /\ \A c, d \in Ids : d \in ToSet(rows[c]) <=> <<c, d>> \in ToSet(Reduced)
  <2>1. Lists(rows)
    BY <1>1 DEF Lists
  <2> QED BY <1>2, <2>1, EdgesRebuilt DEF RowsOf
<1>4. ToSet(Reduced) \subseteq Ids \X Ids
  BY <1>3, LenProperties, ElementOfSeq DEF ToSet
<1>5. H \subseteq Ids \X Ids
  BY DEF Covers
<1>6. \A c, d \in Ids : <<c, d>> \in H <=>
        /\ <<c, d>> \in Chains /\ c # d
        /\ ~ \E x \in Ids : c # x /\ x # d /\ <<c, x>> \in Chains /\ <<x, d>> \in Chains
  BY DEF Covers
<1> HIDE DEF H
<1>7. ToSet(Reduced) = H
  <2>1. \A c, d \in Ids : <<c, d>> \in ToSet(Reduced) <=> <<c, d>> \in H
    BY <1>1, <1>3
  <2> QED BY ONLY <1>4, <1>5, <2>1
<1>8. UpTo(n, Reduced) = Chains
  <2>1. /\ Chains \subseteq Ids \X Ids
        /\ \A x \in Ids : <<x, x>> \in Chains
        /\ Transitive(Chains, Ids) /\ Antisymmetric(Chains, Ids)
    BY OrderFacts
  <2>2. /\ n \in Nat /\ Reduced \in Seq((0 .. n - 1) \X (0 .. n - 1))
        /\ Chains \in SUBSET ((0 .. n - 1) \X (0 .. n - 1))
        /\ \A c \in 0 .. n - 1 : <<c, c>> \in Chains
        /\ \A c, d \in 0 .. n - 1 : <<c, d>> \in Chains /\ <<d, c>> \in Chains => c = d
        /\ \A c, d, x \in 0 .. n - 1 : <<c, x>> \in Chains /\ <<x, d>> \in Chains => <<c, d>> \in Chains
        /\ \A c, d \in 0 .. n - 1 :
             <<c, d>> \in ToSet(Reduced) <=>
               /\ <<c, d>> \in Chains /\ c # d
               /\ ~ \E x \in 0 .. n - 1 : c # x /\ x # d /\ <<c, x>> \in Chains /\ <<x, d>> \in Chains
    BY <1>3, <1>6, <1>7, <2>1 DEF Ids, Typed, Transitive, Antisymmetric
  <2> QED BY ONLY <2>2, HasseChains
<1> QED BY <1>3, <1>7, <1>8 DEF H

\* None of the edges left can be done without.
LEMMA NoneToSpare ==
  ASSUME Typed, Csr = BuildCsr, Acyclic, NEW e \in ToSet(Reduced)
  PROVE  e \notin UpTo(n, Without(Reduced, {e}))
<1> DEFINE W == Without(Reduced, {e})
           Q == UpTo(n, W)
           F == ToSet(W)
<1>1. /\ Reduced \in Seq(Ids \X Ids) /\ ToSet(Reduced) = Covers(Chains, Ids)
      /\ UpTo(n, Reduced) = Chains
  BY ReducedRight
<1>2. W \in Seq(Ids \X Ids) /\ F = ToSet(Reduced) \ {e}
  BY ONLY <1>1, WithoutFacts
<1>3. /\ e \in Ids \X Ids /\ e \in Chains /\ e[1] # e[2]
      /\ ~ \E x \in Ids : e[1] # x /\ x # e[2] /\ <<e[1], x>> \in Chains /\ <<x, e[2]>> \in Chains
  BY <1>1 DEF Covers
<1> HIDE DEF W
<1>4. Reaches(Q, Ids, F) /\ Reaches(Chains, Ids, ToSet(Reduced))
  <2>1. /\ W \in Seq((0 .. n - 1) \X (0 .. n - 1)) /\ n \in Nat
        /\ Reduced \in Seq((0 .. n - 1) \X (0 .. n - 1))
    BY <1>1, <1>2 DEF Ids, Typed
  <2>2. /\ Reaches(UpTo(n, W), 0 .. n - 1, ToSet(W))
        /\ Reaches(UpTo(n, Reduced), 0 .. n - 1, ToSet(Reduced))
    BY ONLY <2>1, AllReached
  <2> QED BY <1>1, <2>2 DEF Ids
<1>5. F \in SUBSET (Ids \X Ids)
  BY <1>1, <1>2 DEF Covers
<1> HIDE DEF Q, F
<1>6. Q \subseteq Chains
  BY <1>2, <1>4, ReachMore
<1>7. FirstEdge(Q, Ids, F)
  BY ONLY <1>4, <1>5, ReachFacts
<1> SUFFICES ASSUME e \in Q PROVE FALSE
  BY DEF Q, W
<1>8. e = <<e[1], e[2]>> /\ e[1] \in Ids /\ e[2] \in Ids
  BY <1>3
<1>9. PICK f \in F : f[1] = e[1] /\ <<f[2], e[2]>> \in Q
  BY <1>3, <1>7, <1>8 DEF FirstEdge
<1>10. f \in Covers(Chains, Ids) /\ f # e /\ f = <<f[1], f[2]>> /\ f[2] \in Ids
  BY <1>1, <1>2, <1>5, <1>9
<1>11. <<e[1], f[2]>> \in Chains /\ e[1] # f[2]
  BY <1>9, <1>10 DEF Covers
<1>12. f[2] # e[2]
  BY <1>8, <1>9, <1>10
<1> QED BY <1>3, <1>6, <1>9, <1>10, <1>11, <1>12

-----------------------------------------------------------------------------
(***************************************************************************)
(* The operations.                                                         *)
(***************************************************************************)
\* An adjacency that is not built is the empty one: CsrFresh needs it, since a
\* concept is only added to a store that has not been read.
Fresh == csr.built \in BOOLEAN /\ CsrFresh

\* The passes and searches follow the rows only, and end because no edge leads
\* back: what they give is right as long as no cycle was closed.
IInv == Fresh /\ Typed /\ Acyclic /\ FullSetsRight

\* What a change of the edges leaves is fresh, since it is not there.
LEMMA OutdatedFresh ==
  ASSUME csr' = Outdated
  PROVE  Fresh'
BY DEF Fresh, CsrFresh, Outdated, NoCsr

\* Every operation reads the adjacency of the edges.
LEMMA FreshRead ==
  ASSUME Fresh
  PROVE  Csr = BuildCsr
BY DEF Fresh, CsrFresh, Csr

\* What a read leaves is fresh when the edges and concepts are the same.
LEMMA ReadFresh ==
  ASSUME Fresh, csr' = Csr, UNCHANGED <<n, buf>>
  PROVE  Fresh'
<1>1. BuildCsr' = BuildCsr
  BY DEF BuildCsr, Ids
<1>2. csr' = BuildCsr' /\ csr'.built = TRUE
  BY <1>1, FreshRead DEF BuildCsr
<1> QED BY <1>2 DEF Fresh, CsrFresh

\* As long as concepts and edges are the same, the order is.
LEMMA SameOrder ==
  ASSUME Typed, Acyclic, UNCHANGED <<n, buf>>
  PROVE  Typed' /\ Acyclic' /\ UpTo(n', buf') = Chains
BY DEF Typed, Acyclic, Loopless, Chains, Edges, Ids

\* Other edges with the same order, upwards all of them.
LEMMA SameChains ==
  ASSUME Typed, Acyclic, FullSetsRight, UNCHANGED <<n, extents, intents, rextents, rintents>>,
         buf' \in Seq(Ids \X Ids), UpTo(n, buf') = Chains,
         \A e \in ToSet(buf') : e \in Chains /\ e[1] # e[2]
  PROVE  Typed' /\ Acyclic' /\ FullSetsRight'
<1>1. Chains \subseteq Ids \X Ids /\ Antisymmetric(Chains, Ids)
  BY OrderFacts
<1>2. Typed' /\ Ids' = Ids /\ UpTo(n', buf') = Chains
  BY DEF Typed, Ids
<1>3. \A e \in ToSet(buf') : <<e[2], e[1]>> \notin Chains
  <2> SUFFICES ASSUME NEW e \in ToSet(buf'), <<e[2], e[1]>> \in Chains PROVE FALSE
    OBVIOUS
  <2>1. e \in Chains /\ e[1] # e[2]
    OBVIOUS
  <2>2. e = <<e[1], e[2]>> /\ e[1] \in Ids /\ e[2] \in Ids
    BY <1>1, <2>1
  <2> QED BY <1>1, <2>1, <2>2 DEF Antisymmetric
<1>4. Acyclic'
  BY <1>2, <1>3 DEF Acyclic, Loopless, Chains, Edges
<1>5. Right(n', UpTo(n', buf'), extents', intents', rextents', rintents')
  BY <1>2, RightFullSets
<1> QED BY <1>2, <1>4, <1>5, RightFullSetsNext

LEMMA AddOneKeeps ==
  ASSUME IInv, AddOne
  PROVE  IInv'
<1>1. /\ n' = n + 1 /\ buf' = buf /\ buf = <<>> /\ csr' = csr /\ ~csr.built /\ n \in Nat
      /\ extents' = [c \in 0 .. n |-> IF c = n THEN Null ELSE extents[c]]
      /\ intents' = [c \in 0 .. n |-> IF c = n THEN Null ELSE intents[c]]
      /\ rextents' = [c \in 0 .. n |-> IF c = n THEN {n} ELSE rextents[c]]
      /\ rintents' = [c \in 0 .. n |-> IF c = n THEN {MaxConcepts + n} ELSE rintents[c]]
  BY DEF AddOne, AddConcept, IInv, Typed
<1>2. Fresh'
  BY <1>1 DEF Fresh, CsrFresh, IInv
<1>3. Typed' /\ ToSet(buf') = {} /\ ToSet(buf) = {}
  <2>1. <<>> \in Seq(Ids' \X Ids')
    BY EmptySeq
  <2> QED BY <1>1, <2>1 DEF Typed, ToSet
<1>4. Acyclic'
  BY <1>3 DEF Acyclic, Loopless, Edges
<1>5. ASSUME NEW m \in Nat
      PROVE  \A c, d \in 0 .. m - 1 : <<c, d>> \in UpTo(m, <<>>) <=> c = d
  <2> DEFINE I == 0 .. m - 1
             D == {p \in I \X I : p[1] = p[2]}
             Q == UpTo(m, <<>>)
  <2>1. Reaches(Q, I, {})
    <3>1. <<>> \in Seq(I \X I) /\ ToSet(<<>>) = {}
      BY EmptySeq DEF ToSet
    <3>2. Reaches(UpTo(m, <<>>), I, ToSet(<<>>))
      BY <1>5, <3>1, AllReached
    <3> QED BY <3>1, <3>2
  <2>2. Prolonged(D, I, {})
    BY DEF Prolonged
  <2> HIDE DEF Q
  <2>3. Q \subseteq D /\ \A c \in I : <<c, c>> \in Q
    BY <2>1, <2>2 DEF Reaches, Prolonged
  <2> QED BY <2>3 DEF Q
<1>6. \A c, d \in 0 .. n - 1 : <<c, d>> \in Chains <=> c = d
  BY <1>1, <1>5 DEF Chains
<1>7. \A c, d \in 0 .. n : <<c, d>> \in UpTo(n', buf') <=> c = d
  <2>1. n + 1 \in Nat /\ (n + 1) - 1 = n
    BY <1>1
  <2>2. \A c, d \in 0 .. (n + 1) - 1 : <<c, d>> \in UpTo(n + 1, <<>>) <=> c = d
    BY ONLY <1>5, <2>1
  <2> QED BY <1>1, <2>1, <2>2
<1>8. \A c \in 0 .. n - 1 : /\ ExtIn(n, Chains, rextents, c) = rextents[c]
                            /\ IntIn(n, Chains, rintents, c) = rintents[c]
  <2> TAKE c \in 0 .. n - 1
  <2>1. {x \in 0 .. n - 1 : <<x, c>> \in Chains} = {c} /\ {x \in 0 .. n - 1 : <<c, x>> \in Chains} = {c}
    BY <1>6
  <2> QED BY <2>1 DEF ExtIn, IntIn
<1> DEFINE Q == UpTo(n', buf')
<1>9. \A c \in 0 .. n : /\ ExtIn(n', Q, rextents', c) = rextents'[c]
                        /\ IntIn(n', Q, rintents', c) = rintents'[c]
  <2> TAKE c \in 0 .. n
  <2>0. 0 .. n' - 1 = 0 .. n
    BY <1>1
  <2>1. \A x \in 0 .. n' - 1 : (<<x, c>> \in Q <=> x = c) /\ (<<c, x>> \in Q <=> x = c)
    <3>1. \A x, y \in 0 .. n : <<x, y>> \in Q <=> x = y
      BY <1>7
    <3> HIDE DEF Q
    <3> QED BY ONLY <2>0, <3>1, c \in 0 .. n
  <2>2. c \in 0 .. n' - 1
    BY <2>0
  <2> HIDE DEF Q
  <2>3. {x \in 0 .. n' - 1 : <<x, c>> \in Q} = {c} /\ {x \in 0 .. n' - 1 : <<c, x>> \in Q} = {c}
    BY ONLY <2>1, <2>2
  <2> QED BY <2>3 DEF ExtIn, IntIn
<1>10. \A c \in 0 .. n - 1 : extents[c] \in {Null, rextents[c]} /\ intents[c] \in {Null, rintents[c]}
  BY <1>8, RightFullSets DEF IInv, Right
<1>11. \A c \in 0 .. n : extents'[c] \in {Null, rextents'[c]} /\ intents'[c] \in {Null, rintents'[c]}
  <2> TAKE c \in 0 .. n
  <2>1. CASE c = n
    BY <1>1, <2>1
  <2>2. CASE c # n
    <3>1. c \in 0 .. n - 1
      BY <1>1, <2>2
    <3> QED BY <1>1, <1>10, <2>2, <3>1
  <2> QED BY <2>1, <2>2
<1>12. Right(n', Q, extents', intents', rextents', rintents')
  <2>1. 0 .. n' - 1 = 0 .. n
    BY <1>1
  <2> HIDE DEF Q
  <2> QED BY <1>9, <1>11, <2>1 DEF Right
<1> QED BY <1>2, <1>3, <1>4, <1>12, RightFullSetsNext DEF IInv

LEMMA NoFullSetsKeeps ==
  ASSUME NoFullSets, UNCHANGED <<n, extents, intents, rextents, rintents>>
  PROVE  FullSetsRight'
<1>1. Right(n', UpTo(n', buf'), extents', intents', rextents', rintents')
  BY DEF NoFullSets, Right, Ids
<1> QED BY <1>1, RightFullSetsNext

LEMMA AddEdgeKeeps ==
  ASSUME IInv, AddEdge
  PROVE  IInv'
<1>1. PICK e \in Ids \X Ids : <<e[2], e[1]>> \notin Chains /\ AddEdges(<<e>>)
  BY DEF AddEdge, Chains
<1>2. /\ buf' = buf \o <<e>> /\ csr' = Outdated /\ NoFullSets /\ Typed /\ Acyclic
      /\ UNCHANGED <<n, extents, intents, rextents, rintents>>
  BY <1>1 DEF AddEdge, AddEdges, IInv
<1>3. Fresh' /\ FullSetsRight'
  BY <1>2, OutdatedFresh, NoFullSetsKeeps
<1>4. buf' \in Seq(Ids \X Ids) /\ ToSet(buf') = Edges \cup {e}
  <2>1. <<e>> \in Seq(Ids \X Ids) /\ ToSet(<<e>>) = {e} /\ buf \in Seq(Ids \X Ids)
    BY <1>2 DEF ToSet, Typed
  <2>2. buf \o <<e>> \in Seq(Ids \X Ids)
    BY ONLY <2>1, ConcatProperties
  <2>3. ToSet(buf \o <<e>>) = ToSet(buf) \cup ToSet(<<e>>)
    <3>1. ASSUME NEW S, NEW s \in Seq(S), NEW t \in Seq(S)
          PROVE  ToSet(s \o t) = ToSet(s) \cup ToSet(t)
      BY ONLY <3>1, ConcatElements
    <3> DEFINE E == Ids \X Ids
               last == <<e>>
    <3>2. buf \in Seq(E) /\ last \in Seq(E)
      BY <2>1
    <3> HIDE DEF E, last
    <3>3. ToSet(buf \o last) = ToSet(buf) \cup ToSet(last)
      BY ONLY <3>1, <3>2
    <3> QED BY <3>3 DEF last
  <2> QED BY <1>2, <2>1, <2>2, <2>3 DEF Edges
<1>5. Typed' /\ Ids' = Ids
  BY <1>2, <1>4 DEF Typed, Ids
<1>6. Reaches(UpTo(n, buf'), Ids, Edges \cup {e})
  <2>1. n \in Nat /\ buf' \in Seq((0 .. n - 1) \X (0 .. n - 1))
    BY <1>2, <1>4 DEF Typed, Ids
  <2>2. Reaches(UpTo(n, buf'), 0 .. n - 1, ToSet(buf'))
    BY ONLY <2>1, AllReached
  <2> QED BY <1>4, <2>2 DEF Ids
<1>7. Edges \in SUBSET (Ids \X Ids) /\ Reaches(Chains, Ids, Edges)
  BY <1>2, OrderFacts
<1>8. Loopless(UpTo(n, buf'), Edges \cup {e})
  BY <1>1, <1>2, <1>6, <1>7, OneMoreEdge DEF Acyclic
<1>9. Acyclic'
  BY <1>2, <1>4, <1>8 DEF Acyclic, Chains, Edges
<1> QED BY <1>3, <1>5, <1>9 DEF IInv

LEMMA RemoveOneKeeps ==
  ASSUME IInv, RemoveOne
  PROVE  IInv'
<1>1. PICK e \in ToSet(buf) : RemoveEdge(e)
  BY DEF RemoveOne
<1>2. /\ buf' = Without(buf, {e}) /\ csr' = Outdated /\ NoFullSets /\ Typed /\ Acyclic
      /\ UNCHANGED <<n, extents, intents, rextents, rintents>>
  BY <1>1 DEF RemoveOne, RemoveEdge, IInv
<1>3. Fresh' /\ FullSetsRight'
  BY <1>2, OutdatedFresh, NoFullSetsKeeps
<1>4. buf' \in Seq(Ids \X Ids) /\ ToSet(buf') = Edges \ {e}
  BY <1>2, WithoutFacts DEF Typed, Edges
<1>5. Typed' /\ Ids' = Ids
  BY <1>2, <1>4 DEF Typed, Ids
<1>6. Reaches(UpTo(n, buf'), Ids, Edges \ {e})
  <2>1. n \in Nat /\ buf' \in Seq((0 .. n - 1) \X (0 .. n - 1))
    BY <1>2, <1>4 DEF Typed, Ids
  <2>2. Reaches(UpTo(n, buf'), 0 .. n - 1, ToSet(buf'))
    BY ONLY <2>1, AllReached
  <2> QED BY <1>4, <2>2 DEF Ids
<1>7. UpTo(n, buf') \subseteq Chains
  BY <1>2, <1>6, OrderFacts, ReachMore
<1>8. Acyclic'
  BY <1>2, <1>4, <1>7 DEF Acyclic, Loopless, Chains, Edges
<1> QED BY <1>3, <1>5, <1>8 DEF IInv

LEMMA ReadKeeps ==
  ASSUME IInv, Read \/ ComputeIntents \/ ComputeExtents
  PROVE  IInv'
<1>1. Fresh /\ Typed /\ Acyclic /\ FullSetsRight /\ Csr = BuildCsr
  BY FreshRead DEF IInv
<1>2. csr' = Csr /\ UNCHANGED <<n, buf, rextents, rintents>>
  BY DEF Read, ComputeIntents, ComputeExtents
<1>3. Fresh' /\ Typed' /\ Acyclic' /\ UpTo(n', buf') = Chains
  BY <1>1, <1>2, ReadFresh, SameOrder
<1>4. Right(n, Chains, extents, intents, rextents, rintents)
  BY <1>1, RightFullSets
<1>5. Right(n, Chains, extents', intents', rextents, rintents)
  <2>1. CASE Read
    BY <1>4, <2>1 DEF Read
  <2>2. CASE ComputeIntents
    <3>1. extents' = extents /\ intents' = [c \in Ids |-> IntIn(n, Chains, rintents, c)]
      BY <1>1, <2>2, IntentsComputed DEF ComputeIntents
    <3> QED BY <1>4, <3>1 DEF Right, Ids
  <2>3. CASE ComputeExtents
    <3>1. intents' = intents /\ extents' = [c \in Ids |-> ExtIn(n, Chains, rextents, c)]
      BY <1>1, <2>3, ExtentsComputed DEF ComputeExtents
    <3> QED BY <1>4, <3>1 DEF Right, Ids
  <2> QED BY <2>1, <2>2, <2>3
<1>6. FullSetsRight'
  BY <1>2, <1>3, <1>5, RightFullSetsNext
<1> QED BY <1>3, <1>6 DEF IInv

LEMMA DualKeeps ==
  ASSUME IInv, Dual
  PROVE  IInv'
<1>1. /\ Typed /\ Acyclic /\ FullSetsRight
      /\ buf' = Swap(buf) /\ csr' = Outdated /\ n' = n
      /\ extents' = intents /\ intents' = extents
      /\ rextents' = rintents /\ rintents' = rextents
  BY DEF IInv, Dual
<1>2. /\ Swap(buf) \in Seq(Ids \X Ids) /\ ToSet(Swap(buf)) \in SUBSET (Ids \X Ids)
      /\ \A c, d \in Ids : <<c, d>> \in ToSet(Swap(buf)) <=> <<d, c>> \in Edges
      /\ \A c, d \in Ids : <<c, d>> \in Chains <=> <<d, c>> \in Under
  BY <1>1, UnderFacts
<1>3. Fresh' /\ Typed' /\ UpTo(n', buf') = Under
  BY <1>1, <1>2, OutdatedFresh DEF Typed, Ids, Under
<1>4. Acyclic'
  <2>1. ASSUME NEW e \in ToSet(Swap(buf)), <<e[2], e[1]>> \in Under PROVE FALSE
    <3>1. e = <<e[1], e[2]>> /\ e[1] \in Ids /\ e[2] \in Ids
      BY <1>2
    <3> DEFINE f == <<e[2], e[1]>>
    <3>2. f \in Edges /\ <<f[2], f[1]>> \in Chains
      BY <1>2, <2>1, <3>1
    <3> QED BY <1>1, <3>2 DEF Acyclic, Loopless
  <2> QED BY <1>1, <1>3, <2>1 DEF Acyclic, Loopless, Chains, Edges
<1>5. \A c \in 0 .. n - 1 : /\ ExtIn(n, Under, rintents, c) = IntIn(n, Chains, rintents, c)
                            /\ IntIn(n, Under, rextents, c) = ExtIn(n, Chains, rextents, c)
  <2> TAKE c \in 0 .. n - 1
  <2>1. /\ {x \in 0 .. n - 1 : <<x, c>> \in Under} = {x \in 0 .. n - 1 : <<c, x>> \in Chains}
        /\ {x \in 0 .. n - 1 : <<c, x>> \in Under} = {x \in 0 .. n - 1 : <<x, c>> \in Chains}
    BY <1>2 DEF Ids
  <2> QED BY <2>1 DEF ExtIn, IntIn
<1>6. Right(n, Chains, extents, intents, rextents, rintents)
  BY <1>1, RightFullSets
<1>7. Right(n, Under, intents, extents, rintents, rextents)
  BY <1>5, <1>6 DEF Right
<1>8. FullSetsRight'
  BY <1>1, <1>3, <1>7, RightFullSetsNext
<1> QED BY <1>3, <1>4, <1>8 DEF IInv

LEMMA ReduceKeeps ==
  ASSUME IInv, Reduce \/ Closure
  PROVE  IInv'
<1>1. Fresh /\ Typed /\ Acyclic /\ FullSetsRight /\ Csr = BuildCsr
  BY FreshRead DEF IInv
<1>2. /\ buf' = Reduced \/ buf' = Closed
      /\ csr' = Outdated /\ UNCHANGED <<n, extents, intents, rextents, rintents>>
  BY DEF Reduce, Closure, Reduced, Closed
<1>3. /\ buf' \in Seq(Ids \X Ids) /\ UpTo(n, buf') = Chains
      /\ \A e \in ToSet(buf') : e \in Chains /\ e[1] # e[2]
  <2>1. CASE buf' = Reduced
    BY <1>1, <2>1, ReducedRight DEF Covers
  <2>2. CASE buf' = Closed
    BY <1>1, <2>2, ClosedRight
  <2> QED BY <1>2, <2>1, <2>2
<1>4. Typed' /\ Acyclic' /\ FullSetsRight'
  BY <1>1, <1>2, <1>3, SameChains
<1> QED BY <1>2, <1>4, OutdatedFresh DEF IInv

LEMMA StutterKeeps ==
  ASSUME IInv, UNCHANGED storeVars
  PROVE  IInv'
<1>1. UNCHANGED <<n, extents, intents, rextents, rintents, buf, csr>>
  BY DEF storeVars
<1>2. Typed' /\ Acyclic' /\ UpTo(n', buf') = Chains
  BY <1>1, SameOrder DEF IInv
<1>3. Fresh'
  <2>1. BuildCsr' = BuildCsr
    BY <1>1 DEF BuildCsr, Ids
  <2> QED BY <1>1, <2>1 DEF Fresh, CsrFresh, IInv
<1>4. Right(n', UpTo(n', buf'), extents', intents', rextents', rintents')
  BY <1>1, <1>2, RightFullSets DEF IInv
<1> QED BY <1>2, <1>3, <1>4, RightFullSetsNext DEF IInv

LEMMA Initially == StoreInit => IInv
<1> SUFFICES ASSUME StoreInit PROVE IInv
  OBVIOUS
<1>1. n = 0 /\ buf = <<>> /\ csr = NoCsr
  BY DEF StoreInit, Empty
<1>2. Fresh
  BY <1>1 DEF Fresh, CsrFresh, NoCsr
<1>3. Typed /\ Edges = {}
  <2>1. <<>> \in Seq(Ids \X Ids)
    BY EmptySeq
  <2> QED BY <1>1, <2>1 DEF Typed, Edges, ToSet
<1>4. Acyclic
  BY <1>3 DEF Acyclic, Loopless
<1>5. FullSetsRight
  BY <1>1, RightFullSets DEF Right
<1> QED BY <1>2, <1>3, <1>4, <1>5 DEF IInv

LEMMA Inductive == IInv /\ [StoreNext]_storeVars => IInv'
BY AddOneKeeps, AddEdgeKeeps, RemoveOneKeeps, ReadKeeps, DualKeeps, ReduceKeeps, StutterKeeps
   DEF StoreNext

LEMMA Invariant == StoreSpec => []IInv
BY Initially, Inductive, PTL DEF StoreSpec

\* Whatever sequence of operations its callers keep to, the store answers from
\* the adjacency of its current edges (CsrConceptOrder.java: csrBuilt).
THEOREM AdjacencyFresh == StoreSpec => []CsrFresh
<1>1. IInv => CsrFresh
  BY DEF IInv, Fresh
<1> QED BY <1>1, Invariant, PTL

\* In every store its callers can build, the bottom-up iterator gives each
\* concept once and after those below it (topoBottomUp).
THEOREM TopoAlwaysComplete == StoreSpec => []TopoComplete
<1>1. IInv => TopoComplete
  BY FreshRead, TopoRight DEF IInv
<1> QED BY <1>1, Invariant, PTL

\* The full sets the two passes leave are those of the order, and stay so when
\* it is reduced, closed or turned upside down (computeExtents, computeIntents).
THEOREM FullSetsAlwaysRight == StoreSpec => []FullSetsRight
<1>1. IInv => FullSetsRight
  BY DEF IInv
<1> QED BY <1>1, Invariant, PTL

\* reduce keeps the order, and no edge a chain replaces.
THEOREM ReduceAlwaysExact == StoreSpec => ReduceExact
<1> DEFINE Exact == /\ UpTo(n, buf') = UpTo(n, buf)
                    /\ \A e \in ToSet(buf') : e \notin UpTo(n, Without(buf', {e}))
<1>1. IInv /\ [StoreNext]_storeVars => [Reduce => Exact]_storeVars
  <2> SUFFICES ASSUME IInv, Reduce PROVE Exact
    OBVIOUS
  <2>1. Typed /\ Acyclic /\ Csr = BuildCsr
    BY FreshRead DEF IInv
  <2>2. buf' = Reduced
    BY DEF Reduce, Reduced
  <2>3. UpTo(n, Reduced) = Chains /\ \A e \in ToSet(Reduced) : e \notin UpTo(n, Without(Reduced, {e}))
    BY <2>1, ReducedRight, NoneToSpare
  <2> QED BY <2>2, <2>3 DEF Chains
<1> QED BY <1>1, Invariant, PTL DEF StoreSpec, ReduceExact

\* closure has an edge for each two concepts one above the other, once.
THEOREM ClosureAlwaysExact == StoreSpec => ClosureExact
<1> DEFINE Exact == /\ ToSet(buf') = {p \in UpTo(n, buf) : p[1] # p[2]}
                    /\ Len(buf') = Cardinality(ToSet(buf'))
<1>1. IInv /\ [StoreNext]_storeVars => [Closure => Exact]_storeVars
  <2> SUFFICES ASSUME IInv, Closure PROVE Exact
    OBVIOUS
  <2>1. Typed /\ Acyclic /\ Csr = BuildCsr
    BY FreshRead DEF IInv
  <2>2. buf' = Closed
    BY DEF Closure, Closed
  <2>3. /\ Closed \in Seq(Ids \X Ids) /\ Once(Closed)
        /\ ToSet(Closed) = {p \in Chains : p[1] # p[2]}
    BY <2>1, ClosedRight
  <2>4. Len(Closed) = Cardinality(ToSet(Closed))
    BY ONLY <2>3, OnceCounts
  <2> QED BY <2>2, <2>3, <2>4 DEF Chains
<1> QED BY <1>1, Invariant, PTL DEF StoreSpec, ClosureExact

-----------------------------------------------------------------------------
(***************************************************************************)
(* Contexts as the Java builders take them, and their transposes.          *)
(***************************************************************************)
\* Objects and attributes are numbered from 0.
Numbered(C) == \E o, a \in Nat : C \in Context(0 .. o - 1, 0 .. a - 1)

LEMMA ContextFacts ==
  ASSUME NEW C, Numbered(C)
  PROVE  /\ C.objs \in SUBSET Nat /\ IsFiniteSet(C.objs)
         /\ DOMAIN C.cols \in SUBSET Nat /\ IsFiniteSet(DOMAIN C.cols)
         /\ \A a \in DOMAIN C.cols : C.cols[a] \in SUBSET C.objs
<1>1. PICK o \in Nat, a \in Nat : C \in Context(0 .. o - 1, 0 .. a - 1)
  BY DEF Numbered
<1>2. \A k \in Nat : 0 .. k - 1 \in SUBSET Nat
  OBVIOUS
<1>3. \A k \in Nat : IsFiniteSet(0 .. k - 1)
  <2> TAKE k \in Nat
  <2>1. 0 \in Int /\ k - 1 \in Int
    OBVIOUS
  <2> QED BY ONLY <2>1, FS_Interval
<1> DEFINE I == 0 .. o - 1
           J == 0 .. a - 1
<1>4. I \in SUBSET Nat /\ J \in SUBSET Nat /\ IsFiniteSet(I) /\ IsFiniteSet(J)
  BY <1>2, <1>3
<1>5. C \in Context(I, J)
  BY <1>1
<1> HIDE DEF I, J
<1>6. C.objs = I /\ C.cols \in [J -> SUBSET I]
  BY <1>5 DEF Context
<1> QED BY <1>4, <1>6

LEMMA TransposeFacts ==
  ASSUME NEW C, Numbered(C)
  PROVE  /\ Numbered(Transpose(C))
         /\ Transpose(C).objs = DOMAIN C.cols /\ DOMAIN Transpose(C).cols = C.objs
         /\ \A o \in C.objs : \A a : a \in Transpose(C).cols[o] <=> a \in DOMAIN C.cols /\ o \in C.cols[a]
<1>1. PICK o \in Nat, a \in Nat : C \in Context(0 .. o - 1, 0 .. a - 1)
  BY DEF Numbered
<1> DEFINE I == 0 .. o - 1
           J == 0 .. a - 1
<1>2. C \in Context(I, J)
  BY <1>1
<1> HIDE DEF I, J
<1>3. C.objs = I /\ C.cols \in [J -> SUBSET I] /\ DOMAIN C.cols = J
  BY <1>2 DEF Context
<1>4. Transpose(C) \in Context(J, I)
  BY <1>3 DEF Transpose, Context
<1>5. Numbered(Transpose(C))
  BY <1>4 DEF Numbered, I, J
<1> QED BY <1>5 DEF Transpose

LEMMA ConceptsKnown ==
  ASSUME NEW C, Numbered(C), NEW z
  PROVE  z \in ConceptsOf(C) <=>
           /\ z = [ext |-> z.ext, int |-> z.int]
           /\ z.ext = ExtentIn(C, z.int) /\ z.int = IntentIn(C, z.ext)
<1>1. \A a \in DOMAIN C.cols : C.cols[a] \in SUBSET C.objs
  BY ContextFacts
<1>2. ASSUME z \in ConceptsOf(C)
      PROVE  /\ z = [ext |-> z.ext, int |-> z.int]
             /\ z.ext = ExtentIn(C, z.int) /\ z.int = IntentIn(C, z.ext)
  <2>1. PICK B \in SUBSET DOMAIN C.cols :
          z = [ext |-> ExtentIn(C, B), int |-> IntentIn(C, ExtentIn(C, B))]
    BY <1>2 DEF ConceptsOf
  <2>2. z.ext = ExtentIn(C, B) /\ z.int = IntentIn(C, ExtentIn(C, B))
    BY <2>1
  <2>3. ExtentIn(C, B) = ExtentIn(C, IntentIn(C, ExtentIn(C, B)))
    BY DEF ExtentIn, IntentIn
  <2> QED BY <2>1, <2>2, <2>3
<1>3. ASSUME z = [ext |-> z.ext, int |-> z.int],
             z.ext = ExtentIn(C, z.int), z.int = IntentIn(C, z.ext)
      PROVE  z \in ConceptsOf(C)
  <2>1. z.int \in SUBSET DOMAIN C.cols
    BY <1>3 DEF IntentIn
  <2> QED BY <1>3, <2>1 DEF ConceptsOf
<1> QED BY <1>2, <1>3

\* What a concept is made of, and when one is below another.
LEMMA ConceptFacts ==
  ASSUME NEW C, Numbered(C), NEW z \in ConceptsOf(C), NEW y \in ConceptsOf(C)
  PROVE  /\ z.ext \in SUBSET C.objs /\ z.int \in SUBSET DOMAIN C.cols
         /\ \A a \in DOMAIN C.cols : a \in z.int <=> z.ext \subseteq C.cols[a]
         /\ \A o \in C.objs : o \in z.ext <=> \A a \in z.int : o \in C.cols[a]
         /\ z.ext \subseteq y.ext <=> y.int \subseteq z.int
         /\ z.ext \subseteq y.ext /\ y.ext \subseteq z.ext => z = y
<1>1. /\ z = [ext |-> z.ext, int |-> z.int] /\ z.ext = ExtentIn(C, z.int) /\ z.int = IntentIn(C, z.ext)
      /\ y = [ext |-> y.ext, int |-> y.int] /\ y.ext = ExtentIn(C, y.int) /\ y.int = IntentIn(C, y.ext)
  BY ConceptsKnown
<1> DEFINE ze == z.ext
           zi == z.int
           ye == y.ext
           yi == y.int
<1>2. /\ z = [ext |-> ze, int |-> zi] /\ ze = ExtentIn(C, zi) /\ zi = IntentIn(C, ze)
      /\ y = [ext |-> ye, int |-> yi] /\ ye = ExtentIn(C, yi) /\ yi = IntentIn(C, ye)
  BY <1>1
<1> HIDE DEF ze, zi, ye, yi
<1>3. /\ ze \in SUBSET C.objs /\ zi \in SUBSET DOMAIN C.cols
      /\ \A a \in DOMAIN C.cols : a \in zi <=> ze \subseteq C.cols[a]
      /\ \A o \in C.objs : o \in ze <=> \A a \in zi : o \in C.cols[a]
  <2>1. ze \in SUBSET C.objs /\ \A o \in C.objs : o \in ze <=> \A a \in zi : o \in C.cols[a]
    <3>1. ze = ExtentIn(C, zi)
      BY <1>2
    <3> QED BY ONLY <3>1 DEF ExtentIn
  <2>2. zi \in SUBSET DOMAIN C.cols /\ \A a \in DOMAIN C.cols : a \in zi <=> ze \subseteq C.cols[a]
    <3>1. zi = IntentIn(C, ze)
      BY <1>2
    <3> QED BY ONLY <3>1 DEF IntentIn
  <2> QED BY ONLY <2>1, <2>2
<1>4. ze \subseteq ye <=> yi \subseteq zi
  <2>1. ze \subseteq ye => IntentIn(C, ye) \subseteq IntentIn(C, ze)
    BY DEF IntentIn
  <2>2. yi \subseteq zi => ExtentIn(C, zi) \subseteq ExtentIn(C, yi)
    BY DEF ExtentIn
  <2> QED BY <1>2, <2>1, <2>2
<1>5. ze \subseteq ye /\ ye \subseteq ze => z = y
  <2>1. ze \subseteq ye /\ ye \subseteq ze => ze = ye
    OBVIOUS
  <2> QED BY <1>2, <2>1
<1> QED BY <1>3, <1>4, <1>5 DEF ze, zi, ye, yi

LEMMA FinitelyMany ==
  ASSUME NEW C, Numbered(C)
  PROVE  IsFiniteSet(ConceptsOf(C))
<1> DEFINE A == SUBSET DOMAIN C.cols
           f == [B \in A |-> [ext |-> ExtentIn(C, B), int |-> IntentIn(C, ExtentIn(C, B))]]
<1>1. IsFiniteSet(A)
  BY ContextFacts, FS_SUBSET
<1>2. ConceptsOf(C) = {f[B] : B \in A}
  BY DEF ConceptsOf
<1> HIDE DEF f, A
<1> QED BY <1>1, <1>2, FiniteImage

\* The concept that introduces an object, and the one that introduces an
\* attribute.
LEMMA Introducers ==
  ASSUME NEW C, Numbered(C)
  PROVE  /\ \A o \in C.objs : \E z \in ConceptsOf(C) :
              o \in z.ext /\ \A y \in ConceptsOf(C) : o \in y.ext => z.ext \subseteq y.ext
         /\ \A a \in DOMAIN C.cols : \E z \in ConceptsOf(C) : z.ext = C.cols[a]
<1>1. \A a \in DOMAIN C.cols : C.cols[a] \in SUBSET C.objs
  BY ContextFacts
<1>2. ASSUME NEW o \in C.objs
      PROVE  \E z \in ConceptsOf(C) :
              o \in z.ext /\ \A y \in ConceptsOf(C) : o \in y.ext => z.ext \subseteq y.ext
  <2> DEFINE B == {a \in DOMAIN C.cols : o \in C.cols[a]}
             X == ExtentIn(C, B)
             z == [ext |-> X, int |-> IntentIn(C, X)]
  <2>1. z \in ConceptsOf(C)
    BY DEF ConceptsOf
  <2>2. o \in X
    BY DEF ExtentIn
  <2>3. ASSUME NEW y \in ConceptsOf(C), o \in y.ext PROVE X \subseteq y.ext
    <3>1. /\ y.ext \in SUBSET C.objs /\ y.int \in SUBSET DOMAIN C.cols
          /\ \A a \in DOMAIN C.cols : a \in y.int <=> y.ext \subseteq C.cols[a]
          /\ \A p \in C.objs : p \in y.ext <=> \A a \in y.int : p \in C.cols[a]
      BY ConceptFacts
    <3>2. y.int \subseteq B
      BY <2>3, <3>1
    <3> QED BY <3>1, <3>2 DEF ExtentIn
  <2> QED BY <2>1, <2>2, <2>3
<1>3. ASSUME NEW a \in DOMAIN C.cols PROVE \E z \in ConceptsOf(C) : z.ext = C.cols[a]
  <2>1. ExtentIn(C, {a}) = C.cols[a]
    BY <1>1 DEF ExtentIn
  <2> DEFINE z == [ext |-> ExtentIn(C, {a}), int |-> IntentIn(C, ExtentIn(C, {a}))]
  <2>2. z \in ConceptsOf(C)
    BY DEF ConceptsOf
  <2> QED BY <2>1, <2>2
<1> QED BY <1>2, <1>3

\* A concept of the transpose is one of the context, turned over.
LEMMA ConceptsTurned ==
  ASSUME NEW C, Numbered(C), NEW X, NEW B
  PROVE  [ext |-> X, int |-> B] \in ConceptsOf(C) <=> [ext |-> B, int |-> X] \in ConceptsOf(Transpose(C))
<1> DEFINE T == Transpose(C)
<1>1. /\ Numbered(T) /\ T.objs = DOMAIN C.cols /\ DOMAIN T.cols = C.objs
      /\ \A o \in C.objs : \A a : a \in T.cols[o] <=> a \in DOMAIN C.cols /\ o \in C.cols[a]
  BY TransposeFacts
<1>2. \A a \in DOMAIN C.cols : C.cols[a] \in SUBSET C.objs
  BY ContextFacts
<1> HIDE DEF T
<1>3. [ext |-> X, int |-> B] \in ConceptsOf(C) <=> X = ExtentIn(C, B) /\ B = IntentIn(C, X)
  BY ConceptsKnown
<1>4. [ext |-> B, int |-> X] \in ConceptsOf(T) <=> B = ExtentIn(T, X) /\ X = IntentIn(T, B)
  BY <1>1, ConceptsKnown
<1>5. ASSUME X \in SUBSET C.objs, B \in SUBSET DOMAIN C.cols
      PROVE  IntentIn(T, B) = ExtentIn(C, B) /\ ExtentIn(T, X) = IntentIn(C, X)
  <2>1. IntentIn(T, B) = ExtentIn(C, B)
    BY <1>1, <1>2, <1>5 DEF IntentIn, ExtentIn
  <2>2. ExtentIn(T, X) = IntentIn(C, X)
    BY <1>1, <1>2, <1>5 DEF IntentIn, ExtentIn
  <2> QED BY <2>1, <2>2
<1>6. /\ ExtentIn(C, B) \in SUBSET C.objs /\ IntentIn(C, X) \in SUBSET DOMAIN C.cols
      /\ ExtentIn(T, X) \in SUBSET DOMAIN C.cols /\ IntentIn(T, B) \in SUBSET C.objs
  BY <1>1 DEF IntentIn, ExtentIn
<1>7. X = ExtentIn(C, B) /\ B = IntentIn(C, X) <=> B = ExtentIn(T, X) /\ X = IntentIn(T, B)
  BY ONLY <1>5, <1>6
<1> QED BY <1>3, <1>4, <1>7 DEF T

-----------------------------------------------------------------------------
(***************************************************************************)
(* What the kernel hands over: the concepts numbered in some order, their  *)
(* edges in some order.                                                    *)
(***************************************************************************)
\* An injection of so many numbers as there are elements lists them all.
LEMMA ListsAll ==
  ASSUME NEW S, IsFiniteSet(S), NEW s \in [1 .. Cardinality(S) -> S], Once(s)
  PROVE  s \in Seq(S) /\ Len(s) = Cardinality(S) /\ ToSet(s) = S
<1> DEFINE m == Cardinality(S)
           D == 1 .. m
<1>1. m \in Nat
  BY FS_CardinalityType
<1>2. IsFiniteSet(D) /\ Cardinality(D) = m
  BY <1>1, FS_Interval
<1>3. s \in Seq(S) /\ Len(s) = m
  BY <1>1
<1> HIDE DEF D
<1>4. s \in Injection(D, S)
  BY DEF Injection, IsInjective, Once, D
<1>5. s \in Surjection(D, S)
  BY <1>2, <1>4, FS_Injection
<1>6. DOMAIN s = D
  BY DEF D
<1>7. ToSet(s) = S
  BY <1>5, <1>6 DEF Surjection, ToSet
<1> QED BY <1>3, <1>7

\* The edges are put into the array in an order of their own.
LEMMA SomeOrder ==
  ASSUME NEW S, IsFiniteSet(S)
  PROVE  SetToSeq(S) \in Seq(S) /\ Once(SetToSeq(S)) /\ ToSet(SetToSeq(S)) = S
<1> DEFINE D == 1 .. Cardinality(S)
<1>1. PICK f \in Bijection(D, S) : TRUE
  BY FS_CardinalityType DEF ExistsBijection
<1> HIDE DEF D
<1>2. f \in [D -> S] /\ IsInjective(f)
  BY <1>1 DEF Bijection, Injection
<1>3. SetToSeq(S) \in [D -> S] /\ IsInjective(SetToSeq(S))
  BY <1>2 DEF SetToSeq, D
<1>4. Once(SetToSeq(S))
  BY <1>3 DEF IsInjective, Once
<1> QED BY <1>3, <1>4, ListsAll DEF D

LEMMA TopFirstLists ==
  ASSUME NEW C, Numbered(C), NEW s \in TopFirst(C)
  PROVE  s \in Seq(ConceptsOf(C)) /\ Once(s) /\ ToSet(s) = ConceptsOf(C)
<1> DEFINE top == [ext |-> C.objs, int |-> IntentIn(C, C.objs)]
           K == ConceptsOf(C)
           R == K \ {top}
<1>1. top \in K
  <2>1. ExtentIn(C, {}) = C.objs /\ {} \in SUBSET DOMAIN C.cols
    BY DEF ExtentIn
  <2> QED BY <2>1 DEF ConceptsOf
<1>2. PICK r \in SetToSeqs(R) : s = <<top>> \o r
  BY DEF TopFirst
<1> HIDE DEF top
<1>3. IsFiniteSet(R)
  BY FinitelyMany, FS_Subset
<1> HIDE DEF K
<1>4. r \in [1 .. Cardinality(R) -> R] /\ Once(r)
  BY DEF SetToSeqs, Once
<1> DEFINE T == R
<1>5. r \in Seq(R) /\ ToSet(r) = R
  BY <1>3, <1>4, ListsAll
<1>6. r \in Seq(K)
  <2>1. PICK k \in Nat : r \in [1 .. k -> R]
    BY <1>5, LenProperties
  <2>2. r \in [1 .. k -> K]
    BY <2>1
  <2> QED BY ONLY <2>2, SeqDef
<1>7. <<top>> \in Seq(K) /\ Once(<<top>>) /\ ToSet(<<top>>) = {top}
  BY <1>1 DEF Once, ToSet
<1>8. ToSet(<<top>>) \cap ToSet(r) = {} /\ ToSet(<<top>>) \cup ToSet(r) = K
  BY <1>1, <1>5, <1>7
<1> DEFINE h == <<top>>
<1>9. h \in Seq(K) /\ Once(h) /\ ToSet(h) \cap ToSet(r) = {} /\ ToSet(h) \cup ToSet(r) = K
  BY <1>7, <1>8
<1>10. s = h \o r
  BY <1>2
<1> HIDE DEF h, R
<1>11. h \o r \in Seq(K)
  BY ONLY <1>6, <1>9, ConcatProperties
<1>12. Once(h \o r)
  BY ONLY <1>4, <1>6, <1>9, ConcatOnce
<1>13. ToSet(h \o r) = ToSet(h) \cup ToSet(r)
  BY ONLY <1>6, <1>9, ConcatElements
<1> QED BY <1>9, <1>10, <1>11, <1>12, <1>13 DEF K

\* z gives each concept of C a number below N.
Numbering(C, N, z) ==
  /\ N \in Nat /\ N = Cardinality(ConceptsOf(C))
  /\ z \in [0 .. N - 1 -> ConceptsOf(C)]
  /\ \A c, d \in 0 .. N - 1 : z[c] = z[d] => c = d
  /\ \A y \in ConceptsOf(C) : \E c \in 0 .. N - 1 : z[c] = y

Beneath(z, c, d) == z[c].ext \subseteq z[d].ext /\ c # d

Neighbours(N, z) ==
  {e \in (0 .. N - 1) \X (0 .. N - 1) :
     /\ Beneath(z, e[1], e[2])
     /\ ~ \E x \in 0 .. N - 1 : Beneath(z, e[1], x) /\ Beneath(z, x, e[2])}

\* The order L is that of the concepts of C as z numbers them, its edges in
\* any order.
Stands(C, z, L) ==
  /\ Numbering(C, L.n, z)
  /\ L.edges \in Seq((0 .. L.n - 1) \X (0 .. L.n - 1)) /\ Once(L.edges)
  /\ ToSet(L.edges) = Neighbours(L.n, z)
  /\ L.rext = [c \in 0 .. L.n - 1 |->
                 z[c].ext \ UNION {z[d].ext : d \in {x \in 0 .. L.n - 1 : Beneath(z, x, c)}}]
  /\ L.rint = [c \in 0 .. L.n - 1 |-> {a \in DOMAIN C.cols : C.cols[a] = z[c].ext}]

LEMMA ListNumbers ==
  ASSUME NEW C, NEW s \in Seq(ConceptsOf(C)), Once(s), ToSet(s) = ConceptsOf(C)
  PROVE  Numbering(C, Len(s), [c \in 0 .. Len(s) - 1 |-> s[c + 1]])
<1> DEFINE N == Len(s)
           I == 0 .. N - 1
           z == [c \in I |-> s[c + 1]]
           K == ConceptsOf(C)
<1>1. N \in Nat /\ DOMAIN s = 1 .. N /\ \A k \in 1 .. N : s[k] \in K
  BY LenProperties, ElementOfSeq
<1>2. N = Cardinality(K)
  BY OnceCounts
<1>3. \A c \in I : c + 1 \in 1 .. N
  BY <1>1
<1>4. \A k \in 1 .. N : \E c \in I : k = c + 1
  <2> SUFFICES ASSUME NEW m \in Nat, NEW k \in 1 .. m PROVE \E c \in 0 .. m - 1 : k = c + 1
    BY ONLY <1>1
  <2>1. k - 1 \in 0 .. m - 1 /\ k = (k - 1) + 1
    OBVIOUS
  <2> QED BY ONLY <2>1
<1> HIDE DEF N
<1>5. z \in [I -> K]
  <2> HIDE DEF K
  <2> QED BY <1>1, <1>3
<1>6. ASSUME NEW c \in I, NEW d \in I, z[c] = z[d] PROVE c = d
  <2>1. c + 1 \in DOMAIN s /\ d + 1 \in DOMAIN s /\ s[c + 1] = s[d + 1]
    BY <1>1, <1>3, <1>6
  <2>2. c + 1 = d + 1
    BY <2>1 DEF Once
  <2>3. c \in Int /\ d \in Int
    OBVIOUS
  <2> QED BY ONLY <2>2, <2>3
<1>7. ASSUME NEW y \in K PROVE \E c \in I : z[c] = y
  <2>1. PICK k \in DOMAIN s : s[k] = y
    BY DEF ToSet
  <2>2. PICK c \in I : k = c + 1
    BY <1>1, <1>4, <2>1
  <2> QED BY <2>1, <2>2
<1> HIDE DEF K, z
<1>8. /\ N \in Nat /\ N = Cardinality(K) /\ z \in [I -> K]
      /\ \A c, d \in I : z[c] = z[d] => c = d
      /\ \A y \in K : \E c \in I : z[c] = y
  BY <1>1, <1>2, <1>5, <1>6, <1>7
<1> QED BY ONLY <1>8 DEF Numbering, K, z, N

LEMMA KernelStands ==
  ASSUME NEW C, Numbered(C), NEW s \in TopFirst(C)
  PROVE  \E z : Stands(C, z, LatticeInOrder(C, s))
<1> DEFINE L == LatticeInOrder(C, s)
           N == Len(s)
           I == 0 .. N - 1
           z == [c \in I |-> s[c + 1]]
           H == Neighbours(N, z)
<1>1. Numbering(C, N, z)
  BY TopFirstLists, ListNumbers
<1>2. \A c \in I : z[c].ext = s[c + 1].ext
  OBVIOUS
<1>3. N \in Nat /\ IsFiniteSet(I)
  <2>1. N \in Nat
    BY <1>1 DEF Numbering
  <2>2. 0 \in Int /\ N - 1 \in Int
    BY <2>1
  <2> QED BY ONLY <2>1, <2>2, FS_Interval
<1> HIDE DEF z
<1>4. H \in SUBSET (I \X I) /\ IsFiniteSet(H)
  <2>1. IsFiniteSet(I \X I)
    BY <1>3, FS_Product
  <2>2. H \in SUBSET (I \X I)
    BY DEF Neighbours
  <2> HIDE DEF I, H
  <2> QED BY <2>1, <2>2, FS_Subset
<1>5. \A c, d \in I : Beneath(z, c, d) <=> s[c + 1].ext \subseteq s[d + 1].ext /\ c # d
  BY <1>2 DEF Beneath
<1>6. H = {e \in I \X I :
             /\ s[e[1] + 1].ext \subseteq s[e[2] + 1].ext /\ e[1] # e[2]
             /\ ~ \E x \in I : /\ s[e[1] + 1].ext \subseteq s[x + 1].ext /\ e[1] # x
                               /\ s[x + 1].ext \subseteq s[e[2] + 1].ext /\ x # e[2]}
  <2> HIDE DEF N
  <2> SUFFICES ASSUME NEW e \in I \X I
               PROVE  e \in H <=>
             /\ s[e[1] + 1].ext \subseteq s[e[2] + 1].ext /\ e[1] # e[2]
             /\ ~ \E x \in I : /\ s[e[1] + 1].ext \subseteq s[x + 1].ext /\ e[1] # x
                               /\ s[x + 1].ext \subseteq s[e[2] + 1].ext /\ x # e[2]
    BY <1>4
  <2>1. e[1] \in I /\ e[2] \in I
    OBVIOUS
  <2>2. e \in H <=> /\ Beneath(z, e[1], e[2])
                    /\ ~ \E x \in I : Beneath(z, e[1], x) /\ Beneath(z, x, e[2])
    BY DEF Neighbours
  <2> HIDE DEF H, I
  <2> QED BY <1>5, <2>1, <2>2
<1>7. L.n = N /\ L.edges = SetToSeq(H)
      /\ L.rext = [c \in I |-> s[c + 1].ext \ UNION {s[d + 1].ext : d \in {x \in I : s[x + 1].ext \subseteq s[c + 1].ext /\ x # c}}]
      /\ L.rint = [c \in I |-> {a \in DOMAIN C.cols : C.cols[a] = s[c + 1].ext}]
  BY <1>6 DEF LatticeInOrder
<1>8. L.edges \in Seq(I \X I) /\ Once(L.edges) /\ ToSet(L.edges) = H
  <2>1. SetToSeq(H) \in Seq(H) /\ Once(SetToSeq(H)) /\ ToSet(SetToSeq(H)) = H
    BY <1>4, SomeOrder
  <2> DEFINE A == I \X I
             q == SetToSeq(H)
  <2>2. H \subseteq A
    BY <1>4
  <2> HIDE DEF A, H, q
  <2>3. q \in Seq(H)
    BY <2>1 DEF q
  <2>4. PICK k \in Nat : q \in [1 .. k -> H]
    BY ONLY <2>3, LenProperties
  <2>5. q \in [1 .. k -> A]
    BY ONLY <2>2, <2>4
  <2>6. q \in Seq(A)
    BY ONLY <2>5, SeqDef
  <2> QED BY <1>7, <2>1, <2>6 DEF A, q
<1> HIDE DEF L, H
<1>9. L.rext = [c \in I |-> z[c].ext \ UNION {z[d].ext : d \in {x \in I : Beneath(z, x, c)}}]
  <2>1. ASSUME NEW c \in I
        PROVE  s[c + 1].ext \ UNION {s[d + 1].ext : d \in {x \in I : s[x + 1].ext \subseteq s[c + 1].ext /\ x # c}}
               = z[c].ext \ UNION {z[d].ext : d \in {x \in I : Beneath(z, x, c)}}
    <3>1. {s[d + 1].ext : d \in {x \in I : s[x + 1].ext \subseteq s[c + 1].ext /\ x # c}}
          = {z[d].ext : d \in {x \in I : Beneath(z, x, c)}}
      <4> HIDE DEF I
      <4> QED BY <1>2, <1>5
    <3> QED BY <1>2, <3>1
  <2> QED BY <1>7, <2>1
<1>10. L.rint = [c \in I |-> {a \in DOMAIN C.cols : C.cols[a] = z[c].ext}]
  BY <1>2, <1>7
<1>11. Stands(C, z, L)
  BY <1>1, <1>7, <1>8, <1>9, <1>10 DEF Stands, H
<1> QED BY <1>11 DEF L

-----------------------------------------------------------------------------
(***************************************************************************)
(* Such an order is the concept lattice.                                   *)
(***************************************************************************)
ByExtent(N, z) == {p \in (0 .. N - 1) \X (0 .. N - 1) : z[p[1]].ext \subseteq z[p[2]].ext}

LEMMA ByExtentOrders ==
  ASSUME NEW C, Numbered(C), NEW N, NEW z, Numbering(C, N, z)
  PROVE  /\ ByExtent(N, z) \in SUBSET ((0 .. N - 1) \X (0 .. N - 1))
         /\ \A c, d \in 0 .. N - 1 : <<c, d>> \in ByExtent(N, z) <=> z[c].ext \subseteq z[d].ext
         /\ \A c \in 0 .. N - 1 : <<c, c>> \in ByExtent(N, z)
         /\ \A c, d \in 0 .. N - 1 :
              <<c, d>> \in ByExtent(N, z) /\ <<d, c>> \in ByExtent(N, z) => c = d
         /\ \A c, d, x \in 0 .. N - 1 :
              <<c, x>> \in ByExtent(N, z) /\ <<x, d>> \in ByExtent(N, z) => <<c, d>> \in ByExtent(N, z)
<1> DEFINE I == 0 .. N - 1
           R == ByExtent(N, z)
<1>1. R \in SUBSET (I \X I) /\ \A c, d \in I : <<c, d>> \in R <=> z[c].ext \subseteq z[d].ext
  BY DEF ByExtent
<1>2. ASSUME NEW c \in I, NEW d \in I, <<c, d>> \in R, <<d, c>> \in R PROVE c = d
  <2>1. z[c] \in ConceptsOf(C) /\ z[d] \in ConceptsOf(C)
    BY DEF Numbering
  <2>2. z[c].ext \subseteq z[d].ext /\ z[d].ext \subseteq z[c].ext
    BY <1>1, <1>2
  <2>3. z[c] = z[d]
    BY <2>1, <2>2, ConceptFacts
  <2> QED BY <2>3 DEF Numbering
<1> HIDE DEF R, I
<1>3. /\ \A c \in I : <<c, c>> \in R
      /\ \A c, d, x \in I : <<c, x>> \in R /\ <<x, d>> \in R => <<c, d>> \in R
  BY <1>1
<1> QED BY <1>1, <1>2, <1>3 DEF R, I

LEMMA StandsChains ==
  ASSUME NEW C, Numbered(C), NEW z, NEW L, Stands(C, z, L)
  PROVE  UpTo(L.n, L.edges) = ByExtent(L.n, z)
<1> DEFINE N == L.n
           E == L.edges
           R == ByExtent(L.n, z)
<1>1. /\ N \in Nat /\ E \in Seq((0 .. N - 1) \X (0 .. N - 1)) /\ Numbering(C, N, z)
      /\ ToSet(E) = Neighbours(N, z)
  BY DEF Stands, Numbering
<1>2. /\ R \in SUBSET ((0 .. N - 1) \X (0 .. N - 1))
      /\ \A c, d \in 0 .. N - 1 : <<c, d>> \in R <=> z[c].ext \subseteq z[d].ext
      /\ \A c \in 0 .. N - 1 : <<c, c>> \in R
      /\ \A c, d \in 0 .. N - 1 : <<c, d>> \in R /\ <<d, c>> \in R => c = d
      /\ \A c, d, x \in 0 .. N - 1 : <<c, x>> \in R /\ <<x, d>> \in R => <<c, d>> \in R
  BY <1>1, ByExtentOrders
<1> HIDE DEF N, E, R
<1>3. \A c, d \in 0 .. N - 1 : Beneath(z, c, d) <=> <<c, d>> \in R /\ c # d
  BY <1>2 DEF Beneath
<1>4. \A c, d \in 0 .. N - 1 :
        <<c, d>> \in ToSet(E) <=>
          /\ <<c, d>> \in R /\ c # d
          /\ ~ \E x \in 0 .. N - 1 : c # x /\ x # d /\ <<c, x>> \in R /\ <<x, d>> \in R
  <2> TAKE c, d \in 0 .. N - 1
  <2>1. <<c, d>> \in ToSet(E) <=>
          /\ Beneath(z, c, d)
          /\ ~ \E x \in 0 .. N - 1 : Beneath(z, c, x) /\ Beneath(z, x, d)
    BY <1>1 DEF Neighbours
  <2> QED BY ONLY <1>3, <2>1, c \in 0 .. N - 1, d \in 0 .. N - 1
<1>5. UpTo(N, E) = R
  BY ONLY <1>1, <1>2, <1>4, HasseChains
<1> QED BY <1>5 DEF N, E, R

\* The numbers below a concept, itself among them, lead to the objects its
\* extent is made of; those above it to the attributes of its intent.
LEMMA StandsFull ==
  ASSUME NEW C, Numbered(C), NEW z, NEW L, Stands(C, z, L), NEW c \in 0 .. L.n - 1
  PROVE  /\ ExtIn(L.n, UpTo(L.n, L.edges), L.rext, c) = z[c].ext
         /\ IntIn(L.n, UpTo(L.n, L.edges), L.rint, c) = z[c].int
<1> DEFINE I == 0 .. L.n - 1
           R == ByExtent(L.n, z)
<1>1. /\ \A d \in I : L.rext[d] = z[d].ext \ UNION {z[y].ext : y \in {x \in I : Beneath(z, x, d)}}
      /\ \A d \in I : L.rint[d] = {a \in DOMAIN C.cols : C.cols[a] = z[d].ext}
      /\ Numbering(C, L.n, z)
  BY DEF Stands
<1>2. /\ \A d \in I : z[d] \in ConceptsOf(C)
      /\ \A y \in ConceptsOf(C) : \E d \in I : z[d] = y
      /\ \A d, e \in I : z[d] = z[e] => d = e
  BY <1>1 DEF Numbering
<1>3. \A d, e \in I : <<d, e>> \in R <=> z[d].ext \subseteq z[e].ext
  BY <1>1, ByExtentOrders
<1>4. UpTo(L.n, L.edges) = R
  BY StandsChains
<1>5. /\ ExtIn(L.n, R, L.rext, c) = UNION {L.rext[d] : d \in {x \in I : <<x, c>> \in R}}
      /\ IntIn(L.n, R, L.rint, c) = UNION {L.rint[d] : d \in {x \in I : <<c, x>> \in R}}
  BY DEF ExtIn, IntIn
<1>6. c \in I
  OBVIOUS
<1> HIDE DEF R, I
<1>7. \A d \in I : L.rext[d] \subseteq z[d].ext
  BY <1>1
<1>8. ASSUME NEW o \in z[c].ext PROVE \E d \in I : <<d, c>> \in R /\ o \in L.rext[d]
  <2>1. o \in C.objs
    BY <1>2, <1>6, ConceptFacts
  <2>2. PICK y \in ConceptsOf(C) :
          o \in y.ext /\ \A w \in ConceptsOf(C) : o \in w.ext => y.ext \subseteq w.ext
    BY <2>1, Introducers
  <2>3. PICK d \in I : z[d] = y
    BY <1>2
  <2>4. z[d].ext \subseteq z[c].ext
    BY <1>2, <1>6, <2>2, <2>3
  <2>5. ASSUME NEW x \in I, Beneath(z, x, d), o \in z[x].ext PROVE FALSE
    <3>1. z[x] \in ConceptsOf(C) /\ z[d] \in ConceptsOf(C)
      BY <1>2
    <3>2. z[x].ext \subseteq z[d].ext /\ x # d
      BY <2>5 DEF Beneath
    <3>3. z[d].ext \subseteq z[x].ext
      BY <2>2, <2>3, <2>5, <3>1
    <3>4. z[x] = z[d]
      <4> DEFINE u == z[x]
                 v == z[d]
      <4>1. u \in ConceptsOf(C) /\ v \in ConceptsOf(C) /\ u.ext \subseteq v.ext /\ v.ext \subseteq u.ext
        BY <3>1, <3>2, <3>3
      <4> HIDE DEF u, v
      <4>2. u = v
        BY ONLY <4>1, Numbered(C), ConceptFacts
      <4> QED BY <4>2 DEF u, v
    <3> QED BY <1>2, <3>2, <3>4
  <2>6. o \in L.rext[d]
    BY <1>1, <2>2, <2>3, <2>5
  <2> QED BY <1>3, <1>6, <2>4, <2>6
<1>9. UNION {L.rext[d] : d \in {x \in I : <<x, c>> \in R}} = z[c].ext
  <2>1. \A d \in I : <<d, c>> \in R => L.rext[d] \subseteq z[c].ext
    BY <1>3, <1>6, <1>7
  <2> QED BY <1>8, <2>1
<1>10. \A a \in DOMAIN C.cols : a \in z[c].int <=> z[c].ext \subseteq C.cols[a]
  BY <1>2, <1>6, ConceptFacts
<1>11. ASSUME NEW a \in z[c].int PROVE \E d \in I : <<c, d>> \in R /\ a \in L.rint[d]
  <2>1. a \in DOMAIN C.cols
    BY <1>2, <1>6, ConceptFacts
  <2>2. PICK y \in ConceptsOf(C) : y.ext = C.cols[a]
    BY <2>1, Introducers
  <2>3. PICK d \in I : z[d] = y
    BY <1>2
  <2>4. z[d].ext = C.cols[a]
    BY <2>2, <2>3
  <2>5. z[c].ext \subseteq z[d].ext
    BY <1>10, <2>1, <2>4
  <2> QED BY <1>1, <1>3, <1>6, <2>1, <2>4, <2>5
<1>12. ASSUME NEW d \in I, <<c, d>> \in R, NEW a \in L.rint[d] PROVE a \in z[c].int
  <2>1. a \in DOMAIN C.cols /\ C.cols[a] = z[d].ext
    BY <1>1
  <2>2. z[c].ext \subseteq z[d].ext
    BY <1>3, <1>6, <1>12
  <2> QED BY <1>10, <2>1, <2>2
<1>13. UNION {L.rint[d] : d \in {x \in I : <<c, x>> \in R}} = z[c].int
  BY <1>11, <1>12
<1> QED BY <1>4, <1>5, <1>9, <1>13

Laid(N, B, rext, rint) == [n |-> N, edges |-> B, rext |-> rext, rint |-> rint]

\* Sets that the concepts are made of, and their neighbours: a lattice.
LEMMA MakesLattice ==
  ASSUME NEW C, Numbered(C), NEW N, NEW z, Numbering(C, N, z),
         NEW B \in Seq((0 .. N - 1) \X (0 .. N - 1)), Once(B), ToSet(B) = Neighbours(N, z),
         NEW rext, NEW rint, Disjoint(rext), Disjoint(rint),
         \A c \in 0 .. N - 1 : /\ ExtIn(N, UpTo(N, B), rext, c) = z[c].ext
                               /\ IntIn(N, UpTo(N, B), rint, c) = z[c].int
  PROVE  IsLattice(C, Laid(N, B, rext, rint))
<1> DEFINE I == 0 .. N - 1
           L == Laid(N, B, rext, rint)
           full == FullSets(L)
<1>1. L.n = N /\ L.edges = B /\ L.rext = rext /\ L.rint = rint
  BY DEF Laid
<1>2. \A c \in I : full[c].ext = z[c].ext /\ full[c].int = z[c].int
  <2> TAKE c \in I
  <2>1. /\ full[c].ext = ExtIn(N, UpTo(N, B), rext, c)
        /\ full[c].int = IntIn(N, UpTo(N, B), rint, c)
    BY FullSetsOf DEF Laid
  <2> HIDE DEF full
  <2> QED BY <2>1
<1>3. \A c \in I : full[c] = [ext |-> full[c].ext, int |-> full[c].int]
  BY <1>1 DEF FullSets
<1>4. /\ N = Cardinality(ConceptsOf(C))
      /\ \A c \in I : z[c] \in ConceptsOf(C)
      /\ \A y \in ConceptsOf(C) : \E c \in I : z[c] = y
  BY DEF Numbering
<1>5. \A c \in I : z[c] = [ext |-> z[c].ext, int |-> z[c].int]
  <2> TAKE c \in I
  <2> DEFINE y == z[c]
  <2>1. y \in ConceptsOf(C)
    BY <1>4
  <2> HIDE DEF y
  <2>2. y = [ext |-> y.ext, int |-> y.int]
    BY ONLY <2>1, Numbered(C), ConceptsKnown
  <2> QED BY <2>2 DEF y
<1> HIDE DEF L, full
<1>6. \A c \in I : full[c] = z[c]
  BY <1>2, <1>3, <1>5
<1> DEFINE K == ConceptsOf(C)
<1> HIDE DEF I, K
<1>7. {full[c] : c \in I} = K
  BY <1>4, <1>6 DEF K
<1> DEFINE below(c, d) == full[c].ext \subseteq full[d].ext /\ c # d
           hasse == {e \in I \X I : /\ below(e[1], e[2])
                                    /\ ~ \E x \in I : below(e[1], x) /\ below(x, e[2])}
<1>8. \A c, d \in I : below(c, d) <=> Beneath(z, c, d)
  BY <1>2 DEF Beneath
<1> HIDE DEF below
<1>9. ToSet(B) = hasse
  <2>1. ToSet(B) = {e \in I \X I : /\ Beneath(z, e[1], e[2])
                                   /\ ~ \E x \in I : Beneath(z, e[1], x) /\ Beneath(z, x, e[2])}
    BY DEF Neighbours, I
  <2>2. \A e \in I \X I : e[1] \in I /\ e[2] \in I
    OBVIOUS
  <2> QED BY <1>8, <2>1, <2>2
<1>10. Len(B) = Cardinality(ToSet(B))
  BY OnceCounts
<1> HIDE DEF hasse
<1>11. /\ {full[c] : c \in I} = ConceptsOf(C) /\ L.n = Cardinality(ConceptsOf(C))
       /\ Disjoint(L.rext) /\ Disjoint(L.rint)
       /\ ToSet(L.edges) = hasse /\ Len(L.edges) = Cardinality(ToSet(L.edges))
       /\ 0 .. L.n - 1 = I
  BY <1>1, <1>4, <1>7, <1>9, <1>10 DEF K, I
<1> USE DEF below, hasse, full
<1>12. IsLattice(C, L)
  BY ONLY <1>11 DEF IsLattice
<1> QED BY <1>12 DEF L

\* Each object and each attribute is introduced once.
LEMMA StandsApart ==
  ASSUME NEW C, Numbered(C), NEW z, NEW L, Stands(C, z, L)
  PROVE  Disjoint(L.rext) /\ Disjoint(L.rint)
<1> DEFINE I == 0 .. L.n - 1
<1>1. /\ L.rext = [d \in I |-> z[d].ext \ UNION {z[y].ext : y \in {x \in I : Beneath(z, x, d)}}]
      /\ L.rint = [d \in I |-> {a \in DOMAIN C.cols : C.cols[a] = z[d].ext}]
      /\ Numbering(C, L.n, z)
  BY DEF Stands
<1>2. /\ \A d \in I : z[d] \in ConceptsOf(C)
      /\ \A y \in ConceptsOf(C) : \E d \in I : z[d] = y
      /\ \A d, e \in I : z[d] = z[e] => d = e
  BY <1>1 DEF Numbering
<1> HIDE DEF I
<1>3. ASSUME NEW c \in I, NEW d \in I, z[c].ext \subseteq z[d].ext, z[d].ext \subseteq z[c].ext
      PROVE  c = d
  <2> DEFINE u == z[c]
             v == z[d]
  <2>1. u \in ConceptsOf(C) /\ v \in ConceptsOf(C) /\ u.ext \subseteq v.ext /\ v.ext \subseteq u.ext
    BY <1>2, <1>3
  <2> HIDE DEF u, v
  <2>2. u = v
    BY ONLY <2>1, Numbered(C), ConceptFacts
  <2> QED BY <1>2, <2>2 DEF u, v
<1>4. ASSUME NEW c \in I, NEW d \in I, c # d, NEW o, o \in L.rext[c], o \in L.rext[d] PROVE FALSE
  <2>1. /\ o \in z[c].ext /\ \A x \in I : Beneath(z, x, c) => o \notin z[x].ext
        /\ o \in z[d].ext /\ \A x \in I : Beneath(z, x, d) => o \notin z[x].ext
    BY <1>1, <1>4
  <2>2. o \in C.objs
    <3>1. z[c] \in ConceptsOf(C)
      BY <1>2
    <3>2. z[c].ext \in SUBSET C.objs
      BY <3>1, ConceptFacts
    <3> QED BY <2>1, <3>2
  <2>3. PICK y \in ConceptsOf(C) :
          o \in y.ext /\ \A w \in ConceptsOf(C) : o \in w.ext => y.ext \subseteq w.ext
    BY <2>2, Introducers
  <2>4. PICK e \in I : z[e] = y
    BY <1>2
  <2>5. o \in z[e].ext /\ z[e].ext \subseteq z[c].ext /\ z[e].ext \subseteq z[d].ext
    BY <1>2, <2>1, <2>3, <2>4
  <2>6. e = c /\ e = d
    BY <2>1, <2>5 DEF Beneath
  <2> QED BY <1>4, <2>6
<1>5. ASSUME NEW c \in I, NEW d \in I, c # d, NEW a, a \in L.rint[c], a \in L.rint[d] PROVE FALSE
  <2>1. C.cols[a] = z[c].ext /\ C.cols[a] = z[d].ext
    BY <1>1, <1>5
  <2>2. z[c].ext \subseteq z[d].ext /\ z[d].ext \subseteq z[c].ext
    BY <2>1
  <2> QED BY <1>3, <1>5, <2>2
<1>6. DOMAIN L.rext = I /\ DOMAIN L.rint = I
  BY <1>1
<1> QED BY <1>4, <1>5, <1>6 DEF Disjoint

LEMMA StandsLattice ==
  ASSUME NEW C, Numbered(C), NEW z, NEW L, Stands(C, z, L)
  PROVE  IsLattice(C, Laid(L.n, L.edges, L.rext, L.rint))
<1> DEFINE N == L.n
           B == L.edges
           X == L.rext
           Y == L.rint
<1>1. /\ Numbering(C, N, z) /\ B \in Seq((0 .. N - 1) \X (0 .. N - 1)) /\ Once(B)
      /\ ToSet(B) = Neighbours(N, z)
  BY DEF Stands
<1>2. Disjoint(X) /\ Disjoint(Y)
  BY StandsApart
<1>3. \A c \in 0 .. N - 1 : /\ ExtIn(N, UpTo(N, B), X, c) = z[c].ext
                            /\ IntIn(N, UpTo(N, B), Y, c) = z[c].int
  BY StandsFull
<1> HIDE DEF N, B, X, Y
<1>4. IsLattice(C, Laid(N, B, X, Y))
  BY ONLY Numbered(C), <1>1, <1>2, <1>3, MakesLattice
<1> QED BY <1>4 DEF N, B, X, Y

\* Chains of the edges turned round.
LEMMA ChainsTurned ==
  ASSUME NEW N \in Nat, NEW B \in Seq((0 .. N - 1) \X (0 .. N - 1))
  PROVE  /\ Swap(B) \in Seq((0 .. N - 1) \X (0 .. N - 1))
         /\ \A c, d \in 0 .. N - 1 : <<c, d>> \in UpTo(N, B) <=> <<d, c>> \in UpTo(N, Swap(B))
<1> DEFINE I == 0 .. N - 1
           E == ToSet(B)
           F == ToSet(Swap(B))
           R == UpTo(N, B)
           Q == UpTo(N, Swap(B))
<1>1. Swap(B) \in Seq(I \X I) /\ \A x, y : <<x, y>> \in F <=> <<y, x>> \in E
  BY Swapped
<1>2. Reaches(R, I, E) /\ Reaches(Q, I, F)
  BY <1>1, AllReached
<1>3. ASSUME NEW A, NEW s \in Seq(A) PROVE ToSet(s) \in SUBSET A
  BY <1>3, LenProperties, ElementOfSeq DEF ToSet
<1>4. E \in SUBSET (I \X I) /\ F \in SUBSET (I \X I)
  BY <1>1, <1>3
<1>5. \A c, d \in I : <<c, d>> \in E <=> <<d, c>> \in F
  BY <1>1
<1> HIDE DEF E, F, R, Q, I
<1>6. \A c, d \in I : <<c, d>> \in R <=> <<d, c>> \in Q
  BY ONLY <1>2, <1>4, <1>5, ReachInverse
<1> QED BY <1>1, <1>6 DEF R, Q, I

\* Turned upside down, with objects for attributes, the lattice of the
\* transpose is that of the context.
LEMMA StandsTurned ==
  ASSUME NEW C, Numbered(C), NEW z, NEW L, Stands(Transpose(C), z, L)
  PROVE  IsLattice(C, Laid(L.n, Swap(L.edges), L.rint, L.rext))
<1> DEFINE T == Transpose(C)
           N == L.n
           I == 0 .. N - 1
           B == L.edges
           X == L.rext
           Y == L.rint
           y == [c \in I |-> [ext |-> z[c].int, int |-> z[c].ext]]
<1>1. Numbered(T)
  BY TransposeFacts
<1> HIDE DEF T
<1>2. /\ Numbering(T, N, z) /\ B \in Seq(I \X I) /\ Once(B) /\ ToSet(B) = Neighbours(N, z)
  BY DEF Stands, T
<1>3. Disjoint(X) /\ Disjoint(Y)
  BY <1>1, StandsApart DEF T
<1>4. \A c \in I : /\ ExtIn(N, UpTo(N, B), X, c) = z[c].ext
                   /\ IntIn(N, UpTo(N, B), Y, c) = z[c].int
  BY <1>1, StandsFull DEF T
<1>5. /\ N \in Nat /\ N = Cardinality(ConceptsOf(T)) /\ z \in [I -> ConceptsOf(T)]
      /\ \A c, d \in I : z[c] = z[d] => c = d
      /\ \A k \in ConceptsOf(T) : \E c \in I : z[c] = k
  BY <1>2 DEF Numbering
<1> HIDE DEF X, Y, B, N
<1>6. \A c \in I : z[c] \in ConceptsOf(T) /\ z[c] = [ext |-> z[c].ext, int |-> z[c].int]
  <2> TAKE c \in I
  <2> DEFINE k == z[c]
  <2>1. k \in ConceptsOf(T)
    BY <1>5
  <2> HIDE DEF k
  <2>2. k = [ext |-> k.ext, int |-> k.int]
    BY ONLY <1>1, <2>1, ConceptsKnown
  <2> QED BY <2>1, <2>2 DEF k
<1>7. \A c \in I : y[c].ext = z[c].int /\ y[c].int = z[c].ext /\ y[c] = [ext |-> z[c].int, int |-> z[c].ext]
  OBVIOUS
<1> HIDE DEF y
<1>8. \A c \in I : y[c] \in ConceptsOf(C)
  <2> TAKE c \in I
  <2> DEFINE e == z[c].ext
             i == z[c].int
  <2>1. [ext |-> e, int |-> i] \in ConceptsOf(T) /\ y[c] = [ext |-> i, int |-> e]
    BY <1>6, <1>7
  <2> HIDE DEF e, i
  <2>2. [ext |-> i, int |-> e] \in ConceptsOf(C)
    BY <2>1, ConceptsTurned DEF T
  <2> QED BY <2>1, <2>2
<1>9. \A c, d \in I : y[c] = y[d] => c = d
  <2> TAKE c, d \in I
  <2>1. y[c] = y[d] => z[c] = z[d]
    BY <1>6, <1>7
  <2> QED BY <1>5, <2>1
<1>10. \A k \in ConceptsOf(C) : \E c \in I : y[c] = k
  <2> TAKE k \in ConceptsOf(C)
  <2> DEFINE e == k.ext
             i == k.int
  <2>1. k = [ext |-> e, int |-> i]
    BY ConceptsKnown
  <2> HIDE DEF e, i
  <2>2. [ext |-> i, int |-> e] \in ConceptsOf(T)
    BY <2>1, ConceptsTurned DEF T
  <2>3. PICK c \in I : z[c] = [ext |-> i, int |-> e]
    BY <1>5, <2>2
  <2>4. y[c] = [ext |-> e, int |-> i]
    BY <1>7, <2>3
  <2> QED BY <2>1, <2>4
<1>11. N = Cardinality(ConceptsOf(C))
  <2> DEFINE K == ConceptsOf(C)
  <2>1. IsFiniteSet(I) /\ Cardinality(I) = N
    <3>1. 0 \in Int /\ N - 1 \in Int
      BY <1>5
    <3>2. IsFiniteSet(I) /\ Cardinality(I) = IF 0 > N - 1 THEN 0 ELSE (N - 1) - 0 + 1
      BY ONLY <3>1, FS_Interval
    <3> QED BY <1>5, <3>2
  <2> HIDE DEF I, K
  <2>2. y \in [I -> K]
    BY <1>8 DEF y, K
  <2>3. y \in Surjection(I, K) /\ y \in Injection(I, K)
    BY <1>9, <1>10, <2>2 DEF Surjection, Injection, IsInjective, K
  <2>4. Cardinality(I) = Cardinality(K)
    BY ONLY <2>1, <2>3, FS_Surjection
  <2> QED BY <2>1, <2>4 DEF K
<1>12. Numbering(C, N, y)
  <2>1. y \in [I -> ConceptsOf(C)]
    BY <1>8 DEF y
  <2> QED BY <1>5, <1>9, <1>10, <1>11, <2>1 DEF Numbering
<1>13. \A c, d \in I : Beneath(y, c, d) <=> Beneath(z, d, c)
  <2> TAKE c, d \in I
  <2> DEFINE u == z[c]
             v == z[d]
  <2>1. u \in ConceptsOf(T) /\ v \in ConceptsOf(T) /\ y[c].ext = u.int /\ y[d].ext = v.int
    BY <1>6, <1>7
  <2> HIDE DEF u, v
  <2>2. v.ext \subseteq u.ext <=> u.int \subseteq v.int
    BY ONLY <1>1, <2>1, ConceptFacts
  <2>3. v.ext \subseteq u.ext <=> z[d].ext \subseteq z[c].ext
    BY DEF u, v
  <2> QED BY <2>1, <2>2, <2>3 DEF Beneath
<1>14. /\ Swap(B) \in Seq(I \X I)
       /\ \A c, d \in I : <<c, d>> \in UpTo(N, B) <=> <<d, c>> \in UpTo(N, Swap(B))
  BY <1>2, <1>5, ChainsTurned
<1>15. ToSet(Swap(B)) = Neighbours(N, y)
  <2>1. \A c, d : <<c, d>> \in ToSet(Swap(B)) <=> <<d, c>> \in ToSet(B)
    BY <1>2, Swapped
  <2>2. ASSUME NEW A, NEW s \in Seq(A) PROVE ToSet(s) \in SUBSET A
    BY <2>2, LenProperties, ElementOfSeq DEF ToSet
  <2>3. ToSet(Swap(B)) \in SUBSET (I \X I) /\ Neighbours(N, y) \in SUBSET (I \X I)
    BY <1>14, <2>2 DEF Neighbours
  <2>4. ASSUME NEW c \in I, NEW d \in I
        PROVE  <<c, d>> \in ToSet(Swap(B)) <=> <<c, d>> \in Neighbours(N, y)
    <3>1. <<d, c>> \in Neighbours(N, z) <=>
            Beneath(z, d, c) /\ ~ \E x \in I : Beneath(z, d, x) /\ Beneath(z, x, c)
      BY DEF Neighbours
    <3>2. <<c, d>> \in Neighbours(N, y) <=>
            Beneath(y, c, d) /\ ~ \E x \in I : Beneath(y, c, x) /\ Beneath(y, x, d)
      BY DEF Neighbours
    <3> HIDE DEF I
    <3> QED BY <1>2, <1>13, <2>1, <3>1, <3>2
  <2> HIDE DEF I
  <2> DEFINE A == ToSet(Swap(B))
             H == Neighbours(N, y)
  <2>5. A \in SUBSET (I \X I) /\ H \in SUBSET (I \X I)
        /\ \A c, d \in I : <<c, d>> \in A <=> <<c, d>> \in H
    BY <2>3, <2>4
  <2> HIDE DEF A, H
  <2>6. A = H
    BY ONLY <2>5
  <2> QED BY <2>6 DEF A, H
<1>16. Once(Swap(B))
  <2>1. \A j \in DOMAIN B : B[j] = <<B[j][1], B[j][2]>>
    <3> TAKE j \in DOMAIN B
    <3>1. B[j] \in I \X I
      BY <1>2, LenProperties, ElementOfSeq
    <3> QED BY <3>1
  <2>2. /\ DOMAIN Swap(B) = DOMAIN B
        /\ \A j \in DOMAIN B : Swap(B)[j][1] = B[j][2] /\ Swap(B)[j][2] = B[j][1]
    BY DEF Swap
  <2>3. \A i, j \in DOMAIN B : B[i] = B[j] => i = j
    BY <1>2 DEF Once
  <2> QED BY <2>1, <2>2, <2>3 DEF Once
<1>17. \A c \in I : /\ ExtIn(N, UpTo(N, Swap(B)), Y, c) = y[c].ext
                    /\ IntIn(N, UpTo(N, Swap(B)), X, c) = y[c].int
  <2> TAKE c \in I
  <2> DEFINE R == UpTo(N, B)
             Q == UpTo(N, Swap(B))
  <2>1. \A d, e \in I : <<d, e>> \in R <=> <<e, d>> \in Q
    BY <1>14
  <2> HIDE DEF R, Q
  <2>2. {x \in I : <<x, c>> \in Q} = {x \in I : <<c, x>> \in R} /\ {x \in I : <<c, x>> \in Q} = {x \in I : <<x, c>> \in R}
    BY <2>1
  <2>3. ExtIn(N, Q, Y, c) = IntIn(N, R, Y, c) /\ IntIn(N, Q, X, c) = ExtIn(N, R, X, c)
    BY <2>2 DEF ExtIn, IntIn
  <2> QED BY <1>4, <1>7, <2>3 DEF R, Q
<1> DEFINE S == Swap(B)
<1>18. S \in Seq(I \X I) /\ Once(S) /\ ToSet(S) = Neighbours(N, y)
       /\ \A c \in I : ExtIn(N, UpTo(N, S), Y, c) = y[c].ext /\ IntIn(N, UpTo(N, S), X, c) = y[c].int
  BY <1>14, <1>15, <1>16, <1>17
<1> HIDE DEF S
<1>19. IsLattice(C, Laid(N, S, Y, X))
  BY ONLY Numbered(C), <1>3, <1>12, <1>18, MakesLattice
<1> QED BY <1>19 DEF S, N, B, X, Y

\* The sets of numbers written as lists of them.
LEMMA ListedSets ==
  ASSUME NEW N \in Nat, NEW f, DOMAIN f = 0 .. N - 1,
         \A c \in 0 .. N - 1 : f[c] \in SUBSET Nat /\ IsFiniteSet(f[c])
  PROVE  /\ Listed(f) \in Seq(Seq(Nat)) /\ Len(Listed(f)) = N
         /\ \A c \in 0 .. N - 1 : ToSet(Listed(f)[c + 1]) = f[c]
<1> DEFINE g == Listed(f)
<1>1. Cardinality(DOMAIN f) = N
  <2>1. 0 \in Int /\ N - 1 \in Int
    OBVIOUS
  <2> DEFINE I == 0 .. N - 1
  <2>2. Cardinality(I) = IF 0 > N - 1 THEN 0 ELSE (N - 1) - 0 + 1
    BY ONLY <2>1, FS_Interval
  <2> HIDE DEF I
  <2>3. DOMAIN f = I
    BY DEF I
  <2> QED BY <2>2, <2>3
<1>2. g = [k \in 1 .. N |-> Increasing(f[k - 1])]
  BY <1>1 DEF Listed
<1>3. \A S \in SUBSET Nat : IsFiniteSet(S) => Increasing(S) \in Seq(Nat) /\ ToSet(Increasing(S)) = S
  <2> TAKE S \in SUBSET Nat
  <2> HAVE IsFiniteSet(S)
  <2> DEFINE s == Increasing(S)
  <2>1. S \in SUBSET Int
    OBVIOUS
  <2>2. s \in Seq(S) /\ \A x \in S : \E k \in DOMAIN s : s[k] = x
    BY <2>1, InOrder
  <2> HIDE DEF s
  <2>3. PICK m \in Nat : s \in [1 .. m -> S]
    BY ONLY <2>2, LenProperties
  <2>4. s \in [1 .. m -> Nat]
    BY ONLY <2>3, S \in SUBSET Nat
  <2>5. s \in Seq(Nat)
    BY ONLY <2>4, SeqDef
  <2>6. ToSet(s) = S
    BY <2>2, <2>3 DEF ToSet
  <2> QED BY <2>5, <2>6 DEF s
<1> HIDE DEF g
<1>4. \A k \in 1 .. N : k - 1 \in 0 .. N - 1
  OBVIOUS
<1>5. \A k \in 1 .. N : g[k] \in Seq(Nat) /\ ToSet(g[k]) = f[k - 1]
  BY <1>2, <1>3, <1>4
<1>6. g \in [1 .. N -> Seq(Nat)]
  BY <1>2, <1>5
<1>7. g \in Seq(Seq(Nat)) /\ Len(g) = N
  <2> DEFINE A == Seq(Nat)
  <2> HIDE DEF A
  <2>1. g \in [1 .. N -> A]
    BY <1>6 DEF A
  <2>2. g \in Seq(A) /\ Len(g) = N
    BY <2>1
  <2> QED BY <2>2 DEF A
<1>8. \A c \in 0 .. N - 1 : c + 1 \in 1 .. N /\ (c + 1) - 1 = c
  OBVIOUS
<1> QED BY <1>5, <1>7, <1>8 DEF g

\* populateFromFlat finds the lattice in the array of the kernel.
LEMMA ReadFromKernel ==
  ASSUME NEW C, Numbered(C), NEW z, NEW L, Stands(C, z, L)
  PROVE  LET flat_ == Encode(L.edges, Listed(L.rext), Listed(L.rint))
         IN  /\ Decode(flat_) = Laid(L.n, L.edges, L.rext, L.rint)
             /\ ~ Len(flat_) < 2
<1> DEFINE N == L.n
           I == 0 .. N - 1
           B == L.edges
           X == L.rext
           Y == L.rint
           rX == Listed(X)
           rY == Listed(Y)
<1>1. /\ Numbering(C, N, z) /\ N \in Nat /\ B \in Seq(I \X I)
      /\ \A c \in I : z[c] \in ConceptsOf(C)
      /\ X = [c \in I |-> z[c].ext \ UNION {z[d].ext : d \in {x \in I : Beneath(z, x, c)}}]
      /\ Y = [c \in I |-> {a \in DOMAIN C.cols : C.cols[a] = z[c].ext}]
  BY DEF Stands, Numbering
<1>2. /\ C.objs \in SUBSET Nat /\ IsFiniteSet(C.objs)
      /\ DOMAIN C.cols \in SUBSET Nat /\ IsFiniteSet(DOMAIN C.cols)
  BY ContextFacts
<1> HIDE DEF N, B, X, Y
<1>3. \A c \in I : X[c] \in SUBSET C.objs /\ Y[c] \in SUBSET DOMAIN C.cols
  <2> TAKE c \in I
  <2>1. z[c].ext \in SUBSET C.objs
    BY <1>1, ConceptFacts
  <2> QED BY <1>1, <2>1
<1>4. \A c \in I : /\ X[c] \in SUBSET Nat /\ IsFiniteSet(X[c])
                   /\ Y[c] \in SUBSET Nat /\ IsFiniteSet(Y[c])
  BY <1>2, <1>3, FS_Subset
<1>5. DOMAIN X = I /\ DOMAIN Y = I
  BY <1>1
<1>6. /\ rX \in Seq(Seq(Nat)) /\ Len(rX) = N /\ \A c \in I : ToSet(rX[c + 1]) = X[c]
      /\ rY \in Seq(Seq(Nat)) /\ Len(rY) = N /\ \A c \in I : ToSet(rY[c + 1]) = Y[c]
  BY <1>1, <1>4, <1>5, ListedSets
<1>7. B \in Seq(Nat \X Nat)
  <2> DEFINE A == I \X I
             W == Nat \X Nat
  <2>1. A \subseteq W
    <3>1. \A n_ \in Nat : 0 .. n_ - 1 \subseteq Nat
      OBVIOUS
    <3> QED BY <1>1, <3>1
  <2> HIDE DEF A, W
  <2>2. B \in Seq(A)
    BY <1>1 DEF A
  <2>3. PICK k \in Nat : B \in [1 .. k -> A]
    BY ONLY <2>2, LenProperties
  <2>4. B \in [1 .. k -> W]
    BY ONLY <2>1, <2>3
  <2>5. B \in Seq(W)
    BY ONLY <2>4, SeqDef
  <2> QED BY <2>5 DEF W
<1> HIDE DEF rX, rY, I
<1> DEFINE back(m, a, b, c) == [n     |-> m,
                                edges |-> a,
                                rext  |-> [k \in 0 .. m - 1 |-> ToSet(b[k + 1])],
                                rint  |-> [k \in 0 .. m - 1 |-> ToSet(c[k + 1])]]
           size(m, a, b, c) == 2 + 2 * Len(a) + 2 * m + Len(FlattenSeq(b)) + Len(FlattenSeq(c))
<1>8. Decode(Encode(B, rX, rY)) = back(N, B, rX, rY) /\ Len(Encode(B, rX, rY)) = size(N, B, rX, rY)
  <2>1. ASSUME NEW a \in Seq(Nat \X Nat), NEW b \in Seq(Seq(Nat)), NEW c \in Seq(Seq(Nat)),
               Len(c) = Len(b)
        PROVE  /\ Decode(Encode(a, b, c)) = back(Len(b), a, b, c)
               /\ Len(Encode(a, b, c)) = size(Len(b), a, b, c)
    BY ONLY <2>1, RoundTrip
  <2> HIDE DEF back, size
  <2> QED BY ONLY <1>6, <1>7, <2>1
<1>9. back(N, B, rX, rY) = Laid(N, B, X, Y)
  <2>1. [k \in 0 .. N - 1 |-> ToSet(rX[k + 1])] = X
    BY <1>1, <1>5, <1>6 DEF I
  <2>2. [k \in 0 .. N - 1 |-> ToSet(rY[k + 1])] = Y
    BY <1>1, <1>5, <1>6 DEF I
  <2> QED BY <2>1, <2>2 DEF Laid
<1>10. ~ Len(Encode(B, rX, rY)) < 2
  <2>1. Len(B) \in Nat /\ Len(FlattenSeq(rX)) \in Nat /\ Len(FlattenSeq(rY)) \in Nat
    <3>1. FlattenSeq(rX) \in Seq(Nat) /\ FlattenSeq(rY) \in Seq(Nat)
      BY <1>6, FlattenElements
    <3> QED BY <1>7, <3>1, LenProperties
  <2>2. size(N, B, rX, rY) >= 2
    BY <1>1, <2>1
  <2>3. size(N, B, rX, rY) \in Nat
    BY <1>1, <2>1
  <2> HIDE DEF size
  <2> QED BY <1>8, <2>2, <2>3
<1> QED BY <1>8, <1>9, <1>10 DEF N, B, X, Y, rX, rY

LEMMA StandsLaid ==
  ASSUME NEW C, NEW z, NEW L, Stands(C, z, L)
  PROVE  Stands(C, z, Laid(L.n, L.edges, L.rext, L.rint))
<1> DEFINE K == Laid(L.n, L.edges, L.rext, L.rint)
<1>1. K.n = L.n /\ K.edges = L.edges /\ K.rext = L.rext /\ K.rint = L.rint
  BY DEF Laid
<1> HIDE DEF K
<1>2. Stands(C, z, K)
  BY <1>1 DEF Stands
<1> QED BY <1>2 DEF K

\* Its edges lead to larger extents, and close no cycle.
LEMMA StandsLoopless ==
  ASSUME NEW C, Numbered(C), NEW z, NEW L, Stands(C, z, L)
  PROVE  /\ L.n \in Nat /\ L.edges \in Seq((0 .. L.n - 1) \X (0 .. L.n - 1))
         /\ Loopless(UpTo(L.n, L.edges), ToSet(L.edges))
<1> DEFINE I == 0 .. L.n - 1
           R == ByExtent(L.n, z)
<1>1. /\ L.n \in Nat /\ L.edges \in Seq(I \X I) /\ ToSet(L.edges) = Neighbours(L.n, z)
      /\ Numbering(C, L.n, z)
  BY DEF Stands, Numbering
<1>2. UpTo(L.n, L.edges) = R
  BY StandsChains
<1>3. /\ \A c, d \in I : <<c, d>> \in R <=> z[c].ext \subseteq z[d].ext
      /\ \A c, d \in I : <<c, d>> \in R /\ <<d, c>> \in R => c = d
  BY <1>1, ByExtentOrders
<1> HIDE DEF R
<1>4. ASSUME NEW e \in Neighbours(L.n, z), <<e[2], e[1]>> \in R PROVE FALSE
  <2>1. e[1] \in I /\ e[2] \in I /\ Beneath(z, e[1], e[2])
    BY DEF Neighbours
  <2> HIDE DEF I
  <2>2. <<e[1], e[2]>> \in R /\ e[1] # e[2]
    BY <1>3, <2>1 DEF Beneath
  <2> QED BY <1>3, <1>4, <2>1, <2>2
<1> QED BY <1>1, <1>2, <1>4 DEF Loopless

\* What is below the other way is above.
LEMMA UnderSets ==
  ASSUME Typed
  PROVE  \A c \in Ids : /\ ExtIn(n, Under, rintents, c) = IntIn(n, Chains, rintents, c)
                        /\ IntIn(n, Under, rextents, c) = ExtIn(n, Chains, rextents, c)
<1> TAKE c \in Ids
<1>1. \A d, e \in Ids : <<d, e>> \in Chains <=> <<e, d>> \in Under
  BY UnderFacts
<1>2. /\ {x \in 0 .. n - 1 : <<x, c>> \in Under} = {x \in 0 .. n - 1 : <<c, x>> \in Chains}
      /\ {x \in 0 .. n - 1 : <<c, x>> \in Under} = {x \in 0 .. n - 1 : <<x, c>> \in Chains}
  BY <1>1 DEF Ids
<1> QED BY <1>2 DEF ExtIn, IntIn

-----------------------------------------------------------------------------
(***************************************************************************)
(* The run of the native lattice builder.                                  *)
(***************************************************************************)
\* The contexts given are numbered, as the readers number them.
ContextsNumbered == \A c \in Inputs : Numbered(c)

Before == {"kernel", "populate"}

Steps == Before \cup {"intents", "extents", "dual", "done"}

\* run() is where its two choices have led it.
Placed ==
  /\ ctx \in Inputs /\ needFullSets \in BOOLEAN /\ step \in Steps
  /\ step \in {"intents", "extents"} => needFullSets
  /\ step = "dual" => Transposed

\* The order is empty until it is filled from what the kernel gave.
Unfilled ==
  /\ step \in Before => Empty
  /\ step = "populate" /\ flat # <<>> =>
       \E s \in TopFirst(Work) :
         LET L == LatticeInOrder(Work, s)
         IN  flat = Encode(L.edges, Listed(L.rext), Listed(L.rint))

Filled == step \notin Before /\ flat # <<>>

\* From then on it is the lattice of the working context, in the end that of
\* the caller's.
Holds == /\ Filled => IInv
         /\ Filled /\ step # "done" => \E z : Stands(Work, z, Order)
         /\ Filled /\ step = "done" => IsLattice(ctx, Order)

IntentsFull == intents = [c \in Ids |-> IntIn(n, Chains, rintents, c)]
ExtentsFull == extents = [c \in Ids |-> ExtIn(n, Chains, rextents, c)]

\* The passes of a caller that needs full sets have left no gap.
Completed ==
  Filled /\ needFullSets => /\ step \in {"extents", "dual", "done"} => IntentsFull
                            /\ step \in {"dual", "done"} => ExtentsFull

RunInv == Placed /\ Unfilled /\ Holds /\ Completed

LEMMA WorkNumbered ==
  ASSUME ContextsNumbered, Placed
  PROVE  Numbered(ctx) /\ Numbered(Work)
BY TransposeFacts DEF ContextsNumbered, Placed, Work

LEMMA RunStarts == Init => RunInv
BY DEF Init, RunInv, Placed, Unfilled, Holds, Completed, Filled, Before, Steps

LEMMA KernelRuns ==
  ASSUME RunInv, Kernel
  PROVE  RunInv'
<1>1. /\ step = "kernel" /\ step' = "populate" /\ Empty /\ Placed
      /\ UNCHANGED <<ctx, needFullSets, n, extents, intents, rextents, rintents, buf, csr>>
  BY DEF RunInv, Unfilled, Kernel, Before, storeVars
<1>2. Placed' /\ Work' = Work
  BY <1>1 DEF Placed, Steps, Before, Work, Transposed
<1>3. Empty'
  BY <1>1 DEF Empty, NoCsr
<1>4. flat' # <<>> => \E s \in TopFirst(Work) :
         LET L == LatticeInOrder(Work, s)
         IN  flat' = Encode(L.edges, Listed(L.rext), Listed(L.rint))
  BY DEF Kernel
<1>5. Unfilled'
  BY <1>2, <1>3, <1>4 DEF Unfilled
<1>6. ~ Filled'
  BY <1>1 DEF Filled, Before
<1> QED BY <1>2, <1>5, <1>6 DEF RunInv, Holds, Completed

\* The order filled in stands for the lattice; without an array there is none.
LEMMA PopulateFills ==
  ASSUME ContextsNumbered, RunInv, PopulateFromFlat, flat # <<>>
  PROVE  IInv' /\ \E z : Stands(Work, z, Order')
<1>1. /\ step = "populate" /\ Empty /\ Placed /\ Numbered(Work)
      /\ \E s \in TopFirst(Work) :
           LET L == LatticeInOrder(Work, s)
           IN  flat = Encode(L.edges, Listed(L.rext), Listed(L.rint))
  BY WorkNumbered DEF RunInv, Unfilled, PopulateFromFlat, Before
<1>2. PICK s \in TopFirst(Work) :
        LET L == LatticeInOrder(Work, s)
        IN  flat = Encode(L.edges, Listed(L.rext), Listed(L.rint))
  BY <1>1
<1> DEFINE L == LatticeInOrder(Work, s)
<1>3. PICK z : Stands(Work, z, L)
  BY <1>1, KernelStands
<1>4. flat = Encode(L.edges, Listed(L.rext), Listed(L.rint))
  BY <1>2
<1> HIDE DEF L
<1>5. Decode(flat) = Laid(L.n, L.edges, L.rext, L.rint) /\ ~ Len(flat) < 2
  BY <1>1, <1>3, <1>4, ReadFromKernel
<1>6. /\ n' = L.n /\ rextents' = L.rext /\ rintents' = L.rint
      /\ buf' = buf \o L.edges /\ csr' = Outdated
      /\ extents' = [c \in 0 .. L.n - 1 |-> Null] /\ intents' = [c \in 0 .. L.n - 1 |-> Null]
  BY <1>5 DEF PopulateFromFlat, Populate, Laid
<1>7. /\ L.n \in Nat /\ L.edges \in Seq((0 .. L.n - 1) \X (0 .. L.n - 1))
      /\ Loopless(UpTo(L.n, L.edges), ToSet(L.edges))
  BY <1>1, <1>3, StandsLoopless
<1>8. buf' = L.edges
  <2>1. buf = <<>>
    BY <1>1 DEF Empty
  <2> DEFINE e == L.edges
             A == (0 .. L.n - 1) \X (0 .. L.n - 1)
  <2>2. e \in Seq(A)
    BY <1>7
  <2> HIDE DEF e, A
  <2>3. <<>> \o e = e
    BY ONLY <2>2
  <2> QED BY <1>6, <2>1, <2>3 DEF e
<1>9. Fresh'
  BY <1>6, OutdatedFresh
<1>10. Typed' /\ Acyclic'
  BY <1>6, <1>7, <1>8 DEF Typed, Acyclic, Chains, Edges, Ids
<1>11. FullSetsRight'
  <2>1. Right(n', UpTo(n', buf'), extents', intents', rextents', rintents')
    BY <1>6 DEF Right
  <2> QED BY <2>1, RightFullSetsNext
<1>12. Order' = Laid(L.n, L.edges, L.rext, L.rint)
  BY <1>6, <1>8 DEF Order, Laid
<1> QED BY <1>3, <1>9, <1>10, <1>11, <1>12, StandsLaid DEF IInv

\* Once the order needs not be turned, it is the caller's.
LEMMA SameWay ==
  ASSUME ContextsNumbered, Placed, ~ Transposed, NEW N, NEW B, NEW X, NEW Y,
         \E z : Stands(Work, z, Laid(N, B, X, Y))
  PROVE  IsLattice(ctx, Laid(N, B, X, Y))
<1> DEFINE L == Laid(N, B, X, Y)
<1>1. Work = ctx /\ Numbered(ctx)
  BY WorkNumbered DEF Work
<1>2. PICK z : Stands(ctx, z, L)
  BY <1>1
<1>3. L.n = N /\ L.edges = B /\ L.rext = X /\ L.rint = Y
  BY DEF Laid
<1> HIDE DEF L
<1>4. IsLattice(ctx, Laid(L.n, L.edges, L.rext, L.rint))
  BY <1>1, <1>2, StandsLattice
<1> QED BY <1>3, <1>4

LEMMA PopulateRuns ==
  ASSUME ContextsNumbered, RunInv, PopulateFromFlat
  PROVE  RunInv'
<1>1. /\ step = "populate" /\ step' = AfterPopulate /\ Placed
      /\ UNCHANGED <<ctx, needFullSets, flat>>
  BY DEF RunInv, PopulateFromFlat
<1>2. Work' = Work /\ Transposed' = Transposed
  BY <1>1 DEF Work, Transposed
<1>3. /\ step' \in {"intents", "dual", "done"}
      /\ step' = "intents" <=> needFullSets
      /\ step' = "dual" => Transposed
      /\ step' = "done" => ~ Transposed
  BY <1>1 DEF AfterPopulate
<1>4. Placed'
  BY <1>1, <1>2, <1>3 DEF Placed, Steps, Before
<1>5. Unfilled'
  BY <1>3 DEF Unfilled, Before
<1>6. Completed'
  BY <1>1, <1>3 DEF Completed, Filled, Before
<1>7. Holds'
  <2>1. CASE flat = <<>>
    BY <1>1, <2>1 DEF Holds, Filled
  <2>2. CASE flat # <<>>
    <3>1. IInv' /\ \E z : Stands(Work, z, Order')
      BY <2>2, PopulateFills
    <3>2. Order' = Laid(n', buf', rextents', rintents')
      BY DEF Order, Laid
    <3>3. step' = "done" => IsLattice(ctx, Order')
      BY <1>1, <1>3, <3>1, <3>2, SameWay
    <3> QED BY <1>1, <1>2, <3>1, <3>3 DEF Holds
  <2> QED BY <2>1, <2>2
<1> QED BY <1>4, <1>5, <1>6, <1>7 DEF RunInv

\* A pass changes neither the order nor the sets the other one fills.
LEMMA PassRuns ==
  ASSUME ContextsNumbered, RunInv, FullIntents \/ FullExtents
  PROVE  RunInv'
<1>1. /\ Placed /\ needFullSets
      /\ \/ step = "intents" /\ step' = "extents" /\ ComputeIntents
         \/ step = "extents" /\ step' = (IF Transposed THEN "dual" ELSE "done") /\ ComputeExtents
      /\ UNCHANGED <<ctx, needFullSets, flat>>
  BY DEF RunInv, FullIntents, FullExtents, Placed
<1>2. csr' = Csr /\ UNCHANGED <<n, buf, rextents, rintents>>
  BY <1>1 DEF ComputeIntents, ComputeExtents
<1>3. Work' = Work /\ Transposed' = Transposed /\ Order' = Order
  BY <1>1, <1>2 DEF Work, Transposed, Order
<1>4. Placed'
  BY <1>1, <1>3 DEF Placed, Steps, Before
<1>5. Unfilled'
  BY <1>1 DEF Unfilled, Before
<1>6. CASE flat = <<>>
  BY <1>1, <1>4, <1>5, <1>6 DEF RunInv, Holds, Completed, Filled
<1>7. CASE flat # <<>>
  <2>1. IInv /\ (\E z : Stands(Work, z, Order)) /\ (step = "extents" => IntentsFull)
    BY <1>1, <1>7 DEF RunInv, Holds, Completed, Filled, Before
  <2>2. IInv'
    BY <1>1, <2>1, ReadKeeps
  <2>3. step' = "done" => IsLattice(ctx, Order')
    <3>1. Order = Laid(n, buf, rextents, rintents)
      BY DEF Order, Laid
    <3> QED BY <1>1, <1>3, <2>1, <3>1, SameWay
  <2>4. Holds'
    BY <1>1, <1>3, <2>1, <2>2, <2>3 DEF Holds
  <2>5. Typed /\ Acyclic /\ FullSetsRight /\ Csr = BuildCsr /\ Ids' = Ids /\ Chains' = Chains
    BY <1>2, <2>1, FreshRead DEF IInv, Ids, Chains
  <2>6. IntentsFull'
    <3>1. CASE ComputeIntents
      BY <1>2, <2>5, <3>1, IntentsComputed DEF ComputeIntents, IntentsFull
    <3>2. CASE step = "extents" /\ ComputeExtents
      BY <1>2, <2>1, <2>5, <3>2 DEF ComputeExtents, IntentsFull
    <3> QED BY <1>1, <3>1, <3>2
  <2>7. step' \in {"dual", "done"} => ExtentsFull'
    BY <1>1, <1>2, <2>5, ExtentsComputed DEF ComputeExtents, ExtentsFull
  <2> QED BY <1>4, <1>5, <2>4, <2>6, <2>7 DEF RunInv, Completed
<1> QED BY <1>6, <1>7

LEMMA TurnRuns ==
  ASSUME ContextsNumbered, RunInv, TurnBack
  PROVE  RunInv'
<1>1. /\ step = "dual" /\ step' = "done" /\ Placed /\ Transposed /\ Dual
      /\ UNCHANGED <<ctx, needFullSets, flat>>
  BY DEF RunInv, TurnBack, Placed
<1>2. /\ n' = n /\ buf' = Swap(buf) /\ extents' = intents /\ intents' = extents
      /\ rextents' = rintents /\ rintents' = rextents
  BY <1>1 DEF Dual
<1>3. Placed' /\ Unfilled'
  BY <1>1 DEF Placed, Unfilled, Steps, Before
<1>4. CASE flat = <<>>
  BY <1>1, <1>3, <1>4 DEF RunInv, Holds, Completed, Filled
<1>5. CASE flat # <<>>
  <2>1. IInv /\ (\E z : Stands(Work, z, Order)) /\ (needFullSets => IntentsFull /\ ExtentsFull)
    BY <1>1, <1>5 DEF RunInv, Holds, Completed, Filled, Before
  <2>2. IInv'
    BY <1>1, <2>1, DualKeeps
  <2>3. IsLattice(ctx, Order')
    <3>1. Numbered(ctx) /\ Work = Transpose(ctx)
      BY <1>1, WorkNumbered DEF Work
    <3>2. PICK z : Stands(Transpose(ctx), z, Order)
      BY <2>1, <3>1
    <3>3. IsLattice(ctx, Laid(Order.n, Swap(Order.edges), Order.rint, Order.rext))
      BY <3>1, <3>2, StandsTurned
    <3>4. Order' = Laid(Order.n, Swap(Order.edges), Order.rint, Order.rext)
      BY <1>2 DEF Order, Laid
    <3> QED BY <3>3, <3>4
  <2>4. Holds'
    BY <1>1, <2>2, <2>3 DEF Holds
  <2>5. needFullSets => IntentsFull' /\ ExtentsFull'
    <3>1. /\ Typed /\ Chains' = Under /\ Ids' = Ids
      BY <1>2, <2>1 DEF IInv, Chains, Under, Ids
    <3>2. \A c \in Ids : /\ ExtIn(n, Under, rintents, c) = IntIn(n, Chains, rintents, c)
                         /\ IntIn(n, Under, rextents, c) = ExtIn(n, Chains, rextents, c)
      BY <3>1, UnderSets
    <3> QED BY <1>2, <2>1, <3>1, <3>2 DEF IntentsFull, ExtentsFull
  <2> QED BY <1>1, <1>3, <2>4, <2>5 DEF RunInv, Completed
<1> QED BY <1>4, <1>5

LEMMA NothingRuns ==
  ASSUME RunInv, UNCHANGED vars
  PROVE  RunInv'
<1>1. UNCHANGED <<ctx, needFullSets, step, flat>> /\ UNCHANGED storeVars
  BY DEF vars, runVars
<1>2. UNCHANGED <<n, extents, intents, rextents, rintents, buf, csr>>
  BY <1>1 DEF storeVars
<1>3. Work' = Work /\ Transposed' = Transposed /\ Order' = Order /\ Ids' = Ids /\ Chains' = Chains
  BY <1>1, <1>2 DEF Work, Transposed, Order, Ids, Chains
<1>4. Placed'
  BY <1>1, <1>3 DEF RunInv, Placed
<1>5. Unfilled'
  <2>1. Empty => Empty'
    BY <1>2 DEF Empty, NoCsr
  <2> QED BY <1>1, <1>3, <2>1 DEF RunInv, Unfilled
<1>6. Holds'
  BY <1>1, <1>3, StutterKeeps DEF RunInv, Holds, Filled
<1>7. Completed'
  BY <1>1, <1>2, <1>3 DEF RunInv, Completed, Filled, IntentsFull, ExtentsFull
<1> QED BY <1>4, <1>5, <1>6, <1>7 DEF RunInv

LEMMA RunInductive ==
  ASSUME ContextsNumbered
  PROVE  RunInv /\ [Next]_vars => RunInv'
BY KernelRuns, PopulateRuns, PassRuns, TurnRuns, NothingRuns DEF Next, Terminated

LEMMA RunInvariant ==
  ASSUME ContextsNumbered
  PROVE  Spec => []RunInv
BY RunStarts, RunInductive, PTL DEF Spec

\* Whichever orientation the kernel worked in, in whatever order it listed the
\* concepts, and whether or not full sets were asked for, run() leaves its
\* caller the concept lattice of the context given: for every context.
THEOREM NativeLatticeRight ==
  ASSUME ContextsNumbered
  PROVE  Spec => []OrderIsLattice
<1>1. RunInv => OrderIsLattice
  BY DEF RunInv, Holds, Filled, Before, OrderIsLattice, Delivered
<1> QED BY <1>1, RunInvariant, PTL

\* And the full sets a caller asked for are those of that lattice.
THEOREM NativeFullSetsRight ==
  ASSUME ContextsNumbered
  PROVE  Spec => []FullSetsDelivered
<1>1. ASSUME RunInv, Delivered, needFullSets
      PROVE  [c \in Ids |-> [ext |-> extents[c], int |-> intents[c]]] = FullSets(Order)
  <2>1. IntentsFull /\ ExtentsFull
    BY <1>1 DEF RunInv, Completed, Filled, Before, Delivered
  <2>2. FullSets(Order) = [c \in Ids |-> [ext |-> ExtIn(n, Chains, rextents, c), int |-> IntIn(n, Chains, rintents, c)]]
    BY DEF FullSets, Order, Ids, Chains, ExtIn, IntIn
  <2>3. \A c \in Ids : extents[c] = ExtIn(n, Chains, rextents, c) /\ intents[c] = IntIn(n, Chains, rintents, c)
    BY <2>1 DEF IntentsFull, ExtentsFull
  <2> QED BY <2>2, <2>3
<1>2. RunInv => FullSetsDelivered
  BY <1>1 DEF FullSetsDelivered
<1> QED BY <1>2, RunInvariant, PTL
=============================================================================
