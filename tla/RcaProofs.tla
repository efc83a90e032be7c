----------------------------- MODULE RcaProofs -----------------------------
(***************************************************************************)
(* For every set of families: the numbers of the concepts are never given  *)
(* twice, so the names of the relational attributes lead to the concepts   *)
(* they were made of, whatever has been forgotten since; scaling only what *)
(* the last step has created gives the orders of the definition; and the   *)
(* loop ends, within the limit or when there is nothing left to find.      *)
(***************************************************************************)
EXTENDS Rca, FiniteSetTheorems, TLAPS

F == INSTANCE FormalContextProofs WITH Objects <- {}, M <- 0

-----------------------------------------------------------------------------
(* What is needed of sequences and of ranks.                               *)

LEMMA SameSets ==
  \A S : F!Cardinality(S) = Cardinality(S) /\ F!IsFiniteSet(S) = IsFiniteSet(S)
BY DEF F!Cardinality, Cardinality, F!IsFiniteSet, IsFiniteSet

LEMMA SameLists ==
  /\ \A S : F!Increasing(S) = Increasing(S)
  /\ \A s, I : F!Pick(s, I) = Pick(s, I)
<1>1. \A S, R : F!Arranged(S, R) = Arranged(S, R)
  BY DEF F!Arranged, Arranged, F!Cardinality, Cardinality, F!IsFiniteSet, IsFiniteSet
<1>2. \A S : F!Increasing(S) = Increasing(S)
  BY <1>1 DEF F!Increasing, Increasing
<1> QED BY <1>2, SameSets DEF F!Pick, Pick

\* The elements of a flattened sequence.
LEMMA Flattened ==
  ASSUME NEW S, NEW s \in Seq(Seq(S))
  PROVE  /\ FlattenSeq(s) \in Seq(S)
         /\ ToSet(FlattenSeq(s)) = UNION {ToSet(s[k]) : k \in DOMAIN s}
<1>1. 0 \in Nat
  OBVIOUS
<1>2. FlattenSeq(s) = F!FlattenSeq(s)
  BY DEF FlattenSeq, F!FlattenSeq
<1>3. \A x : ToSet(x) = F!ToSet(x)
  BY DEF ToSet, F!ToSet
<1>4. /\ F!FlattenSeq(s) \in Seq(S)
      /\ F!ToSet(F!FlattenSeq(s)) = UNION {F!ToSet(s[k]) : k \in DOMAIN s}
  BY <1>1, F!FlattenElements
<1> QED BY <1>2, <1>3, <1>4

\* No element of sequence s occurs twice.
Once(s) == \A i, j \in DOMAIN s : s[i] = s[j] => i = j

LEMMA FlattenedOnce ==
  ASSUME NEW S, NEW s \in Seq(Seq(S)), \A k \in DOMAIN s : Once(s[k]),
         \A k, j \in DOMAIN s : k # j => ToSet(s[k]) \cap ToSet(s[j]) = {}
  PROVE  Once(FlattenSeq(s))
<1>1. 0 \in Nat
  OBVIOUS
<1>2. FlattenSeq(s) = F!FlattenSeq(s)
  BY DEF FlattenSeq, F!FlattenSeq
<1>3. \A x : ToSet(x) = F!ToSet(x) /\ Once(x) = F!Once(x)
  BY DEF ToSet, F!ToSet, Once, F!Once
<1>4. F!Once(F!FlattenSeq(s))
  BY <1>1, <1>3, F!FlattenOnce
<1> QED BY <1>2, <1>3, <1>4

\* A set of numbers in their order: each of them once.
LEMMA InOrder ==
  ASSUME NEW S \in SUBSET Int, IsFiniteSet(S)
  PROVE  /\ Increasing(S) \in Seq(S)
         /\ Cardinality(S) \in Nat /\ DOMAIN Increasing(S) = 1 .. Cardinality(S)
         /\ \A x \in S : \E k \in DOMAIN Increasing(S) : Increasing(S)[k] = x
         /\ \A k, j \in DOMAIN Increasing(S) : k < j => Increasing(S)[k] < Increasing(S)[j]
<1>1. 0 \in Nat
  OBVIOUS
<1>2. F!IsFiniteSet(S) /\ F!Cardinality(S) = Cardinality(S)
  BY SameSets
<1>3. /\ F!Increasing(S) \in Seq(S)
      /\ F!Cardinality(S) \in Nat /\ DOMAIN F!Increasing(S) = 1 .. F!Cardinality(S)
      /\ \A x \in S : \E k \in DOMAIN F!Increasing(S) : F!Increasing(S)[k] = x
      /\ \A k, j \in DOMAIN F!Increasing(S) : k < j => F!Increasing(S)[k] < F!Increasing(S)[j]
  BY <1>1, <1>2, F!InOrder
<1> QED BY <1>2, <1>3, SameLists

\* The greatest of a finite set of numbers.
LEMMA HasMax ==
  ASSUME NEW S \in SUBSET Int, IsFiniteSet(S), S # {}
  PROVE  Max(S) \in S /\ \A x \in S : x <= Max(S)
<1>1. 0 \in Nat
  OBVIOUS
<1>2. F!Max(S) \in S /\ \A x \in S : x <= F!Max(S)
  BY <1>1, SameSets, F!HasMax
<1>3. F!Max(S) = Max(S)
  BY DEF Max, F!Max
<1> QED BY <1>2, <1>3

\* Picking elements of a sequence by their indices.
LEMMA Picked ==
  ASSUME NEW S, NEW s \in Seq(S), NEW I \in SUBSET DOMAIN s
  PROVE  /\ Pick(s, I) \in Seq(S)
         /\ ToSet(Pick(s, I)) = {s[k] : k \in I}
<1>1. 0 \in Nat
  OBVIOUS
<1>2. F!Pick(s, I) \in Seq(S) /\ F!ToSet(F!Pick(s, I)) = {s[k] : k \in I}
  BY <1>1, F!Picked
<1>3. \A x : ToSet(x) = F!ToSet(x)
  BY DEF ToSet, F!ToSet
<1> QED BY <1>2, <1>3, SameLists

LEMMA PickedApart ==
  ASSUME NEW S, NEW s \in Seq(S), NEW I \in SUBSET DOMAIN s
  PROVE  \E q : \A j, k \in DOMAIN Pick(s, I) :
           /\ q[k] \in I /\ Pick(s, I)[k] = s[q[k]]
           /\ q[j] = q[k] => j = k
<1>1. 0 \in Nat
  OBVIOUS
<1>2. \E q : \A j, k \in DOMAIN F!Pick(s, I) :
        /\ q[k] \in I /\ F!Pick(s, I)[k] = s[q[k]]
        /\ q[j] = q[k] => j = k
  BY <1>1, F!PickedApart
<1> QED BY <1>2, SameLists

\* An injective list of as many members as S has holds them all.
LEMMA ListsAll ==
  ASSUME NEW S, IsFiniteSet(S), NEW s \in SetToSeqs(S)
  PROVE  /\ Cardinality(S) \in Nat /\ Len(s) = Cardinality(S)
         /\ DOMAIN s = 1 .. Cardinality(S)
         /\ \A x \in S : \E k \in DOMAIN s : s[k] = x
<1> DEFINE n == Cardinality(S)
<1>1. n \in Nat
  BY FS_CardinalityType
<1>2. s \in [1 .. n -> S] /\ \A i, j \in 1 .. n : i # j => s[i] # s[j]
  BY DEF SetToSeqs
<1>3. s \in Injection(1 .. n, S)
  BY <1>2 DEF Injection, IsInjective
<1>4. Cardinality(1 .. n) = n
  BY <1>1, FS_Interval
<1>5. s \in Surjection(1 .. n, S)
  BY <1>3, <1>4, FS_Injection
<1>6. \A x \in S : \E k \in 1 .. n : s[k] = x
  BY <1>5 DEF Surjection
<1>7. s \in Seq(S) /\ Len(s) = n
  BY <1>1, <1>2
<1> QED BY <1>1, <1>2, <1>6, <1>7

-----------------------------------------------------------------------------
(***************************************************************************)
(* The types, and what a step does to the registers.                       *)
(***************************************************************************)
Objs(c) == family.ctxs[c].objs
AllObjs == UNION {Objs(c) : c \in Ctxs}

Names == {Native} \cup [rel : Rels, concept : Nat]
Orders == [Ctxs -> SUBSET [id : Nat, ext : SUBSET AllObjs]]

\* A register of context c as the concepts it holds.
Listed(list) == {[id |-> list[X], ext |-> X] : X \in DOMAIN list}

Typed ==
  /\ family \in Families
  /\ DOMAIN attrs = Ctxs
  /\ \A c \in Ctxs : attrs[c] \in Seq([ext : SUBSET Objs(c), of : Names])
  /\ DOMAIN conceptExtentsList = Ctxs /\ DOMAIN conceptExtentsNumStep = Ctxs
  /\ \A c \in Ctxs :
       /\ conceptExtentsList[c] \in [DOMAIN conceptExtentsList[c] -> Nat]
       /\ DOMAIN conceptExtentsList[c] \subseteq SUBSET Objs(c)
       /\ DOMAIN conceptExtentsNumStep[c] \subseteq SUBSET Objs(c)
       /\ order[c] \subseteq Listed(conceptExtentsList[c])
  /\ order \in Orders
  /\ maxRegisteredConcept \in Nat \cup {-1}
  /\ newConcept \in BOOLEAN
  /\ conceptOrderFamilies \in Seq(Orders)
  /\ step \in {"extend", "build", "decide", "end"}
  /\ at \in Nat /\ (step = "build" => at \in Ctxs)

\* The contexts and relations of a family.
LEMMA FamilyFacts ==
  ASSUME family \in Families
  PROVE  /\ Ctxs = 1 .. Len(family.ctxs) /\ Len(family.ctxs) \in Nat \ {0}
         /\ \A c \in Ctxs : IsFiniteSet(Objs(c)) /\ Objs(c) \subseteq AllObjs
         /\ Rels = 1 .. Len(family.rels) /\ Len(family.rels) \in Nat
         /\ \A r \in Rels : /\ family.rels[r].source \in Ctxs /\ family.rels[r].target \in Ctxs
                            /\ \A X : Column(r, X) \subseteq Objs(family.rels[r].source)
BY FamiliesAssumption DEF Ctxs, Rels, Objs, AllObjs, Column

\* A builder finds finitely many concepts of the context.
LEMMA FoundExtents ==
  ASSUME family \in Families, NEW c \in Ctxs, NEW cols \in SUBSET SUBSET Objs(c)
  PROVE  /\ Extents(Objs(c), cols) \subseteq SUBSET Objs(c)
         /\ IsFiniteSet(Extents(Objs(c), cols))
<1> DEFINE ctx == [objs |-> Objs(c), cols |-> [X \in cols |-> X]]
           found == Extents(Objs(c), cols)
<1>1. found = IF family.algo = "lattice" THEN ExtentsUpTo(ctx, cols) ELSE IntroducerExtents(ctx)
  BY DEF Extents
<1>2. ctx.objs = Objs(c) /\ \A a \in DOMAIN ctx.cols : ctx.cols[a] \subseteq Objs(c)
  OBVIOUS
<1> HIDE DEF ctx, found
<1>3. ExtentsUpTo(ctx, cols) \subseteq SUBSET Objs(c)
  BY <1>2 DEF ExtentsUpTo
<1>4. IntroducerExtents(ctx) \subseteq SUBSET Objs(c)
  BY <1>2 DEF IntroducerExtents, ObjectExtent
<1>5. IsFiniteSet(SUBSET Objs(c))
  BY FamilyFacts, FS_SUBSET
<1>6. found \in SUBSET SUBSET Objs(c)
  BY <1>1, <1>3, <1>4
<1> QED BY <1>5, <1>6, FS_Subset DEF found

LEMMA TypedInitially == Init => Typed
<1> SUFFICES ASSUME Init PROVE Typed
  OBVIOUS
<1>1. family \in Families
  BY DEF Init
<1>2. \A c \in Ctxs : attrs[c] \in Seq([ext : SUBSET Objs(c), of : Names])
  <2> SUFFICES ASSUME NEW c \in Ctxs
               PROVE  attrs[c] \in Seq([ext : SUBSET Objs(c), of : Names])
    OBVIOUS
  <2> DEFINE cols == family.ctxs[c].cols
             n == Len(cols)
  <2>1. n \in Nat /\ DOMAIN cols = 1 .. n /\ \A k \in DOMAIN cols : cols[k] \subseteq Objs(c)
    BY <1>1, FamiliesAssumption DEF Ctxs, Objs
  <2>2. attrs[c] = [k \in DOMAIN cols |-> [ext |-> cols[k], of |-> Native]]
    BY DEF Init
  <2> HIDE DEF cols, n
  <2> QED BY <2>1, <2>2 DEF Names
<1>3. \A c \in Ctxs : /\ DOMAIN conceptExtentsList[c] = {}
                      /\ conceptExtentsList[c] \in [{} -> Nat]
                      /\ DOMAIN conceptExtentsNumStep[c] = {} /\ order[c] = {}
  BY DEF Init
<1>4. order \in Orders /\ conceptOrderFamilies \in Seq(Orders)
  BY DEF Init, Orders
<1> QED BY <1>1, <1>2, <1>3, <1>4 DEF Typed, Init

\* Order c is built: found are the extents, numbered by num, those that are
\* new with new numbers.
Built(c, found, num) ==
  LET list == conceptExtentsList[c]
      new == found \ DOMAIN list
  IN  /\ c = at /\ c \in Ctxs /\ found \subseteq SUBSET Objs(c)
      /\ found = Extents(Objs(c), {a.ext : a \in ToSet(attrs[c])})
      /\ num \in [found \cup DOMAIN list -> Nat]
      /\ \A X \in DOMAIN list : num[X] = list[X]
      /\ \A X \in new : maxRegisteredConcept < num[X] /\ num[X] <= maxRegisteredConcept'
      /\ \A X, Y \in new : num[X] = num[Y] => X = Y
      /\ maxRegisteredConcept' \in Nat \cup {-1}
      /\ maxRegisteredConcept <= maxRegisteredConcept'
      /\ conceptExtentsList' =
           [conceptExtentsList EXCEPT ![c] =
              [X \in IF family.clean THEN found ELSE new \cup DOMAIN list |-> num[X]]]
      /\ conceptExtentsNumStep' =
           [conceptExtentsNumStep EXCEPT ![c] =
              [X \in new \cup DOMAIN conceptExtentsNumStep[c] |->
                 IF X \in new THEN numstep ELSE conceptExtentsNumStep[c][X]]]
      /\ order' = [order EXCEPT ![c] = {[id |-> num[X], ext |-> X] : X \in found}]
      /\ newConcept' = (newConcept \/ new # {})

LEMMA BuildStep ==
  ASSUME Typed, BuildOrder
  PROVE  \E c, found, num : Built(c, found, num)
<1> DEFINE c == at
           list == conceptExtentsList[c]
           found == Extents(Objs(c), {a.ext : a \in ToSet(attrs[c])})
           new == found \ DOMAIN list
           last == LastNumber(Cardinality(found))
<1>1. c \in Ctxs /\ step = "build" /\ family \in Families
  BY DEF Typed, BuildOrder
<1>2. found \subseteq SUBSET Objs(c) /\ IsFiniteSet(found) /\ IsFiniteSet(new)
  <2>1. {a.ext : a \in ToSet(attrs[c])} \in SUBSET SUBSET Objs(c)
    <3>1. attrs[c] \in Seq([ext : SUBSET Objs(c), of : Names])
      BY <1>1 DEF Typed
    <3> DEFINE q == attrs[c]
               S == [ext : SUBSET Objs(c), of : Names]
    <3>2. q \in Seq(S)
      BY <3>1
    <3> HIDE DEF q, S
    <3>3. \A k \in DOMAIN q : q[k] \in S
      BY <3>2
    <3>4. \A a \in S : a.ext \in SUBSET Objs(c)
      BY DEF S
    <3> QED BY <3>3, <3>4 DEF ToSet, q
  <2>2. found \subseteq SUBSET Objs(c) /\ IsFiniteSet(found)
    BY <1>1, <2>1, FoundExtents
  <2>3. new \in SUBSET found
    OBVIOUS
  <2> QED BY <2>2, <2>3, FS_Subset
<1>3. PICK s \in SetToSeqs(new) :
        /\ conceptExtentsList' =
             [conceptExtentsList EXCEPT ![c] =
                [X \in (IF family.clean THEN found ELSE new \cup DOMAIN list) |->
                   IF X \in new THEN last + (CHOOSE k \in DOMAIN s : s[k] = X) ELSE list[X]]]
        /\ order' = [order EXCEPT ![c] =
             {[id |-> IF X \in new THEN last + (CHOOSE k \in DOMAIN s : s[k] = X) ELSE list[X],
               ext |-> X] : X \in found}]
        /\ maxRegisteredConcept' = IF new = {} THEN maxRegisteredConcept ELSE last + Len(s)
  BY DEF BuildOrder, Objs
<1>4. /\ newConcept' = (newConcept \/ new # {})
      /\ conceptExtentsNumStep' =
           [conceptExtentsNumStep EXCEPT ![c] =
              [X \in new \cup DOMAIN conceptExtentsNumStep[c] |->
                 IF X \in new THEN numstep ELSE conceptExtentsNumStep[c][X]]]
  BY DEF BuildOrder, NewConcept, Objs
<1> DEFINE position(X) == CHOOSE k \in DOMAIN s : s[k] = X
           num == [X \in found \cup DOMAIN list |-> IF X \in new THEN last + position(X) ELSE list[X]]
<1>5. /\ Len(s) \in Nat /\ (new # {} => Len(s) > 0)
      /\ \A X \in new : position(X) \in 1 .. Len(s) /\ s[position(X)] = X
  <2>1. /\ Cardinality(new) \in Nat /\ Len(s) = Cardinality(new) /\ DOMAIN s = 1 .. Cardinality(new)
        /\ \A X \in new : \E k \in DOMAIN s : s[k] = X
    BY <1>2, ListsAll
  <2>2. new # {} => Cardinality(new) # 0
    BY <1>2, FS_EmptySet
  <2> HIDE DEF new
  <2>3. \A X \in new : position(X) \in DOMAIN s /\ s[position(X)] = X
    BY <2>1
  <2> QED BY <2>1, <2>2, <2>3
<1>6. /\ maxRegisteredConcept \in Nat \cup {-1}
      /\ list \in [DOMAIN list -> Nat]
  BY <1>1 DEF Typed
<1>7. Cardinality(found) \in Nat /\ (new # {} => Cardinality(found) > 0)
  BY <1>2, FS_CardinalityType, FS_EmptySet
<1>8. /\ last \in Int /\ maxRegisteredConcept <= last /\ last >= -1
      /\ new # {} => last >= 0
  <2> DEFINE card == Cardinality(found)
  <2>1. card \in Nat /\ (new # {} => card > 0) /\ last = LastNumber(card)
    BY <1>7
  <2> HIDE DEF card, last, new
  <2> QED BY <1>6, <2>1 DEF LastNumber
<1>9. /\ conceptExtentsList' =
           [conceptExtentsList EXCEPT ![c] =
              [X \in IF family.clean THEN found ELSE new \cup DOMAIN list |-> num[X]]]
      /\ order' = [order EXCEPT ![c] = {[id |-> num[X], ext |-> X] : X \in found}]
  <2> DEFINE kept == IF family.clean THEN found ELSE new \cup DOMAIN list
  <2>1. [X \in kept |-> IF X \in new THEN last + (CHOOSE k \in DOMAIN s : s[k] = X) ELSE list[X]]
        = [X \in kept |-> num[X]]
    <3>1. \A X \in kept : X \in found \cup DOMAIN list
      OBVIOUS
    <3>2. \A X \in kept :
            num[X] = IF X \in new THEN last + (CHOOSE k \in DOMAIN s : s[k] = X) ELSE list[X]
      BY <3>1, Zenon
    <3> HIDE DEF kept, num
    <3> QED BY <3>2, Zenon
  <2>2. {[id |-> IF X \in new THEN last + (CHOOSE k \in DOMAIN s : s[k] = X) ELSE list[X],
          ext |-> X] : X \in found}
        = {[id |-> num[X], ext |-> X] : X \in found}
    BY Zenon
  <2> QED BY <1>3, <2>1, <2>2
<1>10. \A X \in DOMAIN list : num[X] = list[X]
  OBVIOUS
<1>11. \A X \in new : num[X] = last + position(X)
  OBVIOUS
<1> DEFINE p == [X \in new |-> position(X)]
<1>12. \A X \in new : p[X] \in 1 .. Len(s) /\ s[p[X]] = X /\ num[X] = last + p[X]
  BY <1>5, <1>11
<1>13. found = Extents(Objs(c), {a.ext : a \in ToSet(attrs[c])}) /\ new = found \ DOMAIN list
       /\ DOMAIN num = found \cup DOMAIN list /\ num = [X \in DOMAIN num |-> num[X]] /\ c = at
       /\ list = conceptExtentsList[c]
  OBVIOUS
<1> HIDE DEF p, num, last, new, found, list, c
<1>14. /\ \A X \in new : num[X] \in Nat /\ maxRegisteredConcept < num[X] /\ num[X] <= maxRegisteredConcept'
       /\ \A X, Y \in new : num[X] = num[Y] => X = Y
       /\ maxRegisteredConcept' \in Nat \cup {-1}
       /\ maxRegisteredConcept <= maxRegisteredConcept'
  <2>1. maxRegisteredConcept' = IF new = {} THEN maxRegisteredConcept ELSE last + Len(s)
    BY <1>3
  <2>2. ASSUME NEW X \in new
        PROVE  num[X] \in Nat /\ maxRegisteredConcept < num[X] /\ num[X] <= maxRegisteredConcept'
    BY <1>5, <1>6, <1>8, <1>12, <2>1
  <2>3. ASSUME NEW X \in new, NEW Y \in new, num[X] = num[Y]
        PROVE  X = Y
    <3>1. p[X] = p[Y]
      BY <1>8, <1>12, <2>3
    <3> QED BY <1>12, <3>1
  <2>4. maxRegisteredConcept' \in Nat \cup {-1} /\ maxRegisteredConcept <= maxRegisteredConcept'
    BY <1>5, <1>6, <1>8, <2>1
  <2> QED BY <2>2, <2>3, <2>4
<1>15. num \in [found \cup DOMAIN list -> Nat]
  <2>1. \A X \in found \cup DOMAIN list : num[X] \in Nat
    BY <1>6, <1>10, <1>13, <1>14
  <2> QED BY <1>13, <2>1
<1>16. Built(c, found, num)
  BY <1>1, <1>2, <1>4, <1>9, <1>10, <1>13, <1>14, <1>15, Zenon DEF Built, list, new
<1> QED BY <1>16

\* A finite set has a finite image.
LEMMA FiniteImage ==
  ASSUME NEW S, IsFiniteSet(S), NEW f
  PROVE  IsFiniteSet({f[x] : x \in S})
<1>1. 0 \in Nat
  OBVIOUS
<1> QED BY <1>1, SameSets, F!FiniteImage

-----------------------------------------------------------------------------
(* The attributes a step adds.                                             *)

Attribute(c) == [ext : SUBSET Objs(c), of : Names]

\* Attribute a is the one of relation r for concept x.
Scaled(a, r, x) == a = [ext |-> Column(r, x.ext), of |-> Name(r, x.id)]

OfOrders(c) ==
  {a \in Attribute(c) :
     \E r \in Rels : /\ family.rels[r].source = c
                     /\ \E x \in order[family.rels[r].target] : Scaled(a, r, x)}

\* The concepts that a relation is to scale: finitely many, of the order of the
\* context it leads to.
LEMMA RecentFinite ==
  ASSUME Typed, NEW r \in Rels
  PROVE  LET t == family.rels[r].target
             ids == {x.id : x \in Recent(r)}
         IN  /\ t \in Ctxs /\ Recent(r) \subseteq order[t]
             /\ order[t] \subseteq Listed(conceptExtentsList[t])
             /\ IsFiniteSet(ids) /\ ids \in SUBSET Nat
<1> DEFINE t == family.rels[r].target
           recent == Recent(r)
           ids == {x.id : x \in recent}
<1>1. family \in Families
  BY DEF Typed
<1>2. /\ t \in Ctxs /\ order[t] \subseteq Listed(conceptExtentsList[t])
      /\ DOMAIN conceptExtentsList[t] \in SUBSET SUBSET Objs(t)
      /\ order[t] \subseteq [id : Nat, ext : SUBSET AllObjs]
  BY <1>1, FamilyFacts DEF Typed, Orders
<1>3. recent \in SUBSET order[t]
  BY DEF Recent
<1>4. IsFiniteSet(order[t])
  <2> DEFINE D == DOMAIN conceptExtentsList[t]
             f == [X \in DOMAIN conceptExtentsList[t] |-> [id |-> conceptExtentsList[t][X], ext |-> X]]
  <2>1. IsFiniteSet(SUBSET Objs(t)) /\ D \in SUBSET SUBSET Objs(t)
    BY <1>1, <1>2, FamilyFacts, FS_SUBSET
  <2>2. IsFiniteSet(D)
    BY <2>1, FS_Subset
  <2>3. Listed(conceptExtentsList[t]) = {f[X] : X \in D}
    BY DEF Listed
  <2> HIDE DEF f, D
  <2>4. IsFiniteSet(Listed(conceptExtentsList[t]))
    BY <2>2, <2>3, FiniteImage
  <2> QED BY <1>2, <2>4, FS_Subset
<1>5. IsFiniteSet(ids)
  <2>1. IsFiniteSet(recent)
    BY <1>3, <1>4, FS_Subset
  <2> DEFINE f == [x \in recent |-> x.id]
  <2>2. ids = {f[x] : x \in recent}
    OBVIOUS
  <2> HIDE DEF f, recent
  <2> QED BY <2>1, <2>2, FiniteImage
<1>6. ids \in SUBSET Nat
  BY <1>2, <1>3
<1> QED BY <1>2, <1>3, <1>5, <1>6

LEMMA AddedAttributes ==
  ASSUME Typed, NEW c \in Ctxs
  PROVE  AddedTo(c) \in Seq(OfOrders(c))
<1>1. family \in Families
  BY DEF Typed
<1>2. ASSUME NEW r \in Rels, family.rels[r].source = c
      PROVE  Added(r) \in Seq(OfOrders(c))
  <2> DEFINE t == family.rels[r].target
             recent == Recent(r)
             ids == {x.id : x \in recent}
             q == Increasing(ids)
             ext(id) == (CHOOSE x \in recent : x.id = id).ext
  <2>1. /\ recent \subseteq order[t]
        /\ IsFiniteSet(ids) /\ ids \in SUBSET Nat
    BY RecentFinite
  <2>4. IsFiniteSet(ids) /\ ids \in SUBSET Int
    BY <2>1
  <2>5. q \in Seq(ids) /\ Cardinality(ids) \in Nat /\ DOMAIN q = 1 .. Cardinality(ids)
    BY <2>4, InOrder
  <2>6. Added(r) = [k \in DOMAIN q |-> [ext |-> Column(r, ext(q[k])), of |-> Name(r, q[k])]]
    BY DEF Added
  <2>7. \A id \in ids : \E x \in recent : x.id = id /\ x.ext = ext(id)
    BY Zenon
  <2>8. ASSUME NEW k \in DOMAIN q
        PROVE  Added(r)[k] \in OfOrders(c)
    <3>1. q[k] \in ids
      <4> HIDE DEF q, ids
      <4> QED BY <2>5
    <3>2. PICK x \in recent : x.id = q[k] /\ x.ext = ext(q[k])
      BY <2>7, <3>1
    <3>3. Added(r)[k] = [ext |-> Column(r, x.ext), of |-> Name(r, x.id)]
      BY <2>6, <3>2
    <3>4. x \in order[t] /\ x.id \in Nat
      BY <2>1, <3>2
    <3>5. Column(r, x.ext) \subseteq Objs(c)
      BY <1>1, <1>2, FamilyFacts
    <3>6. Name(r, x.id) \in Names
      BY <3>4 DEF Name, Names
    <3> QED BY <1>2, <3>3, <3>4, <3>5, <3>6 DEF OfOrders, Attribute, Scaled
  <2>9. DOMAIN Added(r) = 1 .. Cardinality(ids)
    BY <2>5, <2>6
  <2>10. Added(r) = [k \in 1 .. Cardinality(ids) |-> Added(r)[k]]
    BY <2>5, <2>6
  <2> HIDE DEF q, ids
  <2> QED BY <2>5, <2>8, <2>9, <2>10
<1> DEFINE s == [r \in Rels |-> IF family.rels[r].source = c THEN Added(r) ELSE << >>]
<1>3. s \in Seq(Seq(OfOrders(c)))
  <2>1. \A r \in Rels : s[r] \in Seq(OfOrders(c))
    BY <1>2
  <2>2. Rels = 1 .. Len(family.rels) /\ Len(family.rels) \in Nat
    BY <1>1, FamilyFacts
  <2>3. s = [r \in Rels |-> s[r]]
    OBVIOUS
  <2> HIDE DEF s
  <2> QED BY <2>1, <2>2, <2>3
<1>4. AddedTo(c) = FlattenSeq(s)
  BY DEF AddedTo
<1> HIDE DEF s
<1> QED BY <1>3, <1>4, Flattened

\* What the attributes of a context are after it has been extended.
LEMMA ExtendStep ==
  ASSUME Typed, Extend
  PROVE  /\ DOMAIN attrs' = Ctxs
         /\ \A c \in Ctxs :
              /\ attrs'[c] \in Seq(Attribute(c))
              /\ \A a \in ToSet(attrs'[c]) :
                   a \in ToSet(attrs[c]) \/ (numstep > 0 /\ a \in OfOrders(c))
<1>1. /\ DOMAIN attrs = Ctxs
      /\ \A c \in Ctxs : attrs[c] \in Seq(Attribute(c))
  BY DEF Typed, Attribute
<1>2. CASE numstep = 0
  BY <1>1, <1>2 DEF Extend, names
<1>3. CASE numstep # 0
  <2> DEFINE kept(c) == {k \in DOMAIN (attrs[c] \o AddedTo(c)) :
                           family.clean => ~ Unused((attrs[c] \o AddedTo(c))[k].of)}
  <2>1. attrs' = [c \in Ctxs |-> Pick(attrs[c] \o AddedTo(c), kept(c))]
    <3> DEFINE longer == [c \in Ctxs |-> attrs[c] \o AddedTo(c)]
               keeps(c) == {k \in DOMAIN longer[c] : family.clean => ~ Unused(longer[c][k].of)}
    <3>1. attrs' = [c \in Ctxs |-> Pick(longer[c], keeps(c))]
      BY <1>3, Zenon DEF Extend
    <3>2. \A c \in Ctxs : longer[c] = attrs[c] \o AddedTo(c)
      OBVIOUS
    <3>3. \A c \in Ctxs : keeps(c) = kept(c)
      BY <3>2
    <3> HIDE DEF longer, keeps, kept
    <3> QED BY <3>1, <3>2, <3>3
  <2>2. ASSUME NEW c \in Ctxs
        PROVE  /\ attrs'[c] \in Seq(Attribute(c))
               /\ \A a \in ToSet(attrs'[c]) : a \in ToSet(attrs[c]) \/ a \in OfOrders(c)
    <3> DEFINE p == attrs[c]
               q == AddedTo(c)
               s == p \o q
    <3>1. p \in Seq(Attribute(c)) /\ q \in Seq(OfOrders(c))
      BY <1>1, AddedAttributes
    <3>2. q \in Seq(Attribute(c))
      <4>1. OfOrders(c) \subseteq Attribute(c)
        BY DEF OfOrders
      <4> HIDE DEF q
      <4> QED BY <3>1, <4>1
    <3>3. attrs'[c] = Pick(s, kept(c)) /\ kept(c) \subseteq DOMAIN s
      BY <2>1
    <3> HIDE DEF p, q, kept
    <3>4. s \in Seq(Attribute(c))
      BY <3>1, <3>2
    <3>5. attrs'[c] \in Seq(Attribute(c)) /\ ToSet(attrs'[c]) = {s[k] : k \in kept(c)}
      BY <3>3, <3>4, Picked
    <3>6. \A k \in DOMAIN s : s[k] \in ToSet(p) \/ s[k] \in OfOrders(c)
      <4> SUFFICES ASSUME NEW k \in 1 .. Len(p) + Len(q)
                   PROVE  s[k] \in ToSet(p) \/ s[k] \in OfOrders(c)
        BY <3>1
      <4>1. CASE k <= Len(p)
        <5>1. s[k] = p[k] /\ k \in DOMAIN p
          BY <3>1, <4>1
        <5> QED BY <5>1 DEF ToSet
      <4>2. CASE k > Len(p)
        <5> DEFINE j == k - Len(p)
        <5>1. s[k] = q[j] /\ j \in 1 .. Len(q)
          BY <3>1, <4>2
        <5> HIDE DEF j
        <5>2. q[j] \in OfOrders(c)
          BY <3>1, <5>1
        <5> QED BY <5>1, <5>2
      <4> QED BY <3>1, <4>1, <4>2
    <3> HIDE DEF s
    <3> QED BY <3>3, <3>5, <3>6 DEF p
  <2>3. numstep > 0
    <3>1. numstep \in Nat
      BY DEF numstep, Typed
    <3> QED BY <1>3, <3>1
  <2> HIDE DEF kept
  <2>4. DOMAIN attrs' = Ctxs
    BY <2>1
  <2> QED BY <2>2, <2>3, <2>4
<1> QED BY <1>2, <1>3

LEMMA StepTyped == Typed /\ [Next]_vars => Typed'
<1> SUFFICES ASSUME Typed, [Next]_vars PROVE Typed'
  OBVIOUS
<1>1. family' = family /\ family \in Families
  BY DEF Typed, Next, vars, Extend, BuildOrder, Decide, Ended
<1>2. /\ Ctxs' = Ctxs /\ Rels' = Rels /\ Names' = Names /\ AllObjs' = AllObjs /\ Orders' = Orders
      /\ \A c : Objs(c)' = Objs(c)
  BY <1>1 DEF Ctxs, Rels, Names, AllObjs, Orders, Objs
<1>3. CASE Extend
  <2>1. UNCHANGED <<family, conceptExtentsList, conceptExtentsNumStep, maxRegisteredConcept,
                     order, conceptOrderFamilies>>
        /\ newConcept' = FALSE /\ step' = "build" /\ at' = 1
    BY <1>3 DEF Extend
  <2>2. /\ DOMAIN attrs' = Ctxs
        /\ \A c \in Ctxs : attrs'[c] \in Seq([ext : SUBSET Objs(c), of : Names])
    BY <1>3, ExtendStep DEF Attribute
  <2>3. 1 \in Ctxs
    BY <1>1, FamilyFacts
  <2> QED BY <1>1, <1>2, <2>1, <2>2, <2>3 DEF Typed
<1>4. CASE BuildOrder
  <2>1. UNCHANGED <<family, names, conceptOrderFamilies>> /\ at' = at + 1
        /\ step' = IF at + 1 \in Ctxs THEN "build" ELSE "decide"
    BY <1>4 DEF BuildOrder
  <2>2. PICK c, found, num : Built(c, found, num)
    BY <1>4, BuildStep
  <2> DEFINE list == conceptExtentsList[c]
             new == found \ DOMAIN list
             kept == IF family.clean THEN found ELSE new \cup DOMAIN list
             news == new \cup DOMAIN conceptExtentsNumStep[c]
  <2>3. /\ conceptExtentsList' = [conceptExtentsList EXCEPT ![c] = [X \in kept |-> num[X]]]
        /\ conceptExtentsNumStep' =
             [conceptExtentsNumStep EXCEPT ![c] =
                [X \in news |-> IF X \in new THEN numstep ELSE conceptExtentsNumStep[c][X]]]
        /\ order' = [order EXCEPT ![c] = {[id |-> num[X], ext |-> X] : X \in found}]
        /\ c \in Ctxs /\ found \subseteq SUBSET Objs(c)
        /\ num \in [found \cup DOMAIN list -> Nat]
        /\ maxRegisteredConcept' \in Nat \cup {-1}
        /\ newConcept' = (newConcept \/ new # {})
    BY <2>2 DEF Built
  <2>4. /\ DOMAIN conceptExtentsList = Ctxs /\ DOMAIN conceptExtentsNumStep = Ctxs
        /\ DOMAIN list \subseteq SUBSET Objs(c)
        /\ DOMAIN conceptExtentsNumStep[c] \subseteq SUBSET Objs(c)
        /\ order \in Orders /\ newConcept \in BOOLEAN /\ at \in Nat
    BY <2>3 DEF Typed
  <2>5. kept \subseteq found \cup DOMAIN list /\ found \subseteq kept
    OBVIOUS
  <2>6. kept \subseteq SUBSET Objs(c) /\ news \subseteq SUBSET Objs(c)
    BY <2>3, <2>4
  <2> HIDE DEF kept, news, new, list
  <2>7. /\ conceptExtentsList'[c] = [X \in kept |-> num[X]]
        /\ order'[c] = {[id |-> num[X], ext |-> X] : X \in found}
        /\ DOMAIN conceptExtentsNumStep'[c] = news
    BY <2>3, <2>4 DEF Orders
  <2>8. ASSUME NEW d \in Ctxs
        PROVE  /\ conceptExtentsList'[d] \in [DOMAIN conceptExtentsList'[d] -> Nat]
               /\ DOMAIN conceptExtentsList'[d] \subseteq SUBSET Objs(d)
               /\ DOMAIN conceptExtentsNumStep'[d] \subseteq SUBSET Objs(d)
               /\ order'[d] \subseteq Listed(conceptExtentsList'[d])
               /\ order'[d] \subseteq [id : Nat, ext : SUBSET AllObjs]
    <3>1. CASE d = c
      <4>1. \A X \in kept : num[X] \in Nat
        BY <2>3, <2>5
      <4>2. conceptExtentsList'[c] \in [DOMAIN conceptExtentsList'[c] -> Nat]
        BY <2>7, <4>1
      <4>3. \A X \in kept : num[X] = conceptExtentsList'[c][X]
        BY <2>7
      <4>4. order'[c] \subseteq Listed(conceptExtentsList'[c])
        BY <2>5, <2>7, <4>3 DEF Listed
      <4>5. \A X \in found : num[X] \in Nat /\ X \subseteq AllObjs
        BY <1>1, <2>3, <2>5, <4>1, FamilyFacts
      <4>6. order'[c] \subseteq [id : Nat, ext : SUBSET AllObjs]
        BY <2>7, <4>5
      <4> QED BY <2>6, <2>7, <3>1, <4>2, <4>4, <4>6
    <3>2. CASE d # c
      <4>1. /\ conceptExtentsList'[d] = conceptExtentsList[d]
            /\ conceptExtentsNumStep'[d] = conceptExtentsNumStep[d]
            /\ order'[d] = order[d]
        BY <2>3, <2>4, <3>2 DEF Orders
      <4>2. order[d] \subseteq [id : Nat, ext : SUBSET AllObjs]
        BY <2>4 DEF Orders
      <4> QED BY <4>1, <4>2 DEF Typed
    <3> QED BY <3>1, <3>2
  <2>9. DOMAIN conceptExtentsList' = Ctxs /\ DOMAIN conceptExtentsNumStep' = Ctxs
    BY <2>3, <2>4
  <2>10. order' \in Orders
    <3>1. order' = [d \in Ctxs |-> order'[d]]
      BY <2>3, <2>4 DEF Orders
    <3> QED BY <2>8, <3>1 DEF Orders
  <2>11. attrs' = attrs /\ conceptOrderFamilies' = conceptOrderFamilies
    BY <2>1 DEF names
  <2>12. /\ maxRegisteredConcept' \in Nat \cup {-1} /\ newConcept' \in BOOLEAN
         /\ at' \in Nat /\ step' \in {"build", "decide"} /\ (step' = "build" => at' \in Ctxs)
    BY <2>1, <2>3, <2>4
  <2> QED BY <1>1, <1>2, <2>8, <2>9, <2>10, <2>11, <2>12 DEF Typed
<1>5. CASE Decide
  <2>1. /\ UNCHANGED <<family, names, registers, order, at>>
        /\ conceptOrderFamilies' = Append(conceptOrderFamilies, order)
        /\ step' \in {"extend", "end"}
    BY <1>5 DEF Decide
  <2>2. conceptOrderFamilies' \in Seq(Orders)
    BY <2>1 DEF Typed
  <2> QED BY <1>1, <1>2, <2>1, <2>2 DEF Typed, names, registers
<1>6. CASE UNCHANGED vars
  BY <1>2, <1>6 DEF Typed, vars, names, registers
<1> QED BY <1>3, <1>4, <1>5, <1>6 DEF Next, Ended

-----------------------------------------------------------------------------
(***************************************************************************)
(* Numbers and names.  The numbers in use and those of the orders of the   *)
(* steps before are told apart, although those of the concepts that have   *)
(* disappeared may be in the orders only.                                  *)
(***************************************************************************)
Past(c) == UNION {conceptOrderFamilies[k][c] : k \in DOMAIN conceptOrderFamilies}
Known(c) == Listed(conceptExtentsList[c]) \cup Past(c)

Numbered ==
  /\ \A c \in Ctxs : \A x \in Known(c) : x.id <= maxRegisteredConcept
  /\ \A c, d \in Ctxs : \A x \in Known(c), y \in Known(d) : x.id = y.id => c = d /\ x = y

\* Between the steps the orders are those of the last one.
Continued == BetweenSteps /\ numstep > 0 => order = conceptOrderFamilies[numstep]

\* The attribute that a name in use stands for is that of a concept that some
\* step has found.
NamesKnown ==
  \A c \in Ctxs : \A a \in ToSet(attrs[c]) : a.of # Native =>
    \E x \in Past(family.rels[a.of.rel].target) : Scaled(a, a.of.rel, x)

NInv == Typed /\ Numbered /\ Continued /\ NamesKnown

LEMMA KnownIds ==
  ASSUME Typed, NEW c \in Ctxs, NEW x \in Known(c)
  PROVE  x.id \in Nat
<1>1. CASE x \in Past(c)
  <2>1. PICK k \in DOMAIN conceptOrderFamilies : x \in conceptOrderFamilies[k][c]
    BY <1>1 DEF Past
  <2>2. conceptOrderFamilies[k] \in Orders
    BY <2>1 DEF Typed
  <2> QED BY <2>1, <2>2 DEF Orders
<1>2. CASE x \in Listed(conceptExtentsList[c])
  BY <1>2 DEF Listed, Typed
<1> QED BY <1>1, <1>2 DEF Known

\* The concepts known after an order is built are those known before, or new
\* with numbers above all others.
LEMMA BuildKnows ==
  ASSUME Typed, BuildOrder, NEW c, NEW found, NEW num, Built(c, found, num)
  PROVE  /\ Past(c)' = Past(c)
         /\ \A d \in Ctxs : \A x \in Known(d)' :
              x \in Known(d)
              \/ \E X \in found \ DOMAIN conceptExtentsList[c] : d = c /\ x = [id |-> num[X], ext |-> X]
<1> DEFINE list == conceptExtentsList[c]
           new == found \ DOMAIN list
           kept == IF family.clean THEN found ELSE new \cup DOMAIN list
<1>1. conceptOrderFamilies' = conceptOrderFamilies /\ family' = family
  BY DEF BuildOrder
<1>2. \A d : Past(d)' = Past(d)
  BY <1>1 DEF Past
<1>3. /\ conceptExtentsList' = [conceptExtentsList EXCEPT ![c] = [X \in kept |-> num[X]]]
      /\ \A X \in DOMAIN list : num[X] = list[X]
  BY DEF Built
<1>4. kept \subseteq new \cup DOMAIN list
  OBVIOUS
<1>5. DOMAIN conceptExtentsList = Ctxs
  BY DEF Typed
<1>6. ASSUME NEW d \in Ctxs, NEW x \in Listed(conceptExtentsList[d])'
      PROVE  x \in Known(d) \/ \E X \in new : d = c /\ x = [id |-> num[X], ext |-> X]
  <2> HIDE DEF new, kept
  <2>1. CASE d = c
    <3>1. conceptExtentsList'[c] = [X \in kept |-> num[X]]
      BY <1>3, <1>5, <2>1
    <3>2. PICK X \in kept : x = [id |-> num[X], ext |-> X]
      <4>1. PICK X \in DOMAIN conceptExtentsList'[c] : x = [id |-> conceptExtentsList'[c][X], ext |-> X]
        BY <1>6, <2>1 DEF Listed
      <4> QED BY <3>1, <4>1
    <3>3. CASE X \in new
      BY <2>1, <3>2, <3>3
    <3>4. CASE X \in DOMAIN list
      BY <1>3, <2>1, <3>2, <3>4 DEF Known, Listed
    <3> QED BY <1>4, <3>3, <3>4
  <2>2. CASE d # c
    <3>1. conceptExtentsList'[d] = conceptExtentsList[d]
      BY <1>3, <1>5, <2>2
    <3> QED BY <1>6, <3>1 DEF Known, Listed
  <2> QED BY <2>1, <2>2
<1> HIDE DEF new
<1> QED BY <1>2, <1>6 DEF Known, new

LEMMA NumberedKept == NInv /\ [Next]_vars => Numbered'
<1> SUFFICES ASSUME NInv, [Next]_vars PROVE Numbered'
  OBVIOUS
<1>0. Typed /\ Numbered
  BY DEF NInv
<1>1. family' = family /\ Ctxs' = Ctxs
  BY DEF Next, vars, Extend, BuildOrder, Decide, Ended, Ctxs
<1>2. CASE Extend \/ UNCHANGED vars
  <2>1. /\ conceptExtentsList' = conceptExtentsList /\ conceptOrderFamilies' = conceptOrderFamilies
        /\ maxRegisteredConcept' = maxRegisteredConcept
    BY <1>2 DEF Extend, vars, registers
  <2>2. \A c : Known(c)' = Known(c)
    BY <2>1 DEF Known, Past, Listed
  <2> QED BY <1>0, <1>1, <2>1, <2>2 DEF Numbered
<1>3. CASE BuildOrder
  <2>1. PICK c, found, num : Built(c, found, num)
    BY <1>0, <1>3, BuildStep
  <2> DEFINE new == found \ DOMAIN conceptExtentsList[c]
  <2>2. /\ \A X \in new : maxRegisteredConcept < num[X] /\ num[X] <= maxRegisteredConcept'
        /\ \A X, Y \in new : num[X] = num[Y] => X = Y
        /\ \A X \in new : num[X] \in Nat
        /\ maxRegisteredConcept' \in Int /\ maxRegisteredConcept \in Int
        /\ maxRegisteredConcept <= maxRegisteredConcept'
    <3>1. num \in [found \cup DOMAIN conceptExtentsList[c] -> Nat]
      BY <2>1 DEF Built
    <3>2. \A X \in new : num[X] \in Nat
      BY <3>1
    <3>3. maxRegisteredConcept' \in Nat \cup {-1} /\ maxRegisteredConcept \in Nat \cup {-1}
      BY <1>0, <2>1 DEF Built, Typed
    <3>4. /\ \A X \in new : maxRegisteredConcept < num[X] /\ num[X] <= maxRegisteredConcept'
          /\ \A X, Y \in new : num[X] = num[Y] => X = Y
          /\ maxRegisteredConcept <= maxRegisteredConcept'
      BY <2>1 DEF Built
    <3> QED BY <3>2, <3>3, <3>4
  <2>3. \A d \in Ctxs : \A x \in Known(d)' :
          x \in Known(d) \/ \E X \in new : d = c /\ x = [id |-> num[X], ext |-> X]
    BY <1>0, <1>3, <2>1, BuildKnows
  <2> HIDE DEF new
  <2>4. \A d \in Ctxs : \A x \in Known(d) : x.id \in Nat /\ x.id <= maxRegisteredConcept
    BY <1>0, KnownIds DEF Numbered
  <2>5. \A d \in Ctxs : \A x \in Known(d)' : x.id <= maxRegisteredConcept'
    BY <2>2, <2>3, <2>4
  <2>6. ASSUME NEW d \in Ctxs, NEW e \in Ctxs, NEW x \in Known(d)', NEW y \in Known(e)', x.id = y.id
        PROVE  d = e /\ x = y
    <3>1. CASE x \in Known(d) /\ y \in Known(e)
      BY <1>0, <2>6, <3>1 DEF Numbered
    <3>2. CASE x \in Known(d) /\ y \notin Known(e)
      BY <2>2, <2>3, <2>4, <2>6, <3>2
    <3>3. CASE x \notin Known(d) /\ y \in Known(e)
      BY <2>2, <2>3, <2>4, <2>6, <3>3
    <3>4. CASE x \notin Known(d) /\ y \notin Known(e)
      <4>1. PICK X \in new : d = c /\ x = [id |-> num[X], ext |-> X]
        BY <2>3, <3>4
      <4>2. PICK Y \in new : e = c /\ y = [id |-> num[Y], ext |-> Y]
        BY <2>3, <3>4
      <4> QED BY <2>2, <2>6, <4>1, <4>2
    <3> QED BY <3>1, <3>2, <3>3, <3>4
  <2> QED BY <1>1, <2>5, <2>6 DEF Numbered
<1>4. CASE Decide
  <2>1. /\ conceptExtentsList' = conceptExtentsList /\ maxRegisteredConcept' = maxRegisteredConcept
        /\ conceptOrderFamilies' = Append(conceptOrderFamilies, order)
    BY <1>4 DEF Decide, registers
  <2>2. ASSUME NEW c \in Ctxs
        PROVE  Known(c)' \subseteq Known(c)
    <3> DEFINE s == conceptOrderFamilies
    <3>1. s \in Seq(Orders) /\ order[c] \subseteq Listed(conceptExtentsList[c])
      BY <1>0 DEF Typed
    <3>2. conceptOrderFamilies' = Append(s, order)
      BY <2>1
    <3> HIDE DEF s
    <3>3. \A k \in DOMAIN conceptOrderFamilies' :
            conceptOrderFamilies'[k] = order \/ (k \in DOMAIN s /\ conceptOrderFamilies'[k] = s[k])
      BY <3>1, <3>2
    <3>4. Past(c)' \subseteq Past(c) \cup order[c]
      BY <3>3 DEF Past, s
    <3>5. Listed(conceptExtentsList[c])' = Listed(conceptExtentsList[c])
      BY <2>1 DEF Listed
    <3> QED BY <3>1, <3>4, <3>5 DEF Known
  <2> QED BY <1>0, <1>1, <2>1, <2>2 DEF Numbered
<1> QED BY <1>2, <1>3, <1>4 DEF Next, Ended

LEMMA ContinuedKept == NInv /\ [Next]_vars => Continued'
<1> SUFFICES ASSUME NInv, [Next]_vars PROVE Continued'
  OBVIOUS
<1>1. CASE Extend \/ BuildOrder
  BY <1>1 DEF Extend, BuildOrder, Continued, BetweenSteps
<1>2. CASE Decide
  <2>1. conceptOrderFamilies \in Seq(Orders) /\ order \in Orders
    BY DEF NInv, Typed
  <2>2. conceptOrderFamilies' = Append(conceptOrderFamilies, order) /\ order' = order
    BY <1>2 DEF Decide
  <2>3. conceptOrderFamilies'[Len(conceptOrderFamilies')] = order
    BY <2>1, <2>2
  <2> QED BY <2>2, <2>3 DEF Continued, numstep
<1>3. CASE UNCHANGED vars
  BY <1>3 DEF vars, NInv, Continued, BetweenSteps, numstep
<1> QED BY <1>1, <1>2, <1>3 DEF Next, Ended

LEMMA OrdersStay ==
  ASSUME Typed, [Next]_vars, NEW k \in DOMAIN conceptOrderFamilies
  PROVE  k \in DOMAIN conceptOrderFamilies' /\ conceptOrderFamilies'[k] = conceptOrderFamilies[k]
<1>1. conceptOrderFamilies' = conceptOrderFamilies \/ conceptOrderFamilies' = Append(conceptOrderFamilies, order)
  BY DEF Next, vars, Extend, BuildOrder, Decide, Ended
<1>2. conceptOrderFamilies \in Seq(Orders)
  BY DEF Typed
<1> QED BY <1>1, <1>2

LEMMA NamesKept == NInv /\ [Next]_vars => NamesKnown'
<1> SUFFICES ASSUME NInv, [Next]_vars PROVE NamesKnown'
  OBVIOUS
<1>0. Typed /\ NamesKnown /\ Continued
  BY DEF NInv
<1>1. family' = family /\ Ctxs' = Ctxs /\ \A r, X : Column(r, X)' = Column(r, X)
  BY DEF Next, vars, Extend, BuildOrder, Decide, Ended, Ctxs, Column
<1>2. \A a, r, x : Scaled(a, r, x)' = Scaled(a, r, x)
  BY <1>1 DEF Scaled
<1>3. ASSUME NEW c \in Ctxs, NEW a \in ToSet(attrs'[c]), a.of # Native
      PROVE  \E x \in Past(family.rels[a.of.rel].target) : Scaled(a, a.of.rel, x)
  <2>1. CASE a \in ToSet(attrs[c])
    BY <1>0, <1>3, <2>1 DEF NamesKnown
  <2>2. CASE a \notin ToSet(attrs[c])
    <3>1. Extend
      BY <1>3, <2>2 DEF Next, vars, names, BuildOrder, Decide, Ended
    <3>2. numstep > 0 /\ a \in OfOrders(c)
      BY <1>0, <1>3, <2>2, <3>1, ExtendStep
    <3>3. PICK r \in Rels : \E x \in order[family.rels[r].target] : Scaled(a, r, x)
      BY <3>2 DEF OfOrders
    <3>4. PICK x \in order[family.rels[r].target] : Scaled(a, r, x)
      BY <3>3
    <3>5. a.of.rel = r
      BY <3>4 DEF Scaled, Name
    <3>6. order = conceptOrderFamilies[numstep] /\ numstep \in DOMAIN conceptOrderFamilies
      <4>1. step = "extend"
        BY <3>1 DEF Extend
      <4>2. conceptOrderFamilies \in Seq(Orders)
        BY <1>0 DEF Typed
      <4> QED BY <1>0, <3>2, <4>1, <4>2 DEF Continued, BetweenSteps, numstep
    <3>7. x \in Past(family.rels[r].target)
      BY <3>4, <3>6 DEF Past
    <3> QED BY <3>4, <3>5, <3>7
  <2> QED BY <2>1, <2>2
<1>4. \A k \in DOMAIN conceptOrderFamilies :
        k \in DOMAIN conceptOrderFamilies' /\ conceptOrderFamilies'[k] = conceptOrderFamilies[k]
  BY <1>0, OrdersStay
<1>5. ASSUME NEW c \in Ctxs, NEW a \in ToSet(attrs'[c]), a.of # Native
      PROVE  \E x \in UNION {conceptOrderFamilies'[k][family'.rels[a.of.rel].target] :
                              k \in DOMAIN conceptOrderFamilies'} :
               a = [ext |-> Column(a.of.rel, x.ext)', of |-> Name(a.of.rel, x.id)]
  <2>1. PICK x \in Past(family.rels[a.of.rel].target) : Scaled(a, a.of.rel, x)
    BY <1>3, <1>5
  <2>2. PICK j \in DOMAIN conceptOrderFamilies :
          x \in conceptOrderFamilies[j][family.rels[a.of.rel].target]
    BY <2>1 DEF Past
  <2>3. x \in UNION {conceptOrderFamilies'[k][family'.rels[a.of.rel].target] :
                      k \in DOMAIN conceptOrderFamilies'}
    BY <1>1, <1>4, <2>2
  <2> QED BY <1>1, <2>1, <2>3 DEF Scaled
<1> QED BY <1>1, <1>5 DEF NamesKnown, Native, Past, Scaled, ToSet

LEMMA NInvKept == NInv /\ [Next]_vars => NInv'
BY StepTyped, NumberedKept, ContinuedKept, NamesKept DEF NInv

LEMMA NamesInductive == Spec => []NInv
<1>1. Init => NInv
  <2> SUFFICES ASSUME Init PROVE NInv
    OBVIOUS
  <2>1. Typed
    BY TypedInitially
  <2>2. \A c \in Ctxs : Known(c) = {}
    <3>1. \A c \in Ctxs : DOMAIN conceptExtentsList[c] = {} /\ DOMAIN conceptOrderFamilies = {}
      BY DEF Init
    <3> QED BY <3>1 DEF Known, Listed, Past
  <2>3. Numbered
    BY <2>2 DEF Numbered
  <2>4. Continued
    BY DEF Init, Continued, numstep
  <2>5. NamesKnown
    <3> SUFFICES ASSUME NEW c \in Ctxs, NEW a \in ToSet(attrs[c])
                 PROVE  a.of = Native
      BY DEF NamesKnown
    <3>1. attrs[c] = [k \in DOMAIN family.ctxs[c].cols |-> [ext |-> family.ctxs[c].cols[k], of |-> Native]]
      BY DEF Init
    <3> QED BY <3>1 DEF ToSet
  <2> QED BY <2>1, <2>3, <2>4, <2>5 DEF NInv
<1> QED BY <1>1, NInvKept, PTL DEF Spec

\* No number is ever given to two concepts, of one context or of two, in
\* different steps or in the same one; a concept of an order of any step keeps
\* the number it has there.
THEOREM NumbersUnique == Spec => []Numbered
BY NamesInductive, PTL DEF NInv

LEMMA NamesLead == NInv => NamesLeadToConcepts
<1> SUFFICES ASSUME NInv, NEW c \in Ctxs, NEW k \in DOMAIN attrs[c], attrs[c][k].of # Native
             PROVE  LET name == attrs[c][k].of
                        concepts == Finder(family.rels[name.rel].target, name.concept)
                    IN  /\ Cardinality(concepts) = 1
                        /\ \A x \in concepts : attrs[c][k].ext = Column(name.rel, x.ext)
  BY DEF NamesLeadToConcepts
<1> DEFINE a == attrs[c][k]
           t == family.rels[a.of.rel].target
           id == a.of.concept
           concepts == Finder(t, id)
           fams == conceptOrderFamilies
           steps == {j \in DOMAIN fams : \E x \in fams[j][t] : x.id = id}
<1>1. a \in ToSet(attrs[c]) /\ a.of # Native
  BY DEF ToSet
<1>2. PICK x \in Past(t) : Scaled(a, a.of.rel, x)
  BY <1>1 DEF NInv, NamesKnown
<1>3. x.id = id /\ a.ext = Column(a.of.rel, x.ext)
  BY <1>2 DEF Scaled, Name
<1>4. t \in Ctxs
  <2>1. a.of \in Names
    <3> DEFINE q == attrs[c]
    <3>1. q \in Seq([ext : SUBSET Objs(c), of : Names])
      BY DEF NInv, Typed
    <3> DEFINE S == [ext : SUBSET Objs(c), of : Names]
    <3>2. k \in DOMAIN q /\ q \in Seq(S) /\ a = q[k]
      BY <3>1
    <3> HIDE DEF q, S, a
    <3>3. a \in S
      BY <3>2
    <3> QED BY <3>3 DEF S
  <2>2. a.of.rel \in Rels
    BY <1>1, <2>1 DEF Names
  <2> QED BY <2>2, FamilyFacts DEF NInv, Typed
<1>5. \A y \in Past(t) : y.id = id => y = x
  BY <1>2, <1>3, <1>4 DEF NInv, Numbered, Known
<1>6. steps # {} /\ Max(steps) \in steps
  <2>1. PICK j \in DOMAIN fams : x \in fams[j][t]
    BY <1>2 DEF Past
  <2>2. j \in steps
    BY <1>3, <2>1
  <2>3. steps \in SUBSET Int /\ IsFiniteSet(steps)
    <3>1. DOMAIN fams = 1 .. Len(fams) /\ Len(fams) \in Nat
      BY DEF NInv, Typed
    <3>2. steps \in SUBSET (1 .. Len(fams))
      BY <3>1
    <3> HIDE DEF steps
    <3>3. IsFiniteSet(1 .. Len(fams))
      BY <3>1, FS_Interval
    <3>4. IsFiniteSet(steps)
      BY <3>2, <3>3, FS_Subset
    <3>5. 1 .. Len(fams) \subseteq Int
      BY <3>1
    <3> QED BY <3>2, <3>4, <3>5
  <2> HIDE DEF steps
  <2> QED BY <2>2, <2>3, HasMax
<1>7. concepts = {y \in fams[Max(steps)][t] : y.id = id}
  BY <1>6 DEF Finder
<1>8. PICK y \in fams[Max(steps)][t] : y.id = id
  BY <1>6
<1>9. \A z \in fams[Max(steps)][t] : z \in Past(t)
  BY <1>6 DEF Past
<1> HIDE DEF concepts, steps, fams, t, id, a
<1>10. concepts = {x}
  BY <1>5, <1>7, <1>8, <1>9
<1>11. Cardinality(concepts) = 1
  BY <1>10, FS_Singleton
<1>12. \A y2 \in concepts : a.ext = Column(a.of.rel, y2.ext)
  BY <1>3, <1>10
<1> QED BY <1>11, <1>12 DEF concepts, t, id, a

\* Whatever has been found, forgotten or removed since, the number in the name
\* of an attribute leads to one concept, that of which it is the scaling.
THEOREM NamesLeadCorrect == Spec => []NamesLeadToConcepts
BY NamesInductive, NamesLead, PTL

-----------------------------------------------------------------------------
(***************************************************************************)
(* The loop ends.  Without -clean no registered extent is forgotten, and   *)
(* its step stays the one that has found it.                               *)
(***************************************************************************)
Registered(k) ==
  \E c \in Ctxs : \E X \in DOMAIN conceptExtentsNumStep[c] : conceptExtentsNumStep[c][X] = k

StepsRegistered ==
  ~ family.clean =>
    /\ \A c \in Ctxs : DOMAIN conceptExtentsNumStep[c] = DOMAIN conceptExtentsList[c]
    /\ \A k \in 0 .. numstep - 1 : Registered(k) \/ (step = "end" /\ k = numstep - 1)
    /\ step \in {"build", "decide"} /\ newConcept => Registered(numstep)

WithinLimit ==
  family.maxStep # 0 =>
    /\ numstep <= family.maxStep
    /\ step # "end" => numstep < family.maxStep

SInv == Typed /\ StepsRegistered /\ WithinLimit

LEMMA LimitKept == SInv /\ [Next]_vars => WithinLimit'
<1> SUFFICES ASSUME SInv, [Next]_vars PROVE WithinLimit'
  OBVIOUS
<1>1. family' = family /\ family \in Families /\ conceptOrderFamilies \in Seq(Orders)
  BY DEF SInv, Typed, Next, vars, Extend, BuildOrder, Decide, Ended
<1>2. family.maxStep \in Nat /\ numstep \in Nat
  BY <1>1, FamiliesAssumption DEF numstep
<1>3. CASE Decide
  <2>1. numstep' = numstep + 1
    BY <1>1, <1>3 DEF Decide, numstep
  <2>2. step # "end" /\ step' = IF ~ newConcept \/ numstep + 1 = family.maxStep THEN "end" ELSE "extend"
    BY <1>3 DEF Decide
  <2> QED BY <1>1, <1>2, <2>1, <2>2 DEF SInv, WithinLimit
<1>4. CASE Extend \/ BuildOrder
  <2>1. numstep' = numstep /\ step # "end"
    BY <1>4 DEF Extend, BuildOrder, numstep
  <2> QED BY <1>1, <2>1 DEF SInv, WithinLimit
<1>5. CASE UNCHANGED vars
  BY <1>1, <1>5 DEF vars, SInv, WithinLimit, numstep
<1> QED BY <1>3, <1>4, <1>5 DEF Next, Ended

LEMMA RegisteredKept == SInv /\ [Next]_vars => StepsRegistered'
<1> SUFFICES ASSUME SInv, [Next]_vars, ~ family.clean PROVE StepsRegistered'
  BY DEF StepsRegistered, Next, vars, Extend, BuildOrder, Decide, Ended
<1>0. Typed /\ StepsRegistered
  BY DEF SInv
<1>1. family' = family /\ Ctxs' = Ctxs /\ conceptOrderFamilies \in Seq(Orders) /\ numstep \in Nat
  <2>1. family' = family
    BY DEF Next, vars, Extend, BuildOrder, Decide, Ended
  <2>2. conceptOrderFamilies \in Seq(Orders)
    BY <1>0 DEF Typed
  <2> QED BY <2>1, <2>2 DEF Ctxs, numstep
<1>2. ASSUME conceptExtentsNumStep' = conceptExtentsNumStep
      PROVE  \A k : Registered(k)' = Registered(k)
  BY <1>1, <1>2 DEF Registered
<1>3. CASE Extend
  <2>1. /\ conceptExtentsNumStep' = conceptExtentsNumStep /\ conceptExtentsList' = conceptExtentsList
        /\ numstep' = numstep /\ ~ newConcept' /\ step # "end"
    BY <1>3 DEF Extend, numstep
  <2> QED BY <1>0, <1>1, <1>2, <2>1 DEF StepsRegistered
<1>4. CASE Decide
  <2>1. /\ conceptExtentsNumStep' = conceptExtentsNumStep /\ conceptExtentsList' = conceptExtentsList
        /\ numstep' = numstep + 1 /\ step = "decide" /\ step' \notin {"build", "decide"}
        /\ newConcept \/ step' = "end"
    BY <1>1, <1>4 DEF Decide, registers, numstep
  <2>2. ASSUME NEW k \in 0 .. numstep
        PROVE  Registered(k)' \/ (step' = "end" /\ k = numstep)
    <3>1. CASE k = numstep
      BY <1>0, <1>2, <2>1, <3>1 DEF StepsRegistered
    <3>2. CASE k # numstep
      <4>1. k \in 0 .. numstep - 1
        BY <1>1, <3>2
      <4> QED BY <1>0, <1>2, <2>1, <4>1 DEF StepsRegistered
    <3> QED BY <3>1, <3>2
  <2>3. \A k \in 0 .. numstep' - 1 : Registered(k)' \/ (step' = "end" /\ k = numstep' - 1)
    BY <1>1, <2>1, <2>2
  <2> QED BY <1>0, <1>1, <2>1, <2>3 DEF StepsRegistered
<1>5. CASE BuildOrder
  <2>1. PICK c, found, num : Built(c, found, num)
    BY <1>0, <1>5, BuildStep
  <2> DEFINE list == conceptExtentsList[c]
             steps == conceptExtentsNumStep[c]
             new == found \ DOMAIN list
  <2>2. /\ c \in Ctxs
        /\ conceptExtentsList' = [conceptExtentsList EXCEPT ![c] = [X \in new \cup DOMAIN list |-> num[X]]]
        /\ conceptExtentsNumStep' =
             [conceptExtentsNumStep EXCEPT ![c] =
                [X \in new \cup DOMAIN steps |-> IF X \in new THEN numstep ELSE steps[X]]]
        /\ newConcept' = (newConcept \/ new # {})
    BY <2>1 DEF Built
  <2>3. numstep' = numstep /\ step = "build"
    BY <1>5 DEF BuildOrder, numstep
  <2>4. /\ DOMAIN conceptExtentsList = Ctxs /\ DOMAIN conceptExtentsNumStep = Ctxs
        /\ DOMAIN steps = DOMAIN list
    BY <1>0, <2>2 DEF Typed, StepsRegistered
  <2>5. \A X \in new : X \notin DOMAIN steps
    BY <2>4
  <2> HIDE DEF new
  <2>6. ASSUME NEW d \in Ctxs
        PROVE  /\ DOMAIN conceptExtentsNumStep'[d] = DOMAIN conceptExtentsList'[d]
               /\ \A X \in DOMAIN conceptExtentsNumStep[d] :
                    /\ X \in DOMAIN conceptExtentsNumStep'[d]
                    /\ conceptExtentsNumStep'[d][X] = conceptExtentsNumStep[d][X]
    <3>1. CASE d = c
      <4>1. /\ conceptExtentsList'[c] = [X \in new \cup DOMAIN list |-> num[X]]
            /\ conceptExtentsNumStep'[c] =
                 [X \in new \cup DOMAIN steps |-> IF X \in new THEN numstep ELSE steps[X]]
        BY <2>2, <2>4
      <4>2. \A X \in DOMAIN steps : X \in new \cup DOMAIN steps /\ X \notin new
        BY <2>5
      <4> QED BY <2>4, <3>1, <4>1, <4>2
    <3>2. CASE d # c
      <4>1. /\ conceptExtentsList'[d] = conceptExtentsList[d]
            /\ conceptExtentsNumStep'[d] = conceptExtentsNumStep[d]
        BY <2>2, <2>4, <3>2
      <4> QED BY <1>0, <4>1 DEF StepsRegistered
    <3> QED BY <3>1, <3>2
  <2>7. \A k : Registered(k) => Registered(k)'
    BY <1>1, <2>6 DEF Registered
  <2>8. new # {} => Registered(numstep)'
    <3> SUFFICES ASSUME NEW X \in new PROVE Registered(numstep)'
      OBVIOUS
    <3>1. X \in DOMAIN conceptExtentsNumStep'[c] /\ conceptExtentsNumStep'[c][X] = numstep
      BY <2>2, <2>4
    <3>2. \E X2 \in DOMAIN conceptExtentsNumStep'[c] : conceptExtentsNumStep'[c][X2] = numstep'
      BY <2>3, <3>1
    <3> QED BY <1>1, <2>2, <3>2 DEF Registered
  <2>9. newConcept' => Registered(numstep)'
    <3>1. newConcept => Registered(numstep)
      BY <1>0, <2>3 DEF StepsRegistered
    <3>2. Registered(numstep) => Registered(numstep)'
      BY <1>1, <2>3, <2>6 DEF Registered
    <3> QED BY <2>2, <2>8, <3>1, <3>2
  <2>10. \A k \in 0 .. numstep - 1 : Registered(k)'
    BY <1>0, <2>3, <2>7 DEF StepsRegistered
  <2> QED BY <1>1, <2>3, <2>6, <2>9, <2>10 DEF StepsRegistered
<1>6. CASE UNCHANGED vars
  <2>1. /\ conceptExtentsNumStep' = conceptExtentsNumStep /\ conceptExtentsList' = conceptExtentsList
        /\ numstep' = numstep /\ step' = step /\ newConcept' = newConcept
    BY <1>6 DEF vars, registers, numstep
  <2> QED BY <1>0, <1>1, <1>2, <2>1 DEF StepsRegistered
<1> QED BY <1>3, <1>4, <1>5, <1>6 DEF Next, Ended

LEMMA StepsInductive == Spec => []SInv
<1>1. Init => SInv
  <2> SUFFICES ASSUME Init PROVE SInv
    OBVIOUS
  <2>1. Typed
    BY TypedInitially
  <2>2. numstep = 0 /\ ~ newConcept /\ family \in Families
    BY DEF Init, numstep
  <2>3. \A c \in Ctxs : DOMAIN conceptExtentsNumStep[c] = DOMAIN conceptExtentsList[c]
    BY DEF Init
  <2>4. StepsRegistered
    BY <2>2, <2>3 DEF StepsRegistered
  <2>5. family.maxStep \in Nat
    BY <2>2, FamiliesAssumption
  <2> QED BY <2>1, <2>2, <2>4, <2>5 DEF SInv, WithinLimit
<1>2. SInv /\ [Next]_vars => SInv'
  BY StepTyped, LimitKept, RegisteredKept DEF SInv
<1> QED BY <1>1, <1>2, PTL DEF Spec

\* Each step but the last registers an extent no step before has registered,
\* and there are no more steps than the limit.
THEOREM EveryStepCorrect == Spec => []EveryStepFinds
<1>1. SInv => EveryStepFinds
  <2> SUFFICES ASSUME SInv PROVE EveryStepFinds
    OBVIOUS
  <2>1. numstep \in Nat
    BY DEF SInv, Typed, numstep
  <2>2. \A k \in 0 .. numstep - 2 : k \in 0 .. numstep - 1 /\ k # numstep - 1
    BY <2>1
  <2> QED BY <2>2 DEF SInv, StepsRegistered, WithinLimit, EveryStepFinds, Registered
<1> QED BY <1>1, StepsInductive, PTL

\* The extents there are, of all contexts.
AllExtents == UNION {{c} \X SUBSET Objs(c) : c \in Ctxs}

\* Without -clean the loop has at most one step more than there are extents;
\* with it, no more than the limit the command asks for.
StepsBounded ==
  numstep <= IF family.clean THEN family.maxStep ELSE Cardinality(AllExtents) + 1

THEOREM LoopBounded == Spec => []StepsBounded
<1>1. SInv => StepsBounded
  <2> SUFFICES ASSUME SInv PROVE StepsBounded
    OBVIOUS
  <2>1. family \in Families /\ numstep \in Nat
    BY DEF SInv, Typed, numstep
  <2>2. CASE family.clean
    <3>1. family.maxStep # 0 /\ family.maxStep \in Nat
      BY <2>1, <2>2, FamiliesAssumption
    <3> QED BY <2>2, <3>1 DEF SInv, WithinLimit, StepsBounded
  <2>3. CASE ~ family.clean
    <3> DEFINE D == 0 .. numstep - 2
               found(k) == CHOOSE p \in AllExtents :
                             /\ p[2] \in DOMAIN conceptExtentsNumStep[p[1]]
                             /\ conceptExtentsNumStep[p[1]][p[2]] = k
               f == [k \in D |-> found(k)]
    <3>1. ASSUME NEW k \in D
          PROVE  f[k] \in AllExtents /\ conceptExtentsNumStep[f[k][1]][f[k][2]] = k
      <4>1. k \in 0 .. numstep - 1 /\ k # numstep - 1
        BY <2>1
      <4>2. PICK c \in Ctxs : \E X \in DOMAIN conceptExtentsNumStep[c] : conceptExtentsNumStep[c][X] = k
        BY <2>3, <4>1 DEF SInv, StepsRegistered, Registered
      <4>3. PICK X \in DOMAIN conceptExtentsNumStep[c] : conceptExtentsNumStep[c][X] = k
        BY <4>2
      <4>4. <<c, X>> \in AllExtents
        <5>1. X \in SUBSET Objs(c)
          BY <4>2, <4>3 DEF SInv, Typed
        <5> QED BY <5>1 DEF AllExtents
      <4> DEFINE q == <<c, X>>
      <4>5. q \in AllExtents /\ q[2] \in DOMAIN conceptExtentsNumStep[q[1]] /\ conceptExtentsNumStep[q[1]][q[2]] = k
        BY <4>3, <4>4
      <4> HIDE DEF q
      <4>6. found(k) \in AllExtents /\ conceptExtentsNumStep[found(k)[1]][found(k)[2]] = k
        BY <4>5
      <4> HIDE DEF found
      <4> QED BY <4>6
    <3>2. f \in Injection(D, AllExtents)
      <4>1. f \in [D -> AllExtents]
        BY <3>1
      <4> HIDE DEF f
      <4>2. \A j, k \in D : f[j] = f[k] => j = k
        BY <3>1
      <4> QED BY <4>1, <4>2 DEF Injection, IsInjective
    <3>3. IsFiniteSet(AllExtents)
      <4>1. IsFiniteSet(Ctxs) /\ \A c \in Ctxs : IsFiniteSet(Objs(c))
        BY <2>1, FamilyFacts, FS_Interval
      <4> DEFINE g == [c \in Ctxs |-> {c} \X SUBSET Objs(c)]
      <4>2. AllExtents = UNION {g[c] : c \in Ctxs}
        BY DEF AllExtents
      <4>3. \A c \in Ctxs : IsFiniteSet(g[c])
        BY <4>1, FS_Product, FS_Singleton, FS_SUBSET
      <4> HIDE DEF g
      <4>4. IsFiniteSet({g[c] : c \in Ctxs})
        BY <4>1, FiniteImage
      <4>5. \A T \in {g[c] : c \in Ctxs} : IsFiniteSet(T)
        BY <4>3
      <4> QED BY <4>2, <4>4, <4>5, FS_UNION
    <3>4. Cardinality(D) <= Cardinality(AllExtents) /\ Cardinality(AllExtents) \in Nat
      BY <3>2, <3>3, FS_Injection, FS_CardinalityType
    <3>5. Cardinality(D) = IF 0 > numstep - 2 THEN 0 ELSE numstep - 1
      BY <2>1, FS_Interval
    <3> HIDE DEF D
    <3> QED BY <2>1, <2>3, <3>4, <3>5 DEF StepsBounded
  <2> QED BY <2>2, <2>3
<1> QED BY <1>1, StepsInductive, PTL

-----------------------------------------------------------------------------
(***************************************************************************)
(* The definition of relational concept analysis, step by step.            *)
(***************************************************************************)
ColumnFamilies == [Ctxs -> SUBSET SUBSET AllObjs]

Given == [c \in Ctxs |-> ToSet(family.ctxs[c].cols)]

LEMMA ColsByStep ==
  ASSUME family \in Families, NEW n \in Nat
  PROVE  Cols(0) = Given /\ Cols(n + 1) = Widened(Cols(n))
<1> DEFINE W == ColumnFamilies
           Widen(m) == [k \in 1 .. m |-> [q \in W |-> Widened(q)]]
           Def(f, m) == f = [k \in 0 .. m |-> IF k = 0 THEN Given ELSE Widened(f[k - 1])]
           cols(m) == CHOOSE f : Def(f, m)
<1>1. Given \in W
  <2>1. \A c \in Ctxs : \A k \in DOMAIN family.ctxs[c].cols : family.ctxs[c].cols[k] \subseteq AllObjs
    BY FamiliesAssumption, FamilyFacts DEF Ctxs, Objs
  <2> QED BY <2>1 DEF Given, ColumnFamilies, ToSet
<1>2. ASSUME NEW q \in W
      PROVE  Widened(q) \in W
  <2>1. \A r \in Rels : \A X : Column(r, X) \subseteq AllObjs
    BY FamilyFacts
  <2>2. \A c \in Ctxs : Widened(q)[c] \subseteq SUBSET AllObjs
    BY <2>1 DEF Widened, ColumnFamilies
  <2>3. Widened(q) = [c \in Ctxs |-> Widened(q)[c]]
    BY DEF Widened
  <2> QED BY <2>2, <2>3 DEF ColumnFamilies
<1>3. \A m : Cols(m) = cols(m)[m]
  BY DEF Cols, Given
<1> HIDE DEF W
<1>4. ASSUME NEW m \in Nat
      PROVE  F!Iterates(cols(m), W, m, Given, Widen(m))
  <2> DEFINE G == Widen(m)
  <2>1. 0 \in Nat
    OBVIOUS
  <2>2. G \in [1 .. m -> [W -> W]] /\ \A k \in 1 .. m : \A q \in W : G[k][q] = Widened(q)
    BY <1>2
  <2> HIDE DEF G
  <2>3. PICK h : F!Iterates(h, W, m, Given, G)
    BY <1>1, <2>1, <2>2, F!StepByStep
  <2>4. /\ h \in [0 .. m -> W] /\ h[0] = Given
        /\ \A k \in 1 .. m : h[k] = G[k][h[k - 1]]
    BY <2>3 DEF F!Iterates
  <2>5. \A k \in 1 .. m : h[k] = Widened(h[k - 1])
    <3> SUFFICES ASSUME NEW k \in 1 .. m PROVE h[k] = Widened(h[k - 1])
      OBVIOUS
    <3>1. k - 1 \in 0 .. m
      OBVIOUS
    <3>2. h[k - 1] \in W
      BY <2>4, <3>1
    <3> QED BY <2>2, <2>4, <3>2
  <2>6. Def(h, m)
    <3>1. \A k \in 0 .. m : h[k] = IF k = 0 THEN Given ELSE Widened(h[k - 1])
      BY <2>4, <2>5
    <3> QED BY <2>4, <3>1
  <2> DEFINE f == cols(m)
  <2>7. Def(f, m)
    <3> HIDE DEF Def
    <3> QED BY <2>6
  <2> HIDE DEF f
  <2>8. f[0] = Given /\ \A k \in 1 .. m : f[k] = Widened(f[k - 1])
    BY <2>7
  <2> DEFINE T == {k \in Nat : k <= m => f[k] \in W}
  <2>9. \A k \in 0 .. m : f[k] \in W
    <3>1. 0 \in T
      BY <1>1, <2>8
    <3>2. ASSUME NEW k \in Nat, k \in T PROVE k + 1 \in T
      <4> SUFFICES ASSUME k + 1 <= m PROVE f[k + 1] \in W
        OBVIOUS
      <4> DEFINE i == k + 1
      <4>1. i \in 1 .. m /\ i - 1 = k /\ f[k] \in W
        BY <3>2
      <4> HIDE DEF i, T
      <4>2. f[i] = Widened(f[k])
        BY <2>8, <4>1
      <4> QED BY <1>2, <4>1, <4>2 DEF i
    <3> HIDE DEF T
    <3>3. Nat \subseteq T
      BY ONLY <2>1, <3>1, <3>2, F!Induction
    <3> QED BY <3>3 DEF T
  <2>10. f \in [0 .. m -> W]
    <3>1. f = [k \in 0 .. m |-> f[k]]
      BY <2>7
    <3> HIDE DEF T
    <3> QED BY <2>9, <3>1
  <2>11. \A k \in 1 .. m : f[k] = G[k][f[k - 1]]
    <3> SUFFICES ASSUME NEW k \in 1 .. m PROVE f[k] = G[k][f[k - 1]]
      OBVIOUS
    <3>1. k - 1 \in 0 .. m
      OBVIOUS
    <3>2. f[k - 1] \in W
      BY <2>9, <3>1
    <3> QED BY <2>2, <2>8, <3>2
  <2> QED BY <2>8, <2>10, <2>11 DEF F!Iterates, f, G
<1> HIDE DEF cols
<1>5. Cols(0) = Given
  <2>1. cols(0)[0] = Given
    BY <1>4 DEF F!Iterates
  <2> QED BY <1>3, <2>1
<1>6. Cols(n + 1) = Widened(Cols(n))
  <2> DEFINE h == cols(n + 1)
             g == cols(n)
             j == n + 1
  <2>1. j \in Nat /\ n <= j /\ 0 \in Nat /\ j \in 1 .. j /\ j - 1 = n /\ n \in 0 .. n /\ n \in 0 .. j
    OBVIOUS
  <2>2. F!Iterates(h, W, j, Given, Widen(j)) /\ F!Iterates(g, W, n, Given, Widen(n))
    BY <1>4, <2>1
  <2>3. \A k \in 1 .. n : Widen(j)[k] = Widen(n)[k]
    OBVIOUS
  <2>4. Widen(j)[j] = [q \in W |-> Widened(q)]
    BY <2>1
  <2> DEFINE longer == Widen(j)
             shorter == Widen(n)
  <2>5. \A k \in 0 .. n : h[k] = g[k]
    <3>1. /\ F!Iterates(h, W, j, Given, longer) /\ F!Iterates(g, W, n, Given, shorter)
          /\ \A k \in 1 .. n : longer[k] = shorter[k]
      BY <2>2, <2>3
    <3>2. n \in Nat /\ j \in Nat /\ n <= j /\ 0 \in Nat
      BY <2>1
    <3> HIDE DEF longer, shorter, j, h, g
    <3> QED BY ONLY <3>1, <3>2, F!SameSteps
  <2> HIDE DEF Widen, j, h, g
  <2>6. h[j] = Widen(j)[j][h[n]] /\ h[n] \in W
    BY <2>1, <2>2 DEF F!Iterates
  <2>7. h[j] = Widened(g[n])
    BY <2>1, <2>4, <2>5, <2>6
  <2> QED BY <1>3, <2>7 DEF h, g, j
<1> QED BY <1>5, <1>6

-----------------------------------------------------------------------------
(***************************************************************************)
(* What a step adds, exactly.                                              *)
(***************************************************************************)
\* Attribute a is one the step adds to context c.
IsAdded(c, a) ==
  \E r \in Rels : family.rels[r].source = c /\ \E x \in Recent(r) : Scaled(a, r, x)

LEMMA RecentIds ==
  ASSUME NInv, NEW r \in Rels
  PROVE  LET ids == {x.id : x \in Recent(r)}
         IN  /\ \A x, y \in Recent(r) : x.id = y.id => x = y
             /\ IsFiniteSet(ids) /\ ids \in SUBSET Nat
<1> DEFINE t == family.rels[r].target
           recent == Recent(r)
<1>1. /\ t \in Ctxs /\ recent \subseteq order[t] /\ order[t] \subseteq Listed(conceptExtentsList[t])
      /\ IsFiniteSet({x.id : x \in recent}) /\ {x.id : x \in recent} \in SUBSET Nat
  BY RecentFinite DEF NInv
<1>2. \A x \in recent : x \in Known(t)
  BY <1>1 DEF Known
<1> HIDE DEF recent, t
<1>3. \A x, y \in recent : x.id = y.id => x = y
  BY <1>1, <1>2 DEF NInv, Numbered
<1> QED BY <1>1, <1>3 DEF recent

LEMMA AddedByRelation ==
  ASSUME NInv, NEW r \in Rels
  PROVE  /\ \A a : a \in ToSet(Added(r)) <=> \E x \in Recent(r) : Scaled(a, r, x)
         /\ Once(Added(r))
<1> DEFINE recent == Recent(r)
           ids == {x.id : x \in recent}
           q == Increasing(ids)
           ext(id) == (CHOOSE x \in recent : x.id = id).ext
           s == Added(r)
<1>1. /\ \A x, y \in recent : x.id = y.id => x = y
      /\ IsFiniteSet(ids) /\ ids \in SUBSET Nat
  BY RecentIds
<1>2. /\ q \in Seq(ids) /\ Cardinality(ids) \in Nat /\ DOMAIN q = 1 .. Cardinality(ids)
      /\ \A id \in ids : \E k \in DOMAIN q : q[k] = id
      /\ \A k, j \in DOMAIN q : k < j => q[k] < q[j]
  <2>1. ids \in SUBSET Int
    BY <1>1
  <2> HIDE DEF ids
  <2> QED BY <1>1, <2>1, InOrder
<1>3. s = [k \in DOMAIN q |-> [ext |-> Column(r, ext(q[k])), of |-> Name(r, q[k])]]
  BY DEF Added
<1>4. \A x \in recent : ext(x.id) = x.ext
  BY <1>1, Zenon
<1>5. \A k \in DOMAIN q : q[k] \in ids
  <2> HIDE DEF q, ids
  <2> QED BY <1>2
<1>6. \A k \in DOMAIN q : \E x \in recent : x.id = q[k] /\ Scaled(s[k], r, x)
  <2> TAKE k \in DOMAIN q
  <2>1. PICK x \in recent : x.id = q[k]
    BY <1>5
  <2>2. ext(x.id) = x.ext
    BY <1>4
  <2>3. s[k] = [ext |-> Column(r, ext(q[k])), of |-> Name(r, q[k])]
    BY <1>3
  <2> HIDE DEF ext, s, q
  <2> QED BY <2>1, <2>2, <2>3 DEF Scaled
<1> HIDE DEF s, ext
<1>7. ASSUME NEW a, a \in ToSet(s)
      PROVE  \E x \in recent : Scaled(a, r, x)
  BY <1>3, <1>6, <1>7 DEF ToSet
<1>8. ASSUME NEW a, NEW x \in recent, Scaled(a, r, x)
      PROVE  a \in ToSet(s)
  <2>1. x.id \in ids
    OBVIOUS
  <2>2. PICK k \in DOMAIN q : q[k] = x.id
    BY <1>2, <2>1
  <2>3. s[k] = a
    BY <1>3, <1>4, <1>8, <2>2 DEF Scaled
  <2> QED BY <1>3, <2>2, <2>3 DEF ToSet
<1>9. Once(s)
  <2> SUFFICES ASSUME NEW j \in DOMAIN q, NEW k \in DOMAIN q, s[j] = s[k]
               PROVE  j = k
    BY <1>3 DEF Once
  <2>1. q[j] = q[k]
    BY <1>3 DEF Name
  <2>2. q[j] \in Int /\ q[k] \in Int /\ j \in Int /\ k \in Int
    BY <1>1, <1>2, <1>5
  <2> HIDE DEF q, ids
  <2>3. ~ (j < k) /\ ~ (k < j)
    BY <1>2, <2>1, <2>2
  <2> QED BY <2>2, <2>3
<1> QED BY <1>7, <1>8, <1>9 DEF s

LEMMA AddedExactly ==
  ASSUME NInv, NEW c \in Ctxs
  PROVE  /\ AddedTo(c) \in Seq(Attribute(c))
         /\ \A a : a \in ToSet(AddedTo(c)) <=> IsAdded(c, a)
         /\ Once(AddedTo(c))
<1> DEFINE s == [r \in Rels |-> IF family.rels[r].source = c THEN Added(r) ELSE << >>]
           S == UNION {ToSet(s[r]) : r \in Rels}
<1>1. Rels = 1 .. Len(family.rels) /\ Len(family.rels) \in Nat
  BY FamilyFacts DEF NInv, Typed
<1>2. \A r \in Rels : IsFiniteSet({x.id : x \in Recent(r)}) /\ {x.id : x \in Recent(r)} \in SUBSET Int
  <2> TAKE r \in Rels
  <2>1. IsFiniteSet({x.id : x \in Recent(r)}) /\ {x.id : x \in Recent(r)} \in SUBSET Nat
    BY RecentIds
  <2> QED BY <2>1
<1>3. \A r \in Rels : DOMAIN Added(r) = 1 .. Cardinality({x.id : x \in Recent(r)})
                      /\ Cardinality({x.id : x \in Recent(r)}) \in Nat
  <2> TAKE r \in Rels
  <2> DEFINE ids == {x.id : x \in Recent(r)}
  <2>1. DOMAIN Increasing(ids) = 1 .. Cardinality(ids) /\ Cardinality(ids) \in Nat
    <3>1. IsFiniteSet(ids) /\ ids \in SUBSET Int
      BY <1>2
    <3> HIDE DEF ids
    <3> QED BY <3>1, InOrder
  <2>2. DOMAIN Added(r) = DOMAIN Increasing(ids)
    BY DEF Added
  <2> QED BY <2>1, <2>2
<1>4. \A r \in Rels : s[r] \in Seq(S)
  <2> SUFFICES ASSUME NEW r \in Rels PROVE s[r] \in Seq(S)
    OBVIOUS
  <2>1. CASE family.rels[r].source = c
    <3> DEFINE n == Cardinality({x.id : x \in Recent(r)})
               p == Added(r)
    <3>1. s[r] = p
      BY <2>1
    <3>2. DOMAIN p = 1 .. n /\ n \in Nat
      BY <1>3
    <3>3. \A k \in DOMAIN p : p[k] \in S
      BY <3>1 DEF ToSet
    <3>4. p = [k \in DOMAIN p |-> p[k]]
      BY DEF Added
    <3> HIDE DEF n, p, S
    <3>5. p \in Seq(S)
      BY <3>2, <3>3, <3>4
    <3> QED BY <3>1, <3>5
  <2>2. CASE family.rels[r].source # c
    BY <2>2
  <2> QED BY <2>1, <2>2
<1>5. s \in Seq(Seq(S)) /\ DOMAIN s = Rels
  <2>1. s = [r \in Rels |-> s[r]]
    OBVIOUS
  <2> HIDE DEF s, S
  <2> QED BY <1>1, <1>4, <2>1
<1>6. \A r \in Rels : \A a : a \in ToSet(s[r]) <=>
        family.rels[r].source = c /\ \E x \in Recent(r) : Scaled(a, r, x)
  <2> TAKE r \in Rels
  <2>1. CASE family.rels[r].source = c
    BY <2>1, AddedByRelation
  <2>2. CASE family.rels[r].source # c
    <3>1. s[r] = << >>
      BY <2>2
    <3> QED BY <2>2, <3>1 DEF ToSet
  <2> QED BY <2>1, <2>2
<1>7. AddedTo(c) = FlattenSeq(s)
  BY DEF AddedTo
<1>8. \A r \in Rels : Once(s[r])
  <2> TAKE r \in Rels
  <2>1. CASE family.rels[r].source = c
    BY <2>1, AddedByRelation
  <2>2. CASE family.rels[r].source # c
    <3>1. s[r] = << >>
      BY <2>2
    <3> QED BY <3>1 DEF Once
  <2> QED BY <2>1, <2>2
<1> HIDE DEF s, S
<1>9. \A a : a \in ToSet(AddedTo(c)) <=> IsAdded(c, a)
  <2>1. ToSet(AddedTo(c)) = UNION {ToSet(s[r]) : r \in Rels}
    BY <1>5, <1>7, Flattened
  <2> QED BY <1>6, <2>1 DEF IsAdded
<1>10. Once(AddedTo(c))
  <2>1. \A r, t \in Rels : r # t => ToSet(s[r]) \cap ToSet(s[t]) = {}
    <3> SUFFICES ASSUME NEW r \in Rels, NEW t \in Rels, NEW a, a \in ToSet(s[r]), a \in ToSet(s[t])
                 PROVE  r = t
      OBVIOUS
    <3>1. (\E x \in Recent(r) : Scaled(a, r, x)) /\ \E x \in Recent(t) : Scaled(a, t, x)
      BY <1>6
    <3> QED BY <3>1 DEF Scaled, Name
  <2>2. Once(FlattenSeq(s))
    BY <1>5, <1>8, <2>1, FlattenedOnce
  <2> QED BY <1>7, <2>2
<1>11. AddedTo(c) \in Seq(Attribute(c))
  <2>1. AddedTo(c) \in Seq(OfOrders(c)) /\ OfOrders(c) \subseteq Attribute(c)
    BY AddedAttributes DEF NInv, OfOrders
  <2> DEFINE p == AddedTo(c)
             A == OfOrders(c)
             B == Attribute(c)
  <2>2. p \in Seq(A) /\ A \subseteq B
    BY <2>1
  <2> HIDE DEF p, A, B
  <2>3. p \in Seq(B)
    BY <2>2
  <2> QED BY <2>3 DEF p, B
<1> QED BY <1>9, <1>10, <1>11

\* A concatenation has the elements of both.
LEMMA Joined ==
  ASSUME NEW S, NEW p \in Seq(S), NEW q \in Seq(S)
  PROVE  /\ p \o q \in Seq(S)
         /\ \A k \in DOMAIN (p \o q) :
              \/ k \in DOMAIN p /\ (p \o q)[k] = p[k]
              \/ k - Len(p) \in DOMAIN q /\ k > Len(p) /\ (p \o q)[k] = q[k - Len(p)]
         /\ ToSet(p \o q) = ToSet(p) \cup ToSet(q)
<1> DEFINE s == p \o q
<1>1. /\ s \in Seq(S) /\ DOMAIN s = 1 .. Len(p) + Len(q)
      /\ Len(p) \in Nat /\ Len(q) \in Nat /\ DOMAIN p = 1 .. Len(p) /\ DOMAIN q = 1 .. Len(q)
      /\ \A k \in DOMAIN p : s[k] = p[k]
  OBVIOUS
<1>2. \A j \in DOMAIN q : s[Len(p) + j] = q[j]
  OBVIOUS
<1> HIDE DEF s
<1>3. ASSUME NEW k \in DOMAIN s, k > Len(p)
      PROVE  k - Len(p) \in DOMAIN q /\ s[k] = q[k - Len(p)]
  <2> DEFINE j == k - Len(p)
  <2>1. j \in DOMAIN q /\ Len(p) + j = k
    BY <1>1, <1>3
  <2> HIDE DEF j
  <2>2. s[k] = q[j]
    BY <1>2, <2>1
  <2> QED BY <2>1, <2>2 DEF j
<1>4. \A k \in DOMAIN s : k > Len(p) \/ k \in DOMAIN p
  BY <1>1
<1>5. ToSet(s) \subseteq ToSet(p) \cup ToSet(q)
  BY <1>1, <1>3, <1>4 DEF ToSet
<1>6. ToSet(p) \subseteq ToSet(s)
  BY <1>1 DEF ToSet
<1>7. ToSet(q) \subseteq ToSet(s)
  <2>1. \A j \in DOMAIN q : Len(p) + j \in DOMAIN s
    BY <1>1
  <2> QED BY <1>2, <2>1 DEF ToSet
<1>8. \A k \in DOMAIN s :
        \/ k \in DOMAIN p /\ s[k] = p[k]
        \/ k - Len(p) \in DOMAIN q /\ k > Len(p) /\ s[k] = q[k - Len(p)]
  BY <1>1, <1>3, <1>4
<1>9. ToSet(s) = ToSet(p) \cup ToSet(q)
  BY <1>5, <1>6, <1>7
<1> QED BY <1>1, <1>8, <1>9 DEF s

Keeps(c, k) ==
  k \in DOMAIN (attrs[c] \o AddedTo(c)) /\ (family.clean => ~ Unused((attrs[c] \o AddedTo(c))[k].of))

LEMMA ExtendedBy ==
  ASSUME Extend, numstep # 0, NEW c \in Ctxs
  PROVE  attrs'[c] = Pick(attrs[c] \o AddedTo(c), {k \in DOMAIN (attrs[c] \o AddedTo(c)) : Keeps(c, k)})
<1> DEFINE longer == [d \in Ctxs |-> attrs[d] \o AddedTo(d)]
           keeps(d) == {k \in DOMAIN longer[d] : family.clean => ~ Unused(longer[d][k].of)}
<1>1. attrs' = [d \in Ctxs |-> Pick(longer[d], keeps(d))]
  BY Zenon DEF Extend
<1>2. longer[c] = attrs[c] \o AddedTo(c)
  OBVIOUS
<1>3. keeps(c) = {k \in DOMAIN (attrs[c] \o AddedTo(c)) : Keeps(c, k)}
  BY <1>2 DEF Keeps
<1> HIDE DEF longer, keeps
<1> QED BY <1>1, <1>2, <1>3

LEMMA ExtendExactly ==
  ASSUME NInv, Extend, numstep # 0
  PROVE  /\ \A c \in Ctxs : \A a :
              a \in ToSet(attrs'[c]) <=> /\ a \in ToSet(attrs[c]) \/ IsAdded(c, a)
                                         /\ family.clean => ~ Unused(a.of)
         /\ \A name : name \in relAttrsIndex' <=>
              name \in relAttrsIndex \/ \E c \in Ctxs : \E a : IsAdded(c, a) /\ a.of = name
<1>1. ASSUME NEW c \in Ctxs, NEW a
      PROVE  a \in ToSet(attrs'[c]) <=> /\ a \in ToSet(attrs[c]) \/ IsAdded(c, a)
                                        /\ family.clean => ~ Unused(a.of)
  <2> DEFINE p == attrs[c]
             q == AddedTo(c)
             s == p \o q
             S == Attribute(c)
             kept == {k \in DOMAIN (attrs[c] \o AddedTo(c)) : Keeps(c, k)}
  <2>1. p \in Seq(S) /\ q \in Seq(S)
    BY AddedExactly DEF NInv, Typed, Attribute
  <2>2. attrs'[c] = Pick(s, kept)
    BY ExtendedBy
  <2>3. \A k \in DOMAIN s : k \in kept <=> (family.clean => ~ Unused(s[k].of))
    BY DEF Keeps
  <2>4. kept \in SUBSET DOMAIN s
    OBVIOUS
  <2>5. a \in ToSet(q) <=> IsAdded(c, a)
    BY AddedExactly
  <2> HIDE DEF p, q, S, kept
  <2>6. s \in Seq(S) /\ ToSet(s) = ToSet(p) \cup ToSet(q)
    BY <2>1, Joined
  <2> HIDE DEF s
  <2>7. ToSet(attrs'[c]) = {s[k] : k \in kept}
    BY <2>2, <2>4, <2>6, Picked
  <2>8. a \in ToSet(s) <=> a \in ToSet(p) \/ IsAdded(c, a)
    BY <2>5, <2>6
  <2>9. a \in ToSet(attrs'[c]) <=> a \in ToSet(s) /\ (family.clean => ~ Unused(a.of))
    BY <2>3, <2>4, <2>7 DEF ToSet
  <2> QED BY <2>8, <2>9 DEF p
<1>2. relAttrsIndex' = relAttrsIndex \cup UNION {{a.of : a \in ToSet(AddedTo(c))} : c \in Ctxs}
  BY DEF Extend
<1>3. \A c \in Ctxs : \A a : a \in ToSet(AddedTo(c)) <=> IsAdded(c, a)
  BY AddedExactly
<1> QED BY <1>1, <1>2, <1>3

-----------------------------------------------------------------------------
(***************************************************************************)
(* Scaling only what is new loses nothing.                                 *)
(***************************************************************************)
\* The step whose orders are the current ones or are being built; the concepts
\* of the steps before it have been scaled.
current == IF BetweenSteps THEN numstep - 1 ELSE numstep

\* The order of context c is that of the current step.
Done(c) == step # "build" \/ c < at

NamesIndexed ==
  \A c \in Ctxs : \A a \in ToSet(attrs[c]) :
    a.of # Native => a.of \in relAttrsIndex /\ family.rels[a.of.rel].source = c

NamesOnce ==
  \A c \in Ctxs : \A j, k \in DOMAIN attrs[c] :
    attrs[c][j].of = attrs[c][k].of /\ attrs[c][j].of # Native => j = k

\* A name once given is that of a concept of a step before.
IndexOld ==
  \A name \in relAttrsIndex :
    /\ name \in Names \ {Native}
    /\ \E j \in 1 .. current : \E x \in conceptOrderFamilies[j][family.rels[name.rel].target] :
         x.id = name.concept

\* The step registered with an extent has given it its number.
NumbersFresh ==
  \A c \in Ctxs : \A X \in DOMAIN conceptExtentsList[c] :
    /\ X \in DOMAIN conceptExtentsNumStep[c]
    /\ conceptExtentsNumStep[c][X] \in 0 .. current
    /\ ~ Done(c) => conceptExtentsNumStep[c][X] # current
    /\ \A j \in 1 .. conceptExtentsNumStep[c][X] : \A x \in conceptOrderFamilies[j][c] :
         x.id # conceptExtentsList[c][X]

\* What is registered by a step before the current one has its attributes.
OlderScaled ==
  \A r \in Rels : \A X \in DOMAIN conceptExtentsList[family.rels[r].target] :
    conceptExtentsNumStep[family.rels[r].target][X] < current =>
      \E a \in ToSet(attrs[family.rels[r].source]) :
        a.of = Name(r, conceptExtentsList[family.rels[r].target][X])

\* What is registered by the current step is in its orders, with -clean
\* whatever is registered.
CurrentOrdered ==
  \A c \in Ctxs : Done(c) =>
    \A X \in DOMAIN conceptExtentsList[c] :
      family.clean \/ conceptExtentsNumStep[c][X] = current =>
        [id |-> conceptExtentsList[c][X], ext |-> X] \in order[c]

NothingNew ==
  ~ newConcept =>
    \A c \in Ctxs : \A X \in DOMAIN conceptExtentsList[c] : conceptExtentsNumStep[c][X] # current

ColumnsOf(c) == {a.ext : a \in ToSet(attrs[c])}

\* The columns and the orders are those of the definition.
Followed ==
  ~ family.clean =>
    \A c \in Ctxs :
      /\ ColumnsOf(c) = Cols(IF current = -1 THEN 0 ELSE current)[c]
      /\ Done(c) /\ current # -1 => {x.ext : x \in order[c]} = Extents(Objs(c), ColumnsOf(c))

FInv ==
  /\ NInv
  /\ NamesIndexed /\ NamesOnce /\ IndexOld /\ NumbersFresh
  /\ OlderScaled /\ CurrentOrdered /\ NothingNew /\ Followed

\* What the family determines does not change.
LEMMA SameFamily ==
  ASSUME [Next]_vars
  PROVE  /\ family' = family /\ Ctxs' = Ctxs /\ Rels' = Rels /\ Names' = Names
         /\ \A c : Objs(c)' = Objs(c)
         /\ \A n : Cols(n)' = Cols(n)
         /\ \A objs, cols : Extents(objs, cols)' = Extents(objs, cols)
         /\ \A r, X : Column(r, X)' = Column(r, X)
<1>1. family' = family
  BY DEF Next, vars, Extend, BuildOrder, Decide, Ended
<1>2. \A r, X : Column(r, X)' = Column(r, X)
  BY <1>1 DEF Column
<1>3. \A objs, cols : Extents(objs, cols)' = Extents(objs, cols)
  BY <1>1 DEF Extents
<1>4. \A n : Cols(n)' = Cols(n)
  BY <1>1 DEF Cols, Widened, Column, Extents, Ctxs, Rels
<1> QED BY <1>1, <1>2, <1>3, <1>4 DEF Ctxs, Rels, Names, Objs

LEMMA StepCount ==
  ASSUME Typed
  PROVE  /\ numstep \in Nat /\ DOMAIN conceptOrderFamilies = 1 .. numstep
         /\ current \in Int /\ (BetweenSteps => current = numstep - 1)
         /\ (~ BetweenSteps => current = numstep)
BY DEF Typed, numstep, current

LEMMA DecideFollows ==
  ASSUME FInv, Decide, NInv'
  PROVE  FInv'
<1>0. NInv /\ Typed /\ [Next]_vars
  BY DEF FInv, NInv, Next
<1>1. /\ UNCHANGED <<names, registers, order, at>>
      /\ step = "decide" /\ step' \in {"extend", "end"}
      /\ conceptOrderFamilies' = Append(conceptOrderFamilies, order)
  BY DEF Decide
<1>2. numstep \in Nat /\ numstep' = numstep + 1
  BY <1>0, <1>1, StepCount DEF numstep, Typed
<1>3. current = numstep /\ current' = numstep
  BY <1>1, <1>2 DEF current, BetweenSteps
<1>4. \A c : Done(c) /\ Done(c)'
  BY <1>1 DEF Done
<1>5. \A j \in 1 .. numstep : conceptOrderFamilies'[j] = conceptOrderFamilies[j]
  <2>1. \A j \in 1 .. numstep : j \in DOMAIN conceptOrderFamilies
    BY <1>0, StepCount
  <2> QED BY <1>0, <2>1, OrdersStay
<1>6. NamesIndexed' /\ NamesOnce'
  BY <1>0, <1>1, SameFamily DEF FInv, NamesIndexed, NamesOnce, names, ToSet, Native
<1>7. IndexOld'
  BY <1>0, <1>1, <1>3, <1>5, SameFamily DEF FInv, IndexOld, names, Native
<1>8. NumbersFresh'
  <2>1. ASSUME NEW c \in Ctxs, NEW X \in DOMAIN conceptExtentsList[c]
        PROVE  /\ X \in DOMAIN conceptExtentsNumStep[c]
               /\ conceptExtentsNumStep[c][X] \in 0 .. current'
               /\ \A j \in 1 .. conceptExtentsNumStep[c][X] : \A x \in conceptOrderFamilies'[j][c] :
                    x.id # conceptExtentsList[c][X]
    <3>1. /\ X \in DOMAIN conceptExtentsNumStep[c]
          /\ conceptExtentsNumStep[c][X] \in 0 .. current
          /\ \A j \in 1 .. conceptExtentsNumStep[c][X] : \A x \in conceptOrderFamilies[j][c] :
               x.id # conceptExtentsList[c][X]
      BY DEF FInv, NumbersFresh
    <3>2. \A j \in 1 .. conceptExtentsNumStep[c][X] : j \in 1 .. numstep
      BY <1>2, <1>3, <3>1
    <3> QED BY <1>3, <1>5, <3>1, <3>2
  <2> QED BY <1>0, <1>1, <1>4, <2>1, SameFamily DEF NumbersFresh, registers
<1>9. OlderScaled'
  BY <1>0, <1>1, <1>3, SameFamily DEF FInv, OlderScaled, names, registers, ToSet, Name
<1>10. CurrentOrdered' /\ NothingNew'
  BY <1>0, <1>1, <1>3, <1>4, SameFamily DEF FInv, CurrentOrdered, NothingNew, registers
<1>11. Followed'
  <2>1. \A c : ColumnsOf(c)' = ColumnsOf(c)
    BY <1>1 DEF ColumnsOf, names, ToSet
  <2>2. SUFFICES ASSUME ~ family.clean, NEW c \in Ctxs
                 PROVE  /\ ColumnsOf(c)' = Cols(IF current = -1 THEN 0 ELSE current)[c]
                        /\ {x.ext : x \in order[c]} = Extents(Objs(c), ColumnsOf(c))
    BY <1>0, <1>1, <1>3, <2>1, SameFamily DEF Followed
  <2> QED BY <1>2, <1>3, <1>4, <2>1, <2>2 DEF FInv, Followed
<1> QED BY <1>6, <1>7, <1>8, <1>9, <1>10, <1>11 DEF FInv

LEMMA ExtendKeeps ==
  ASSUME FInv, Extend
  PROVE  /\ numstep \in Nat /\ current = numstep - 1 /\ current' = numstep
         /\ UNCHANGED <<conceptExtentsList, conceptExtentsNumStep, order, conceptOrderFamilies>>
         /\ newConcept' = FALSE
         /\ \A c \in Ctxs : Done(c) /\ ~ Done(c)'
<1>1. /\ step = "extend" /\ step' = "build" /\ at' = 1 /\ newConcept' = FALSE
      /\ UNCHANGED <<conceptExtentsList, conceptExtentsNumStep, order, conceptOrderFamilies>>
  BY DEF Extend
<1>2. numstep \in Nat /\ Ctxs = 1 .. Len(family.ctxs)
  BY StepCount, FamilyFacts DEF FInv, NInv, Typed
<1> QED BY <1>1, <1>2 DEF current, BetweenSteps, Done, numstep

\* The first step adds nothing.
LEMMA ExtendFirst ==
  ASSUME FInv, Extend, NInv', numstep = 0
  PROVE  FInv'
<1>1. /\ UNCHANGED names /\ current = -1 /\ current' = 0
      /\ UNCHANGED <<conceptExtentsList, conceptExtentsNumStep, order, conceptOrderFamilies>>
      /\ \A c \in Ctxs : ~ Done(c)'
  <2>1. UNCHANGED names
    BY DEF Extend
  <2> QED BY <2>1, ExtendKeeps
<1>2. [Next]_vars
  BY DEF Next
<1>3. \A c \in Ctxs : DOMAIN conceptExtentsList[c] = {}
  BY <1>1 DEF FInv, NumbersFresh
<1>4. relAttrsIndex = {}
  BY <1>1 DEF FInv, IndexOld
<1>5. NamesIndexed' /\ NamesOnce'
  BY <1>1, <1>2, SameFamily DEF FInv, NamesIndexed, NamesOnce, names, ToSet, Native
<1>6. IndexOld'
  BY <1>1, <1>4 DEF IndexOld, names
<1>7. NumbersFresh' /\ CurrentOrdered' /\ NothingNew'
  BY <1>1, <1>2, <1>3, SameFamily DEF NumbersFresh, CurrentOrdered, NothingNew
<1>8. OlderScaled'
  BY <1>1, <1>2, <1>3, SameFamily, FamilyFacts DEF OlderScaled, FInv, NInv, Typed
<1>9. Followed'
  <2>1. \A c : ColumnsOf(c)' = ColumnsOf(c)
    BY <1>1 DEF ColumnsOf, names, ToSet
  <2> QED BY <1>1, <1>2, <2>1, SameFamily DEF FInv, Followed
<1> QED BY <1>5, <1>6, <1>7, <1>8, <1>9 DEF FInv

\* The name of an attribute that is added is new, and of a concept of the step
\* before.
LEMMA AddedName ==
  ASSUME FInv, step = "extend", numstep # 0, NEW c \in Ctxs, NEW a, IsAdded(c, a)
  PROVE  /\ a.of \notin relAttrsIndex /\ a.of \in Names \ {Native}
         /\ family.rels[a.of.rel].source = c
         /\ \E x \in conceptOrderFamilies[numstep][family.rels[a.of.rel].target] : x.id = a.of.concept
<1>1. PICK r \in Rels : family.rels[r].source = c /\ \E x \in Recent(r) : Scaled(a, r, x)
  BY DEF IsAdded
<1>2. PICK x \in Recent(r) : Scaled(a, r, x)
  BY <1>1
<1>3. a.of = Name(r, x.id) /\ a.of.rel = r /\ a.of.concept = x.id
  BY <1>2 DEF Scaled, Name
<1>4. x \in order[family.rels[r].target] /\ Name(r, x.id) \notin relAttrsIndex
  BY <1>2 DEF Recent
<1>5. order = conceptOrderFamilies[numstep]
  BY StepCount DEF FInv, NInv, Continued, BetweenSteps
<1>6. Name(r, x.id) \in Names \ {Native}
  <2>1. {y.id : y \in Recent(r)} \in SUBSET Nat
    BY RecentIds DEF FInv
  <2>2. x.id \in Nat
    BY <1>2, <2>1
  <2>3. r \in Rels /\ r # 0
    BY FamilyFacts DEF FInv, NInv, Typed
  <2> QED BY <2>2, <2>3 DEF Name, Names, Native
<1> QED BY <1>1, <1>3, <1>4, <1>5, <1>6

\* Two attributes that are added with one name are one.
LEMMA AddedApart ==
  ASSUME NInv, NEW c \in Ctxs, NEW a, NEW b, IsAdded(c, a), IsAdded(c, b), a.of = b.of
  PROVE  a = b
<1>1. PICK r \in Rels : \E x \in Recent(r) : Scaled(a, r, x)
  BY DEF IsAdded
<1>2. PICK t \in Rels : \E y \in Recent(t) : Scaled(b, t, y)
  BY DEF IsAdded
<1>3. PICK x \in Recent(r) : Scaled(a, r, x)
  BY <1>1
<1>4. PICK y \in Recent(t) : Scaled(b, t, y)
  BY <1>2
<1>5. r = t /\ x.id = y.id
  BY <1>3, <1>4 DEF Scaled, Name
<1>6. x = y
  BY <1>5, RecentIds
<1> QED BY <1>3, <1>4, <1>5, <1>6 DEF Scaled

LEMMA LongerOnce ==
  ASSUME FInv, step = "extend", numstep # 0, NEW c \in Ctxs,
         NEW j \in DOMAIN (attrs[c] \o AddedTo(c)), NEW k \in DOMAIN (attrs[c] \o AddedTo(c)),
         (attrs[c] \o AddedTo(c))[j].of = (attrs[c] \o AddedTo(c))[k].of,
         (attrs[c] \o AddedTo(c))[j].of # Native
  PROVE  j = k
<1> DEFINE p == attrs[c]
           q == AddedTo(c)
           s == p \o q
           S == Attribute(c)
<1>1. p \in Seq(S) /\ q \in Seq(S) /\ Once(q) /\ \A a : a \in ToSet(q) <=> IsAdded(c, a)
  BY AddedExactly DEF FInv, NInv, Typed, Attribute
<1>2. \A i, l \in DOMAIN p : p[i].of = p[l].of /\ p[i].of # Native => i = l
  BY DEF FInv, NamesOnce
<1>3. \A i \in DOMAIN p : p[i].of # Native => p[i].of \in relAttrsIndex
  BY DEF FInv, NamesIndexed, ToSet
<1>4. \A i \in DOMAIN q : IsAdded(c, q[i])
  BY <1>1 DEF ToSet
<1>5. \A i \in DOMAIN q : q[i].of \notin relAttrsIndex
  BY <1>4, AddedName
<1>6. \A i, l \in DOMAIN q : q[i].of = q[l].of => i = l
  <2> SUFFICES ASSUME NEW i \in DOMAIN q, NEW l \in DOMAIN q, q[i].of = q[l].of
               PROVE  i = l
    OBVIOUS
  <2>1. q[i] = q[l]
    BY <1>4, AddedApart DEF FInv
  <2> QED BY <1>1, <2>1 DEF Once
<1>7. s[j].of = s[k].of /\ s[j].of # Native /\ j \in DOMAIN s /\ k \in DOMAIN s
  OBVIOUS
<1> HIDE DEF p, q, S
<1>8. \A i \in DOMAIN s :
        \/ i \in DOMAIN p /\ s[i] = p[i]
        \/ i - Len(p) \in DOMAIN q /\ i > Len(p) /\ s[i] = q[i - Len(p)]
  BY <1>1, Joined
<1>9. Len(p) \in Nat /\ DOMAIN s \subseteq Int
  BY <1>1
<1> HIDE DEF s
<1>10. CASE j \in DOMAIN p /\ s[j] = p[j]
  <2>1. s[j].of \in relAttrsIndex
    BY <1>3, <1>7, <1>10
  <2>2. k \in DOMAIN p /\ s[k] = p[k]
    BY <1>5, <1>7, <1>8, <2>1
  <2> QED BY <1>2, <1>7, <1>10, <2>2
<1>11. CASE j - Len(p) \in DOMAIN q /\ s[j] = q[j - Len(p)]
  <2>1. s[j].of \notin relAttrsIndex
    BY <1>5, <1>11
  <2>2. k - Len(p) \in DOMAIN q /\ s[k] = q[k - Len(p)]
    BY <1>3, <1>7, <1>8, <2>1
  <2>3. j - Len(p) = k - Len(p)
    BY <1>6, <1>7, <1>11, <2>2
  <2> QED BY <1>7, <1>9, <2>3
<1> QED BY <1>7, <1>8, <1>10, <1>11

LEMMA ExtendNames ==
  ASSUME FInv, Extend, numstep # 0
  PROVE  NamesIndexed' /\ NamesOnce' /\ IndexOld'
<1>0. NInv /\ step = "extend" /\ [Next]_vars
  BY DEF FInv, Extend, Next
<1>1. NamesIndexed'
  <2> SUFFICES ASSUME NEW c \in Ctxs, NEW a \in ToSet(attrs'[c]), a.of # Native
               PROVE  a.of \in relAttrsIndex' /\ family.rels[a.of.rel].source = c
    <3>1. \A c \in Ctxs : ToSet(attrs[c])' = ToSet(attrs'[c])
      BY DEF ToSet
    <3> QED BY <1>0, <3>1, SameFamily DEF NamesIndexed, Native
  <2>1. a \in ToSet(attrs[c]) \/ IsAdded(c, a)
    BY <1>0, ExtendExactly
  <2>2. CASE a \in ToSet(attrs[c])
    BY <1>0, <2>2, ExtendExactly DEF FInv, NamesIndexed
  <2>3. CASE IsAdded(c, a)
    BY <1>0, <2>3, ExtendExactly, AddedName
  <2> QED BY <2>1, <2>2, <2>3
<1>2. NamesOnce'
  <2> SUFFICES ASSUME NEW c \in Ctxs, NEW j \in DOMAIN attrs'[c], NEW k \in DOMAIN attrs'[c],
                      attrs'[c][j].of = attrs'[c][k].of, attrs'[c][j].of # Native
               PROVE  j = k
    BY <1>0, SameFamily DEF NamesOnce, Native
  <2> DEFINE s == attrs[c] \o AddedTo(c)
             S == Attribute(c)
             kept == {i \in DOMAIN (attrs[c] \o AddedTo(c)) : Keeps(c, i)}
  <2>1. attrs'[c] = Pick(s, kept)
    BY ExtendedBy
  <2>2. s \in Seq(S)
    <3>1. attrs[c] \in Seq(Attribute(c)) /\ AddedTo(c) \in Seq(Attribute(c))
      BY <1>0, AddedExactly DEF NInv, Typed, Attribute
    <3> DEFINE p == attrs[c]
               q == AddedTo(c)
    <3>2. p \in Seq(S) /\ q \in Seq(S)
      BY <3>1
    <3> HIDE DEF p, q, S
    <3>3. p \o q \in Seq(S)
      BY <3>2, Joined
    <3> QED BY <3>3 DEF p, q
  <2>3. \A i, l \in DOMAIN s : s[i].of = s[l].of /\ s[i].of # Native => i = l
    BY <1>0, LongerOnce
  <2>4. kept \in SUBSET DOMAIN s
    OBVIOUS
  <2> HIDE DEF s, S, kept
  <2>5. PICK q : \A i, l \in DOMAIN Pick(s, kept) :
                   /\ q[l] \in kept /\ Pick(s, kept)[l] = s[q[l]]
                   /\ q[i] = q[l] => i = l
    BY <2>2, <2>4, PickedApart
  <2>6. /\ q[j] \in DOMAIN s /\ q[k] \in DOMAIN s
        /\ attrs'[c][j] = s[q[j]] /\ attrs'[c][k] = s[q[k]]
    BY <2>1, <2>4, <2>5
  <2>7. q[j] = q[k]
    BY <2>3, <2>6
  <2> QED BY <2>1, <2>5, <2>7
<1>3. IndexOld'
  <2> SUFFICES ASSUME NEW name \in relAttrsIndex'
               PROVE  /\ name \in Names \ {Native}
                      /\ \E j \in 1 .. numstep :
                           \E x \in conceptOrderFamilies[j][family.rels[name.rel].target] : x.id = name.concept
    BY <1>0, ExtendKeeps, SameFamily DEF IndexOld, Native
  <2>1. numstep \in Nat /\ current = numstep - 1
    BY ExtendKeeps
  <2>2. CASE name \in relAttrsIndex
    <3>1. /\ name \in Names \ {Native}
          /\ \E j \in 1 .. numstep - 1 :
               \E x \in conceptOrderFamilies[j][family.rels[name.rel].target] : x.id = name.concept
      BY <2>1, <2>2 DEF FInv, IndexOld
    <3>2. \A j \in 1 .. numstep - 1 : j \in 1 .. numstep
      BY <2>1
    <3> QED BY <3>1, <3>2
  <2>3. CASE name \notin relAttrsIndex
    <3>1. PICK c \in Ctxs : \E a : IsAdded(c, a) /\ a.of = name
      BY <1>0, <2>3, ExtendExactly
    <3>2. PICK a : IsAdded(c, a) /\ a.of = name
      BY <3>1
    <3>3. /\ name \in Names \ {Native}
          /\ \E x \in conceptOrderFamilies[numstep][family.rels[name.rel].target] : x.id = name.concept
      BY <1>0, <3>2, AddedName
    <3>4. numstep \in 1 .. numstep
      BY <2>1
    <3> QED BY <3>3, <3>4
  <2> QED BY <2>2, <2>3
<1> QED BY <1>1, <1>2, <1>3

\* The concepts of an order are registered, and their numbers known.
LEMMA OrderKnown ==
  ASSUME Typed, NEW c \in Ctxs, NEW x \in order[c]
  PROVE  /\ x.ext \in DOMAIN conceptExtentsList[c] /\ x.id = conceptExtentsList[c][x.ext]
         /\ x = [id |-> conceptExtentsList[c][x.ext], ext |-> x.ext]
         /\ x \in Known(c)
BY DEF Typed, Listed, Known

\* An attribute with the name of a concept has that concept's column.
LEMMA NameMeans ==
  ASSUME NInv, NEW c \in Ctxs, NEW r \in Rels, NEW x \in Known(family.rels[r].target), NEW a,
         a \in ToSet(attrs[c]) \/ IsAdded(c, a), a.of = Name(r, x.id)
  PROVE  a.ext = Column(r, x.ext)
<1> DEFINE t == family.rels[r].target
<1>0. t \in Ctxs /\ r # 0
  BY FamilyFacts DEF NInv, Typed
<1>1. \A y \in Known(t) : y.id = x.id => y = x
  BY <1>0 DEF NInv, Numbered
<1>2. CASE a \in ToSet(attrs[c])
  <2>1. a.of # Native /\ a.of.rel = r
    BY <1>0 DEF Name, Native
  <2>2. PICK y \in Past(t) : Scaled(a, r, y)
    BY <1>2, <2>1 DEF NInv, NamesKnown
  <2>3. y.id = x.id /\ y \in Known(t)
    BY <2>2 DEF Scaled, Name, Known
  <2>4. y = x
    BY <1>1, <2>3
  <2> QED BY <2>2, <2>4 DEF Scaled
<1>3. CASE IsAdded(c, a)
  <2>1. PICK s \in Rels : \E y \in Recent(s) : Scaled(a, s, y)
    BY <1>3 DEF IsAdded
  <2>2. PICK y \in Recent(s) : Scaled(a, s, y)
    BY <2>1
  <2>3. s = r /\ y.id = x.id
    BY <2>2 DEF Scaled, Name
  <2>4. y \in order[t]
    BY <2>2, <2>3 DEF Recent
  <2>5. y \in Known(t)
    BY <1>0, <2>4, OrderKnown DEF NInv
  <2>6. y = x
    BY <1>1, <2>3, <2>5
  <2> QED BY <2>2, <2>3, <2>6 DEF Scaled
<1> QED BY <1>2, <1>3

\* What the step before has registered is scaled now: its number is too new for
\* its name to be taken.
LEMMA RecentScaled ==
  ASSUME FInv, step = "extend", numstep # 0, NEW r \in Rels,
         NEW X \in DOMAIN conceptExtentsList[family.rels[r].target],
         conceptExtentsNumStep[family.rels[r].target][X] = numstep - 1
  PROVE  [id |-> conceptExtentsList[family.rels[r].target][X], ext |-> X] \in Recent(r)
<1> DEFINE t == family.rels[r].target
           id == conceptExtentsList[t][X]
           x == [id |-> id, ext |-> X]
<1>1. t \in Ctxs /\ r \in Rels /\ numstep \in Nat /\ current = numstep - 1 /\ Done(t)
  BY FamilyFacts, StepCount DEF FInv, NInv, Typed, BetweenSteps, Done
<1>2. x \in order[t]
  BY <1>1 DEF FInv, CurrentOrdered
<1>3. Name(r, id) \notin relAttrsIndex
  <2> SUFFICES ASSUME Name(r, id) \in relAttrsIndex PROVE FALSE
    OBVIOUS
  <2>1. Name(r, id).rel = r /\ Name(r, id).concept = id
    BY DEF Name
  <2>2. PICK j \in 1 .. numstep - 1 : \E y \in conceptOrderFamilies[j][t] : y.id = id
    BY <1>1, <2>1 DEF FInv, IndexOld
  <2>3. \A y \in conceptOrderFamilies[j][t] : y.id # id
    BY <1>1, <2>2 DEF FInv, NumbersFresh
  <2> QED BY <2>2, <2>3
<1> QED BY <1>2, <1>3 DEF Recent

LEMMA ExtendScales ==
  ASSUME FInv, Extend, numstep # 0, NEW r \in Rels,
         NEW X \in DOMAIN conceptExtentsList[family.rels[r].target]
  PROVE  \E a \in ToSet(attrs'[family.rels[r].source]) :
           a.of = Name(r, conceptExtentsList[family.rels[r].target][X])
<1> DEFINE t == family.rels[r].target
           c == family.rels[r].source
           id == conceptExtentsList[t][X]
           x == [id |-> id, ext |-> X]
<1>1. /\ NInv /\ t \in Ctxs /\ c \in Ctxs /\ step = "extend"
      /\ numstep \in Nat /\ current = numstep - 1 /\ Done(t)
  BY FamilyFacts, ExtendKeeps DEF FInv, NInv, Typed, Extend
<1>2. conceptExtentsNumStep[t][X] \in 0 .. numstep - 1
  BY <1>1 DEF FInv, NumbersFresh
<1>3. ASSUME x \in order[t]
      PROVE  ~ Unused(Name(r, id))
  BY <1>3 DEF Unused, Name
<1>4. CASE conceptExtentsNumStep[t][X] = numstep - 1
  <2>1. x \in Recent(r)
    BY <1>1, <1>4, RecentScaled
  <2> DEFINE a == [ext |-> Column(r, X), of |-> Name(r, id)]
  <2>2. Scaled(a, r, x)
    BY DEF Scaled
  <2>3. IsAdded(c, a)
    BY <2>1, <2>2 DEF IsAdded
  <2>4. ~ Unused(a.of)
    BY <1>3, <2>1 DEF Recent
  <2>5. a \in ToSet(attrs'[c])
    BY <1>1, <2>3, <2>4, ExtendExactly
  <2> QED BY <2>5
<1>5. CASE conceptExtentsNumStep[t][X] < numstep - 1
  <2>1. PICK a \in ToSet(attrs[c]) : a.of = Name(r, id)
    BY <1>1, <1>5 DEF FInv, OlderScaled
  <2>2. family.clean => ~ Unused(a.of)
    BY <1>1, <1>3, <2>1 DEF FInv, CurrentOrdered
  <2>3. a \in ToSet(attrs'[c])
    BY <1>1, <2>1, <2>2, ExtendExactly
  <2> QED BY <2>1, <2>3
<1> QED BY <1>1, <1>2, <1>4, <1>5

\* One step of the loop widens the columns as the definition does.
LEMMA ExtendWidens ==
  ASSUME FInv, Extend, numstep # 0, ~ family.clean, NEW c \in Ctxs
  PROVE  {a.ext : a \in ToSet(attrs'[c])} = Cols(numstep)[c]
<1>0. NInv /\ family \in Families
  BY DEF FInv, NInv, Typed
<1>1. /\ numstep \in Nat /\ numstep - 1 \in Nat /\ current = numstep - 1
      /\ \A d \in Ctxs : Done(d)
  BY ExtendKeeps
<1>2. \A d \in Ctxs : /\ ColumnsOf(d) = Cols(numstep - 1)[d]
                      /\ {x.ext : x \in order[d]} = Extents(Objs(d), ColumnsOf(d))
  BY <1>1 DEF FInv, Followed
<1>3. Cols(numstep) = Widened(Cols(numstep - 1))
  <2> DEFINE n == numstep - 1
  <2>1. n \in Nat /\ n + 1 = numstep
    BY <1>1
  <2> HIDE DEF n
  <2>2. Cols(n + 1) = Widened(Cols(n))
    BY <1>0, <2>1, ColsByStep
  <2> QED BY <2>1, <2>2 DEF n
<1>4. \A X : X \in Cols(numstep)[c] <=>
        \/ X \in ColumnsOf(c)
        \/ \E r \in Rels : /\ family.rels[r].source = c
                           /\ \E x \in order[family.rels[r].target] : X = Column(r, x.ext)
  <2> DEFINE E(r) == LET t == family.rels[r].target
                     IN  Extents(family.ctxs[t].objs, Cols(numstep - 1)[t])
  <2>1. Cols(numstep)[c] =
          ColumnsOf(c) \cup UNION {{Column(r, X) : X \in E(r)} :
                                   r \in {s \in Rels : family.rels[s].source = c}}
    BY <1>2, <1>3 DEF Widened
  <2>2. \A r \in Rels : E(r) = {x.ext : x \in order[family.rels[r].target]}
    BY <1>0, <1>2, FamilyFacts DEF Objs
  <2> HIDE DEF E
  <2>3. \A X : X \in Cols(numstep)[c] <=>
          \/ X \in ColumnsOf(c)
          \/ \E r \in Rels : family.rels[r].source = c /\ \E Y \in E(r) : X = Column(r, Y)
    BY <2>1
  <2> QED BY <2>2, <2>3
<1>5. \A a : a \in ToSet(attrs'[c]) <=> a \in ToSet(attrs[c]) \/ IsAdded(c, a)
  BY <1>0, ExtendExactly
<1>6. ASSUME NEW a \in ToSet(attrs'[c])
      PROVE  a.ext \in Cols(numstep)[c]
  <2>1. CASE a \in ToSet(attrs[c])
    BY <1>4, <2>1 DEF ColumnsOf
  <2>2. CASE IsAdded(c, a)
    <3>1. PICK r \in Rels : family.rels[r].source = c /\ \E x \in Recent(r) : Scaled(a, r, x)
      BY <2>2 DEF IsAdded
    <3>2. PICK x \in Recent(r) : Scaled(a, r, x)
      BY <3>1
    <3>3. x \in order[family.rels[r].target] /\ a.ext = Column(r, x.ext)
      BY <3>2 DEF Recent, Scaled
    <3> QED BY <1>4, <3>1, <3>3
  <2> QED BY <1>5, <2>1, <2>2
<1>7. ASSUME NEW X \in Cols(numstep)[c]
      PROVE  \E a \in ToSet(attrs'[c]) : a.ext = X
  <2>1. CASE X \in ColumnsOf(c)
    BY <1>5, <2>1 DEF ColumnsOf
  <2>2. CASE X \notin ColumnsOf(c)
    <3>1. PICK r \in Rels : /\ family.rels[r].source = c
                            /\ \E x \in order[family.rels[r].target] : X = Column(r, x.ext)
      BY <1>4, <2>2
    <3>2. PICK x \in order[family.rels[r].target] : X = Column(r, x.ext)
      BY <3>1
    <3>3. family.rels[r].target \in Ctxs
      BY <1>0, FamilyFacts
    <3>4. /\ x.ext \in DOMAIN conceptExtentsList[family.rels[r].target]
          /\ x.id = conceptExtentsList[family.rels[r].target][x.ext]
          /\ x \in Known(family.rels[r].target)
      BY <1>0, <3>2, <3>3, OrderKnown DEF NInv
    <3>5. PICK a \in ToSet(attrs'[c]) : a.of = Name(r, x.id)
      BY <3>1, <3>4, ExtendScales
    <3>6. a.ext = Column(r, x.ext)
      BY <1>0, <1>5, <3>4, <3>5, NameMeans
    <3> QED BY <3>2, <3>5, <3>6
  <2> QED BY <2>1, <2>2
<1> QED BY <1>6, <1>7

LEMMA ExtendFollows ==
  ASSUME FInv, Extend, NInv'
  PROVE  FInv'
<1>1. CASE numstep = 0
  BY <1>1, ExtendFirst
<1>2. CASE numstep # 0
  <2>0. [Next]_vars /\ family \in Families
    BY DEF Next, FInv, NInv, Typed
  <2>1. /\ numstep \in Nat /\ current = numstep - 1 /\ current' = numstep
        /\ UNCHANGED <<conceptExtentsList, conceptExtentsNumStep, order, conceptOrderFamilies>>
        /\ \A c \in Ctxs : Done(c) /\ ~ Done(c)'
    BY ExtendKeeps
  <2>2. \A c \in Ctxs : \A X \in DOMAIN conceptExtentsList[c] :
          /\ X \in DOMAIN conceptExtentsNumStep[c] /\ conceptExtentsNumStep[c][X] \in 0 .. numstep - 1
          /\ \A j \in 1 .. conceptExtentsNumStep[c][X] : \A x \in conceptOrderFamilies[j][c] :
               x.id # conceptExtentsList[c][X]
    BY <2>1 DEF FInv, NumbersFresh
  <2>3. NumbersFresh' /\ NothingNew'
    BY <2>0, <2>1, <2>2, SameFamily DEF NumbersFresh, NothingNew
  <2>4. CurrentOrdered'
    BY <2>0, <2>1, SameFamily DEF CurrentOrdered
  <2>5. OlderScaled'
    <3>1. \A r \in Rels : \A X \in DOMAIN conceptExtentsList[family.rels[r].target] :
            \E a \in ToSet(attrs'[family.rels[r].source]) :
              a.of = Name(r, conceptExtentsList[family.rels[r].target][X])
      BY <1>2, ExtendScales
    <3>2. \A c : ToSet(attrs[c])' = ToSet(attrs'[c])
      BY DEF ToSet
    <3>3. \A r \in Rels : family.rels[r].source \in Ctxs
      BY <2>0, FamilyFacts
    <3> QED BY <2>0, <2>1, <3>1, <3>2, <3>3, SameFamily DEF OlderScaled, Name, ToSet
  <2>6. Followed'
    <3>1. \A c : ColumnsOf(c)' = {a.ext : a \in ToSet(attrs'[c])}
      BY DEF ColumnsOf, ToSet
    <3>2. ~ family.clean => \A c \in Ctxs : ColumnsOf(c)' = Cols(numstep)[c]
      BY <1>2, <3>1, ExtendWidens
    <3> QED BY <2>0, <2>1, <3>2, SameFamily DEF Followed
  <2>7. NamesIndexed' /\ NamesOnce' /\ IndexOld'
    BY <1>2, ExtendNames
  <2> QED BY <2>3, <2>4, <2>5, <2>6, <2>7 DEF FInv
<1> QED BY <1>1, <1>2

\* What is registered once an order is built: as before, or by the current step.
LEMMA BuildRegisters ==
  ASSUME Typed, BuildOrder, NEW c, NEW found, NEW num, Built(c, found, num),
         NEW d \in Ctxs, NEW X \in DOMAIN conceptExtentsList'[d]
  PROVE  \/ /\ X \in DOMAIN conceptExtentsList[d]
            /\ conceptExtentsList'[d][X] = conceptExtentsList[d][X]
            /\ X \in DOMAIN conceptExtentsNumStep[d] =>
                 /\ X \in DOMAIN conceptExtentsNumStep'[d]
                 /\ conceptExtentsNumStep'[d][X] = conceptExtentsNumStep[d][X]
            /\ d = c /\ family.clean => X \in found
         \/ /\ d = c /\ X \in found \ DOMAIN conceptExtentsList[c]
            /\ conceptExtentsList'[d][X] = num[X]
            /\ X \in DOMAIN conceptExtentsNumStep'[d] /\ conceptExtentsNumStep'[d][X] = numstep
<1> DEFINE list == conceptExtentsList[c]
           steps == conceptExtentsNumStep[c]
           new == found \ DOMAIN list
           kept == IF family.clean THEN found ELSE new \cup DOMAIN list
<1>1. /\ conceptExtentsList' = [conceptExtentsList EXCEPT ![c] = [Y \in kept |-> num[Y]]]
      /\ conceptExtentsNumStep' =
           [conceptExtentsNumStep EXCEPT ![c] =
              [Y \in new \cup DOMAIN steps |-> IF Y \in new THEN numstep ELSE steps[Y]]]
      /\ \A Y \in DOMAIN list : num[Y] = list[Y]
  BY DEF Built
<1>2. DOMAIN conceptExtentsList = Ctxs /\ DOMAIN conceptExtentsNumStep = Ctxs
  BY DEF Typed
<1>3. /\ kept \subseteq new \cup DOMAIN list
      /\ family.clean => kept = found
      /\ \A Y \in new : Y \in found \ DOMAIN list
      /\ \A Y \in DOMAIN list : Y \notin new
  OBVIOUS
<1> HIDE DEF new, kept
<1>4. CASE d # c
  <2>1. conceptExtentsList'[d] = conceptExtentsList[d] /\ conceptExtentsNumStep'[d] = conceptExtentsNumStep[d]
    BY <1>1, <1>2, <1>4
  <2> QED BY <1>4, <2>1
<1>5. CASE d = c
  <2>1. /\ conceptExtentsList'[c] = [Y \in kept |-> num[Y]]
        /\ conceptExtentsNumStep'[c] =
             [Y \in new \cup DOMAIN steps |-> IF Y \in new THEN numstep ELSE steps[Y]]
    BY <1>1, <1>2, <1>5
  <2>2. X \in kept /\ conceptExtentsList'[c][X] = num[X]
    BY <1>5, <2>1
  <2>3. CASE X \in new
    <3>1. X \in DOMAIN conceptExtentsNumStep'[c] /\ conceptExtentsNumStep'[c][X] = numstep
      BY <2>1, <2>3
    <3> QED BY <1>3, <1>5, <2>2, <2>3, <3>1
  <2>4. CASE X \in DOMAIN list
    <3>1. X \notin new
      BY <1>3, <2>4
    <3>2. X \in DOMAIN steps =>
            X \in DOMAIN conceptExtentsNumStep'[c] /\ conceptExtentsNumStep'[c][X] = steps[X]
      BY <2>1, <3>1
    <3> QED BY <1>1, <1>3, <1>5, <2>2, <2>4, <3>2
  <2> QED BY <1>3, <2>2, <2>3, <2>4
<1> QED BY <1>4, <1>5

\* The order of the context at hand is that of the current step now.
LEMMA BuildDone ==
  ASSUME Typed, BuildOrder, NEW c, NEW found, NEW num, Built(c, found, num)
  PROVE  /\ c \in Ctxs /\ ~ Done(c) /\ current = numstep /\ current' = numstep /\ numstep \in Nat
         /\ \A d \in Ctxs : Done(d)' <=> Done(d) \/ d = c
         /\ DOMAIN order = Ctxs
         /\ order' = [order EXCEPT ![c] = {[id |-> num[X], ext |-> X] : X \in found}]
         /\ UNCHANGED <<names, conceptOrderFamilies>>
<1>1. /\ step = "build" /\ at' = at + 1 /\ step' = IF at + 1 \in Ctxs THEN "build" ELSE "decide"
      /\ UNCHANGED <<names, conceptOrderFamilies>>
  BY DEF BuildOrder
<1>2. c = at /\ c \in Ctxs
  BY DEF Built
<1>3. Ctxs = 1 .. Len(family.ctxs) /\ Len(family.ctxs) \in Nat
  BY FamilyFacts DEF Typed
<1>4. \A d \in Ctxs : Done(d)' <=> Done(d) \/ d = c
  <2> TAKE d \in Ctxs
  <2>1. Done(d) <=> d < at
    BY <1>1 DEF Done
  <2>2. Done(d)' <=> step' # "build" \/ d < at + 1
    BY <1>1 DEF Done
  <2>3. d \in 1 .. Len(family.ctxs) /\ at \in 1 .. Len(family.ctxs)
    BY <1>2, <1>3
  <2>4. CASE at + 1 \in Ctxs
    BY <1>1, <1>2, <1>3, <2>1, <2>2, <2>3, <2>4
  <2>5. CASE at + 1 \notin Ctxs
    <3>1. at = Len(family.ctxs)
      BY <1>3, <2>3, <2>5
    <3> QED BY <1>1, <1>2, <1>3, <2>1, <2>2, <2>3, <2>5, <3>1
  <2> QED BY <2>4, <2>5
<1>5. current = numstep /\ current' = numstep
  BY <1>1 DEF current, BetweenSteps, numstep
<1>6. ~ Done(c)
  BY <1>1, <1>2, <1>3 DEF Done
<1>7. DOMAIN order = Ctxs /\ order' = [order EXCEPT ![c] = {[id |-> num[X], ext |-> X] : X \in found}]
  BY DEF Typed, Orders, Built
<1> QED BY <1>1, <1>2, <1>4, <1>5, <1>6, <1>7, StepCount

LEMMA BuildFollows ==
  ASSUME FInv, BuildOrder, NInv'
  PROVE  FInv'
<1>0. NInv /\ Typed /\ [Next]_vars
  BY DEF FInv, NInv, Next
<1>1. PICK c, found, num : Built(c, found, num)
  BY <1>0, BuildStep
<1> DEFINE new == found \ DOMAIN conceptExtentsList[c]
           Old(d, X) == /\ X \in DOMAIN conceptExtentsList[d]
                        /\ conceptExtentsList'[d][X] = conceptExtentsList[d][X]
                        /\ X \in DOMAIN conceptExtentsNumStep'[d]
                        /\ X \in DOMAIN conceptExtentsNumStep[d]
                        /\ conceptExtentsNumStep'[d][X] = conceptExtentsNumStep[d][X]
                        /\ d = c /\ family.clean => X \in found
           New(d, X) == /\ d = c /\ X \in new
                        /\ conceptExtentsList'[d][X] = num[X]
                        /\ X \in DOMAIN conceptExtentsNumStep'[d]
                        /\ conceptExtentsNumStep'[d][X] = numstep
<1>2. \A d \in Ctxs : \A X \in DOMAIN conceptExtentsList'[d] : Old(d, X) \/ New(d, X)
  <2> SUFFICES ASSUME NEW d \in Ctxs, NEW X \in DOMAIN conceptExtentsList'[d]
               PROVE  Old(d, X) \/ New(d, X)
    OBVIOUS
  <2>1. X \in DOMAIN conceptExtentsList[d] => X \in DOMAIN conceptExtentsNumStep[d]
    BY DEF FInv, NumbersFresh
  <2> QED BY <1>0, <1>1, <2>1, BuildRegisters
<1>3. /\ c \in Ctxs /\ ~ Done(c) /\ current = numstep /\ current' = numstep /\ numstep \in Nat
      /\ \A d \in Ctxs : Done(d)' <=> Done(d) \/ d = c
      /\ DOMAIN order = Ctxs
      /\ order' = [order EXCEPT ![c] = {[id |-> num[X], ext |-> X] : X \in found}]
      /\ UNCHANGED <<names, conceptOrderFamilies>>
  BY <1>0, <1>1, BuildDone
<1>4. /\ family' = family /\ Ctxs' = Ctxs /\ Rels' = Rels
  BY <1>0, SameFamily
<1>5. /\ \A X \in DOMAIN conceptExtentsList[c] : num[X] = conceptExtentsList[c][X]
      /\ newConcept' = (newConcept \/ new # {})
      /\ \A X \in new : maxRegisteredConcept < num[X] /\ num[X] \in Nat
      /\ found = Extents(Objs(c), ColumnsOf(c))
  BY <1>1 DEF Built, ColumnsOf
<1>6. \A d \in Ctxs : order'[d] = IF d = c THEN {[id |-> num[X], ext |-> X] : X \in found} ELSE order[d]
  BY <1>3
<1> HIDE DEF new
<1>7. NamesIndexed' /\ NamesOnce'
  BY <1>3, <1>4 DEF FInv, NamesIndexed, NamesOnce, names, ToSet, Native
<1>8. IndexOld'
  BY <1>0, <1>3, <1>4, SameFamily DEF FInv, IndexOld, names, Native
<1>9. NumbersFresh'
  <2> SUFFICES ASSUME NEW d \in Ctxs, NEW X \in DOMAIN conceptExtentsList'[d]
               PROVE  /\ X \in DOMAIN conceptExtentsNumStep'[d]
                      /\ conceptExtentsNumStep'[d][X] \in 0 .. numstep
                      /\ ~ Done(d)' => conceptExtentsNumStep'[d][X] # numstep
                      /\ \A j \in 1 .. conceptExtentsNumStep'[d][X] : \A x \in conceptOrderFamilies[j][d] :
                           x.id # conceptExtentsList'[d][X]
    BY <1>3, <1>4 DEF NumbersFresh
  <2>1. CASE Old(d, X)
    BY <1>3, <2>1 DEF FInv, NumbersFresh
  <2>2. CASE New(d, X)
    <3>1. ASSUME NEW j \in 1 .. numstep, NEW x \in conceptOrderFamilies[j][c]
          PROVE  x.id # num[X]
      <4>1. x \in Past(c)
        BY <1>0, <3>1, StepCount DEF Past
      <4>2. x \in Known(c)
        BY <4>1 DEF Known
      <4>3. x.id <= maxRegisteredConcept /\ x.id \in Nat /\ maxRegisteredConcept \in Int
        BY <1>0, <1>3, <4>2, KnownIds DEF NInv, Numbered, Typed
      <4>4. maxRegisteredConcept < num[X] /\ num[X] \in Int
        BY <1>5, <2>2
      <4> QED BY <4>3, <4>4
    <3> QED BY <1>3, <2>2, <3>1
  <2> QED BY <1>2, <2>1, <2>2
<1>10. OlderScaled'
  <2> SUFFICES ASSUME NEW r \in Rels, NEW X \in DOMAIN conceptExtentsList'[family.rels[r].target],
                      conceptExtentsNumStep'[family.rels[r].target][X] < numstep
               PROVE  \E a \in ToSet(attrs[family.rels[r].source]) :
                        a.of = Name(r, conceptExtentsList'[family.rels[r].target][X])
    BY <1>3, <1>4 DEF OlderScaled, names, ToSet, Name
  <2> DEFINE t == family.rels[r].target
  <2>1. t \in Ctxs
    BY <1>0, FamilyFacts DEF Typed
  <2>2. Old(t, X)
    BY <1>2, <1>3, <2>1
  <2> QED BY <1>3, <2>2 DEF FInv, OlderScaled
<1>11. CurrentOrdered'
  <2> SUFFICES ASSUME NEW d \in Ctxs, Done(d) \/ d = c, NEW X \in DOMAIN conceptExtentsList'[d],
                      family.clean \/ conceptExtentsNumStep'[d][X] = numstep
               PROVE  [id |-> conceptExtentsList'[d][X], ext |-> X] \in order'[d]
    BY <1>3, <1>4 DEF CurrentOrdered
  <2>1. CASE d = c /\ X \in found
    <3>1. conceptExtentsList'[d][X] = num[X]
      BY <1>2, <1>5, <2>1
    <3> QED BY <1>6, <2>1, <3>1
  <2>2. CASE d = c /\ X \notin found
    <3>1. Old(d, X) /\ ~ family.clean
      BY <1>2, <2>2 DEF new
    <3>2. conceptExtentsNumStep[c][X] # numstep
      BY <1>3, <2>2, <3>1 DEF FInv, NumbersFresh
    <3> QED BY <2>2, <3>1, <3>2
  <2>3. CASE d # c
    <3>1. Old(d, X)
      BY <1>2, <2>3
    <3> QED BY <1>3, <1>6, <2>3, <3>1 DEF FInv, CurrentOrdered
  <2> QED BY <2>1, <2>2, <2>3
<1>12. NothingNew'
  <2> SUFFICES ASSUME ~ newConcept', NEW d \in Ctxs, NEW X \in DOMAIN conceptExtentsList'[d]
               PROVE  conceptExtentsNumStep'[d][X] # numstep
    BY <1>3, <1>4 DEF NothingNew
  <2>1. ~ newConcept /\ Old(d, X)
    BY <1>2, <1>5
  <2> QED BY <1>3, <2>1 DEF FInv, NothingNew
<1>13. Followed'
  <2>1. \A d : ColumnsOf(d)' = ColumnsOf(d)
    BY <1>3 DEF ColumnsOf, names, ToSet
  <2>2. ASSUME ~ family.clean, NEW d \in Ctxs
        PROVE  /\ ColumnsOf(d) = Cols(numstep)[d]
               /\ Done(d) => {x.ext : x \in order[d]} = Extents(Objs(d), ColumnsOf(d))
    BY <1>3, <2>2 DEF FInv, Followed
  <2>3. {x.ext : x \in order'[c]} = found
    <3> DEFINE T == {[id |-> num[X], ext |-> X] : X \in found}
    <3>1. order'[c] = T
      BY <1>3, <1>6
    <3>2. \A x \in T : x.ext \in found
      OBVIOUS
    <3>3. \A X \in found : \E x \in T : x.ext = X
      <4> TAKE X \in found
      <4>1. [id |-> num[X], ext |-> X] \in T /\ [id |-> num[X], ext |-> X].ext = X
        OBVIOUS
      <4> QED BY <4>1
    <3> HIDE DEF T
    <3> QED BY <3>1, <3>2, <3>3
  <2>4. ASSUME NEW d \in Ctxs, ~ family.clean, Done(d) \/ d = c
        PROVE  {x.ext : x \in order'[d]} = Extents(Objs(d), ColumnsOf(d))
    <3>1. CASE d = c
      BY <1>5, <2>3, <3>1
    <3>2. CASE d # c
      BY <1>6, <2>2, <2>4, <3>2
    <3> QED BY <3>1, <3>2
  <2> QED BY <1>0, <1>3, <2>1, <2>2, <2>4, SameFamily DEF Followed
<1> QED BY <1>7, <1>8, <1>9, <1>10, <1>11, <1>12, <1>13 DEF FInv

LEMMA FollowsInitially ==
  ASSUME Init, NInv
  PROVE  FInv
<1>1. /\ family \in Families /\ numstep = 0 /\ current = -1 /\ step = "extend"
      /\ relAttrsIndex = {} /\ newConcept = FALSE
      /\ attrs = [c \in Ctxs |-> [k \in DOMAIN family.ctxs[c].cols |->
                                    [ext |-> family.ctxs[c].cols[k], of |-> Native]]]
      /\ \A c \in Ctxs : DOMAIN conceptExtentsList[c] = {}
  BY DEF Init, numstep, current, BetweenSteps
<1>2. \A c \in Ctxs : /\ DOMAIN attrs[c] = DOMAIN family.ctxs[c].cols
                      /\ \A k \in DOMAIN attrs[c] : attrs[c][k].of = Native /\ attrs[c][k].ext = family.ctxs[c].cols[k]
  BY <1>1
<1>3. NamesIndexed /\ NamesOnce /\ IndexOld
  BY <1>1, <1>2 DEF NamesIndexed, NamesOnce, IndexOld, ToSet
<1>4. NumbersFresh /\ CurrentOrdered /\ NothingNew
  BY <1>1 DEF NumbersFresh, CurrentOrdered, NothingNew
<1>5. OlderScaled
  BY <1>1, FamilyFacts DEF OlderScaled
<1>6. \A c \in Ctxs : ColumnsOf(c) = Given[c]
  <2> TAKE c \in Ctxs
  <2>1. Given[c] = ToSet(family.ctxs[c].cols)
    BY DEF Given
  <2>2. \A a \in ToSet(attrs[c]) : a.ext \in ToSet(family.ctxs[c].cols)
    BY <1>2 DEF ToSet
  <2>3. \A X \in ToSet(family.ctxs[c].cols) : \E a \in ToSet(attrs[c]) : a.ext = X
    BY <1>2 DEF ToSet
  <2> QED BY <2>1, <2>2, <2>3 DEF ColumnsOf
<1>7. Cols(0) = Given
  BY <1>1, ColsByStep
<1>8. Followed
  BY <1>1, <1>6, <1>7 DEF Followed
<1> QED BY <1>3, <1>4, <1>5, <1>8 DEF FInv

LEMMA StutterFollows ==
  ASSUME FInv, UNCHANGED vars, NInv'
  PROVE  FInv'
<1>1. [Next]_vars
  OBVIOUS
<1>2. UNCHANGED <<family, names, registers, order, conceptOrderFamilies, step, at>>
  BY DEF vars
<1>3. current' = current /\ \A c : Done(c)' = Done(c) /\ ColumnsOf(c)' = ColumnsOf(c)
  BY <1>2 DEF current, BetweenSteps, numstep, Done, ColumnsOf, names, ToSet
<1>4. NamesIndexed' /\ NamesOnce' /\ IndexOld'
  BY <1>1, <1>2, <1>3, SameFamily DEF FInv, NamesIndexed, NamesOnce, IndexOld, names, ToSet, Native
<1>5. NumbersFresh' /\ CurrentOrdered' /\ NothingNew'
  BY <1>1, <1>2, <1>3, SameFamily DEF FInv, NumbersFresh, CurrentOrdered, NothingNew, registers
<1>6. OlderScaled'
  BY <1>1, <1>2, <1>3, SameFamily DEF FInv, OlderScaled, names, registers, ToSet, Name
<1>7. Followed'
  BY <1>1, <1>2, <1>3, SameFamily DEF FInv, Followed
<1> QED BY <1>4, <1>5, <1>6, <1>7 DEF FInv

LEMMA FollowsInductive == Spec => []FInv
<1>1. Init /\ NInv => FInv
  BY FollowsInitially
<1>2. FInv /\ [Next]_vars /\ NInv' => FInv'
  <2> SUFFICES ASSUME FInv, [Next]_vars, NInv' PROVE FInv'
    OBVIOUS
  <2>1. CASE Extend
    BY <2>1, ExtendFollows
  <2>2. CASE BuildOrder
    BY <2>2, BuildFollows
  <2>3. CASE Decide
    BY <2>3, DecideFollows
  <2>4. CASE UNCHANGED vars
    BY <2>4, StutterFollows
  <2> QED BY <2>1, <2>2, <2>3, <2>4 DEF Next, Ended
<1> QED BY <1>1, <1>2, NamesInductive, PTL DEF Spec

\* When the last step has found nothing, every concept of its orders has been
\* scaled already.
LEMMA AllScaled ==
  ASSUME FInv, BetweenSteps, numstep > 0, ~ newConcept, NEW r \in Rels, NEW x \in order[family.rels[r].target]
  PROVE  \E a \in ToSet(attrs[family.rels[r].source]) : a.of = Name(r, x.id) /\ a.ext = Column(r, x.ext)
<1> DEFINE t == family.rels[r].target
           c == family.rels[r].source
<1>0. NInv /\ t \in Ctxs /\ c \in Ctxs /\ numstep \in Nat /\ current = numstep - 1
  BY FamilyFacts, StepCount DEF FInv, NInv, Typed
<1>1. /\ x.ext \in DOMAIN conceptExtentsList[t] /\ x.id = conceptExtentsList[t][x.ext] /\ x \in Known(t)
  BY <1>0, OrderKnown DEF NInv
<1>2. conceptExtentsNumStep[t][x.ext] \in 0 .. current /\ conceptExtentsNumStep[t][x.ext] # current
  BY <1>0, <1>1 DEF FInv, NumbersFresh, NothingNew
<1>3. conceptExtentsNumStep[t][x.ext] < current
  BY <1>0, <1>2
<1>4. PICK a \in ToSet(attrs[c]) : a.of = Name(r, x.id)
  BY <1>1, <1>3 DEF FInv, OlderScaled
<1>5. a.ext = Column(r, x.ext)
  BY <1>0, <1>1, <1>4, NameMeans
<1> QED BY <1>4, <1>5

LEMMA FollowsDefinition == FInv => StepsFollowDefinition
<1> SUFFICES ASSUME FInv, BetweenSteps, numstep > 0
             PROVE  /\ ~ family.clean => \A c \in Ctxs :
                         {x.ext : x \in order[c]} = Extents(family.ctxs[c].objs, Cols(numstep - 1)[c])
                    /\ step = "end" /\ ~ newConcept =>
                         /\ ~ family.clean => Cols(numstep) = Cols(numstep - 1)
                         /\ \A r \in Rels : \A x \in order[family.rels[r].target] :
                              Cardinality({k \in DOMAIN attrs[family.rels[r].source] :
                                             attrs[family.rels[r].source][k].of = Name(r, x.id)}) = 1
  BY DEF StepsFollowDefinition
<1>0. /\ NInv /\ family \in Families /\ numstep \in Nat /\ current = numstep - 1 /\ current # -1
      /\ \A c \in Ctxs : Done(c)
  BY StepCount DEF FInv, NInv, Typed, BetweenSteps, Done
<1>1. ~ family.clean =>
        \A c \in Ctxs : /\ ColumnsOf(c) = Cols(numstep - 1)[c]
                        /\ {x.ext : x \in order[c]} = Extents(family.ctxs[c].objs, Cols(numstep - 1)[c])
  BY <1>0 DEF FInv, Followed, Objs
<1>2. ASSUME ~ newConcept, ~ family.clean
      PROVE  Cols(numstep) = Cols(numstep - 1)
  <2> DEFINE before == Cols(numstep - 1)
             E(r) == LET t == family.rels[r].target
                     IN  Extents(family.ctxs[t].objs, before[t])
  <2>1. Cols(numstep) = Widened(before)
    <3> DEFINE n == numstep - 1
    <3>1. n \in Nat /\ n + 1 = numstep
      BY <1>0
    <3> HIDE DEF n
    <3>2. Cols(n + 1) = Widened(Cols(n))
      BY <1>0, <3>1, ColsByStep
    <3> QED BY <3>1, <3>2 DEF n
  <2>2. before = [c \in Ctxs |-> before[c]]
    <3>1. CASE numstep - 1 = 0
      BY <1>0, <3>1, ColsByStep DEF Given
    <3>2. CASE numstep - 1 # 0
      <4> DEFINE n == numstep - 2
      <4>1. n \in Nat /\ n + 1 = numstep - 1
        BY <1>0, <3>2
      <4> HIDE DEF n
      <4>2. Cols(n + 1) = Widened(Cols(n))
        BY <1>0, <4>1, ColsByStep
      <4> QED BY <4>1, <4>2 DEF Widened
    <3> QED BY <3>1, <3>2
  <2>3. ASSUME NEW r \in Rels, NEW X \in E(r)
        PROVE  Column(r, X) \in before[family.rels[r].source]
    <3>1. family.rels[r].target \in Ctxs /\ family.rels[r].source \in Ctxs
      BY <1>0, FamilyFacts
    <3>2. PICK x \in order[family.rels[r].target] : x.ext = X
      BY <1>1, <1>2, <2>3, <3>1
    <3>3. PICK a \in ToSet(attrs[family.rels[r].source]) : a.ext = Column(r, X)
      BY <1>2, <3>2, AllScaled
    <3> QED BY <1>1, <1>2, <3>1, <3>3 DEF ColumnsOf
  <2>4. Widened(before) =
          [c \in Ctxs |-> before[c] \cup UNION {{Column(r, X) : X \in E(r)} :
                                               r \in {s \in Rels : family.rels[s].source = c}}]
    BY DEF Widened
  <2> HIDE DEF before, E
  <2>5. \A c \in Ctxs :
          before[c] \cup UNION {{Column(r, X) : X \in E(r)} :
                               r \in {s \in Rels : family.rels[s].source = c}} = before[c]
    BY <2>3
  <2>6. Widened(before) = [c \in Ctxs |-> before[c]]
    BY <2>4, <2>5
  <2> QED BY <2>1, <2>2, <2>6 DEF before
<1>3. ASSUME ~ newConcept, NEW r \in Rels, NEW x \in order[family.rels[r].target]
      PROVE  Cardinality({k \in DOMAIN attrs[family.rels[r].source] :
                            attrs[family.rels[r].source][k].of = Name(r, x.id)}) = 1
  <2> DEFINE s == attrs[family.rels[r].source]
             I == {k \in DOMAIN s : s[k].of = Name(r, x.id)}
  <2>1. PICK a \in ToSet(s) : a.of = Name(r, x.id)
    BY <1>3, AllScaled
  <2>2. PICK k \in DOMAIN s : s[k] = a
    BY <2>1 DEF ToSet
  <2>3. family.rels[r].source \in Ctxs /\ Name(r, x.id) # Native
    BY <1>0, FamilyFacts DEF Name, Native
  <2>4. \A j \in DOMAIN s : s[j].of = Name(r, x.id) => j = k
    BY <2>1, <2>2, <2>3 DEF FInv, NamesOnce
  <2>5. I = {k}
    BY <2>1, <2>2, <2>4
  <2> QED BY <2>5, FS_Singleton
<1> QED BY <1>1, <1>2, <1>3

\* Scaling only the concepts that the step before has created loses nothing.
\* The number of a concept that is new is above every number used before, so
\* its name cannot be taken; whatever an earlier step registered, or with
\* -clean has kept, has its attribute.  The orders of generateConceptOrders are
\* therefore those of the definition, and a step that finds nothing closes the
\* family.
THEOREM StepsCorrect == Spec => []StepsFollowDefinition
BY FollowsInductive, FollowsDefinition, PTL
=============================================================================
