------------------------- MODULE BatchCursorProofs -------------------------
(***************************************************************************)
(* Proofs that the threads of a pass share the concepts out exactly, for   *)
(* every number of threads, batch and size that leave the cursor room.     *)
(***************************************************************************)
EXTENDS BatchCursor, FiniteSetTheorems, TLAPS

Exited == {t \in Threads : pc[t] = "exit"}

\* A batch lies within 0 .. total - 1 and below the cursor.
BatchShape ==
  \A t \in Threads :
    pc[t] = "batch" => /\ 0 <= at[t] /\ at[t] <= stop[t]
                       /\ stop[t] <= total /\ stop[t] <= cursor

\* A thread leaves only once the cursor has passed the end.
ExitedLate == \A t \in Threads : pc[t] = "exit" => cursor >= total

\* The first thread is always created.
FirstCreated == pc[1] # "none"

\* What is handled lies within 0 .. total - 1 and below the cursor.
HandledShape ==
  \A t \in Threads : \A c \in handled[t] :
    c \in Int /\ 0 <= c /\ c < total /\ c < cursor

IInv ==
  /\ TypeOK
  /\ BatchShape
  /\ ExitedLate /\ FirstCreated
  /\ HandledShape
  /\ OneThreadEach
  /\ CursorBound

-----------------------------------------------------------------------------
LEMMA ExitedFinite ==
  /\ IsFiniteSet(Exited) /\ Cardinality(Exited) \in Nat
  /\ \A t \in Threads \ Exited : Cardinality(Exited) + 1 <= NThreads
<1>1. IsFiniteSet(Threads) /\ Cardinality(Threads) = NThreads
  BY ThreadsAssumption, FS_Interval DEF Threads
<1>2. IsFiniteSet(Exited) /\ Cardinality(Exited) \in Nat
  BY <1>1, FS_Subset, FS_CardinalityType DEF Exited
<1>3. ASSUME NEW t \in Threads \ Exited
      PROVE  Cardinality(Exited) + 1 <= NThreads
  <2>1. Cardinality(Exited \cup {t}) = Cardinality(Exited) + 1
    BY <1>2, FS_AddElement
  <2>2. Exited \cup {t} \subseteq Threads
    BY DEF Exited
  <2>3. Cardinality(Exited \cup {t}) <= Cardinality(Threads)
    BY <2>2, <1>1, FS_Subset
  <2> QED BY <1>1, <2>1, <2>3
<1> QED BY <1>2, <1>3

\* While a thread is still fetching there is room for its addition.
LEMMA NoWrap ==
  ASSUME TypeOK, CursorBound, NEW t \in Threads, pc[t] # "exit"
  PROVE  Wrap(cursor + Batch) = cursor + Batch
<1>1. total \in Nat
      /\ total - 1 + Batch * (NThreads + 1) <= IntMax
  <2> DEFINE room == Batch * (NThreads + 1)
  <2>1. room \in Int /\ MaxSize - 1 + room <= IntMax /\ MaxSize \in Nat
    BY RoomAssumption, BatchAssumption, ThreadsAssumption
  <2> HIDE DEF room
  <2>2. total \in Nat /\ total - 1 + room <= IntMax
    BY <2>1, BatchAssumption DEF TypeOK
  <2> QED BY <2>2 DEF room
<1>2. Cardinality(Exited) \in Nat /\ NThreads \in Nat
      /\ Cardinality(Exited) + 1 <= NThreads
  BY ExitedFinite, ThreadsAssumption DEF Exited
<1>3. cursor <= total - 1 + Batch * (1 + Cardinality(Exited))
  BY DEF CursorBound, Exited
<1>4. Batch * (1 + Cardinality(Exited)) + Batch
        <= Batch * (NThreads + 1)
  <2> DEFINE e == Cardinality(Exited)
             n == NThreads
  <2>1. e \in Nat /\ n \in Nat /\ e + 1 <= n /\ Batch \in Nat
    BY <1>2, BatchAssumption
  <2> HIDE DEF e, n
  <2>2. Batch * (1 + e) + Batch = Batch * (e + 2) /\ e + 2 <= n + 1
    BY <2>1
  <2>3. Batch * (e + 2) <= Batch * (n + 1)
    BY <2>1, <2>2
  <2> QED BY <2>2, <2>3 DEF e, n
<1>5. cursor + Batch <= IntMax
  <2> DEFINE x == Batch * (1 + Cardinality(Exited))
             y == Batch * (NThreads + 1)
  <2>1. x \in Int /\ y \in Int /\ Batch \in Nat /\ cursor \in Int /\ IntMax \in Nat
    BY <1>2, BatchAssumption DEF TypeOK
  <2> HIDE DEF x, y
  <2>2. total - 1 + y <= IntMax /\ cursor <= total - 1 + x /\ x + Batch <= y
    BY <1>1, <1>3, <1>4 DEF x, y
  <2> QED BY <2>1, <2>2, <1>1
<1> QED BY <1>5, BatchAssumption DEF Wrap, TypeOK

LEMMA InitIInv == Init => IInv
<1> SUFFICES ASSUME Init PROVE IInv
  OBVIOUS
<1>1. TypeOK /\ total \in Nat
  BY RoomAssumption DEF Init, Created, Zero, TypeOK, Places
<1>2. BatchShape /\ ExitedLate /\ FirstCreated /\ HandledShape
  BY <1>1, ThreadsAssumption DEF Init, Created, Zero, BatchShape, ExitedLate,
                                 FirstCreated, HandledShape, Threads
<1>3. OneThreadEach
  BY ThreadsAssumption DEF Init, Created, Zero, OneThreadEach, Rest
<1>4. CursorBound
  <2>1. Exited = {}
    BY DEF Init, Created, Zero, Exited
  <2>2. Cardinality(Exited) = 0
    BY <2>1, FS_EmptySet
  <2> QED BY <1>1, <2>2, BatchAssumption DEF CursorBound, Exited, Init
<1> QED BY <1>1, <1>2, <1>3, <1>4 DEF IInv

LEMMA StepType == IInv /\ [Next]_vars => TypeOK'
<1> SUFFICES ASSUME IInv, [Next]_vars PROVE TypeOK'
  OBVIOUS
<1> USE DEF IInv, TypeOK, Places
<1>0. total \in Nat /\ Batch \in Nat /\ IntMax \in Nat /\ MaxSize \in Nat
  BY RoomAssumption, BatchAssumption
<1>1. Wrap(cursor + Batch) \in Int
  BY <1>0 DEF Wrap
<1>2. CASE UNCHANGED vars
  BY <1>2 DEF vars
<1>3. ASSUME NEW t \in Threads, Fetch(t) PROVE TypeOK'
  <2>1. Wrap(cursor + Batch) = cursor + Batch /\ 0 <= cursor /\ cursor < total
    BY <1>3, NoWrap DEF Fetch, CursorBound
  <2>2. cursor \in 0 .. MaxSize
        /\ (IF cursor + Batch > total THEN total ELSE cursor + Batch) \in 0 .. MaxSize
    BY <1>0, <2>1
  <2> QED BY <1>0, <1>1, <1>3, <2>1, <2>2 DEF Fetch
<1>4. ASSUME NEW t \in Threads, FetchEnd(t) PROVE TypeOK'
  BY <1>0, <1>1, <1>4 DEF FetchEnd
<1>5. ASSUME NEW t \in Threads, Handle(t) PROVE TypeOK'
  <2>1. at[t] + 1 \in 0 .. MaxSize /\ at[t] \in Int
    BY <1>0, <1>5 DEF Handle, BatchShape
  <2> QED BY <1>0, <1>5, <2>1 DEF Handle
<1>6. ASSUME NEW t \in Threads, BatchDone(t) PROVE TypeOK'
  BY <1>6 DEF BatchDone
<1>7. CASE Restart
  <2>1. Zero \in [Threads -> 0 .. MaxSize]
    BY <1>0 DEF Zero
  <2> QED BY <1>7, <2>1 DEF Restart, Created
<1> QED BY <1>2, <1>3, <1>4, <1>5, <1>6, <1>7 DEF Next, Step

LEMMA StepShape ==
  IInv /\ [Next]_vars => (BatchShape /\ ExitedLate /\ FirstCreated /\ HandledShape)'
<1> SUFFICES ASSUME IInv, [Next]_vars
             PROVE  (BatchShape /\ ExitedLate /\ FirstCreated /\ HandledShape)'
  OBVIOUS
<1> USE DEF IInv, TypeOK, BatchShape, ExitedLate, FirstCreated, HandledShape
<1>0. total \in Nat /\ Batch \in Nat /\ Batch > 0 /\ cursor >= 0
  BY RoomAssumption, BatchAssumption DEF CursorBound
<1>2. CASE UNCHANGED vars
  BY <1>2 DEF vars
<1>3. ASSUME NEW t \in Threads, Fetch(t)
      PROVE  (BatchShape /\ ExitedLate /\ FirstCreated /\ HandledShape)'
  <2>1. cursor' = cursor + Batch /\ total' = total
    BY <1>3, NoWrap DEF Fetch
  <2>2. BatchShape'
    BY <1>0, <1>3, <2>1 DEF Fetch
  <2>3. ExitedLate' /\ FirstCreated' /\ HandledShape'
    BY <1>0, <1>3, <2>1 DEF Fetch
  <2> QED BY <2>2, <2>3
<1>4. ASSUME NEW t \in Threads, FetchEnd(t)
      PROVE  (BatchShape /\ ExitedLate /\ FirstCreated /\ HandledShape)'
  <2>1. cursor' = cursor + Batch /\ total' = total
    BY <1>4, NoWrap DEF FetchEnd
  <2>2. BatchShape'
    BY <1>0, <1>4, <2>1 DEF FetchEnd
  <2>3. ExitedLate' /\ FirstCreated' /\ HandledShape'
    BY <1>0, <1>4, <2>1 DEF FetchEnd
  <2> QED BY <2>2, <2>3
<1>5. ASSUME NEW t \in Threads, Handle(t)
      PROVE  (BatchShape /\ ExitedLate /\ FirstCreated /\ HandledShape)'
  <2>1. BatchShape' /\ ExitedLate' /\ FirstCreated'
    BY <1>0, <1>5 DEF Handle
  <2>2. HandledShape'
    BY <1>0, <1>5 DEF Handle
  <2> QED BY <2>1, <2>2
<1>6. ASSUME NEW t \in Threads, BatchDone(t)
      PROVE  (BatchShape /\ ExitedLate /\ FirstCreated /\ HandledShape)'
  BY <1>0, <1>6 DEF BatchDone
<1>7. CASE Restart
  BY <1>0, <1>7, ThreadsAssumption DEF Restart, Created, Zero, Threads
<1> QED BY <1>2, <1>3, <1>4, <1>5, <1>6, <1>7 DEF Next, Step

LEMMA StepOneThreadEach == IInv /\ [Next]_vars => OneThreadEach'
<1> SUFFICES ASSUME IInv, [Next]_vars PROVE OneThreadEach'
  OBVIOUS
<1> USE DEF IInv
<1>0. total \in Nat /\ Batch \in Nat /\ Batch > 0 /\ cursor \in Nat
  BY RoomAssumption, BatchAssumption DEF CursorBound, TypeOK
<1>2. CASE UNCHANGED vars
  BY <1>2 DEF vars, OneThreadEach, Rest
<1>3. ASSUME NEW t \in Threads, Fetch(t) PROVE OneThreadEach'
  <2>1. cursor' = cursor + Batch /\ total' = total /\ handled' = handled
        /\ cursor < total
    BY <1>3, NoWrap DEF Fetch
  <2>2. \A u \in Threads \ {t} : Rest(u)' = Rest(u)
    BY <1>3 DEF Fetch, Rest, TypeOK
  <2>3. Rest(t) = {}
    BY <1>3 DEF Fetch, Rest
  <2>4. \A c \in 0 .. total - 1 :
          c \in Rest(t)' <=> cursor <= c /\ c < cursor + Batch
    BY <1>0, <1>3, <2>1 DEF Fetch, Rest, TypeOK
  <2>5. ASSUME NEW c \in 0 .. total - 1, c < cursor
        PROVE  \A u \in Threads : c \in Rest(u)' <=> c \in Rest(u)
    BY <1>0, <2>2, <2>3, <2>4, <2>5
  <2>6. ASSUME NEW c \in 0 .. total - 1, c >= cursor
        PROVE  \A u \in Threads : /\ c \notin handled[u]
                                  /\ c \in Rest(u)' => u = t
    BY <1>0, <2>2, <2>6 DEF OneThreadEach, TypeOK
  <2>7. ASSUME NEW c \in (0 .. total - 1)'
        PROVE  /\ c < cursor' => \E u \in Threads : c \in (handled[u] \cup Rest(u))'
               /\ \A u, v \in Threads :
                    c \in (handled[u] \cup Rest(u))'
                    /\ c \in (handled[v] \cup Rest(v))' => u = v
               /\ \A u \in Threads :
                    c \in (handled[u] \cup Rest(u))' =>
                      c < cursor' /\ ~(c \in handled'[u] /\ c \in Rest(u)')
    <3>1. c \in 0 .. total - 1 /\ c \in Int
      BY <2>1
    <3>2. CASE c < cursor
      <4>1. \A u \in Threads : c \in (handled[u] \cup Rest(u))'
                                <=> c \in handled[u] \cup Rest(u)
        BY <2>1, <2>5, <3>1, <3>2
      <4>2. c < cursor'
        BY <1>0, <2>1, <3>1, <3>2
      <4> QED BY <2>1, <2>5, <3>1, <3>2, <4>1, <4>2 DEF OneThreadEach
    <3>3. CASE c >= cursor
      <4>1. c < cursor' => c \in Rest(t)'
        BY <2>1, <2>4, <3>1, <3>3
      <4>2. \A u \in Threads : c \in Rest(u)' => u = t /\ c < cursor'
        BY <2>1, <2>4, <2>6, <3>1, <3>3
      <4> QED BY <2>1, <2>6, <3>1, <3>3, <4>1, <4>2
    <3> QED BY <1>0, <3>1, <3>2, <3>3
  <2> QED BY <2>7 DEF OneThreadEach
<1>4. ASSUME NEW t \in Threads, FetchEnd(t) PROVE OneThreadEach'
  <2>1. cursor' = cursor + Batch /\ total' = total /\ handled' = handled
        /\ cursor >= total
    BY <1>4, NoWrap DEF FetchEnd
  <2>2. \A u \in Threads : Rest(u)' = Rest(u)
    BY <1>4 DEF FetchEnd, Rest, TypeOK
  <2>3. \A c \in 0 .. total - 1 : c < cursor /\ c < cursor'
    BY <1>0, <2>1
  <2> QED BY <2>1, <2>2, <2>3 DEF OneThreadEach
<1>5. ASSUME NEW t \in Threads, Handle(t) PROVE OneThreadEach'
  <2>1. cursor' = cursor /\ total' = total
    BY <1>5 DEF Handle
  <2>2. \A u \in Threads \ {t} : Rest(u)' = Rest(u) /\ handled'[u] = handled[u]
    BY <1>5 DEF Handle, Rest, TypeOK
  <2>3. /\ at[t] \in Rest(t)
        /\ Rest(t)' = Rest(t) \ {at[t]}
        /\ handled'[t] = handled[t] \cup {at[t]}
    BY <1>5 DEF Handle, Rest, TypeOK
  <2>4. \A u \in Threads : (handled[u] \cup Rest(u))' = handled[u] \cup Rest(u)
    BY <2>2, <2>3
  <2>5. \A c \in 0 .. total - 1 : \A u \in Threads :
          ~(c \in handled[u] /\ c \in Rest(u))
          => ~(c \in handled'[u] /\ c \in Rest(u)')
    BY <2>2, <2>3
  <2> QED BY <2>1, <2>4, <2>5 DEF OneThreadEach
<1>6. ASSUME NEW t \in Threads, BatchDone(t) PROVE OneThreadEach'
  <2>1. cursor' = cursor /\ total' = total /\ handled' = handled
    BY <1>6 DEF BatchDone
  <2>2. \A u \in Threads : Rest(u)' = Rest(u)
    BY <1>6 DEF BatchDone, Rest, TypeOK
  <2> QED BY <2>1, <2>2 DEF OneThreadEach
<1>7. CASE Restart
  <2>1. total' = total /\ cursor' = 0 /\ \A t \in Threads : handled'[t] = {}
    BY <1>7 DEF Restart
  <2>2. \A t \in Threads : Rest(t)' = {}
    BY <1>7 DEF Restart, Created, Rest
  <2> QED BY <1>0, <2>1, <2>2 DEF OneThreadEach
<1> QED BY <1>2, <1>3, <1>4, <1>5, <1>6, <1>7 DEF Next, Step

LEMMA StepCursorBound == IInv /\ [Next]_vars => CursorBound'
<1> SUFFICES ASSUME IInv, [Next]_vars PROVE CursorBound'
  OBVIOUS
<1> USE DEF IInv
<1> DEFINE e == Cardinality(Exited)
<1>0. total \in Nat /\ Batch \in Nat /\ Batch > 0 /\ cursor \in Nat /\ e \in Nat
  BY RoomAssumption, BatchAssumption, ExitedFinite DEF CursorBound, TypeOK
<1>1. cursor <= total - 1 + Batch * (1 + e)
  BY DEF CursorBound, Exited
<1>2. SUFFICES 0 <= cursor' /\ cursor' <= total' - 1 + Batch * (1 + e')
  BY DEF CursorBound, Exited
<1>3. ASSUME NEW t \in Threads, Fetch(t)
      PROVE  0 <= cursor' /\ cursor' <= total' - 1 + Batch * (1 + e')
  <2>1. cursor' = cursor + Batch /\ total' = total /\ cursor < total
    BY <1>3, NoWrap DEF Fetch
  <2>2. Exited' = Exited
    BY <1>3 DEF Fetch, Exited, TypeOK
  <2>3. e' = e
    BY <2>2
  <2> HIDE DEF e
  <2>4. Batch * (1 + e) >= Batch
    BY <1>0
  <2> QED BY <1>0, <2>1, <2>3, <2>4
<1>4. ASSUME NEW t \in Threads, FetchEnd(t)
      PROVE  0 <= cursor' /\ cursor' <= total' - 1 + Batch * (1 + e')
  <2>1. cursor' = cursor + Batch /\ total' = total
    BY <1>4, NoWrap DEF FetchEnd
  <2>2. Exited' = Exited \cup {t} /\ t \notin Exited
    BY <1>4 DEF FetchEnd, Exited, TypeOK
  <2>3. e' = e + 1
    BY <2>2, ExitedFinite, FS_AddElement
  <2> HIDE DEF e
  <2>4. Batch * (1 + (e + 1)) = Batch * (1 + e) + Batch
    BY <1>0
  <2>5. Batch * (1 + e) \in Int
    BY <1>0
  <2> QED BY <1>0, <1>1, <2>1, <2>3, <2>4, <2>5
<1>5. ASSUME UNCHANGED <<cursor, total>>, Exited' = Exited
      PROVE  0 <= cursor' /\ cursor' <= total' - 1 + Batch * (1 + e')
  <2>1. e' = e
    BY <1>5
  <2> QED BY <1>0, <1>1, <1>5, <2>1
<1>6. CASE UNCHANGED vars
  BY <1>5, <1>6 DEF vars, Exited
<1>7. ASSUME NEW t \in Threads, Handle(t) \/ BatchDone(t)
      PROVE  0 <= cursor' /\ cursor' <= total' - 1 + Batch * (1 + e')
  <2>1. UNCHANGED <<cursor, total>> /\ Exited' = Exited
    BY <1>7 DEF Handle, BatchDone, Exited, TypeOK
  <2> QED BY <1>5, <2>1
<1>8. CASE Restart
  <2>1. cursor' = 0 /\ total' = total /\ Exited' = {}
    BY <1>8 DEF Restart, Created, Exited
  <2>2. e' = 0
    BY <2>1, FS_EmptySet
  <2> HIDE DEF e
  <2> QED BY <1>0, <2>1, <2>2
<1> QED BY <1>3, <1>4, <1>6, <1>7, <1>8 DEF Next, Step

\* The invariant that makes the argument inductive.
THEOREM CursorInvariant == Spec => []IInv
<1>1. IInv /\ [Next]_vars => IInv'
  BY StepType, StepShape, StepOneThreadEach, StepCursorBound DEF IInv
<1> QED BY InitIInv, <1>1, PTL DEF Spec

\* No two threads of digest_thread, cover_thread or rex_csr_thread ever handle
\* the same concept, and none handles anything that is not one.
THEOREM ShareCorrect == Spec => [](OneThreadEach /\ InRange)
<1>1. IInv => OneThreadEach /\ InRange
  <2> SUFFICES ASSUME IInv PROVE InRange
    BY DEF IInv
  <2>1. total \in Nat
    BY RoomAssumption DEF IInv, TypeOK
  <2> QED BY <2>1 DEF IInv, TypeOK, InRange, BatchShape, HandledShape, Rest
<1> QED BY CursorInvariant, <1>1, PTL

\* Once the main thread has joined them all, every concept has been handled.
THEOREM PassComplete == Spec => []AllHandled
<1>1. IInv => AllHandled
  <2> SUFFICES ASSUME IInv, Joined
               PROVE  UNION {handled[t] : t \in Threads} = 0 .. total - 1
    BY DEF AllHandled
  <2>1. total \in Nat /\ cursor >= total /\ cursor \in Int
    BY ThreadsAssumption, RoomAssumption
       DEF IInv, Joined, ExitedLate, FirstCreated, TypeOK, Threads
  <2>2. \A t \in Threads : Rest(t) = {}
    BY DEF Joined, Rest
  <2>3. \A c \in 0 .. total - 1 : \E t \in Threads : c \in handled[t]
    BY <2>1, <2>2 DEF IInv, OneThreadEach
  <2>4. \A t \in Threads : handled[t] \subseteq 0 .. total - 1
    BY <2>1 DEF IInv, HandledShape
  <2> QED BY <2>3, <2>4
<1> QED BY CursorInvariant, <1>1, PTL

\* The fetch-and-add of the cursor never wraps.
THEOREM CursorCorrect == Spec => []CursorBound
<1>1. IInv => CursorBound
  BY DEF IInv
<1> QED BY CursorInvariant, <1>1, PTL
=============================================================================
