--------------------------- MODULE JobQueueProofs ---------------------------
(***************************************************************************)
(* Proofs that the safety properties of JobQueue hold for every number of  *)
(* threads, every spawn target, budget and initial capacity.               *)
(***************************************************************************)
EXTENDS JobQueue, FiniteSetTheorems, SequenceTheorems, TLAPS

\* The mutex admits one thread at a time into jq_push.
Exclusion ==
  \A t, u \in Threads : pc[t] = "pushed" /\ pc[u] = "pushed" => t = u

\* busy counts exactly the threads that own a job; this is what lets
\* jq_pop read "busy == 0" as "nobody can publish any more".
BusyCount == busy = Cardinality(At(BusyPlaces))

\* With the mutex free or not, the hint is the length.
HintExact == lenHint = Len(jobs)

IInv ==
  /\ TypeOK
  /\ Exclusion
  /\ BusyCount
  /\ HintExact
  /\ NoEarlyExit
  /\ NoLostWakeup
  /\ NoSleepingForever
  /\ BudgetBound
  /\ LengthBound
  /\ ArrayBound /\ cap > 0

-----------------------------------------------------------------------------
LEMMA AtFinite ==
  ASSUME NEW S
  PROVE  IsFiniteSet(At(S)) /\ Cardinality(At(S)) \in Nat
         /\ Cardinality(At(S)) <= Cardinality(Threads)
         /\ (Cardinality(At(S)) = 0 <=> At(S) = {})
BY ThreadsAssumption, FS_Subset, FS_CardinalityType, FS_EmptySet DEF At

LEMMA ThreadCount == Cardinality(Threads) \in Nat /\ Cardinality(Threads) > 0
BY ThreadsAssumption, FS_CardinalityType, FS_EmptySet

\* When only t enters or leaves the places S, their count changes by one.
LEMMA CountChange ==
  ASSUME NEW t \in Threads, NEW S,
         \A u \in Threads \ {t} : pc'[u] \in S <=> pc[u] \in S
  PROVE  /\ pc[t] \notin S /\ pc'[t] \in S =>
              Cardinality(At(S)') = Cardinality(At(S)) + 1
         /\ pc[t] \in S /\ pc'[t] \notin S =>
              Cardinality(At(S)') = Cardinality(At(S)) - 1
         /\ (pc[t] \in S <=> pc'[t] \in S) =>
              Cardinality(At(S)') = Cardinality(At(S))
<1>1. IsFiniteSet(At(S)) /\ Cardinality(At(S)) \in Nat
  BY AtFinite
<1>2. CASE pc[t] \notin S /\ pc'[t] \in S
  <2>1. At(S)' = At(S) \cup {t} /\ t \notin At(S)
    BY <1>2 DEF At
  <2> QED BY <1>1, <1>2, <2>1, FS_AddElement
<1>3. CASE pc[t] \in S /\ pc'[t] \notin S
  <2>1. At(S)' = At(S) \ {t} /\ t \in At(S)
    BY <1>3 DEF At
  <2> QED BY <1>1, <1>3, <2>1, FS_RemoveElement
<1>4. CASE pc[t] \in S <=> pc'[t] \in S
  <2>1. At(S)' = At(S)
    BY <1>4 DEF At
  <2> QED BY <1>4, <2>1
<1> QED BY <1>2, <1>3, <1>4

LEMMA SeqFacts ==
  ASSUME jobs \in Seq(Jobs)
  PROVE  /\ Len(jobs) \in Nat
         /\ jobs = <<>> <=> Len(jobs) = 0
         /\ jobs # <<>> => /\ SubSeq(jobs, 1, Len(jobs) - 1) \in Seq(Jobs)
                           /\ Len(SubSeq(jobs, 1, Len(jobs) - 1))
                                = Len(jobs) - 1
         /\ \A j \in Jobs : /\ Append(jobs, j) \in Seq(Jobs)
                            /\ Len(Append(jobs, j)) = Len(jobs) + 1
                            /\ Append(jobs, j) # <<>>
<1>1. Len(jobs) \in Nat /\ (jobs = <<>> <=> Len(jobs) = 0)
  BY EmptySeq, LenProperties
<1>2. ASSUME jobs # <<>>
      PROVE  /\ SubSeq(jobs, 1, Len(jobs) - 1) \in Seq(Jobs)
             /\ Len(SubSeq(jobs, 1, Len(jobs) - 1)) = Len(jobs) - 1
  <2> DEFINE n == Len(jobs) - 1
  <2>1. n \in Nat /\ Len(jobs) = n + 1
    BY <1>1, <1>2
  <2>2. \A i \in 1 .. n : jobs[i] \in Jobs
    BY <2>1, ElementOfSeq
  <2> HIDE DEF n
  <2>3. SubSeq(jobs, 1, n) \in Seq(Jobs) /\ Len(SubSeq(jobs, 1, n)) = n
    BY <2>1, <2>2, SubSeqProperties
  <2> QED BY <2>3 DEF n
<1>3. \A j \in Jobs : /\ Append(jobs, j) \in Seq(Jobs)
                     /\ Len(Append(jobs, j)) = Len(jobs) + 1
                     /\ Append(jobs, j) # <<>>
  BY <1>1, AppendProperties
<1> QED BY <1>1, <1>2, <1>3

-----------------------------------------------------------------------------
(***************************************************************************)
(* The invariant holds initially and every step preserves it.              *)
(***************************************************************************)
LEMMA InitIInv == Init => IInv
<1> SUFFICES ASSUME Init PROVE IInv
  OBVIOUS
<1> USE DEF Init
<1>1. TypeOK /\ HintExact /\ ArrayBound /\ cap > 0
  BY LimitsAssumption, EmptySeq, AppendProperties
     DEF TypeOK, Places, HintExact, ArrayBound
<1>2. /\ At({"exit"}) = {} /\ At({"wait"}) = {} /\ At(BusyPlaces) = {}
      /\ At({"push", "pushed"}) = {} /\ At({"hinted", "push"}) = {}
  BY DEF At, BusyPlaces
<1>3. /\ Exclusion /\ BusyCount
      /\ NoEarlyExit /\ NoLostWakeup /\ NoSleepingForever
  BY <1>2, FS_EmptySet
     DEF Exclusion, BusyCount, NoEarlyExit, NoLostWakeup, NoSleepingForever,
         Sleepers
<1>4. Len(jobs) = 1
  OBVIOUS
<1>5. BudgetBound /\ LengthBound
  <2>1. /\ Cardinality(At({"push", "pushed"})) = 0
        /\ Cardinality(At({"hinted", "push"})) = 0
    BY <1>2, FS_EmptySet
  <2> QED BY <1>4, <2>1, ThreadCount, LimitsAssumption
          DEF BudgetBound, LengthBound
<1> QED BY <1>1, <1>3, <1>5 DEF IInv

(***************************************************************************)
(* Each step preserves the invariant: one lemma for each of its parts.     *)
(***************************************************************************)
LEMMA StepType == TypeOK /\ BusyCount /\ [Next]_vars => TypeOK'
<1> SUFFICES ASSUME TypeOK, BusyCount, Next PROVE TypeOK'
  BY DEF vars, TypeOK
<1> USE DEF TypeOK, Places, MoveAndWake
<1>1. PICK t \in Threads :
        \/ Pop(t) \/ PopExit(t) \/ PopWait(t) \/ SpuriousWakeup(t)
        \/ ReadLenHint(t) \/ ReadPublished(t)
        \/ \E j \in Jobs : PushStore(t, j)
        \/ PushSignal(t)
        \/ Done(t)
  BY DEF Next
<1>2. CASE Pop(t)
  BY <1>2, SeqFacts DEF Pop
<1>3. CASE PopExit(t) \/ PopWait(t) \/ SpuriousWakeup(t)
  BY <1>3 DEF PopExit, PopWait, SpuriousWakeup
<1>4. CASE ReadLenHint(t) \/ ReadPublished(t)
  BY <1>4 DEF ReadLenHint, ReadPublished
<1>5. ASSUME NEW j \in Jobs, PushStore(t, j) PROVE TypeOK'
  BY <1>5, SeqFacts DEF PushStore
<1>6. CASE PushSignal(t)
  BY <1>6 DEF PushSignal
<1>7. CASE Done(t)
  <2>1. t \in At(BusyPlaces)
    BY <1>7 DEF Done, At, BusyPlaces
  <2>2. busy > 0
    BY <2>1, AtFinite DEF BusyCount
  <2> QED BY <1>7, <2>2 DEF Done
<1> QED BY <1>1, <1>2, <1>3, <1>4, <1>5, <1>6, <1>7

LEMMA StepExclusion == TypeOK /\ Exclusion /\ [Next]_vars => Exclusion'
<1> SUFFICES ASSUME TypeOK, Exclusion, Next PROVE Exclusion'
  BY DEF vars, Exclusion
<1> USE DEF TypeOK, Exclusion, MoveAndWake, MutexFree, Places
<1>1. ASSUME NEW t \in Threads, NEW j \in Jobs, PushStore(t, j)
      PROVE  Exclusion'
  BY <1>1 DEF PushStore
<1>2. ASSUME NEW t \in Threads, PushSignal(t)
      PROVE  Exclusion'
  BY <1>2 DEF PushSignal
<1>3. ASSUME NEW t \in Threads,
             \/ Pop(t) \/ PopExit(t) \/ PopWait(t) \/ SpuriousWakeup(t)
             \/ ReadLenHint(t) \/ ReadPublished(t) \/ Done(t)
      PROVE  Exclusion'
  BY <1>3 DEF Pop, PopExit, PopWait, SpuriousWakeup, ReadLenHint,
              ReadPublished, Done
<1> QED BY <1>1, <1>2, <1>3 DEF Next

LEMMA StepHint ==
  TypeOK /\ HintExact /\ ArrayBound /\ cap > 0 /\ [Next]_vars
    => HintExact' /\ ArrayBound' /\ cap' > 0
<1> SUFFICES ASSUME TypeOK, HintExact, ArrayBound, cap > 0, Next
             PROVE  HintExact' /\ ArrayBound' /\ cap' > 0
  BY DEF vars, HintExact, ArrayBound
<1> USE SeqFacts DEF TypeOK, HintExact, ArrayBound
<1>1. ASSUME NEW t \in Threads, NEW j \in Jobs, PushStore(t, j)
      PROVE  HintExact' /\ ArrayBound' /\ cap' > 0
  BY <1>1 DEF PushStore
<1>2. ASSUME NEW t \in Threads, Pop(t)
      PROVE  HintExact' /\ ArrayBound' /\ cap' > 0
  BY <1>2 DEF Pop
<1>3. ASSUME NEW t \in Threads,
             \/ PushSignal(t) \/ PopExit(t) \/ PopWait(t)
             \/ SpuriousWakeup(t) \/ ReadLenHint(t) \/ ReadPublished(t)
             \/ Done(t)
      PROVE  HintExact' /\ ArrayBound' /\ cap' > 0
  BY <1>3 DEF PushSignal, PopExit, PopWait, SpuriousWakeup, ReadLenHint,
              ReadPublished, Done
<1> QED BY <1>1, <1>2, <1>3 DEF Next

\* A step moves one thread, from a place its guard names to another.
Moves(t) ==
  \/ Pop(t) /\ pc[t] = "pop" /\ pc'[t] = "work"
  \/ PopExit(t) /\ pc[t] = "pop" /\ pc'[t] = "exit"
  \/ PopWait(t) /\ pc[t] = "pop" /\ pc'[t] = "wait"
  \/ SpuriousWakeup(t) /\ pc[t] = "wait" /\ pc'[t] = "pop"
  \/ ReadLenHint(t) /\ pc[t] = "work" /\ pc'[t] = "hinted"
  \/ ReadPublished(t) /\ published < MaxTasks
       /\ pc[t] = "hinted" /\ pc'[t] = "push"
  \/ ReadPublished(t) /\ pc[t] = "hinted" /\ pc'[t] = "work"
  \/ (\E j \in Jobs : PushStore(t, j)) /\ pc[t] = "push" /\ pc'[t] = "pushed"
  \/ PushSignal(t) /\ pc[t] = "pushed" /\ pc'[t] = "work"
  \/ Done(t) /\ pc[t] = "work" /\ pc'[t] = "pop"

LEMMA StepShape ==
  ASSUME TypeOK, Next
  PROVE  \E t \in Threads :
           /\ Moves(t)
           /\ \A u \in Threads \ {t} :
                pc'[u] = pc[u] \/ (pc[u] = "wait" /\ pc'[u] = "pop")
<1>1. PICK t \in Threads :
        \/ Pop(t) \/ PopExit(t) \/ PopWait(t) \/ SpuriousWakeup(t)
        \/ ReadLenHint(t) \/ ReadPublished(t)
        \/ \E j \in Jobs : PushStore(t, j)
        \/ PushSignal(t)
        \/ Done(t)
  BY DEF Next
<1> DEFINE Others == \A u \in Threads \ {t} :
                       pc'[u] = pc[u] \/ (pc[u] = "wait" /\ pc'[u] = "pop")
<1>2. pc \in [Threads -> Places]
  BY DEF TypeOK
<1>3. ASSUME NEW p, pc' = [pc EXCEPT ![t] = p]
      PROVE  pc'[t] = p /\ Others
  BY <1>2, <1>3
<1>4. ASSUME NEW p, NEW W \in SUBSET Sleepers, pc' = MoveAndWake(t, p, W)
      PROVE  pc'[t] = p /\ Others
  BY <1>4 DEF MoveAndWake, Sleepers, At
<1> HIDE DEF Others
<1>5. CASE Pop(t)
  BY <1>5, <1>3 DEF Pop, Moves, Others
<1>6. CASE PopExit(t)
  BY <1>6, <1>4 DEF PopExit, Moves, Others
<1>7. CASE PopWait(t)
  BY <1>7, <1>3 DEF PopWait, Moves, Others
<1>8. CASE SpuriousWakeup(t)
  BY <1>8, <1>3 DEF SpuriousWakeup, Moves, Others
<1>9. CASE ReadLenHint(t)
  BY <1>9, <1>3 DEF ReadLenHint, Moves, Others
<1>10. CASE ReadPublished(t)
  BY <1>10, <1>3 DEF ReadPublished, Moves, Others
<1>11. CASE \E j \in Jobs : PushStore(t, j)
  BY <1>11, <1>3 DEF PushStore, Moves, Others
<1>12. CASE PushSignal(t)
  <2>1. \E W \in SUBSET Sleepers : pc' = MoveAndWake(t, "work", W)
    BY <1>12 DEF PushSignal
  <2>2. pc'[t] = "work" /\ Others
    BY <2>1, <1>4
  <2> QED BY <1>12, <2>2 DEF PushSignal, Moves, Others
<1>13. CASE Done(t)
  <2>1. \E W \in SUBSET Sleepers : pc' = MoveAndWake(t, "pop", W)
    BY <1>13 DEF Done
  <2>2. pc'[t] = "pop" /\ Others
    BY <2>1, <1>4
  <2> QED BY <1>13, <2>2 DEF Done, Moves, Others
<1> QED BY <1>1, <1>5, <1>6, <1>7, <1>8, <1>9, <1>10, <1>11, <1>12, <1>13

LEMMA StepBusy == TypeOK /\ BusyCount /\ [Next]_vars => BusyCount'
<1> SUFFICES ASSUME TypeOK, BusyCount, Next PROVE BusyCount'
  BY DEF vars, BusyCount, At
<1>1. PICK t \in Threads :
        /\ Moves(t)
        /\ \A u \in Threads \ {t} :
             pc'[u] = pc[u] \/ (pc[u] = "wait" /\ pc'[u] = "pop")
  BY StepShape
<1> DEFINE n == Cardinality(At(BusyPlaces))
<1>2. n \in Nat /\ busy = n
  BY AtFinite DEF BusyCount
<1>3. \A u \in Threads \ {t} : pc'[u] \in BusyPlaces <=> pc[u] \in BusyPlaces
  BY <1>1 DEF BusyPlaces
<1>4. /\ pc[t] \notin BusyPlaces /\ pc'[t] \in BusyPlaces => n' = n + 1
      /\ pc[t] \in BusyPlaces /\ pc'[t] \notin BusyPlaces => n' = n - 1
      /\ (pc[t] \in BusyPlaces <=> pc'[t] \in BusyPlaces) => n' = n
  BY <1>3, CountChange
<1> HIDE DEF n
<1>5. busy' = n'
  BY <1>1, <1>2, <1>4
     DEF Moves, BusyPlaces, Pop, PopExit, PopWait, SpuriousWakeup,
         ReadLenHint, ReadPublished, PushStore, PushSignal, Done
<1> QED BY <1>5 DEF BusyCount, n

\* Nobody can come back to work once a thread has left: a pop needs a job,
\* a push needs a thread at work, and there is neither.
LEMMA StepNoEarlyExit ==
  TypeOK /\ BusyCount /\ NoEarlyExit /\ [Next]_vars => NoEarlyExit'
<1> SUFFICES ASSUME TypeOK, BusyCount, NoEarlyExit, Next PROVE NoEarlyExit'
  BY DEF vars, NoEarlyExit, At
<1>1. PICK t \in Threads :
        /\ Moves(t)
        /\ \A u \in Threads \ {t} :
             pc'[u] = pc[u] \/ (pc[u] = "wait" /\ pc'[u] = "pop")
  BY StepShape
<1>2. CASE PopExit(t) /\ pc'[t] = "exit"
  <2>1. jobs' = <<>> /\ At(BusyPlaces) = {}
    BY <1>2, AtFinite DEF PopExit, BusyCount
  <2> QED BY <1>1, <1>2, <2>1 DEF NoEarlyExit, At, BusyPlaces
<1>3. CASE At({"exit"}) # {} /\ pc'[t] # "exit"
  <2>1. jobs = <<>> /\ pc[t] \notin BusyPlaces
    BY <1>3 DEF NoEarlyExit, At
  <2>2. jobs' = <<>> /\ pc'[t] \notin BusyPlaces
    BY <1>1, <2>1 DEF Moves, BusyPlaces, Pop, PopExit, PopWait, SpuriousWakeup
  <2> QED BY <1>1, <1>3, <2>2 DEF NoEarlyExit, At, BusyPlaces
<1>4. CASE At({"exit"}) = {} /\ pc'[t] # "exit"
  <2>1. At({"exit"})' = {}
    BY <1>1, <1>4 DEF At
  <2> QED BY <2>1 DEF NoEarlyExit
<1>5. pc'[t] = "exit" => PopExit(t)
  BY <1>1 DEF Moves
<1> QED BY <1>2, <1>3, <1>4, <1>5

\* A push adds a job and, when it signals, a thread on its way to jq_pop;
\* a pop removes both; nobody falls asleep unless the queue is empty.
LEMMA StepNoLostWakeup ==
  TypeOK /\ NoLostWakeup /\ [Next]_vars => NoLostWakeup'
<1> SUFFICES ASSUME TypeOK, NoLostWakeup, Next, Sleepers' # {}
             PROVE  Len(jobs') <= Cardinality(At({"pop", "pushed"})')
  BY DEF vars, NoLostWakeup, Sleepers, At
<1>1. PICK t \in Threads :
        /\ Moves(t)
        /\ \A u \in Threads \ {t} :
             pc'[u] = pc[u] \/ (pc[u] = "wait" /\ pc'[u] = "pop")
  BY StepShape
<1> DEFINE Awake == At({"pop", "pushed"})
<1>2. /\ Len(jobs) \in Nat
      /\ IsFiniteSet(Awake) /\ Cardinality(Awake) \in Nat
      /\ IsFiniteSet(Awake') /\ Cardinality(Awake') \in Nat
  <2>1. IsFiniteSet(At({"pop", "pushed"})')
    BY ThreadsAssumption, FS_Subset DEF At
  <2> QED BY <2>1, SeqFacts, AtFinite, FS_CardinalityType DEF TypeOK
<1>3. CASE PopExit(t) \/ PopWait(t)
  BY <1>2, <1>3, SeqFacts DEF PopExit, PopWait, TypeOK
<1>4. ASSUME ~ (PopExit(t) \/ PopWait(t))
      PROVE  Len(jobs) <= Cardinality(Awake)
  BY <1>1, <1>4 DEF Moves, NoLostWakeup, Sleepers, At
<1>5. CASE Pop(t) /\ pc[t] = "pop" /\ pc'[t] = "work"
  <2>1. Awake \ {t} \subseteq Awake' /\ t \in Awake
    BY <1>1, <1>5 DEF At
  <2>2. Cardinality(Awake \ {t}) = Cardinality(Awake) - 1
    BY <1>2, <2>1, FS_RemoveElement
  <2>3. Cardinality(Awake \ {t}) <= Cardinality(Awake')
    BY <1>2, <2>1, FS_Subset
  <2>4. Len(jobs') = Len(jobs) - 1
    BY <1>5, SeqFacts DEF Pop, TypeOK
  <2>5. Len(jobs) <= Cardinality(Awake)
    BY <1>4, <1>5 DEF Pop, PopExit, PopWait
  <2> HIDE DEF Awake
  <2>6. Cardinality(Awake \ {t}) \in Int /\ Len(jobs') \in Int
    BY <1>2, <2>2, <2>4
  <2>7. Len(jobs') <= Cardinality(Awake')
    BY <1>2, <2>2, <2>3, <2>4, <2>5, <2>6
  <2> QED BY <2>7 DEF Awake
<1>6. CASE (\E j \in Jobs : PushStore(t, j)) /\ pc[t] = "push"
            /\ pc'[t] = "pushed"
  <2>1. Awake \cup {t} \subseteq Awake' /\ t \notin Awake
    BY <1>1, <1>6 DEF At
  <2>2. Cardinality(Awake \cup {t}) = Cardinality(Awake) + 1
    BY <1>2, <2>1, FS_AddElement
  <2>3. Cardinality(Awake \cup {t}) <= Cardinality(Awake')
    BY <1>2, <2>1, FS_Subset
  <2>4. Len(jobs') = Len(jobs) + 1
    BY <1>6, SeqFacts DEF PushStore, TypeOK
  <2>5. Len(jobs) <= Cardinality(Awake)
    BY <1>4, <1>6 DEF PushStore, PopExit, PopWait
  <2> HIDE DEF Awake
  <2>6. Len(jobs') <= Cardinality(Awake')
    BY <1>2, <2>2, <2>3, <2>4, <2>5
  <2> QED BY <2>6 DEF Awake
<1>7. CASE PushSignal(t) /\ pc[t] = "pushed" /\ pc'[t] = "work"
  <2>1. PICK u \in Sleepers : pc' = MoveAndWake(t, "work", {u})
    <3>1. Sleepers # {}
      BY <1>1, <1>7 DEF Sleepers, At
    <3> QED BY <1>7, <3>1 DEF PushSignal
  <2>2. u \in Threads /\ u \notin Awake /\ u \in Awake' /\ t \in Awake /\ u # t
    BY <1>7, <2>1 DEF Sleepers, At, MoveAndWake
  <2>3. (Awake \ {t}) \cup {u} \subseteq Awake'
    BY <1>1, <2>2 DEF At
  <2>4. /\ IsFiniteSet(Awake \ {t})
        /\ Cardinality(Awake \ {t}) = Cardinality(Awake) - 1
    BY <1>2, <2>2, FS_RemoveElement
  <2>5. Cardinality((Awake \ {t}) \cup {u}) = Cardinality(Awake)
    <3>1. u \notin Awake \ {t}
      BY <2>2
    <3>2. Cardinality((Awake \ {t}) \cup {u}) = Cardinality(Awake \ {t}) + 1
      BY <2>4, <3>1, FS_AddElement
    <3> HIDE DEF Awake
    <3> QED BY <1>2, <2>4, <3>2
  <2>6. Cardinality((Awake \ {t}) \cup {u}) <= Cardinality(Awake')
    BY <1>2, <2>3, FS_Subset
  <2>7. Len(jobs) <= Cardinality(Awake)
    BY <1>4, <1>7 DEF PushSignal, PopExit, PopWait
  <2> HIDE DEF Awake
  <2>8. Len(jobs) <= Cardinality(Awake')
    BY <1>2, <2>5, <2>6, <2>7
  <2> QED BY <1>7, <2>8 DEF PushSignal, Awake
<1>8. CASE /\ SpuriousWakeup(t) \/ ReadLenHint(t) \/ ReadPublished(t) \/ Done(t)
           /\ pc[t] \notin {"pop", "pushed"}
  <2>1. Awake \subseteq Awake'
    BY <1>1, <1>8 DEF At
  <2>2. Cardinality(Awake) <= Cardinality(Awake')
    BY <1>2, <2>1, FS_Subset
  <2>3. jobs' = jobs /\ Len(jobs) <= Cardinality(Awake)
    BY <1>4, <1>8
       DEF SpuriousWakeup, ReadLenHint, ReadPublished, Done, PopExit, PopWait
  <2> HIDE DEF Awake
  <2>4. Len(jobs') <= Cardinality(Awake')
    BY <1>2, <2>2, <2>3
  <2> QED BY <2>4 DEF Awake
<1> QED BY <1>1, <1>3, <1>5, <1>6, <1>7, <1>8 DEF Moves

LEMMA StepNoSleepingForever ==
  TypeOK /\ BusyCount /\ NoSleepingForever /\ [Next]_vars
    => NoSleepingForever'
<1> SUFFICES ASSUME TypeOK, BusyCount, NoSleepingForever, Next, Sleepers' # {}
             PROVE  \E u \in Threads : pc'[u] \in {"pop"} \cup BusyPlaces
  BY DEF vars, NoSleepingForever, Sleepers, At
<1>1. PICK t \in Threads :
        /\ Moves(t)
        /\ \A u \in Threads \ {t} :
             pc'[u] = pc[u] \/ (pc[u] = "wait" /\ pc'[u] = "pop")
  BY StepShape
<1>2. CASE pc'[t] \notin {"wait", "exit"}
  BY <1>1, <1>2 DEF Moves, BusyPlaces
<1>3. CASE pc'[t] = "wait"
  <2>1. PopWait(t) /\ pc[t] = "pop"
    BY <1>1, <1>3 DEF Moves
  <2>2. At(BusyPlaces) # {}
    BY <2>1, AtFinite DEF PopWait, BusyCount
  <2>3. PICK u \in Threads : pc[u] \in BusyPlaces
    BY <2>2 DEF At
  <2> QED BY <1>1, <2>1, <2>3 DEF BusyPlaces
<1>4. CASE pc'[t] = "exit"
  <2>1. PopExit(t)
    BY <1>1, <1>4 DEF Moves
  <2>2. Sleepers' = {}
    BY <2>1 DEF PopExit, Sleepers, At, MoveAndWake
  <2> QED BY <2>2
<1> QED BY <1>2, <1>3, <1>4

\* The bounds.  A thread passes a check while the counter is below its limit,
\* and at that moment at most all the threads are between a check and the
\* matching update; every other step leaves the sum of the counter and of
\* those threads as it is, or lowers it.
LEMMA StepBudget == TypeOK /\ BudgetBound /\ [Next]_vars => BudgetBound'
<1> SUFFICES ASSUME TypeOK, BudgetBound, Next PROVE BudgetBound'
  BY DEF vars, BudgetBound, At
<1>1. PICK t \in Threads :
        /\ Moves(t)
        /\ \A u \in Threads \ {t} :
             pc'[u] = pc[u] \/ (pc[u] = "wait" /\ pc'[u] = "pop")
  BY StepShape
<1> DEFINE S == {"push", "pushed"}
           n == Cardinality(At(S))
           bound == Cardinality(Threads)
<1>2. n \in Nat /\ n <= bound
  BY AtFinite
<1>3. n' \in Nat /\ n' <= bound
  BY ThreadsAssumption, FS_Subset, FS_CardinalityType DEF At
<1>4. /\ pc[t] \notin S /\ pc'[t] \in S => n' = n + 1
      /\ pc[t] \in S /\ pc'[t] \notin S => n' = n - 1
      /\ (pc[t] \in S <=> pc'[t] \in S) => n' = n
  <2>1. \A u \in Threads \ {t} : pc'[u] \in S <=> pc[u] \in S
    BY <1>1
  <2> QED BY <2>1, CountChange
<1>5. bound \in Nat /\ MaxTasks \in Nat /\ published \in Nat
  BY ThreadCount, LimitsAssumption DEF TypeOK
<1>6. published + n <= MaxTasks - 1 + bound
  BY DEF BudgetBound
<1> HIDE DEF n, bound
<1>7. published' + n' <= MaxTasks - 1 + bound
  <2>1. CASE ReadPublished(t) /\ published < MaxTasks
    <3>1. published' = published
      BY <2>1 DEF ReadPublished
    <3>2. published <= MaxTasks - 1
      BY <1>5, <2>1
    <3>3. \A k, b, p, m \in Int : k <= b /\ p <= m - 1 => p + k <= m - 1 + b
      OBVIOUS
    <3>4. n' \in Int /\ bound \in Int /\ published \in Int /\ MaxTasks \in Int
      BY <1>3, <1>5
    <3>5. published + n' <= MaxTasks - 1 + bound
      BY <1>3, <3>2, <3>3, <3>4
    <3> QED BY <3>1, <3>5
  <2>2. CASE PushSignal(t)
    <3>1. published' = published + 1 /\ pc[t] = "pushed"
      BY <2>2 DEF PushSignal
    <3>2. pc'[t] = "work"
      BY <1>1, <3>1 DEF Moves
    <3> QED BY <1>2, <1>4, <1>5, <1>6, <3>1, <3>2
  <2>3. CASE ~ PushSignal(t) /\ ~ (ReadPublished(t) /\ published < MaxTasks)
    <3>1. published' = published
      BY <1>1, <2>3 DEF Moves, Pop, PopExit, PopWait, SpuriousWakeup,
                        ReadLenHint, ReadPublished, PushStore, Done
    <3>2. n' = n
      BY <1>1, <1>4, <2>3 DEF Moves
    <3> QED BY <1>6, <3>1, <3>2
  <2> QED BY <1>1, <2>1, <2>2, <2>3 DEF Moves
<1> QED BY <1>7 DEF BudgetBound, n, bound

LEMMA StepLength ==
  TypeOK /\ HintExact /\ LengthBound /\ [Next]_vars => LengthBound'
<1> SUFFICES ASSUME TypeOK, HintExact, LengthBound, Next PROVE LengthBound'
  BY DEF vars, LengthBound, At
<1>1. PICK t \in Threads :
        /\ Moves(t)
        /\ \A u \in Threads \ {t} :
             pc'[u] = pc[u] \/ (pc[u] = "wait" /\ pc'[u] = "pop")
  BY StepShape
<1> DEFINE S == {"hinted", "push"}
           n == Cardinality(At(S))
           bound == Cardinality(Threads)
<1>2. n \in Nat /\ n <= bound
  BY AtFinite
<1>3. n' \in Nat /\ n' <= bound
  BY ThreadsAssumption, FS_Subset, FS_CardinalityType DEF At
<1>4. /\ pc[t] \notin S /\ pc'[t] \in S => n' = n + 1
      /\ pc[t] \in S /\ pc'[t] \notin S => n' = n - 1
      /\ (pc[t] \in S <=> pc'[t] \in S) => n' = n
  <2>1. \A u \in Threads \ {t} : pc'[u] \in S <=> pc[u] \in S
    BY <1>1
  <2> QED BY <2>1, CountChange
<1>5. bound \in Nat /\ SpawnTarget \in Nat /\ Len(jobs) \in Nat
  BY ThreadCount, LimitsAssumption, SeqFacts DEF TypeOK
<1>6. Len(jobs) + n <= SpawnTarget - 1 + bound
  BY DEF LengthBound
<1> HIDE DEF n, bound
<1>7. Len(jobs') + n' <= SpawnTarget - 1 + bound
  <2>1. CASE ReadLenHint(t)
    BY <1>3, <1>5, <2>1 DEF ReadLenHint, HintExact
  <2>2. CASE \E j \in Jobs : PushStore(t, j)
    <3>1. Len(jobs') = Len(jobs) + 1 /\ pc[t] = "push"
      BY <2>2, SeqFacts DEF PushStore, TypeOK
    <3>2. pc'[t] = "pushed"
      BY <1>1, <3>1 DEF Moves
    <3> QED BY <1>2, <1>4, <1>5, <1>6, <3>1, <3>2
  <2>3. CASE Pop(t)
    <3>1. Len(jobs') = Len(jobs) - 1 /\ pc[t] = "pop" /\ jobs # <<>>
      BY <2>3, SeqFacts DEF Pop, TypeOK
    <3>2. pc'[t] # "push" /\ pc'[t] # "hinted"
      BY <1>1, <3>1 DEF Moves
    <3> QED BY <1>2, <1>4, <1>5, <1>6, <3>1, <3>2
  <2>4. CASE ~ ReadLenHint(t) /\ ~ (\E j \in Jobs : PushStore(t, j)) /\ ~ Pop(t)
    <3>1. jobs' = jobs
      BY <1>1, <2>4 DEF Moves, PopExit, PopWait, SpuriousWakeup,
                        ReadPublished, PushSignal, Done
    <3>2. n' = n \/ n' = n - 1
      BY <1>1, <1>4, <2>4 DEF Moves
    <3> QED BY <1>2, <1>5, <1>6, <3>1, <3>2
  <2> QED BY <1>1, <2>1, <2>2, <2>3, <2>4 DEF Moves
<1> QED BY <1>7 DEF LengthBound, n, bound

-----------------------------------------------------------------------------
(***************************************************************************)
(* The theorems.                                                           *)
(***************************************************************************)

LEMMA StepIInv == IInv /\ [Next]_vars => IInv'
BY StepType, StepExclusion, StepHint, StepBusy, StepNoEarlyExit,
   StepNoLostWakeup, StepNoSleepingForever, StepBudget, StepLength DEF IInv

\* The strengthened invariant of the queue is inductive, hence always true.
THEOREM QueueInvariant == Spec => []IInv
BY InitIInv, StepIInv, PTL DEF Spec

\* The fields keep their types: in particular busy never goes below zero.
THEOREM TypeCorrect == Spec => []TypeOK
BY QueueInvariant, PTL DEF IInv

\* Whatever the number of threads and the order of their steps, no thread
\* leaves jq_pop while a job is queued or held.
THEOREM ExitCorrect == Spec => []NoEarlyExit
BY QueueInvariant, PTL DEF IInv

\* While a thread sleeps in pthread_cond_wait, every queued job has an awake
\* thread coming for it: the one signal jq_push sends is never lost.
THEOREM WakeupCorrect == Spec => []NoLostWakeup
BY QueueInvariant, PTL DEF IInv

\* The sleepers never wait for each other: jq_done and jq_pop broadcast when
\* the last thread at work has nothing left to publish.
THEOREM SleepersCorrect == Spec => []NoSleepingForever
BY QueueInvariant, PTL DEF IInv

\* The unsynchronised checks of jq_should_publish let the budget and the
\* length be exceeded by less than the number of threads, and the job array
\* is never overrun.
THEOREM BoundsCorrect == Spec => [](BudgetBound /\ LengthBound /\ ArrayBound)
BY QueueInvariant, PTL DEF IInv
=============================================================================
