------------------------------ MODULE JobQueue ------------------------------
(***************************************************************************)
(* The job queue shared by the enumeration threads of the native lattice   *)
(* kernel (JobQueue, jq_init, jq_push, jq_pop, jq_done, jq_should_publish  *)
(* in latticecbo.c).                                                       *)
(*                                                                         *)
(* The queue is a LIFO array protected by one mutex and one condition      *)
(* variable.  Two of its fields, len_hint and published, are also read     *)
(* without the mutex, one after the other, by jq_should_publish.  An       *)
(* action is one critical section, except jq_push: its stores to len_hint  *)
(* and to published can be told apart by such a reader, so it takes two    *)
(* steps and holds the mutex between them.                                 *)
(*                                                                         *)
(* What a thread does with a job is left open here: while it works it may  *)
(* publish any job, and it may be done at any moment.                      *)
(***************************************************************************)
EXTENDS Naturals, Sequences, FiniteSets

CONSTANTS
  Threads,      (* the enumeration threads, created after the first push    *)
  Jobs,         (* the values a job can take                                *)
  InitCap,      (* jq_init's capacity of the job array                      *)
  SpawnTarget,  (* publish only while the queue is shorter than this        *)
  MaxTasks      (* publish only while fewer jobs than this were published   *)

ASSUME ThreadsAssumption == IsFiniteSet(Threads) /\ Threads # {}
ASSUME JobsAssumption    == Jobs # {}
ASSUME LimitsAssumption  == /\ InitCap     \in Nat \ {0}
                            /\ SpawnTarget \in Nat \ {0}
                            /\ MaxTasks    \in Nat \ {0}

VARIABLES
  jobs,         (* the queued jobs, last one on top                         *)
  cap,          (* the capacity of the array that holds them                *)
  lenHint,      (* copy of the length for readers without the mutex         *)
  published,    (* jobs pushed since the beginning                          *)
  busy,         (* threads between a successful jq_pop and their jq_done    *)
  pc            (* where each thread is                                     *)

vars == <<jobs, cap, lenHint, published, busy, pc>>

(***************************************************************************)
(* Where a thread can be:                                                  *)
(*   "pop"     about to take the mutex in jq_pop, or back from the wait    *)
(*   "wait"    asleep on the condition variable                            *)
(*   "work"    running its job, outside the mutex                          *)
(*   "hinted"  has read a len_hint below the target, not yet published     *)
(*   "push"    decided to publish, about to take the mutex in jq_push      *)
(*   "pushed"  inside jq_push: job stored, published not yet incremented   *)
(*   "exit"    jq_pop returned 0                                           *)
(***************************************************************************)
Places == {"pop", "wait", "work", "hinted", "push", "pushed", "exit"}

\* The threads at one of the given places.
At(places) == {t \in Threads : pc[t] \in places}

\* A thread owns a job from the pop that returned it to its jq_done.
BusyPlaces == {"work", "hinted", "push", "pushed"}

\* The mutex is free: "pushed" is the only place a thread holds it between
\* two steps.
MutexFree == \A t \in Threads : pc[t] # "pushed"

TypeOK ==
  /\ jobs \in Seq(Jobs)
  /\ cap \in Nat
  /\ lenHint \in Nat
  /\ published \in Nat
  /\ busy \in Nat
  /\ pc \in [Threads -> Places]

(***************************************************************************)
(* jq_init, the push of the initial job, and the threads just created.     *)
(***************************************************************************)
Init ==
  /\ jobs \in [1 .. 1 -> Jobs]
  /\ cap = InitCap
  /\ lenHint = 1
  /\ published = 1
  /\ busy = 0
  /\ pc = [t \in Threads |-> "pop"]

\* Mutant: the threads woken are forgotten.
WakeNobody(t, p, woken) == [pc EXCEPT ![t] = p]

\* pc after t moves to place p and the threads of woken leave the wait.
MoveAndWake(t, p, woken) ==
  [u \in Threads |-> IF u = t THEN p
                     ELSE IF u \in woken THEN "pop" ELSE pc[u]]

Sleepers == At({"wait"})

-----------------------------------------------------------------------------
(***************************************************************************)
(* jq_pop: one turn of its loop, with the mutex.                           *)
(***************************************************************************)
\* Mutant: the thread is not counted as busy.
PopUncounted(t) ==
  /\ pc[t] = "pop" /\ MutexFree /\ jobs # <<>>
  /\ jobs' = SubSeq(jobs, 1, Len(jobs) - 1)
  /\ lenHint' = Len(jobs) - 1
  /\ pc' = [pc EXCEPT ![t] = "work"]
  /\ UNCHANGED <<cap, published, busy>>

Pop(t) ==
  /\ pc[t] = "pop"
  /\ MutexFree
  /\ jobs # <<>>
  /\ jobs' = SubSeq(jobs, 1, Len(jobs) - 1)
  /\ lenHint' = Len(jobs) - 1
  /\ busy' = busy + 1
  /\ pc' = [pc EXCEPT ![t] = "work"]
  /\ UNCHANGED <<cap, published>>

\* Mutant: an empty queue is taken for the end.
PopExitEmpty(t) ==
  /\ pc[t] = "pop" /\ MutexFree /\ jobs = <<>>
  /\ pc' = MoveAndWake(t, "exit", Sleepers)
  /\ UNCHANGED <<jobs, cap, lenHint, published, busy>>

\* Queue empty and nobody at work: broadcast and return 0.
PopExit(t) ==
  /\ pc[t] = "pop"
  /\ MutexFree
  /\ jobs = <<>>
  /\ busy = 0
  /\ pc' = MoveAndWake(t, "exit", Sleepers)
  /\ UNCHANGED <<jobs, cap, lenHint, published, busy>>

\* Queue empty but somebody may still publish: wait.
PopWait(t) ==
  /\ pc[t] = "pop"
  /\ MutexFree
  /\ jobs = <<>>
  /\ busy # 0
  /\ pc' = [pc EXCEPT ![t] = "wait"]
  /\ UNCHANGED <<jobs, cap, lenHint, published, busy>>

\* pthread_cond_wait may return without a signal; jq_pop tests again.
SpuriousWakeup(t) ==
  /\ pc[t] = "wait"
  /\ pc' = [pc EXCEPT ![t] = "pop"]
  /\ UNCHANGED <<jobs, cap, lenHint, published, busy>>

(***************************************************************************)
(* jq_should_publish: two relaxed loads, neither under the mutex.  When    *)
(* one of them says no, the thread keeps its child and goes on working.    *)
(***************************************************************************)
\* Mutant: the budget is not looked at.
ReadNoBudget(t) ==
  /\ pc[t] = "hinted"
  /\ pc' = [pc EXCEPT ![t] = "push"]
  /\ UNCHANGED <<jobs, cap, lenHint, published, busy>>

ReadLenHint(t) ==
  /\ pc[t] = "work"
  /\ lenHint < SpawnTarget
  /\ pc' = [pc EXCEPT ![t] = "hinted"]
  /\ UNCHANGED <<jobs, cap, lenHint, published, busy>>

ReadPublished(t) ==
  /\ pc[t] = "hinted"
  /\ pc' = [pc EXCEPT ![t] = IF published < MaxTasks THEN "push" ELSE "work"]
  /\ UNCHANGED <<jobs, cap, lenHint, published, busy>>

(***************************************************************************)
(* jq_push.                                                                *)
(***************************************************************************)
PushStore(t, j) ==
  /\ pc[t] = "push"
  /\ MutexFree
  /\ cap' = IF Len(jobs) >= cap THEN 2 * cap ELSE cap
  /\ jobs' = Append(jobs, j)
  /\ lenHint' = Len(jobs) + 1
  /\ pc' = [pc EXCEPT ![t] = "pushed"]
  /\ UNCHANGED <<published, busy>>

\* Mutant: nobody is signalled.
PushSilent(t) ==
  /\ pc[t] = "pushed"
  /\ published' = published + 1
  /\ pc' = MoveAndWake(t, "work", {})
  /\ UNCHANGED <<jobs, cap, lenHint, busy>>

\* Count the job, signal one sleeper if there is one, release the mutex.
PushSignal(t) ==
  /\ pc[t] = "pushed"
  /\ published' = published + 1
  /\ \/ Sleepers = {} /\ pc' = MoveAndWake(t, "work", {})
     \/ \E u \in Sleepers : pc' = MoveAndWake(t, "work", {u})
  /\ UNCHANGED <<jobs, cap, lenHint, busy>>

(***************************************************************************)
(* jq_done: the thread leaves the busy ones and goes back to jq_pop.       *)
(***************************************************************************)
Done(t) ==
  /\ pc[t] = "work"
  /\ MutexFree
  /\ busy' = busy - 1
  /\ pc' = MoveAndWake(t, "pop",
                       IF busy' = 0 /\ jobs = <<>> THEN Sleepers ELSE {})
  /\ UNCHANGED <<jobs, cap, lenHint, published>>

-----------------------------------------------------------------------------
Next ==
  \E t \in Threads :
    \/ Pop(t) \/ PopExit(t) \/ PopWait(t) \/ SpuriousWakeup(t)
    \/ ReadLenHint(t) \/ ReadPublished(t)
    \/ \E j \in Jobs : PushStore(t, j)
    \/ PushSignal(t)
    \/ Done(t)

Spec == Init /\ [][Next]_vars

-----------------------------------------------------------------------------
(***************************************************************************)
(* Properties.                                                             *)
(***************************************************************************)

\* A thread leaves jq_pop with 0 only when all is over: from then on the
\* queue is empty and no thread holds a job, so nothing can be published
\* any more ("file vide ET busy == 0").
NoEarlyExit ==
  At({"exit"}) # {} => jobs = <<>> /\ At(BusyPlaces) = {}

\* No wakeup is lost: while somebody sleeps, each queued job has an awake
\* thread of its own heading for jq_pop, once the push under way has
\* signalled.  A signal stolen by a thread that was never asleep, or a
\* spurious wakeup, does not break this.
NoLostWakeup ==
  Sleepers # {} => Len(jobs) <= Cardinality(At({"pop", "pushed"}))

\* Sleepers never wait for each other: as long as there is one, another
\* thread is at work or on its way to jq_pop.
NoSleepingForever ==
  Sleepers # {} => At({"pop"} \cup BusyPlaces) # {}

\* "Le budget borne le surcout": the check of the budget in jq_should_publish
\* and the increment in jq_push are not atomic, and the overshoot is at most
\* one job per other thread, those that have passed the check included.
BudgetBound ==
  published + Cardinality(At({"push", "pushed"}))
    <= MaxTasks - 1 + Cardinality(Threads)

\* Likewise for the length: the len_hint a thread has read may be stale when
\* it pushes, yet the queue never exceeds its target by more than one job per
\* other thread, those that have read a short queue included.
LengthBound ==
  Len(jobs) + Cardinality(At({"hinted", "push"}))
    <= SpawnTarget - 1 + Cardinality(Threads)

\* jq_push never writes beyond the capacity of the job array.
ArrayBound == Len(jobs) <= cap
=============================================================================
