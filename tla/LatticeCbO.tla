----------------------------- MODULE LatticeCbO -----------------------------
(***************************************************************************)
(* The parallel enumeration of the concepts of a context by the native     *)
(* kernel (cbo_enum_job, enum_csr_thread and the enumeration phase of      *)
(* build_lattice_cbo_csr in latticecbo.c), on top of the job queue.        *)
(*                                                                         *)
(* A thread takes a node from the queue and explores the Close-by-One tree *)
(* below it depth first.  Its stack holds the calls of cbo_enum_job under  *)
(* way, each with the next value of its loop variable i.  A child that     *)
(* passes the canonicity test is stored in the thread's own vector, then   *)
(* either published as a job or explored by a recursive call.              *)
(***************************************************************************)
EXTENDS FormalContext, Sequences, FiniteSets, SequencesExt

CONSTANTS
  NThreads,     (* detect_nthreads()                                        *)
  Contexts,     (* the contexts considered                                  *)
  InitCap, SpawnTarget, SpawnDepth, MaxTasks

Threads == 1 .. NThreads

ASSUME NThreadsAssumption == NThreads \in Nat \ {0}
ASSUME ContextsAssumption == Contexts \subseteq AllContexts
ASSUME SpawnAssumption ==
  /\ InitCap \in Nat \ {0} /\ SpawnTarget \in Nat \ {0}
  /\ MaxTasks \in Nat \ {0} /\ SpawnDepth \in Nat

VARIABLES
  cols,         (* the context, never changed                               *)
  jobs, cap, lenHint, published, busy, pc,     (* see JobQueue              *)
  stack,        (* stack[t]: the nodes thread t is exploring                *)
  out,          (* out[t]: the concepts found by t, EnumCsrTask's out, outB *)
  concepts      (* all_words, all_intents: filled once the threads joined   *)

queueVars == <<jobs, cap, lenHint, published, busy, pc>>
vars == <<cols, queueVars, stack, out, concepts>>

Q == INSTANCE JobQueue WITH Jobs <- Node

TypeOK ==
  /\ Q!TypeOK
  /\ cols \in Contexts
  /\ stack \in [Threads -> Seq(Node)]
  /\ out \in [Threads -> Seq(Concept)]
  /\ concepts \in Seq(Concept)

\* The initial job is the top concept, to be extended from attribute 0.
Init ==
  /\ cols \in Contexts
  /\ jobs = <<Root(cols)>> /\ Q!Init
  /\ stack = [t \in Threads |-> <<>>]
  /\ out = [t \in Threads |-> <<>>]
  /\ concepts = <<>>

\* The innermost call of thread t, and the stack with n in its place.
Current(t) == Last(stack[t])
Replace(t, ns) == [stack EXCEPT ![t] = Front(@) \o ns]

-----------------------------------------------------------------------------
\* jq_pop returns a job: the thread calls cbo_enum_job on it.
Take(t) ==
  /\ Q!Pop(t)
  /\ stack' = [stack EXCEPT ![t] = <<Last(jobs)>>]
  /\ UNCHANGED <<cols, out, concepts>>

\* jq_pop waits, returns 0, or wakes up.
Idle(t) ==
  /\ Q!PopExit(t) \/ Q!PopWait(t)
  /\ UNCHANGED <<cols, stack, out, concepts>>

Wakeup(t) ==
  /\ Q!SpuriousWakeup(t)
  /\ UNCHANGED <<cols, stack, out, concepts>>

\* Attribute i is in the intent already, or the candidate is not canonical.
Reject(t) ==
  /\ pc[t] = "work" /\ Current(t).i < M
  /\ ~ Canonical(cols, Current(t))
  /\ stack' = Replace(t, <<Advance(Current(t))>>)
  /\ UNCHANGED <<cols, queueVars, out, concepts>>

\* The candidate is a new concept: store it, and look whether the queue is
\* short.  If it is not, or the node is deep, call cbo_enum_job on the child.
Accept(t) ==
  LET n == Current(t)
  IN  /\ pc[t] = "work" /\ n.i < M
      /\ Canonical(cols, n)
      /\ out' = [out EXCEPT ![t] = Append(@, AsConcept(Child(cols, n)))]
      /\ stack' = Replace(t, <<Advance(n), Child(cols, n)>>)
      /\ IF n.depth < SpawnDepth /\ lenHint < SpawnTarget
         THEN Q!ReadLenHint(t)
         ELSE UNCHANGED queueVars
      /\ UNCHANGED <<cols, concepts>>

\* The queue is short; is there budget left?  If not, recurse after all.
CheckBudget(t) ==
  /\ Q!ReadPublished(t)
  /\ UNCHANGED <<cols, stack, out, concepts>>

\* Mutant: the child is published and kept.
PublishKept(t) ==
  /\ Q!PushStore(t, Current(t))
  /\ UNCHANGED <<cols, stack, out, concepts>>

\* jq_push: the queue takes possession of the child.
Publish(t) ==
  /\ Q!PushStore(t, Current(t))
  /\ stack' = Replace(t, <<>>)
  /\ UNCHANGED <<cols, out, concepts>>

PublishDone(t) ==
  /\ Q!PushSignal(t)
  /\ UNCHANGED <<cols, stack, out, concepts>>

\* A recursive call returns to its caller.
Return(t) ==
  /\ pc[t] = "work" /\ Current(t).i = M /\ Len(stack[t]) > 1
  /\ stack' = Replace(t, <<>>)
  /\ UNCHANGED <<cols, queueVars, out, concepts>>

\* The outermost call returns: the job is done.
Finish(t) ==
  /\ stack[t] # <<>> /\ Current(t).i = M /\ Len(stack[t]) = 1
  /\ Q!Done(t)
  /\ stack' = [stack EXCEPT ![t] = <<>>]
  /\ UNCHANGED <<cols, out, concepts>>

\* Mutant: the threads are not waited for.
CollectEarly ==
  /\ concepts = <<>>
  /\ concepts' = <<Top(cols)>> \o FlattenSeq(out)
  /\ UNCHANGED <<cols, queueVars, stack, out>>

\* The main thread has joined all threads: top gets id 0, then the vectors of
\* the threads are copied one after the other.
Collect ==
  /\ \A t \in Threads : pc[t] = "exit"
  /\ concepts = <<>>
  /\ concepts' = <<Top(cols)>> \o FlattenSeq(out)
  /\ UNCHANGED <<cols, queueVars, stack, out>>

Step(t) ==
  \/ Take(t) \/ Idle(t)
  \/ Reject(t) \/ Accept(t) \/ CheckBudget(t)
  \/ Publish(t) \/ PublishDone(t)
  \/ Return(t) \/ Finish(t)

Terminated == concepts # <<>> /\ UNCHANGED vars

Next ==
  \/ \E t \in Threads : Step(t) \/ Wakeup(t)
  \/ Collect
  \/ Terminated

\* Each thread and the main thread keep running; nothing obliges a condition
\* variable to wake up without a signal.
Fairness == (\A t \in Threads : WF_vars(Step(t))) /\ WF_vars(Collect)

Spec == Init /\ [][Next]_vars

FairSpec == Spec /\ Fairness

-----------------------------------------------------------------------------
(***************************************************************************)
(* Properties.                                                             *)
(***************************************************************************)

\* Every node and every stored pair is a concept of the context: the intent
\* assembled from the parent's is the one the extent determines.
OnlyConcepts ==
  /\ \A k \in DOMAIN jobs : IsConcept(cols, AsConcept(jobs[k]))
  /\ \A t \in Threads : \A k \in DOMAIN stack[t] :
       IsConcept(cols, AsConcept(stack[t][k]))
  /\ \A t \in Threads : \A k \in DOMAIN out[t] : IsConcept(cols, out[t][k])

\* Who answers for a concept: the vector it is stored in, or the node, queued
\* or on a stack, from which it is still to be found.
Holders ==
  {<<"job", k>> : k \in DOMAIN jobs}
  \cup (UNION {{<<"call", t, k>> : k \in DOMAIN stack[t]} : t \in Threads})
  \cup (UNION {{<<"out", t, k>> : k \in DOMAIN out[t]} : t \in Threads})

Holds(h, c) ==
  CASE h[1] = "job"  -> Below(cols, jobs[h[2]], c)
    [] h[1] = "call" -> Below(cols, stack[h[2]][h[3]], c)
    [] h[1] = "out"  -> out[h[2]][h[3]] = c

\* At every moment each concept but top is answered for exactly once: nothing
\* is lost when work moves between threads, nothing is found twice.
ExactlyOnce ==
  \A c \in Concepts(cols) \ {Top(cols)} :
    \E h \in Holders : \A g \in Holders : Holds(g, c) <=> g = h

\* The main thread always comes to collect: no thread waits for ever in
\* jq_pop or in pthread_join.
Termination == <>(concepts # <<>>)

-----------------------------------------------------------------------------
\* The threads together implement the enumeration that ConceptEnumeration
\* promises: storing a concept finds it, and collecting hands it over.
E == INSTANCE ConceptEnumeration WITH
       found  <- {Top(cols)} \cup UNION {ToSet(out[t]) : t \in Threads},
       stored <- 1 + Cardinality(UNION {{t} \X DOMAIN out[t] : t \in Threads}),
       result <- ToSet(concepts)

\* Every behaviour of the threads is one of the enumeration: no store repeats
\* a concept or stores something else, and nothing is handed over early,
\* partly, or never.
ImplementsEnumeration == E!Spec
=============================================================================
