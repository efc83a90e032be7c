-------------------------- MODULE LatticeCbOProofs --------------------------
(***************************************************************************)
(* Proofs about the parallel enumeration of the native kernel, for every   *)
(* context, number of threads and limit of publication: it uses the queue  *)
(* as JobQueue says, it stores concepts only and each of them once, and it *)
(* implements the safety part of ConceptEnumeration.  The second part is   *)
(* about the roaring variant, where the threads share a counter instead:   *)
(* joined, they have found every concept but top, each of them once.  The  *)
(* third is about the Close-by-One of the implications, LinCbO: it hands   *)
(* over the canonical basis.                                               *)
(***************************************************************************)
EXTENDS LatticeCbO, FormalContextProofs, SequenceTheorems, FiniteSetTheorems, TLAPS

\* The nodes that are concepts of the context, and its concepts.
GoodNodes == {n \in Node : IsConcept(cols, AsConcept(n))}
Good == {c \in Concept : IsConcept(cols, c)}

\* A thread has a node while it has a job, and another one, its parent's call
\* below it, while it considers publishing a child.
StackShape ==
  \A t \in Threads :
    /\ pc[t] \in {"pop", "wait", "exit"} => stack[t] = <<>>
    /\ pc[t] \in {"work", "pushed"} => stack[t] # <<>>
    /\ pc[t] \in {"hinted", "push"} => Len(stack[t]) >= 2

IInv ==
  /\ cols \in AllContexts
  /\ pc \in [Threads -> Q!Places]
  /\ jobs \in Seq(GoodNodes)
  /\ stack \in [Threads -> Seq(GoodNodes)]
  /\ out \in [Threads -> Seq(Good)]
  /\ StackShape

-----------------------------------------------------------------------------
\* What Replace does to the stack of t and to those of the others.
LEMMA ReplaceStack ==
  ASSUME NEW S, stack \in [Threads -> Seq(S)], NEW t \in Threads, stack[t] # <<>>,
         NEW ns \in Seq(S), stack' = Replace(t, ns)
  PROVE  /\ stack' \in [Threads -> Seq(S)]
         /\ \A u \in Threads \ {t} : stack'[u] = stack[u]
         /\ Len(stack'[t]) = Len(stack[t]) - 1 + Len(ns)
         /\ \A k \in 1 .. Len(stack[t]) - 1 : stack'[t][k] = stack[t][k]
         /\ \A k \in 1 .. Len(ns) : stack'[t][Len(stack[t]) - 1 + k] = ns[k]
<1> DEFINE s == stack[t]
<1>1. s \in Seq(S) /\ Front(s) \in Seq(S) /\ Len(s) \in Nat \ {0}
      /\ Len(Front(s)) = Len(s) - 1
      /\ \A k \in 1 .. Len(s) - 1 : Front(s)[k] = s[k]
  BY LastAndFront
<1>2. stack' = [stack EXCEPT ![t] = Front(s) \o ns]
  BY DEF Replace
<1>3. /\ Front(s) \o ns \in Seq(S)
      /\ Len(Front(s) \o ns) = Len(s) - 1 + Len(ns)
      /\ \A k \in 1 .. Len(s) - 1 : (Front(s) \o ns)[k] = s[k]
      /\ \A k \in 1 .. Len(ns) : (Front(s) \o ns)[Len(s) - 1 + k] = ns[k]
  BY <1>1, TopReplaced
<1>4. stack'[t] = Front(s) \o ns /\ \A u \in Threads \ {t} : stack'[u] = stack[u]
  BY <1>2
<1> QED BY <1>2, <1>3, <1>4

\* The node of a call is a concept of the context, and so is its child.
LEMMA CurrentNode ==
  ASSUME IInv, NEW t \in Threads, stack[t] # <<>>
  PROVE  /\ Current(t) \in GoodNodes
         /\ Current(t).i < M => Advance(Current(t)) \in GoodNodes
         /\ Current(t).i < M /\ Canonical(cols, Current(t)) =>
              /\ Child(cols, Current(t)) \in GoodNodes
              /\ AsConcept(Child(cols, Current(t))) \in Good
<1>1. Current(t) \in GoodNodes
  BY LastAndFront DEF IInv, Current
<1>2. ASSUME Current(t).i < M PROVE Advance(Current(t)) \in GoodNodes
  <2> DEFINE n == Current(t)
  <2>1. n \in Node /\ IsConcept(cols, AsConcept(n)) /\ n.i + 1 \in 0 .. M
    BY <1>1, <1>2, MAssumption DEF GoodNodes, Node
  <2>2. Advance(n) \in Node
    BY <2>1 DEF Advance, Node
  <2>3. AsConcept(Advance(n)) = AsConcept(n)
    BY <2>1 DEF Advance, AsConcept, Node
  <2> QED BY <2>1, <2>2, <2>3 DEF GoodNodes
<1>3. ASSUME Current(t).i < M, Canonical(cols, Current(t))
      PROVE  /\ Child(cols, Current(t)) \in GoodNodes
             /\ AsConcept(Child(cols, Current(t))) \in Good
  BY <1>1, <1>3, ChildConcept DEF IInv, GoodNodes, Good, IsConcept
<1> QED BY <1>1, <1>2, <1>3

-----------------------------------------------------------------------------
\* Every step of the enumeration is a step of the queue, or none.
LEMMA QueueStep == IInv /\ [Next]_vars => [Q!Next]_queueVars
<1> SUFFICES ASSUME IInv, [Next]_vars PROVE [Q!Next]_queueVars
  OBVIOUS
<1>1. ASSUME NEW t \in Threads, Step(t) PROVE Q!Next \/ UNCHANGED queueVars
  <2>1. CASE Take(t)
    BY <2>1 DEF Take, Q!Next
  <2>2. CASE Idle(t)
    BY <2>2 DEF Idle, Q!Next
  <2>3. CASE Reject(t)
    BY <2>3 DEF Reject
  <2>4. CASE Accept(t)
    BY <2>4 DEF Accept, Q!Next
  <2>5. CASE CheckBudget(t)
    BY <2>5 DEF CheckBudget, Q!Next
  <2>6. CASE Publish(t)
    <3>1. pc[t] = "push"
      BY <2>6 DEF Publish, Q!PushStore
    <3>2. stack[t] # <<>>
      BY <3>1, EmptySeq DEF IInv, StackShape
    <3>3. Current(t) \in Node
      BY <3>2, CurrentNode DEF GoodNodes
    <3> QED BY <2>6, <3>3 DEF Publish, Q!Next
  <2>7. CASE PublishDone(t)
    BY <2>7 DEF PublishDone, Q!Next
  <2>8. CASE Return(t)
    BY <2>8 DEF Return
  <2>9. CASE Finish(t)
    BY <2>9 DEF Finish, Q!Next
  <2> QED BY <1>1, <2>1, <2>2, <2>3, <2>4, <2>5, <2>6, <2>7, <2>8, <2>9 DEF Step
<1>2. ASSUME NEW t \in Threads, Wakeup(t) PROVE Q!Next
  BY <1>2 DEF Wakeup, Q!Next
<1>3. CASE Collect
  BY <1>3 DEF Collect
<1>4. CASE Terminated
  BY <1>4 DEF Terminated, vars
<1>5. CASE UNCHANGED vars
  BY <1>5 DEF vars
<1> QED BY <1>1, <1>2, <1>3, <1>4, <1>5 DEF Next

-----------------------------------------------------------------------------
\* When t moves in the queue the others stay where they are, or are woken.
PcMove(t) ==
  /\ pc' \in [Threads -> Q!Places]
  /\ \A u \in Threads \ {t} : pc'[u] = pc[u] \/ (pc[u] = "wait" /\ pc'[u] = "pop")

LEMMA Moved ==
  ASSUME pc \in [Threads -> Q!Places], NEW t \in Threads, NEW p \in Q!Places,
         NEW woken, woken \subseteq Q!Sleepers, pc' = Q!MoveAndWake(t, p, woken)
  PROVE  PcMove(t) /\ pc'[t] = p
<1>1. "pop" \in Q!Places
  BY DEF Q!Places
<1> QED BY <1>1 DEF PcMove, Q!MoveAndWake, Q!Sleepers, Q!At

LEMMA QueueMoves ==
  ASSUME IInv, NEW t \in Threads
  PROVE  /\ Q!Pop(t) => /\ PcMove(t) /\ pc[t] = "pop" /\ pc'[t] = "work"
                        /\ jobs # <<>> /\ jobs' = Front(jobs)
         /\ Q!PopExit(t) \/ Q!PopWait(t) \/ Q!SpuriousWakeup(t) =>
              /\ PcMove(t) /\ pc[t] \in {"pop", "wait"}
              /\ pc'[t] \in {"pop", "wait", "exit"} /\ jobs' = jobs
         /\ Q!ReadLenHint(t) =>
              PcMove(t) /\ pc[t] = "work" /\ pc'[t] = "hinted" /\ jobs' = jobs
         /\ Q!ReadPublished(t) =>
              PcMove(t) /\ pc[t] = "hinted" /\ pc'[t] \in {"push", "work"} /\ jobs' = jobs
         /\ \A j : Q!PushStore(t, j) =>
              PcMove(t) /\ pc[t] = "push" /\ pc'[t] = "pushed" /\ jobs' = Append(jobs, j)
         /\ Q!PushSignal(t) =>
              PcMove(t) /\ pc[t] = "pushed" /\ pc'[t] = "work" /\ jobs' = jobs
         /\ Q!Done(t) =>
              PcMove(t) /\ pc[t] = "work" /\ pc'[t] = "pop" /\ jobs' = jobs
<1>1. pc \in [Threads -> Q!Places]
  BY DEF IInv
<1>2. Q!Pop(t) => /\ PcMove(t) /\ pc[t] = "pop" /\ pc'[t] = "work"
                  /\ jobs # <<>> /\ jobs' = Front(jobs)
  BY <1>1 DEF Q!Pop, PcMove, Q!Places, Front
<1>3. Q!PopExit(t) => /\ PcMove(t) /\ pc[t] = "pop" /\ pc'[t] = "exit" /\ jobs' = jobs
  BY <1>1, Moved DEF Q!PopExit, Q!Places
<1>4. Q!PopWait(t) => /\ PcMove(t) /\ pc[t] = "pop" /\ pc'[t] = "wait" /\ jobs' = jobs
  BY <1>1 DEF Q!PopWait, PcMove, Q!Places
<1>5. Q!SpuriousWakeup(t) =>
        /\ PcMove(t) /\ pc[t] = "wait" /\ pc'[t] = "pop" /\ jobs' = jobs
  BY <1>1 DEF Q!SpuriousWakeup, PcMove, Q!Places
<1>6. Q!ReadLenHint(t) =>
        PcMove(t) /\ pc[t] = "work" /\ pc'[t] = "hinted" /\ jobs' = jobs
  BY <1>1 DEF Q!ReadLenHint, PcMove, Q!Places
<1>7. Q!ReadPublished(t) =>
        PcMove(t) /\ pc[t] = "hinted" /\ pc'[t] \in {"push", "work"} /\ jobs' = jobs
  BY <1>1 DEF Q!ReadPublished, PcMove, Q!Places
<1>8. \A j : Q!PushStore(t, j) =>
        PcMove(t) /\ pc[t] = "push" /\ pc'[t] = "pushed" /\ jobs' = Append(jobs, j)
  BY <1>1 DEF Q!PushStore, PcMove, Q!Places
<1>9. Q!PushSignal(t) =>
        PcMove(t) /\ pc[t] = "pushed" /\ pc'[t] = "work" /\ jobs' = jobs
  <2> SUFFICES ASSUME Q!PushSignal(t)
               PROVE  PcMove(t) /\ pc[t] = "pushed" /\ pc'[t] = "work" /\ jobs' = jobs
    OBVIOUS
  <2>1. PICK woken \in SUBSET Q!Sleepers : pc' = Q!MoveAndWake(t, "work", woken)
    BY DEF Q!PushSignal
  <2> QED BY <1>1, <2>1, Moved DEF Q!PushSignal, Q!Places
<1>10. Q!Done(t) =>
        PcMove(t) /\ pc[t] = "work" /\ pc'[t] = "pop" /\ jobs' = jobs
  <2> SUFFICES ASSUME Q!Done(t)
               PROVE  PcMove(t) /\ pc[t] = "work" /\ pc'[t] = "pop" /\ jobs' = jobs
    OBVIOUS
  <2>1. PICK woken \in SUBSET Q!Sleepers : pc' = Q!MoveAndWake(t, "pop", woken)
    BY DEF Q!Done
  <2> QED BY <1>1, <2>1, Moved DEF Q!Done, Q!Places
<1> QED BY <1>2, <1>3, <1>4, <1>5, <1>6, <1>7, <1>8, <1>9, <1>10

\* The shape of the stacks is a matter of the thread that moves.
LEMMA ShapeKept ==
  ASSUME IInv, NEW t \in Threads, PcMove(t),
         \A u \in Threads \ {t} : stack'[u] = stack[u],
         pc'[t] \in {"pop", "wait", "exit"} => stack'[t] = <<>>,
         pc'[t] \in {"work", "pushed"} => stack'[t] # <<>>,
         pc'[t] \in {"hinted", "push"} => Len(stack'[t]) >= 2
  PROVE  StackShape'
BY DEF IInv, StackShape, PcMove

LEMMA Initially == Init => IInv
<1> SUFFICES ASSUME Init PROVE IInv
  OBVIOUS
<1>1. cols \in AllContexts
  BY ContextsAssumption DEF Init
<1>2. Root(cols) \in GoodNodes
  BY <1>1, RootConcept DEF GoodNodes
<1>3. jobs \in Seq(GoodNodes)
  BY <1>2 DEF Init
<1>4. pc = [t \in Threads |-> "pop"]
  BY DEF Init, Q!Init
<1>5. stack \in [Threads -> Seq(GoodNodes)] /\ out \in [Threads -> Seq(Good)]
  BY EmptySeq DEF Init
<1>6. StackShape
  BY <1>4 DEF StackShape, Init
<1> QED BY <1>1, <1>3, <1>4, <1>5, <1>6 DEF IInv, Q!Places

\* The parts of IInv after a step that leaves the context alone.
LEMMA Assemble ==
  ASSUME IInv, cols' = cols, pc' \in [Threads -> Q!Places],
         jobs' \in Seq(GoodNodes), stack' \in [Threads -> Seq(GoodNodes)],
         out' \in [Threads -> Seq(Good)], StackShape'
  PROVE  IInv'
<1>1. GoodNodes' = GoodNodes /\ Good' = Good
  BY DEF GoodNodes, Good
<1> QED BY <1>1 DEF IInv

\* The same for the stacks of IInv, with what the steps below need of it.
LEMMA StacksKept ==
  ASSUME stack \in [Threads -> Seq(GoodNodes)], NEW t \in Threads, stack[t] # <<>>,
         NEW ns \in Seq(GoodNodes), NEW n \in Nat, Len(ns) = n,
         stack' = Replace(t, ns)
  PROVE  /\ stack' \in [Threads -> Seq(GoodNodes)]
         /\ \A u \in Threads \ {t} : stack'[u] = stack[u]
         /\ Len(stack'[t]) = Len(stack[t]) - 1 + n
<1>1. /\ stack' \in [Threads -> Seq(GoodNodes)]
      /\ \A u \in Threads \ {t} : stack'[u] = stack[u]
      /\ Len(stack'[t]) = Len(stack[t]) - 1 + Len(ns)
  BY ReplaceStack
<1> QED BY <1>1

LEMMA StepInv ==
  ASSUME IInv, NEW t \in Threads, Step(t)
  PROVE  IInv'
<1>0. /\ pc \in [Threads -> Q!Places] /\ jobs \in Seq(GoodNodes)
      /\ stack \in [Threads -> Seq(GoodNodes)] /\ out \in [Threads -> Seq(Good)]
      /\ StackShape /\ stack[t] \in Seq(GoodNodes)
  BY DEF IInv
<1>1. CASE Take(t)
  <2>1. Last(jobs) \in GoodNodes /\ jobs' \in Seq(GoodNodes)
        /\ PcMove(t) /\ pc'[t] = "work"
    BY <1>0, <1>1, QueueMoves, LastAndFront DEF Take
  <2>2. stack' = [stack EXCEPT ![t] = <<Last(jobs)>>]
        /\ UNCHANGED <<cols, out>>
    BY <1>1 DEF Take
  <2>3. <<Last(jobs)>> \in Seq(GoodNodes) /\ <<Last(jobs)>> # <<>>
    BY <2>1
  <2>4. stack' \in [Threads -> Seq(GoodNodes)] /\ stack'[t] # <<>>
        /\ \A u \in Threads \ {t} : stack'[u] = stack[u]
    BY <1>0, <2>2, <2>3
  <2>5. StackShape'
    BY <2>1, <2>4, ShapeKept
  <2> QED BY <1>0, <2>1, <2>2, <2>4, <2>5, Assemble DEF PcMove
<1>2. CASE Idle(t)
  <2>1. /\ PcMove(t) /\ pc[t] \in {"pop", "wait"}
        /\ pc'[t] \in {"pop", "wait", "exit"} /\ UNCHANGED <<cols, jobs, stack, out>>
    BY <1>2, QueueMoves DEF Idle
  <2>2. stack'[t] = <<>>
    BY <1>0, <2>1 DEF StackShape
  <2>3. StackShape'
    BY <2>1, <2>2, ShapeKept
  <2> QED BY <1>0, <2>1, <2>3, Assemble DEF PcMove
<1>3. CASE Reject(t)
  <2> DEFINE ns == <<Advance(Current(t))>>
  <2>1. pc[t] = "work" /\ Current(t).i < M /\ UNCHANGED <<cols, jobs, pc, out>>
        /\ stack' = Replace(t, ns)
    BY <1>3 DEF Reject, queueVars
  <2>2. stack[t] # <<>>
    BY <1>0, <2>1 DEF StackShape
  <2>3. ns \in Seq(GoodNodes) /\ Len(ns) = 1
    BY <2>1, <2>2, CurrentNode
  <2> HIDE DEF ns
  <2>4. /\ stack' \in [Threads -> Seq(GoodNodes)]
        /\ \A u \in Threads \ {t} : stack'[u] = stack[u]
        /\ Len(stack'[t]) = Len(stack[t]) - 1 + 1
    BY <1>0, <2>1, <2>2, <2>3, StacksKept
  <2>5. Len(stack'[t]) >= 1 /\ stack'[t] # <<>>
    BY <1>0, <2>2, <2>4, EmptySeq
  <2>6. PcMove(t) /\ pc'[t] = "work"
    BY <1>0, <2>1 DEF PcMove
  <2>7. StackShape'
    BY <2>4, <2>5, <2>6, ShapeKept
  <2> QED BY <1>0, <2>1, <2>4, <2>7, Assemble
<1>4. CASE Accept(t)
  <2> DEFINE ns == <<Advance(Current(t)), Child(cols, Current(t))>>
  <2>1. /\ pc[t] = "work" /\ Current(t).i < M /\ Canonical(cols, Current(t))
        /\ UNCHANGED cols /\ stack' = Replace(t, ns)
        /\ out' = [out EXCEPT ![t] = Append(@, AsConcept(Child(cols, Current(t))))]
    BY <1>4 DEF Accept
  <2>2. stack[t] # <<>>
    BY <1>0, <2>1 DEF StackShape
  <2>3. ns \in Seq(GoodNodes) /\ Len(ns) = 2
        /\ AsConcept(Child(cols, Current(t))) \in Good
    BY <2>1, <2>2, CurrentNode
  <2> HIDE DEF ns
  <2>4. /\ stack' \in [Threads -> Seq(GoodNodes)]
        /\ \A u \in Threads \ {t} : stack'[u] = stack[u]
        /\ Len(stack'[t]) = Len(stack[t]) - 1 + 2
    BY <1>0, <2>1, <2>2, <2>3, StacksKept
  <2>5. Len(stack'[t]) >= 2 /\ stack'[t] # <<>>
    BY <1>0, <2>2, <2>4, EmptySeq
  <2>6. out' \in [Threads -> Seq(Good)]
    BY <1>0, <2>1, <2>3, AppendProperties
  <2>7. PcMove(t) /\ pc'[t] \in {"work", "hinted"} /\ jobs' = jobs
    <3>1. CASE UNCHANGED queueVars
      BY <1>0, <2>1, <3>1 DEF queueVars, PcMove
    <3>2. CASE Q!ReadLenHint(t)
      BY <3>2, QueueMoves
    <3> QED BY <1>4, <3>1, <3>2 DEF Accept
  <2>8. StackShape'
    BY <2>4, <2>5, <2>7, ShapeKept
  <2> QED BY <1>0, <2>1, <2>4, <2>6, <2>7, <2>8, Assemble DEF PcMove
<1>5. CASE CheckBudget(t)
  <2>1. PcMove(t) /\ pc[t] = "hinted" /\ pc'[t] \in {"push", "work"}
        /\ UNCHANGED <<cols, jobs, stack, out>>
    BY <1>5, QueueMoves DEF CheckBudget
  <2>2. Len(stack'[t]) >= 2 /\ stack'[t] # <<>>
    BY <1>0, <2>1, EmptySeq DEF StackShape
  <2>3. StackShape'
    BY <2>1, <2>2, ShapeKept
  <2> QED BY <1>0, <2>1, <2>3, Assemble DEF PcMove
<1>6. CASE Publish(t)
  <2> DEFINE ns == <<>>
  <2>1. PcMove(t) /\ pc[t] = "push" /\ pc'[t] = "pushed" /\ UNCHANGED <<cols, out>>
        /\ jobs' = Append(jobs, Current(t)) /\ stack' = Replace(t, ns)
    BY <1>6, QueueMoves DEF Publish
  <2>2. Len(stack[t]) >= 2 /\ stack[t] # <<>>
    BY <1>0, <2>1, EmptySeq DEF StackShape
  <2>3. ns \in Seq(GoodNodes) /\ Len(ns) = 0
    OBVIOUS
  <2> HIDE DEF ns
  <2>4. /\ stack' \in [Threads -> Seq(GoodNodes)]
        /\ \A u \in Threads \ {t} : stack'[u] = stack[u]
        /\ Len(stack'[t]) = Len(stack[t]) - 1 + Len(ns)
    BY <1>0, <2>1, <2>2, <2>3, ReplaceStack
  <2>5. stack'[t] # <<>>
    BY <1>0, <2>2, <2>3, <2>4, LenProperties, EmptySeq
  <2>6. jobs' \in Seq(GoodNodes)
    BY <1>0, <2>1, <2>2, CurrentNode, AppendProperties
  <2>7. StackShape'
    BY <2>1, <2>4, <2>5, ShapeKept
  <2> QED BY <1>0, <2>1, <2>4, <2>6, <2>7, Assemble DEF PcMove
<1>7. CASE PublishDone(t)
  <2>1. PcMove(t) /\ pc[t] = "pushed" /\ pc'[t] = "work"
        /\ UNCHANGED <<cols, jobs, stack, out>>
    BY <1>7, QueueMoves DEF PublishDone
  <2>2. stack'[t] # <<>>
    BY <1>0, <2>1 DEF StackShape
  <2>3. StackShape'
    BY <2>1, <2>2, ShapeKept
  <2> QED BY <1>0, <2>1, <2>3, Assemble DEF PcMove
<1>8. CASE Return(t)
  <2> DEFINE ns == <<>>
  <2>1. pc[t] = "work" /\ Len(stack[t]) > 1 /\ UNCHANGED <<cols, jobs, pc, out>>
        /\ stack' = Replace(t, ns)
    BY <1>8 DEF Return, queueVars
  <2>2. stack[t] # <<>>
    BY <1>0, <2>1 DEF StackShape
  <2>3. ns \in Seq(GoodNodes) /\ Len(ns) = 0
    OBVIOUS
  <2> HIDE DEF ns
  <2>4. /\ stack' \in [Threads -> Seq(GoodNodes)]
        /\ \A u \in Threads \ {t} : stack'[u] = stack[u]
        /\ Len(stack'[t]) = Len(stack[t]) - 1 + Len(ns)
    BY <1>0, <2>1, <2>2, <2>3, ReplaceStack
  <2>5. stack'[t] # <<>>
    BY <1>0, <2>1, <2>3, <2>4, LenProperties, EmptySeq
  <2>6. PcMove(t) /\ pc'[t] = "work"
    BY <1>0, <2>1 DEF PcMove
  <2>7. StackShape'
    BY <2>4, <2>5, <2>6, ShapeKept
  <2> QED BY <1>0, <2>1, <2>4, <2>7, Assemble
<1>9. CASE Finish(t)
  <2>1. PcMove(t) /\ pc'[t] = "pop" /\ UNCHANGED <<cols, jobs, out>>
        /\ stack' = [stack EXCEPT ![t] = <<>>]
    BY <1>9, QueueMoves DEF Finish
  <2>2. stack' \in [Threads -> Seq(GoodNodes)] /\ stack'[t] = <<>>
        /\ \A u \in Threads \ {t} : stack'[u] = stack[u]
    BY <1>0, <2>1, EmptySeq
  <2>3. StackShape'
    BY <2>1, <2>2, ShapeKept
  <2> QED BY <1>0, <2>1, <2>2, <2>3, Assemble DEF PcMove
<1> QED BY <1>1, <1>2, <1>3, <1>4, <1>5, <1>6, <1>7, <1>8, <1>9 DEF Step

LEMMA Inductive == IInv /\ [Next]_vars => IInv'
<1> SUFFICES ASSUME IInv, [Next]_vars PROVE IInv'
  OBVIOUS
<1>0. /\ jobs \in Seq(GoodNodes) /\ stack \in [Threads -> Seq(GoodNodes)]
      /\ out \in [Threads -> Seq(Good)] /\ StackShape
      /\ pc \in [Threads -> Q!Places]
  BY DEF IInv
<1>1. ASSUME NEW t \in Threads, Step(t) PROVE IInv'
  BY <1>1, StepInv
<1>2. ASSUME NEW t \in Threads, Wakeup(t) PROVE IInv'
  <2>1. /\ PcMove(t) /\ pc[t] \in {"pop", "wait"}
        /\ pc'[t] \in {"pop", "wait", "exit"} /\ UNCHANGED <<cols, jobs, stack, out>>
    BY <1>2, QueueMoves DEF Wakeup
  <2>2. stack'[t] = <<>>
    BY <1>0, <2>1 DEF StackShape
  <2>3. StackShape'
    BY <2>1, <2>2, ShapeKept
  <2> QED BY <1>0, <2>1, <2>3, Assemble DEF PcMove
<1>3. ASSUME UNCHANGED <<cols, jobs, pc, stack, out>> PROVE IInv'
  <2>1. StackShape'
    BY <1>0, <1>3 DEF StackShape
  <2> QED BY <1>0, <1>3, <2>1, Assemble
<1>4. CASE Collect
  BY <1>3, <1>4 DEF Collect, queueVars
<1>5. CASE UNCHANGED vars
  BY <1>3, <1>5 DEF vars, queueVars
<1>6. CASE Terminated
  BY <1>5, <1>6 DEF Terminated
<1> QED BY <1>1, <1>2, <1>4, <1>5, <1>6 DEF Next

-----------------------------------------------------------------------------
\* Every node and every stored pair is a concept: the intents that
\* cbo_enum_job assembles are those of the extents, whoever explores them.
THEOREM StoresConcepts == Spec => []OnlyConcepts
<1>1. IInv => OnlyConcepts
  <2> SUFFICES ASSUME IInv PROVE OnlyConcepts
    OBVIOUS
  <2>1. \A k \in DOMAIN jobs : jobs[k] \in GoodNodes
    BY LenProperties, ElementOfSeq DEF IInv
  <2>2. \A t \in Threads : \A k \in DOMAIN stack[t] : stack[t][k] \in GoodNodes
    BY LenProperties, ElementOfSeq DEF IInv
  <2>3. \A t \in Threads : \A k \in DOMAIN out[t] : out[t][k] \in Good
    BY LenProperties, ElementOfSeq DEF IInv
  <2> QED BY <2>1, <2>2, <2>3 DEF OnlyConcepts, GoodNodes, Good
<1> QED BY <1>1, Initially, Inductive, PTL DEF Spec

\* The enumeration uses the queue as JobQueue describes it, so what is proved
\* of the queue holds here: nothing is published by a thread without a job.
THEOREM UsesQueue == Spec => Q!Spec
<1>1. Init => Q!Init
  BY DEF Init
<1>2. [Next]_vars /\ IInv => [Q!Next]_(Q!vars)
  BY QueueStep DEF queueVars, Q!vars
<1> QED BY <1>1, <1>2, Initially, Inductive, PTL DEF Spec, Q!Spec
-----------------------------------------------------------------------------
(***************************************************************************)
(* Whatever the threads do, each concept but top is answered for exactly   *)
(* once: by the vector that holds it, or by the one node, queued or under  *)
(* exploration, from which it is still to be found.  A step moves the      *)
(* answer of a concept from one place to another, or leaves it alone.      *)
(***************************************************************************)
\* The places of jobs js, stacks ss and vectors os that answer for concept c
\* of context x.
JobPlaces(x, js, c)   == {<<"job", k>> : k \in {k \in DOMAIN js : Below(x, js[k], c)}}
CallPlaces(x, ss, c)  ==
  UNION {{<<"call", t, k>> : k \in {k \in DOMAIN ss[t] : Below(x, ss[t][k], c)}}
         : t \in Threads}
OutPlaces(os, c) ==
  UNION {{<<"out", t, k>> : k \in {k \in DOMAIN os[t] : os[t][k] = c}}
         : t \in Threads}

Places(x, js, ss, os, c) ==
  JobPlaces(x, js, c) \cup CallPlaces(x, ss, c) \cup OutPlaces(os, c)

PlacesOf(c) == Places(cols, jobs, stack, out, c)

\* The invariant: one place answers for each concept but top.
OnePlace ==
  \A c \in Good : c # Top(cols) => \E h : PlacesOf(c) = {h}

-----------------------------------------------------------------------------
LEMMA Tags ==
  /\ \A k, m : <<"job", k>> = <<"job", m>> <=> k = m
  /\ \A t, k, u, m : <<"call", t, k>> = <<"call", u, m>> <=> t = u /\ k = m
  /\ \A t, k, u, m : <<"out", t, k>> = <<"out", u, m>> <=> t = u /\ k = m
  /\ \A t, k, m : <<"job", m>> # <<"call", t, k>>
  /\ \A t, k, m : <<"job", m>> # <<"out", t, k>>
  /\ \A t, k, u, m : <<"call", t, k>> # <<"out", u, m>>
OBVIOUS

LEMMA PlaceForms ==
  ASSUME NEW x, NEW js, NEW ss, NEW os, NEW c
  PROVE  /\ \A k : <<"job", k>> \in Places(x, js, ss, os, c)
                     <=> k \in DOMAIN js /\ Below(x, js[k], c)
         /\ \A t, k : <<"call", t, k>> \in Places(x, js, ss, os, c)
                        <=> t \in Threads /\ k \in DOMAIN ss[t] /\ Below(x, ss[t][k], c)
         /\ \A t, k : <<"out", t, k>> \in Places(x, js, ss, os, c)
                        <=> t \in Threads /\ k \in DOMAIN os[t] /\ os[t][k] = c
         /\ \A h \in Places(x, js, ss, os, c) :
              \/ \E k : h = <<"job", k>>
              \/ \E t, k : h = <<"call", t, k>>
              \/ \E t, k : h = <<"out", t, k>>
<1>1. /\ \A k : <<"job", k>> \in JobPlaces(x, js, c)
                  <=> k \in DOMAIN js /\ Below(x, js[k], c)
      /\ \A h \in JobPlaces(x, js, c) : \E k : h = <<"job", k>>
  BY Tags DEF JobPlaces
<1>2. /\ \A t, k : <<"call", t, k>> \in CallPlaces(x, ss, c)
                     <=> t \in Threads /\ k \in DOMAIN ss[t] /\ Below(x, ss[t][k], c)
      /\ \A h \in CallPlaces(x, ss, c) : \E t, k : h = <<"call", t, k>>
  BY Tags DEF CallPlaces
<1>3. /\ \A t, k : <<"out", t, k>> \in OutPlaces(os, c)
                     <=> t \in Threads /\ k \in DOMAIN os[t] /\ os[t][k] = c
      /\ \A h \in OutPlaces(os, c) : \E t, k : h = <<"out", t, k>>
  BY Tags DEF OutPlaces
<1> QED BY <1>1, <1>2, <1>3, Tags DEF Places

\* Places outside A answer as before when what they hold is as before.
LEMMA SameElsewhere ==
  ASSUME NEW x, NEW js, NEW ss, NEW os, NEW js2, NEW ss2, NEW os2, NEW c, NEW A,
         \A k : <<"job", k>> \notin A =>
           (k \in DOMAIN js2 /\ Below(x, js2[k], c)
              <=> k \in DOMAIN js /\ Below(x, js[k], c)),
         \A t \in Threads : \A k : <<"call", t, k>> \notin A =>
           (k \in DOMAIN ss2[t] /\ Below(x, ss2[t][k], c)
              <=> k \in DOMAIN ss[t] /\ Below(x, ss[t][k], c)),
         \A t \in Threads : \A k : <<"out", t, k>> \notin A =>
           (k \in DOMAIN os2[t] /\ os2[t][k] = c
              <=> k \in DOMAIN os[t] /\ os[t][k] = c)
  PROVE  \A g : g \notin A =>
           (g \in Places(x, js2, ss2, os2, c) <=> g \in Places(x, js, ss, os, c))
<1> DEFINE H == Places(x, js, ss, os, c)
           G == Places(x, js2, ss2, os2, c)
<1> SUFFICES ASSUME NEW g, g \notin A PROVE g \in G <=> g \in H
  OBVIOUS
<1>1. ASSUME g \in G \/ g \in H
      PROVE  \/ \E k : g = <<"job", k>>
             \/ \E t, k : g = <<"call", t, k>>
             \/ \E t, k : g = <<"out", t, k>>
  BY <1>1, PlaceForms
<1>2. CASE \E k : g = <<"job", k>>
  <2>1. PICK k : g = <<"job", k>>
    BY <1>2
  <2> QED BY <2>1, PlaceForms
<1>3. CASE \E t, k : g = <<"call", t, k>>
  <2>1. PICK t, k : g = <<"call", t, k>>
    BY <1>3
  <2> QED BY <2>1, PlaceForms
<1>4. CASE \E t, k : g = <<"out", t, k>>
  <2>1. PICK t, k : g = <<"out", t, k>>
    BY <1>4
  <2> QED BY <2>1, PlaceForms
<1> QED BY <1>1, <1>2, <1>3, <1>4

\* When the nodes and the stored concepts of c are the same, so is the answer.
LEMMA SamePlaces ==
  ASSUME cols' = cols, NEW c, \E h : PlacesOf(c) = {h},
         UNCHANGED <<jobs, stack, out>>
  PROVE  \E h : PlacesOf(c)' = {h}
BY DEF PlacesOf

-----------------------------------------------------------------------------
\* jq_pop: the job on top of the queue becomes the thread's first call.
LEMMA TakeMoves ==
  ASSUME IInv, NEW t \in Threads, Take(t),
         NEW c \in Good, \E h : PlacesOf(c) = {h}
  PROVE  \E h : PlacesOf(c)' = {h}
<1> DEFINE a == <<"job", Len(jobs)>>
           b == <<"call", t, 1>>
           A == {a, b}
           H == Places(cols, jobs, stack, out, c)
           G == Places(cols, jobs', stack', out', c)
<1>1. /\ pc[t] = "pop" /\ jobs # <<>> /\ jobs' = Front(jobs)
      /\ stack' = [stack EXCEPT ![t] = <<Last(jobs)>>]
      /\ UNCHANGED <<cols, out>>
  BY DEF Take, Q!Pop, Front
<1>2. /\ jobs \in Seq(GoodNodes) /\ stack \in [Threads -> Seq(GoodNodes)]
      /\ stack[t] = <<>>
  BY <1>1 DEF IInv, StackShape
<1>3. /\ Len(jobs) \in Nat \ {0} /\ DOMAIN jobs = 1 .. Len(jobs)
      /\ DOMAIN jobs' = 1 .. Len(jobs) - 1
      /\ \A k \in 1 .. Len(jobs) - 1 : jobs'[k] = jobs[k]
      /\ Last(jobs) = jobs[Len(jobs)]
  <2>1. Front(jobs) \in Seq(GoodNodes) /\ Len(Front(jobs)) = Len(jobs) - 1
        /\ Len(jobs) \in Nat \ {0}
        /\ \A k \in 1 .. Len(jobs) - 1 : Front(jobs)[k] = jobs[k]
    BY <1>1, <1>2, LastAndFront
  <2>2. DOMAIN jobs = 1 .. Len(jobs) /\ DOMAIN Front(jobs) = 1 .. Len(Front(jobs))
    BY <1>2, <2>1, LenProperties
  <2> QED BY <1>1, <2>1, <2>2 DEF Last
<1>4. /\ \A u \in Threads \ {t} : stack'[u] = stack[u]
      /\ DOMAIN stack[t] = {} /\ DOMAIN stack'[t] = {1}
      /\ stack'[t][1] = jobs[Len(jobs)]
  <2>1. stack'[t] = <<Last(jobs)>> /\ \A u \in Threads \ {t} : stack'[u] = stack[u]
    BY <1>1, <1>2
  <2> QED BY <1>2, <1>3, <2>1
<1>5. \A g : g \notin A => (g \in G <=> g \in H)
  <2>1. \A k : <<"job", k>> \notin A =>
          (k \in DOMAIN jobs' /\ Below(cols, jobs'[k], c)
             <=> k \in DOMAIN jobs /\ Below(cols, jobs[k], c))
    BY <1>3
  <2>2. \A u \in Threads : \A k : <<"call", u, k>> \notin A =>
          (k \in DOMAIN stack'[u] /\ Below(cols, stack'[u][k], c)
             <=> k \in DOMAIN stack[u] /\ Below(cols, stack[u][k], c))
    BY <1>4
  <2>3. \A u \in Threads : \A k : <<"out", u, k>> \notin A =>
          (k \in DOMAIN out'[u] /\ out'[u][k] = c
             <=> k \in DOMAIN out[u] /\ out[u][k] = c)
    BY <1>1
  <2> HIDE DEF A
  <2> QED BY <2>1, <2>2, <2>3, SameElsewhere
<1>6. b \notin H /\ a \notin G /\ (b \in G <=> a \in H)
  <2>1. b \notin H
    BY <1>4, PlaceForms
  <2>2. a \notin G
    BY <1>3, PlaceForms
  <2>3. b \in G <=> Below(cols, jobs[Len(jobs)], c)
    BY <1>4, PlaceForms
  <2>4. a \in H <=> Below(cols, jobs[Len(jobs)], c)
    BY <1>3, PlaceForms
  <2> QED BY <2>1, <2>2, <2>3, <2>4
<1>7. H = PlacesOf(c) /\ G = PlacesOf(c)'
  BY <1>1 DEF PlacesOf
<1> HIDE DEF a, b, H, G
<1>8. \E h : G = {h}
  BY <1>5, <1>6, <1>7, AnswerMoves
<1> QED BY <1>7, <1>8

\* The node being explored, and what Replace makes of the stack of t.
LEMMA TopOfStack ==
  ASSUME IInv, NEW t \in Threads, stack[t] # <<>>
  PROVE  /\ Len(stack[t]) \in Nat \ {0} /\ DOMAIN stack[t] = 1 .. Len(stack[t])
         /\ Current(t) = stack[t][Len(stack[t])]
         /\ Current(t) \in Node /\ IsConcept(cols, AsConcept(Current(t)))
         /\ cols \in AllContexts
<1>1. stack[t] \in Seq(GoodNodes)
  BY DEF IInv
<1>2. Current(t) \in GoodNodes
  BY CurrentNode
<1> QED BY <1>1, <1>2, EmptySeq, LenProperties DEF Current, Last, GoodNodes, IInv

LEMMA ReplacedStack ==
  ASSUME IInv, NEW t \in Threads, stack[t] # <<>>, NEW ns \in Seq(GoodNodes),
         NEW n \in Nat, Len(ns) = n, stack' = Replace(t, ns)
  PROVE  /\ DOMAIN stack'[t] = 1 .. Len(stack[t]) - 1 + n
         /\ \A u \in Threads \ {t} : stack'[u] = stack[u]
         /\ \A k \in 1 .. Len(stack[t]) - 1 : stack'[t][k] = stack[t][k]
         /\ \A k \in 1 .. n : stack'[t][Len(stack[t]) - 1 + k] = ns[k]
<1>1. stack \in [Threads -> Seq(GoodNodes)]
  BY DEF IInv
<1>2. /\ stack' \in [Threads -> Seq(GoodNodes)]
      /\ \A u \in Threads \ {t} : stack'[u] = stack[u]
      /\ Len(stack'[t]) = Len(stack[t]) - 1 + n
      /\ \A k \in 1 .. Len(stack[t]) - 1 : stack'[t][k] = stack[t][k]
      /\ \A k \in 1 .. n : stack'[t][Len(stack[t]) - 1 + k] = ns[k]
  BY <1>1, ReplaceStack
<1>3. DOMAIN stack'[t] = 1 .. Len(stack'[t])
  BY <1>2, LenProperties
<1> QED BY <1>2, <1>3

\* The candidate is rejected: what was to be found from the node still is.
LEMMA RejectStays ==
  ASSUME IInv, NEW t \in Threads, Reject(t), NEW c \in Good
  PROVE  PlacesOf(c)' = PlacesOf(c)
<1> DEFINE n == Current(t)
           ns == <<Advance(n)>>
           A == {}
           H == Places(cols, jobs, stack, out, c)
           G == Places(cols, jobs', stack', out', c)
<1>1. /\ pc[t] = "work" /\ n.i < M /\ ~Canonical(cols, n)
      /\ stack' = Replace(t, ns) /\ UNCHANGED <<cols, jobs, out>>
  BY DEF Reject, queueVars
<1>2. stack[t] # <<>>
  BY <1>1 DEF IInv, StackShape
<1>3. ns \in Seq(GoodNodes) /\ Len(ns) = 1 /\ ns[1] = Advance(n)
  BY <1>1, <1>2, CurrentNode
<1>4. Below(cols, n, c) <=> Below(cols, Advance(n), c)
  BY <1>1, <1>2, TopOfStack, RejectKeeps DEF Good
<1>5. /\ Len(stack[t]) \in Nat \ {0} /\ DOMAIN stack[t] = 1 .. Len(stack[t])
      /\ n = stack[t][Len(stack[t])]
  BY <1>2, TopOfStack
<1> HIDE DEF ns, n
<1>6. /\ DOMAIN stack'[t] = 1 .. Len(stack[t]) - 1 + 1
      /\ \A u \in Threads \ {t} : stack'[u] = stack[u]
      /\ \A k \in 1 .. Len(stack[t]) - 1 : stack'[t][k] = stack[t][k]
      /\ \A k \in 1 .. 1 : stack'[t][Len(stack[t]) - 1 + k] = ns[k]
  BY <1>1, <1>2, <1>3, ReplacedStack
<1>7. stack'[t][Len(stack[t])] = Advance(n)
  BY <1>3, <1>5, <1>6
<1>8. \A u \in Threads : \A k : <<"call", u, k>> \notin A =>
        (k \in DOMAIN stack'[u] /\ Below(cols, stack'[u][k], c)
           <=> k \in DOMAIN stack[u] /\ Below(cols, stack[u][k], c))
  <2> TAKE u \in Threads
  <2> TAKE k
  <2>1. CASE u # t
    BY <1>6, <2>1
  <2>2. CASE u = t /\ k = Len(stack[t])
    BY <1>4, <1>5, <1>6, <1>7, <2>2
  <2>3. CASE u = t /\ k # Len(stack[t])
    BY <1>5, <1>6, <2>3
  <2> QED BY <2>1, <2>2, <2>3
<1>9. \A g : g \in G <=> g \in H
  BY <1>1, <1>8, SameElsewhere
<1> QED BY <1>1, <1>9 DEF PlacesOf

\* A call that returns leaves nothing to be found.
LEMMA ReturnStays ==
  ASSUME IInv, NEW t \in Threads, NEW c \in Good, stack[t] # <<>>,
         Current(t).i = M, UNCHANGED <<cols, jobs, out>>,
         \A u \in Threads \ {t} : stack'[u] = stack[u],
         DOMAIN stack'[t] = 1 .. Len(stack[t]) - 1,
         \A k \in 1 .. Len(stack[t]) - 1 : stack'[t][k] = stack[t][k]
  PROVE  PlacesOf(c)' = PlacesOf(c)
<1> DEFINE A == {}
           H == Places(cols, jobs, stack, out, c)
           G == Places(cols, jobs', stack', out', c)
<1>1. /\ Len(stack[t]) \in Nat \ {0} /\ DOMAIN stack[t] = 1 .. Len(stack[t])
      /\ Current(t) = stack[t][Len(stack[t])]
  BY TopOfStack
<1>2. ~Below(cols, Current(t), c)
  BY TopOfStack, NothingBelow DEF Good
<1>3. \A u \in Threads : \A k : <<"call", u, k>> \notin A =>
        (k \in DOMAIN stack'[u] /\ Below(cols, stack'[u][k], c)
           <=> k \in DOMAIN stack[u] /\ Below(cols, stack[u][k], c))
  <2> TAKE u \in Threads
  <2> TAKE k
  <2>1. CASE u # t
    BY <2>1
  <2>2. CASE u = t /\ k = Len(stack[t])
    BY <1>1, <1>2, <2>2
  <2>3. CASE u = t /\ k # Len(stack[t])
    BY <1>1, <2>3
  <2> QED BY <2>1, <2>2, <2>3
<1>4. \A g : g \in G <=> g \in H
  BY <1>3, SameElsewhere
<1> QED BY <1>4 DEF PlacesOf

\* jq_push: the queue takes the child over.
LEMMA PublishMoves ==
  ASSUME IInv, NEW t \in Threads, Publish(t),
         NEW c \in Good, \E h : PlacesOf(c) = {h}
  PROVE  \E h : PlacesOf(c)' = {h}
<1> DEFINE n == Current(t)
           ns == <<>>
           a == <<"call", t, Len(stack[t])>>
           b == <<"job", Len(jobs) + 1>>
           A == {a, b}
           H == Places(cols, jobs, stack, out, c)
           G == Places(cols, jobs', stack', out', c)
<1>1. /\ pc[t] = "push" /\ jobs' = Append(jobs, n)
      /\ stack' = Replace(t, ns) /\ UNCHANGED <<cols, out>>
  BY DEF Publish, Q!PushStore
<1>2. stack[t] # <<>> /\ jobs \in Seq(GoodNodes)
  BY <1>1, EmptySeq DEF IInv, StackShape
<1>3. ns \in Seq(GoodNodes) /\ Len(ns) = 0
  OBVIOUS
<1>4. /\ Len(stack[t]) \in Nat \ {0} /\ DOMAIN stack[t] = 1 .. Len(stack[t])
      /\ n = stack[t][Len(stack[t])] /\ n \in GoodNodes
  BY <1>2, TopOfStack, CurrentNode
<1> HIDE DEF ns, n
<1>5. /\ DOMAIN stack'[t] = 1 .. Len(stack[t]) - 1
      /\ \A u \in Threads \ {t} : stack'[u] = stack[u]
      /\ \A k \in 1 .. Len(stack[t]) - 1 : stack'[t][k] = stack[t][k]
  <2> DEFINE z == Len(ns)
  <2>1. z \in Nat /\ z = 0
    BY <1>3
  <2> HIDE DEF z
  <2>2. /\ DOMAIN stack'[t] = 1 .. Len(stack[t]) - 1 + z
        /\ \A u \in Threads \ {t} : stack'[u] = stack[u]
        /\ \A k \in 1 .. Len(stack[t]) - 1 : stack'[t][k] = stack[t][k]
    BY <1>1, <1>2, <1>3, <2>1, ReplacedStack DEF z
  <2> QED BY <1>4, <2>1, <2>2
<1>6. /\ Len(jobs) \in Nat /\ DOMAIN jobs = 1 .. Len(jobs)
      /\ DOMAIN jobs' = 1 .. Len(jobs) + 1
      /\ \A k \in 1 .. Len(jobs) : jobs'[k] = jobs[k]
      /\ jobs'[Len(jobs) + 1] = n
  BY <1>1, <1>2, <1>4, AppendProperties, LenProperties
<1>7. \A g : g \notin A => (g \in G <=> g \in H)
  <2>1. \A k : <<"job", k>> \notin A =>
          (k \in DOMAIN jobs' /\ Below(cols, jobs'[k], c)
             <=> k \in DOMAIN jobs /\ Below(cols, jobs[k], c))
    BY <1>6
  <2>2. \A u \in Threads : \A k : <<"call", u, k>> \notin A =>
          (k \in DOMAIN stack'[u] /\ Below(cols, stack'[u][k], c)
             <=> k \in DOMAIN stack[u] /\ Below(cols, stack[u][k], c))
    BY <1>4, <1>5
  <2>3. \A u \in Threads : \A k : <<"out", u, k>> \notin A =>
          (k \in DOMAIN out'[u] /\ out'[u][k] = c
             <=> k \in DOMAIN out[u] /\ out[u][k] = c)
    BY <1>1
  <2> HIDE DEF A
  <2> QED BY <2>1, <2>2, <2>3, SameElsewhere
<1>8. b \notin H /\ a \notin G /\ (b \in G <=> a \in H)
  <2>1. b \notin H
    BY <1>6, PlaceForms
  <2>2. a \notin G
    BY <1>5, PlaceForms
  <2>3. b \in G <=> Below(cols, n, c)
    BY <1>6, PlaceForms
  <2>4. a \in H <=> Below(cols, n, c)
    BY <1>4, PlaceForms
  <2> QED BY <2>1, <2>2, <2>3, <2>4
<1>9. H = PlacesOf(c) /\ G = PlacesOf(c)'
  BY <1>1 DEF PlacesOf
<1> HIDE DEF a, b, H, G
<1>10. \E h : G = {h}
  BY <1>7, <1>8, <1>9, AnswerMoves
<1> QED BY <1>9, <1>10

\* The candidate is accepted: what was to be found from the node is the
\* concept just stored, or is to be found from the child or, later, from the
\* node, and from one of these only.
LEMMA AcceptMoves ==
  ASSUME IInv, NEW t \in Threads, Accept(t),
         NEW c \in Good, \E h : PlacesOf(c) = {h}
  PROVE  \E h : PlacesOf(c)' = {h}
<1> DEFINE n == Current(t)
           m == Child(cols, n)
           ns == <<Advance(n), m>>
           L == Len(stack[t])
           a == <<"call", t, L>>
           b == <<"call", t, L + 1>>
           d == <<"out", t, Len(out[t]) + 1>>
           A == {a, b, d}
           H == Places(cols, jobs, stack, out, c)
           G == Places(cols, jobs', stack', out', c)
           here  == c = AsConcept(m)
           child == Below(cols, m, c)
           next  == Below(cols, Advance(n), c)
<1>1. /\ pc[t] = "work" /\ n.i < M /\ Canonical(cols, n)
      /\ stack' = Replace(t, ns) /\ UNCHANGED <<cols, jobs>>
      /\ out' = [out EXCEPT ![t] = Append(@, AsConcept(m))]
  BY DEF Accept, queueVars, Q!ReadLenHint
<1>2. stack[t] # <<>> /\ out \in [Threads -> Seq(Good)]
  BY <1>1 DEF IInv, StackShape
<1>3. ns \in Seq(GoodNodes) /\ Len(ns) = 2 /\ ns[1] = Advance(n) /\ ns[2] = m
      /\ AsConcept(m) \in Good
  BY <1>1, <1>2, CurrentNode
<1>4. /\ L \in Nat \ {0} /\ DOMAIN stack[t] = 1 .. L /\ n = stack[t][L]
  BY <1>2, TopOfStack
<1>5. /\ Below(cols, n, c) <=> here \/ child \/ next
      /\ ~(here /\ child) /\ ~(here /\ next) /\ ~(child /\ next)
  <2>1. IsConcept(cols, c) /\ c = [ext |-> c.ext, int |-> c.int]
    BY DEF Good, Concept
  <2>2. /\ n \in Node /\ IsConcept(cols, AsConcept(n))
        /\ cols \in AllContexts
    BY <1>2, TopOfStack
  <2> HIDE DEF n
  <2> QED BY <1>1, <2>1, <2>2, AcceptSplits
<1> HIDE DEF ns, m, n, here, child, next
<1>6. /\ DOMAIN stack'[t] = 1 .. L + 1
      /\ \A u \in Threads \ {t} : stack'[u] = stack[u]
      /\ \A k \in 1 .. L - 1 : stack'[t][k] = stack[t][k]
      /\ stack'[t][L] = Advance(n) /\ stack'[t][L + 1] = m
  <2>1. /\ DOMAIN stack'[t] = 1 .. L - 1 + 2
        /\ \A u \in Threads \ {t} : stack'[u] = stack[u]
        /\ \A k \in 1 .. L - 1 : stack'[t][k] = stack[t][k]
        /\ \A k \in 1 .. 2 : stack'[t][L - 1 + k] = ns[k]
    BY <1>1, <1>2, <1>3, ReplacedStack
  <2> HIDE DEF L
  <2>2. L - 1 + 2 = L + 1 /\ L - 1 + 1 = L /\ 1 \in 1 .. 2 /\ 2 \in 1 .. 2
    BY <1>4
  <2>3. stack'[t][L - 1 + 1] = ns[1] /\ stack'[t][L - 1 + 2] = ns[2]
    BY <2>1, <2>2
  <2> QED BY <1>3, <2>1, <2>2, <2>3
<1>7. /\ Len(out[t]) \in Nat /\ DOMAIN out[t] = 1 .. Len(out[t])
      /\ DOMAIN out'[t] = 1 .. Len(out[t]) + 1
      /\ \A u \in Threads \ {t} : out'[u] = out[u]
      /\ \A k \in 1 .. Len(out[t]) : out'[t][k] = out[t][k]
      /\ out'[t][Len(out[t]) + 1] = AsConcept(m)
  <2> DEFINE o == out[t]
  <2>1. o \in Seq(Good) /\ out'[t] = Append(o, AsConcept(m))
        /\ \A u \in Threads \ {t} : out'[u] = out[u]
    BY <1>1, <1>2
  <2> HIDE DEF o
  <2>2. /\ Append(o, AsConcept(m)) \in Seq(Good)
        /\ Len(Append(o, AsConcept(m))) = Len(o) + 1
        /\ \A k \in 1 .. Len(o) : Append(o, AsConcept(m))[k] = o[k]
        /\ Append(o, AsConcept(m))[Len(o) + 1] = AsConcept(m)
    BY <1>3, <2>1, AppendProperties
  <2>3. Len(o) \in Nat /\ DOMAIN o = 1 .. Len(o)
        /\ DOMAIN Append(o, AsConcept(m)) = 1 .. Len(Append(o, AsConcept(m)))
    BY <2>1, <2>2, LenProperties
  <2>4. out'[t] = Append(o, AsConcept(m)) /\ \A u \in Threads \ {t} : out'[u] = out[u]
    BY <2>1
  <2> QED BY <2>2, <2>3, <2>4 DEF o
<1> HIDE DEF L
<1>8. \A g : g \notin A => (g \in G <=> g \in H)
  <2>1. \A k : <<"job", k>> \notin A =>
          (k \in DOMAIN jobs' /\ Below(cols, jobs'[k], c)
             <=> k \in DOMAIN jobs /\ Below(cols, jobs[k], c))
    BY <1>1
  <2>2. \A u \in Threads : \A k : <<"call", u, k>> \notin A =>
          (k \in DOMAIN stack'[u] /\ Below(cols, stack'[u][k], c)
             <=> k \in DOMAIN stack[u] /\ Below(cols, stack[u][k], c))
    BY <1>4, <1>6
  <2>3. \A u \in Threads : \A k : <<"out", u, k>> \notin A =>
          (k \in DOMAIN out'[u] /\ out'[u][k] = c
             <=> k \in DOMAIN out[u] /\ out[u][k] = c)
    BY <1>7
  <2> HIDE DEF A
  <2> QED BY <2>1, <2>2, <2>3, SameElsewhere
<1>9. /\ b \notin H /\ d \notin H /\ (a \in H <=> Below(cols, n, c))
      /\ (a \in G <=> next) /\ (b \in G <=> child) /\ (d \in G <=> here)
  <2>1. b \notin H /\ (a \in H <=> Below(cols, n, c))
    BY <1>4, PlaceForms
  <2>2. d \notin H
    BY <1>7, PlaceForms
  <2>3. (a \in G <=> next) /\ (b \in G <=> child)
    BY <1>4, <1>6, PlaceForms DEF next, child
  <2>4. d \in G <=> here
    BY <1>7, PlaceForms DEF here
  <2> QED BY <2>1, <2>2, <2>3, <2>4
<1>10. a # b /\ a # d /\ b # d
  BY <1>4, Tags
<1>11. H = PlacesOf(c) /\ G = PlacesOf(c)'
  BY <1>1 DEF PlacesOf
<1> HIDE DEF a, b, d, H, G
<1>12. a \in H => \E g \in A : \A k \in A : k \in G <=> k = g
  BY <1>5, <1>9, <1>10
<1>13. a \notin H => G \cap A = {}
  BY <1>5, <1>9
<1>14. H \cap A \subseteq {a} /\ a \in A
  BY <1>9
<1> HIDE DEF A
<1>15. \E h : H = {h}
  BY <1>11
<1>16. \E h : G = {h}
  BY ONLY <1>8, <1>15, <1>12, <1>13, <1>14, AnswerMoves
<1> QED BY <1>11, <1>16

-----------------------------------------------------------------------------
LEMMA StepOnce ==
  ASSUME IInv, NEW t \in Threads, Step(t),
         NEW c \in Good, \E h : PlacesOf(c) = {h}
  PROVE  \E h : PlacesOf(c)' = {h}
<1>1. CASE Take(t)
  BY <1>1, TakeMoves
<1>2. CASE Idle(t) \/ CheckBudget(t) \/ PublishDone(t)
  <2>1. UNCHANGED <<cols, jobs, stack, out>>
    BY <1>2 DEF Idle, CheckBudget, PublishDone, Q!PopExit, Q!PopWait,
                Q!ReadPublished, Q!PushSignal
  <2> QED BY <2>1, SamePlaces
<1>3. CASE Reject(t)
  BY <1>3, RejectStays
<1>4. CASE Accept(t)
  BY <1>4, AcceptMoves
<1>5. CASE Publish(t)
  BY <1>5, PublishMoves
<1>6. CASE Return(t)
  <2> DEFINE ns == <<>>
             z  == Len(ns)
  <2>1. /\ pc[t] = "work" /\ Current(t).i = M /\ stack' = Replace(t, ns)
        /\ UNCHANGED <<cols, jobs, out>>
    BY <1>6 DEF Return, queueVars
  <2>2. stack[t] # <<>>
    BY <2>1 DEF IInv, StackShape
  <2>3. ns \in Seq(GoodNodes) /\ z \in Nat /\ z = 0 /\ Len(ns) = z
    OBVIOUS
  <2> HIDE DEF ns, z
  <2>4. /\ DOMAIN stack'[t] = 1 .. Len(stack[t]) - 1 + z
        /\ \A u \in Threads \ {t} : stack'[u] = stack[u]
        /\ \A k \in 1 .. Len(stack[t]) - 1 : stack'[t][k] = stack[t][k]
    BY <2>1, <2>2, <2>3, ReplacedStack
  <2>5. DOMAIN stack'[t] = 1 .. Len(stack[t]) - 1
    BY <2>2, <2>3, <2>4, TopOfStack
  <2> QED BY <2>1, <2>2, <2>4, <2>5, ReturnStays
<1>7. CASE Finish(t)
  <2>1. /\ stack[t] # <<>> /\ Current(t).i = M /\ Len(stack[t]) = 1
        /\ stack' = [stack EXCEPT ![t] = <<>>] /\ UNCHANGED <<cols, jobs, out>>
    BY <1>7 DEF Finish, Q!Done
  <2>2. /\ stack'[t] = <<>> /\ \A u \in Threads \ {t} : stack'[u] = stack[u]
    BY <2>1 DEF IInv
  <2>3. DOMAIN stack'[t] = 1 .. Len(stack[t]) - 1
    BY <2>1, <2>2
  <2>4. \A k \in 1 .. Len(stack[t]) - 1 : stack'[t][k] = stack[t][k]
    BY <2>1
  <2> QED BY <2>1, <2>2, <2>3, <2>4, ReturnStays
<1> QED BY <1>1, <1>2, <1>3, <1>4, <1>5, <1>6, <1>7 DEF Step

LEMMA OnceInductive == IInv /\ OnePlace /\ [Next]_vars => OnePlace'
<1> SUFFICES ASSUME IInv, OnePlace, [Next]_vars,
                    NEW c \in Good', c # Top(cols)'
             PROVE  \E h : PlacesOf(c)' = {h}
  BY DEF OnePlace
<1>1. cols' = cols
  BY DEF Next, Step, vars, queueVars, Take, Idle, Reject, Accept, CheckBudget,
         Publish, PublishDone, Return, Finish, Wakeup, Collect, Terminated
<1>2. c \in Good /\ c # Top(cols)
  BY <1>1 DEF Good
<1>3. \E h : PlacesOf(c) = {h}
  BY <1>2 DEF OnePlace
<1>4. ASSUME NEW t \in Threads, Step(t) PROVE \E h : PlacesOf(c)' = {h}
  BY <1>2, <1>3, <1>4, StepOnce
<1>5. ASSUME NEW t \in Threads, Wakeup(t) PROVE \E h : PlacesOf(c)' = {h}
  BY <1>3, <1>5, SamePlaces DEF Wakeup, Q!SpuriousWakeup
<1>6. CASE Collect \/ Terminated \/ UNCHANGED vars
  BY <1>3, <1>6, SamePlaces DEF Collect, Terminated, vars, queueVars
<1> QED BY <1>4, <1>5, <1>6 DEF Next

\* At the start every concept but top is to be found from the initial job.
LEMMA OnceInitially == Init => OnePlace
<1> SUFFICES ASSUME Init, NEW c \in Good, c # Top(cols)
             PROVE  \E h : PlacesOf(c) = {h}
  BY DEF OnePlace
<1>1. /\ cols \in AllContexts /\ jobs = <<Root(cols)>>
      /\ stack = [t \in Threads |-> <<>>] /\ out = [t \in Threads |-> <<>>]
  BY ContextsAssumption DEF Init
<1>2. Below(cols, Root(cols), c)
  <2>1. IsConcept(cols, c) /\ c = [ext |-> c.ext, int |-> c.int]
    BY DEF Good, Concept
  <2> QED BY <1>1, <2>1, AllBelowRoot
<1> DEFINE H == Places(cols, jobs, stack, out, c)
<1>3. DOMAIN jobs = {1} /\ jobs[1] = Root(cols)
  BY <1>1
<1>4. \A t \in Threads : DOMAIN stack[t] = {} /\ DOMAIN out[t] = {}
  BY <1>1
<1>5. <<"job", 1>> \in H
  BY <1>2, <1>3, PlaceForms
<1>6. \A h \in H : h = <<"job", 1>>
  BY <1>3, <1>4, PlaceForms
<1>7. H = {<<"job", 1>>}
  BY <1>5, <1>6
<1> QED BY <1>7 DEF PlacesOf

\* OnePlace says of the places what ExactlyOnce says of the holders.
LEMMA HoldersArePlaces ==
  ASSUME NEW c
  PROVE  \A h : h \in Holders /\ Holds(h, c) <=> h \in PlacesOf(c)
<1> DEFINE H == Places(cols, jobs, stack, out, c)
<1> DEFINE J == {<<"job", k>> : k \in DOMAIN jobs}
           C == UNION {{<<"call", t, k>> : k \in DOMAIN stack[t]} : t \in Threads}
           O == UNION {{<<"out", t, k>> : k \in DOMAIN out[t]} : t \in Threads}
<1>1. /\ \A k : <<"job", k>> \in Holders <=> k \in DOMAIN jobs
      /\ \A t, k : <<"call", t, k>> \in Holders <=> t \in Threads /\ k \in DOMAIN stack[t]
      /\ \A t, k : <<"out", t, k>> \in Holders <=> t \in Threads /\ k \in DOMAIN out[t]
      /\ \A h \in Holders : \/ \E k : h = <<"job", k>>
                            \/ \E t, k : h = <<"call", t, k>>
                            \/ \E t, k : h = <<"out", t, k>>
  <2>1. /\ \A k : <<"job", k>> \in J <=> k \in DOMAIN jobs
        /\ \A h \in J : \E k : h = <<"job", k>>
    BY Tags
  <2>2. /\ \A t, k : <<"call", t, k>> \in C <=> t \in Threads /\ k \in DOMAIN stack[t]
        /\ \A h \in C : \E t, k : h = <<"call", t, k>>
    BY Tags
  <2>3. /\ \A t, k : <<"out", t, k>> \in O <=> t \in Threads /\ k \in DOMAIN out[t]
        /\ \A h \in O : \E t, k : h = <<"out", t, k>>
    BY Tags
  <2>4. Holders = J \cup C \cup O
    BY DEF Holders
  <2> HIDE DEF J, C, O
  <2> QED BY <2>1, <2>2, <2>3, <2>4, Tags
<1>2. /\ \A k : Holds(<<"job", k>>, c) <=> Below(cols, jobs[k], c)
      /\ \A t, k : Holds(<<"call", t, k>>, c) <=> Below(cols, stack[t][k], c)
      /\ \A t, k : Holds(<<"out", t, k>>, c) <=> out[t][k] = c
  BY DEF Holds
<1> TAKE h
<1>3. CASE \E k : h = <<"job", k>>
  BY <1>1, <1>2, <1>3, PlaceForms DEF PlacesOf
<1>4. CASE \E t, k : h = <<"call", t, k>>
  BY <1>1, <1>2, <1>4, PlaceForms DEF PlacesOf
<1>5. CASE \E t, k : h = <<"out", t, k>>
  BY <1>1, <1>2, <1>5, PlaceForms DEF PlacesOf
<1>6. h \in Holders \/ h \in PlacesOf(c) =>
        \/ \E k : h = <<"job", k>>
        \/ \E t, k : h = <<"call", t, k>>
        \/ \E t, k : h = <<"out", t, k>>
  BY <1>1, PlaceForms DEF PlacesOf
<1> QED BY <1>3, <1>4, <1>5, <1>6

\* Every concept but top is answered for exactly once, at every moment, for
\* every context, number of threads and limit: the threads of cbo_enum_job
\* lose no concept and find none twice.
THEOREM FindsEachOnce == Spec => []ExactlyOnce
<1>1. OnePlace => ExactlyOnce
  <2> SUFFICES ASSUME OnePlace, NEW c \in Concepts(cols) \ {Top(cols)}
               PROVE  \E h \in Holders : \A g \in Holders : Holds(g, c) <=> g = h
    BY DEF ExactlyOnce
  <2>1. c \in Good
    BY DEF Good, Concepts, IsConcept, Concept, Extent, Intent, Attributes
  <2>2. PICK h : PlacesOf(c) = {h}
    BY <2>1 DEF OnePlace
  <2>3. \A g : g \in Holders /\ Holds(g, c) <=> g = h
    BY <2>2, HoldersArePlaces
  <2> QED BY <2>3
<1>2. Init => OnePlace
  BY OnceInitially
<1>3. IInv /\ OnePlace /\ [Next]_vars => OnePlace'
  BY OnceInductive
<1>4. Spec => []IInv
  BY Initially, Inductive, PTL DEF Spec
<1> QED BY <1>1, <1>2, <1>3, <1>4, PTL DEF Spec

-----------------------------------------------------------------------------
QP == INSTANCE JobQueueProofs WITH Jobs <- Node

LEMMA QueueAssumptions ==
  QP!IsFiniteSet(Threads) /\ Threads # {} /\ Node # {}
<1>1. QP!IsFiniteSet(Threads)
  <2>1. IsFiniteSet(Threads)
    BY FS_Interval, NThreadsAssumption DEF Threads
  <2> QED BY <2>1, Zenon DEF IsFiniteSet, QP!IsFiniteSet
<1>2. 1 \in Threads
  BY NThreadsAssumption DEF Threads
<1>3. [ext |-> {}, int |-> {}, i |-> 0, depth |-> 0] \in Node
  BY MAssumption DEF Node
<1> QED BY <1>1, <1>2, <1>3

\* The queue's invariant, with the nodes for jobs.
LEMMA QueueInit == QP!Init => QP!IInv
BY QP!InitIInv, QueueAssumptions, SpawnAssumption

LEMMA QueueKept == QP!IInv /\ [QP!Next]_(QP!vars) => QP!IInv'
BY QP!StepIInv, QueueAssumptions, SpawnAssumption

\* It holds of the queue that the enumeration uses.
LEMMA QueueHolds == Spec => []QP!IInv
<1>1. Q!Init => QP!Init
  BY DEF Q!Init, QP!Init
<1>2. [Q!Next]_(Q!vars) => [QP!Next]_(QP!vars)
  <2>1. Q!Next => QP!Next
    BY DEF Q!Next, Q!Pop, Q!PopExit, Q!PopWait, Q!SpuriousWakeup, Q!ReadLenHint,
           Q!ReadPublished, Q!PushStore, Q!PushSignal, Q!Done, Q!Sleepers, Q!At,
           Q!MutexFree, Q!MoveAndWake,
           QP!Next, QP!Pop, QP!PopExit, QP!PopWait, QP!SpuriousWakeup,
           QP!ReadLenHint, QP!ReadPublished, QP!PushStore, QP!PushSignal,
           QP!Done, QP!Sleepers, QP!At, QP!MutexFree, QP!MoveAndWake
  <2> QED BY <2>1 DEF Q!vars, QP!vars
<1>3. Q!Spec => []QP!IInv
  BY <1>1, <1>2, QueueInit, QueueKept, PTL DEF Q!Spec
<1> QED BY <1>3, UsesQueue, PTL

-----------------------------------------------------------------------------
\* The vectors hold concept c once, between them.
StoredOnce(c) ==
  \E t \in Threads : \E k \in DOMAIN out[t] :
    /\ out[t][k] = c
    /\ \A u \in Threads : \A m \in DOMAIN out[u] : out[u][m] = c => u = t /\ m = k

AllStored == \A c \in Concepts(cols) \ {Top(cols)} : StoredOnce(c)

Joined == \A t \in Threads : pc[t] = "exit"

\* When pthread_join has returned for every thread, their vectors hold every
\* concept but top once, and only concepts: what build_lattice_cbo_csr copies
\* is the set of concepts, whatever the threads shared out.
THEOREM CompleteAtJoin == Spec => [](Joined => AllStored)
<1>1. IInv /\ QP!IInv /\ ExactlyOnce => (Joined => AllStored)
  <2> SUFFICES ASSUME IInv, QP!IInv, ExactlyOnce, Joined,
                      NEW c \in Concepts(cols) \ {Top(cols)}
               PROVE  StoredOnce(c)
    BY DEF AllStored
  <2>1. jobs = <<>>
    <3>1. 1 \in Threads /\ pc[1] = "exit"
      BY NThreadsAssumption DEF Threads, Joined
    <3> QED BY <3>1 DEF QP!IInv, QP!NoEarlyExit, QP!At
  <2>2. \A t \in Threads : stack[t] = <<>>
    BY DEF IInv, StackShape, Joined
  <2>3. PICK h \in Holders : \A g \in Holders : Holds(g, c) <=> g = h
    BY DEF ExactlyOnce
  <2>4. h \in PlacesOf(c) /\ \A g \in PlacesOf(c) : g = h
    BY <2>3, HoldersArePlaces
  <2>5. PICK t, k : h = <<"out", t, k>>
    <3>1. DOMAIN jobs = {} /\ \A t \in Threads : DOMAIN stack[t] = {}
      BY <2>1, <2>2
    <3> QED BY <2>4, <3>1, PlaceForms DEF PlacesOf
  <2>6. t \in Threads /\ k \in DOMAIN out[t] /\ out[t][k] = c
    BY <2>4, <2>5, PlaceForms DEF PlacesOf
  <2>7. ASSUME NEW u \in Threads, NEW m \in DOMAIN out[u], out[u][m] = c
        PROVE  u = t /\ m = k
    <3>1. <<"out", u, m>> \in PlacesOf(c)
      BY <2>7, PlaceForms DEF PlacesOf
    <3> QED BY <2>4, <2>5, <3>1, Tags
  <2> QED BY <2>6, <2>7 DEF StoredOnce
<1>2. Spec => []IInv
  BY Initially, Inductive, PTL DEF Spec
<1> QED BY <1>1, <1>2, QueueHolds, FindsEachOnce, PTL

-----------------------------------------------------------------------------
(***************************************************************************)
(* The threads implement the enumeration: storing a concept is finding one *)
(* that was not found before, and what is handed over at the end are the   *)
(* concepts of the context.                                                *)
(***************************************************************************)
\* The concepts found, and the entries of the vectors that hold them.
Found == {Top(cols)} \cup UNION {ToSet(out[t]) : t \in Threads}
Cells == UNION {{t} \X DOMAIN out[t] : t \in Threads}

LEMMA GoodConcepts ==
  ASSUME cols \in AllContexts
  PROVE  Good = Concepts(cols)
<1>1. ASSUME NEW c \in Good PROVE c \in Concepts(cols)
  <2>1. c.int \in SUBSET Attributes /\ c.ext = Extent(cols, c.int)
        /\ c = [ext |-> c.ext, int |-> Intent(cols, c.ext)]
    BY DEF Good, IsConcept, Concept
  <2> QED BY <2>1 DEF Concepts
<1>2. ASSUME NEW c \in Concepts(cols) PROVE c \in Good
  <2>1. PICK B \in SUBSET Attributes :
          c = [ext |-> Extent(cols, B), int |-> Intent(cols, Extent(cols, B))]
    BY DEF Concepts
  <2>2. c.ext \subseteq Objects /\ c.int \subseteq Attributes /\ c \in Concept
    BY <2>1 DEF Extent, Intent, Concept
  <2>3. Extent(cols, c.int) = Extent(cols, B)
    <3>1. B \subseteq c.int
      BY <2>1 DEF Extent, Intent
    <3>2. \A o \in c.ext : \A a \in c.int : o \in cols[a]
      BY <2>1 DEF Intent
    <3> QED BY <2>1, <2>2, <3>1, <3>2 DEF Extent
  <2> QED BY <2>1, <2>2, <2>3 DEF Good, IsConcept
<1> QED BY <1>1, <1>2

\* A stored concept is none of those stored before, and not top.
LEMMA AcceptIsNew ==
  ASSUME IInv, OnePlace, NEW t \in Threads, Accept(t)
  PROVE  /\ AsConcept(Child(cols, Current(t))) \in Good
         /\ AsConcept(Child(cols, Current(t))) \notin Found
<1> DEFINE n == Current(t)
           L == Len(stack[t])
           c == AsConcept(Child(cols, n))
<1>1. pc[t] = "work" /\ n.i < M /\ Canonical(cols, n)
  BY DEF Accept
<1>2. stack[t] # <<>> /\ cols \in AllContexts
  BY <1>1 DEF IInv, StackShape
<1>3. c \in Good
  BY <1>1, <1>2, CurrentNode
<1>4. L \in DOMAIN stack[t] /\ n = stack[t][L] /\ n \in Node /\ IsConcept(cols, AsConcept(n))
  BY <1>2, TopOfStack
<1> HIDE DEF n, L
<1>5. Below(cols, n, c)
  <2>1. IsConcept(cols, c) /\ c = [ext |-> c.ext, int |-> c.int]
    BY <1>3 DEF Good, Concept
  <2> QED BY <1>1, <1>2, <1>4, <2>1, AcceptSplits
<1> HIDE DEF c
<1>6. c # Top(cols)
  <2>1. n.int = Intent(cols, n.ext) /\ n.ext \subseteq Objects
    BY <1>4 DEF IsConcept, AsConcept, Node
  <2>2. Intent(cols, Objects) \subseteq n.int
    BY <2>1 DEF Intent
  <2>3. c.int # Intent(cols, Objects)
    BY <1>5, <2>2 DEF Below
  <2>4. Top(cols).int = Intent(cols, Objects)
    BY DEF Top
  <2> QED BY <2>3, <2>4
<1>7. <<"call", t, L>> \in PlacesOf(c)
  BY <1>4, <1>5, PlaceForms DEF PlacesOf
<1>8. ASSUME NEW u \in Threads, NEW k \in DOMAIN out[u] PROVE out[u][k] # c
  <2>1. out[u][k] = c => <<"out", u, k>> \in PlacesOf(c)
    BY PlaceForms DEF PlacesOf
  <2>2. PICK h : PlacesOf(c) = {h}
    BY <1>3, <1>6 DEF OnePlace
  <2> QED BY <1>7, <2>1, <2>2, Tags
<1> QED BY <1>3, <1>6, <1>8 DEF Found, ToSet, c, n

\* Storing it adds it to those found, and one entry to those that hold them.
LEMMA AcceptFinds ==
  ASSUME IInv, OnePlace, IsFiniteSet(Cells), NEW t \in Threads, Accept(t)
  PROVE  /\ \E c \in Concepts(cols) : c \notin Found /\ Found' = Found \cup {c}
         /\ IsFiniteSet(Cells')
         /\ 1 + Cardinality(Cells') = 1 + Cardinality(Cells) + 1
         /\ UNCHANGED <<cols, concepts>>
<1> DEFINE c == AsConcept(Child(cols, Current(t)))
           o == out[t]
           z == Len(out[t]) + 1
<1>1. out' = [out EXCEPT ![t] = Append(@, c)] /\ UNCHANGED <<cols, concepts>>
  BY DEF Accept
<1>2. c \in Good /\ c \notin Found
  BY AcceptIsNew
<1>3. out \in [Threads -> Seq(Good)] /\ cols \in AllContexts
  BY DEF IInv
<1> HIDE DEF c
<1>4. o \in Seq(Good) /\ out'[t] = Append(o, c) /\ \A u \in Threads \ {t} : out'[u] = out[u]
  BY <1>1, <1>3
<1>5. /\ z - 1 \in Nat /\ z \in Nat /\ DOMAIN o = 1 .. z - 1
      /\ DOMAIN out'[t] = 1 .. z
      /\ \A k \in 1 .. z - 1 : out'[t][k] = o[k]
      /\ out'[t][z] = c
  <2> HIDE DEF o
  <2>1. /\ Append(o, c) \in Seq(Good) /\ Len(Append(o, c)) = Len(o) + 1
        /\ \A k \in 1 .. Len(o) : Append(o, c)[k] = o[k]
        /\ Append(o, c)[Len(o) + 1] = c
    BY <1>2, <1>4, AppendProperties
  <2>2. Len(o) \in Nat /\ DOMAIN o = 1 .. Len(o)
        /\ DOMAIN Append(o, c) = 1 .. Len(Append(o, c))
    BY <1>4, <2>1, LenProperties
  <2>3. z = Len(o) + 1
    BY DEF o
  <2> HIDE DEF z
  <2>4. z - 1 = Len(o) /\ z \in Nat
    BY <2>2, <2>3
  <2> QED BY <1>4, <2>1, <2>2, <2>3, <2>4
<1> HIDE DEF o, z
<1>6. DOMAIN out'[t] = DOMAIN o \cup {z} /\ z \notin DOMAIN o
  BY <1>5
<1>7. ToSet(out'[t]) = ToSet(o) \cup {c}
  <2>1. \A k \in DOMAIN o : out'[t][k] = o[k]
    BY <1>5
  <2>2. out'[t][z] = c
    BY <1>5
  <2> QED BY ONLY <1>6, <2>1, <2>2 DEF ToSet
<1>8. Found' = Found \cup {c}
  <2>1. Top(cols)' = Top(cols)
    BY <1>1 DEF Top, Intent
  <2>2. UNION {ToSet(out'[u]) : u \in Threads} = (UNION {ToSet(out[u]) : u \in Threads}) \cup {c}
    <3>1. ASSUME NEW x PROVE (\E u \in Threads : x \in ToSet(out'[u]))
                               <=> (\E u \in Threads : x \in ToSet(out[u])) \/ x = c
      BY <1>4, <1>7 DEF o
    <3> QED BY <3>1
  <2> QED BY <2>1, <2>2 DEF Found
<1>9. Cells' = Cells \cup {<<t, z>>} /\ <<t, z>> \notin Cells
  <2>1. \A u, k : <<u, k>> \in Cells <=> u \in Threads /\ k \in DOMAIN out[u]
    BY DEF Cells
  <2>2. \A u, k : <<u, k>> \in Cells' <=> u \in Threads /\ k \in DOMAIN out'[u]
    BY DEF Cells
  <2>3. \A p \in Cells : p = <<p[1], p[2]>>
    BY DEF Cells
  <2>4. \A p \in Cells' : p = <<p[1], p[2]>>
    BY DEF Cells
  <2>5. \A u, k : <<u, k>> \in Cells' <=> <<u, k>> \in Cells \/ (u = t /\ k = z)
    BY <1>4, <1>6, <2>1, <2>2 DEF o
  <2>6. <<t, z>> \notin Cells
    BY <1>6, <2>1 DEF o
  <2> QED BY <2>3, <2>4, <2>5, <2>6
<1>10. /\ IsFiniteSet(Cells')
       /\ Cardinality(Cells') = Cardinality(Cells) + 1 /\ Cardinality(Cells) \in Nat
  BY <1>9, FS_AddElement, FS_CardinalityType
<1> QED BY <1>1, <1>2, <1>3, <1>8, <1>10, GoodConcepts

\* Once all threads have been joined, all concepts have been found.
LEMMA AllFound ==
  ASSUME IInv, AllStored
  PROVE  Found = Concepts(cols)
<1>1. cols \in AllContexts /\ out \in [Threads -> Seq(Good)]
  BY DEF IInv
<1>2. Good = Concepts(cols)
  BY <1>1, GoodConcepts
<1>3. Top(cols) \in Good
  <2>1. IsConcept(cols, AsConcept(Root(cols)))
    BY <1>1, RootConcept
  <2> QED BY <2>1 DEF AsConcept, Root, Top, Good, IsConcept
<1>4. ASSUME NEW t \in Threads PROVE ToSet(out[t]) \subseteq Good
  <2>1. out[t] \in Seq(Good)
    BY <1>1
  <2> QED BY <2>1, LenProperties, ElementOfSeq DEF ToSet
<1>5. ASSUME NEW c \in Good, c # Top(cols) PROVE \E t \in Threads : c \in ToSet(out[t])
  BY <1>2, <1>5 DEF AllStored, StoredOnce, ToSet
<1> QED BY <1>2, <1>3, <1>4, <1>5 DEF Found

\* What is copied are the concepts found.
LEMMA CollectHandsOver ==
  ASSUME IInv, Collect
  PROVE  ToSet(concepts') = Found
<1> DEFINE f == FlattenSeq(out)
           s == <<Top(cols)>>
           C == Good
<1>1. cols \in AllContexts /\ out \in [Threads -> Seq(C)]
  BY DEF IInv
<1>2. Top(cols) \in C
  <2>1. IsConcept(cols, AsConcept(Root(cols)))
    BY <1>1, RootConcept
  <2> QED BY <2>1 DEF AsConcept, Root, Top, Good, IsConcept
<1>3. DOMAIN out = Threads /\ Threads = 1 .. NThreads /\ NThreads \in Nat
  BY <1>1, NThreadsAssumption DEF Threads
<1> HIDE DEF C
<1>4. out \in Seq(Seq(C))
  BY <1>1, <1>3
<1>5. f \in Seq(C) /\ ToSet(f) = UNION {ToSet(out[t]) : t \in Threads}
  BY <1>3, <1>4, FlattenElements
<1> HIDE DEF f
<1>6. s \in Seq(C) /\ ToSet(s) = {Top(cols)}
  BY <1>2 DEF ToSet
<1> HIDE DEF s
<1>7. ToSet(s \o f) = ToSet(s) \cup ToSet(f)
  BY <1>5, <1>6, ConcatElements
<1>8. concepts' = s \o f
  BY DEF Collect, s, f
<1> QED BY <1>5, <1>6, <1>7, <1>8 DEF Found

\* A step of a thread other than Accept finds nothing and hands over nothing.
LEMMA StoresNothing ==
  ASSUME NEW t \in Threads, Step(t) \/ Wakeup(t), ~Accept(t)
  PROVE  UNCHANGED <<cols, out, concepts>>
BY DEF Step, Take, Idle, Reject, CheckBudget, Publish, PublishDone, Return, Finish, Wakeup

\* How many entries there are is a number, whatever step is taken.
LEMMA CellsFinite ==
  IInv /\ OnePlace /\ IsFiniteSet(Cells) /\ [Next]_vars => IsFiniteSet(Cells')
<1> SUFFICES ASSUME IInv, OnePlace, IsFiniteSet(Cells), [Next]_vars
             PROVE  IsFiniteSet(Cells')
  OBVIOUS
<1>1. ASSUME NEW t \in Threads, Accept(t) PROVE IsFiniteSet(Cells')
  BY <1>1, AcceptFinds
<1>2. ASSUME out' = out PROVE IsFiniteSet(Cells')
  BY <1>2 DEF Cells
<1>3. ASSUME NEW t \in Threads, Step(t) \/ Wakeup(t), ~Accept(t) PROVE out' = out
  BY <1>3, StoresNothing
<1>4. Collect \/ Terminated \/ UNCHANGED vars => out' = out
  BY DEF Collect, Terminated, vars
<1> QED BY <1>1, <1>2, <1>3, <1>4 DEF Next

LEMMA CellsInitially == Init => IsFiniteSet(Cells) /\ Cells = {}
<1> SUFFICES ASSUME Init PROVE Cells = {}
  BY FS_EmptySet
<1>1. \A t \in Threads : DOMAIN out[t] = {}
  BY DEF Init
<1> QED BY <1>1 DEF Cells

\* A step of the threads is a step of the enumeration, or none of it.
LEMMA EnumerationStep ==
  ASSUME IInv, OnePlace, IsFiniteSet(Cells), Joined => AllStored, [Next]_vars
  PROVE  [E!Next]_(E!vars)
<1> DEFINE found  == {Top(cols)} \cup UNION {ToSet(out[t]) : t \in Threads}
           stored == 1 + Cardinality(UNION {{t} \X DOMAIN out[t] : t \in Threads})
<1>1. found = Found /\ stored = 1 + Cardinality(Cells)
  BY DEF Found, Cells
<1>2. found' = Found' /\ stored' = 1 + Cardinality(Cells')
  BY DEF Found, Cells
<1>3. E!Concepts(cols) = Concepts(cols)
  BY DEF E!Concepts, Concepts, E!Extent, Extent, E!Intent, Intent, E!Attributes, Attributes
<1>4. ASSUME UNCHANGED <<cols, out, concepts>> PROVE UNCHANGED E!vars
  BY <1>4 DEF E!vars, Top, Intent, E!Top, E!Intent, E!Attributes, Attributes
<1>5. ASSUME NEW t \in Threads, Accept(t) PROVE E!Next
  <2>1. PICK c \in Concepts(cols) : c \notin Found /\ Found' = Found \cup {c}
    BY <1>5, AcceptFinds
  <2>2. stored' = stored + 1 /\ UNCHANGED <<cols, ToSet(concepts)>>
    <3> HIDE DEF stored
    <3> QED BY <1>1, <1>2, <1>5, AcceptFinds
  <2>3. E!Find(c)
    <3> HIDE DEF stored
    <3> QED BY <1>1, <1>2, <2>1, <2>2 DEF E!Find, stored
  <2> QED BY <1>3, <2>1, <2>3 DEF E!Next
<1>6. CASE Collect
  <2>1. Joined /\ concepts = <<>> /\ UNCHANGED <<cols, out>>
    BY <1>6 DEF Collect, Joined
  <2>2. ToSet(concepts') = Found /\ Found = Concepts(cols) /\ ToSet(concepts) = {}
    BY <1>6, <2>1, CollectHandsOver, AllFound DEF ToSet
  <2>3. found' = found /\ stored' = stored
    BY <2>1 DEF Top, Intent
  <2>4. E!HandOver
    BY <1>1, <1>3, <2>1, <2>2, <2>3 DEF E!HandOver
  <2> QED BY <2>4 DEF E!Next
<1>7. ASSUME NEW t \in Threads, Step(t) \/ Wakeup(t), ~Accept(t) PROVE UNCHANGED E!vars
  BY <1>4, <1>7, StoresNothing
<1>8. CASE Terminated \/ UNCHANGED vars
  BY <1>4, <1>8 DEF Terminated, vars
<1> QED BY <1>5, <1>6, <1>7, <1>8 DEF Next

\* The threads implement the enumeration, for every context, number of threads
\* and limit of publication: each store finds a concept that was not found
\* before, and build_lattice_cbo_csr hands over the concepts of the context,
\* once, when the last of them has been found.
THEOREM RefinesEnumeration == Spec => E!Init /\ [][E!Next]_(E!vars)
<1>1. Init => E!Init
  <2> SUFFICES ASSUME Init PROVE E!Init
    OBVIOUS
  <2>1. Cardinality(Cells) = 0
    BY CellsInitially, FS_EmptySet
  <2>2. UNION {ToSet(out[t]) : t \in Threads} = {}
    BY DEF Init, ToSet
  <2>3. E!Top(cols) = Top(cols)
    BY DEF E!Top, Top, E!Intent, Intent, E!Attributes, Attributes
  <2>4. ToSet(concepts) = {} /\ cols \in Contexts
    BY DEF Init, ToSet
  <2> QED BY <2>1, <2>2, <2>3, <2>4 DEF E!Init, Cells
<1>2. Spec => []IInv
  BY Initially, Inductive, PTL DEF Spec
<1>3. Spec => []OnePlace
  BY <1>2, OnceInitially, OnceInductive, PTL DEF Spec
<1>4. Spec => []IsFiniteSet(Cells)
  <2>1. Init => IsFiniteSet(Cells)
    BY CellsInitially
  <2>2. IInv /\ OnePlace /\ IsFiniteSet(Cells) /\ [Next]_vars => IsFiniteSet(Cells)'
    BY CellsFinite
  <2> QED BY <1>2, <1>3, <2>1, <2>2, PTL DEF Spec
<1>5. IInv /\ OnePlace /\ IsFiniteSet(Cells) /\ (Joined => AllStored) /\ [Next]_vars
        => [E!Next]_(E!vars)
  BY EnumerationStep
<1> QED BY <1>1, <1>2, <1>3, <1>4, <1>5, CompleteAtJoin, PTL DEF Spec

-----------------------------------------------------------------------------
(***************************************************************************)
(* The roaring variant (RoaringLattice), where threads share a counter of  *)
(* subtrees and no queue.  The counter, the calls of a thread and its      *)
(* vector answer for each concept but top exactly once, whichever thread   *)
(* takes which subtree and when.                                           *)
(***************************************************************************)
CONSTANTS RoaringContexts, Null, ThreadCounts, Batch
VARIABLES ctx, ord, st, result

R == INSTANCE RoaringLattice WITH Contexts <- RoaringContexts
FP == INSTANCE FormalContextProofs WITH Objects <- ctx.objs, M <- R!M

\* Attributes are numbered from 0, and there is a thread (detect_nthreads).
RoaringAssumption ==
  /\ \A C \in RoaringContexts : \E m \in Nat : C.cols \in [0 .. m - 1 -> SUBSET C.objs]
  /\ ThreadCounts \subseteq Nat \ {0}

\* The nodes and the concepts of the context.
CtxNodes == {n \in FP!Node : FP!IsConcept(ctx.cols, FP!AsConcept(n))}
CtxConcepts == {c \in FP!Concept : FP!IsConcept(ctx.cols, c)}

TeamThreads == [calls : Seq(CtxNodes), out : Seq(CtxConcepts), over : BOOLEAN]

Enumerating == st.phase = "enumerate"

IsTeamState == {"phase", "next", "team"} \subseteq DOMAIN st

\* A thread ends with no call under way, when all subtrees have been taken.
TeamInv ==
  /\ ctx \in RoaringContexts /\ IsTeamState
  /\ Enumerating =>
       /\ st.next \in Nat
       /\ st.team \in [DOMAIN st.team -> TeamThreads] /\ DOMAIN st.team # {}
       /\ \A t \in DOMAIN st.team :
            st.team[t].over => st.team[t].calls = <<>> /\ st.next >= R!M

\* The first node of the k-th subtree.
Subtree(k) == [FP!Root(ctx.cols) EXCEPT !.i = k]

LEMMA CtxFacts ==
  ASSUME RoaringAssumption, ctx \in RoaringContexts
  PROVE  /\ R!M \in Nat /\ FP!MAssumption
         /\ ctx.cols \in FP!AllContexts /\ DOMAIN ctx.cols = 0 .. R!M - 1
<1>1. PICK m \in Nat : ctx.cols \in [0 .. m - 1 -> SUBSET ctx.objs]
  BY DEF RoaringAssumption
<1>2. Cardinality(0 .. m - 1) = m
  <2>1. 0 \in Int /\ m - 1 \in Int
    OBVIOUS
  <2>2. Cardinality(0 .. m - 1) = IF 0 > m - 1 THEN 0 ELSE m - 1 - 0 + 1
    BY ONLY <2>1, FS_Interval
  <2> QED BY <2>2
<1>3. R!M = m
  <2>1. DOMAIN ctx.cols = 0 .. m - 1
    BY <1>1
  <2>2. R!Cardinality(DOMAIN ctx.cols) = Cardinality(DOMAIN ctx.cols)
    BY DEF R!Cardinality, Cardinality
  <2> QED BY <1>2, <2>1, <2>2 DEF R!M
<1> QED BY <1>1, <1>3 DEF FP!AllContexts, FP!Attributes, FP!MAssumption

\* The definitions of RoaringLattice are those of FormalContext.
LEMMA SameTerms ==
  /\ \A n, c : R!F!Below(ctx.cols, n, c) <=> Below(ctx.cols, n, c)
  /\ \A n, c : FP!Below(ctx.cols, n, c) <=> Below(ctx.cols, n, c)
  /\ \A n : R!F!Canonical(ctx.cols, n) <=> FP!Canonical(ctx.cols, n)
  /\ \A n : R!F!Child(ctx.cols, n) = FP!Child(ctx.cols, n)
  /\ \A n : R!F!AsConcept(n) = FP!AsConcept(n)
  /\ \A n : R!F!Advance(n) = FP!Advance(n)
  /\ R!NextSubtree = Subtree(st.next)
<1>1. \A n, c : R!F!Below(ctx.cols, n, c) <=> Below(ctx.cols, n, c)
  BY DEF R!F!Below, Below
<1>2. \A n, c : FP!Below(ctx.cols, n, c) <=> Below(ctx.cols, n, c)
  BY DEF FP!Below, Below
<1>3. \A n : R!F!Canonical(ctx.cols, n) <=> FP!Canonical(ctx.cols, n)
  BY DEF R!F!Canonical, FP!Canonical, R!F!ChildExt, FP!ChildExt
<1>4. \A n : R!F!Child(ctx.cols, n) = FP!Child(ctx.cols, n)
  BY DEF R!F!Child, FP!Child, R!F!ChildExt, FP!ChildExt, R!F!ChildInt, FP!ChildInt
<1>5. R!NextSubtree = Subtree(st.next)
  BY DEF R!NextSubtree, Subtree, R!F!Root, FP!Root, R!F!Intent, FP!Intent, R!F!Attributes, FP!Attributes
<1> QED BY <1>1, <1>2, <1>3, <1>4, <1>5 DEF R!F!AsConcept, FP!AsConcept, R!F!Advance, FP!Advance

\* What one attribute makes of a node.
LEMMA OnNodes ==
  ASSUME RoaringAssumption, ctx \in RoaringContexts, NEW n \in CtxNodes
  PROVE  /\ n.i \in Nat /\ n.i <= R!M
         /\ n.i = R!M => \A c \in CtxConcepts : ~Below(ctx.cols, n, c)
         /\ n.i < R!M => FP!Advance(n) \in CtxNodes
         /\ n.i < R!M /\ ~FP!Canonical(ctx.cols, n) =>
              \A c \in CtxConcepts :
                Below(ctx.cols, n, c) <=> Below(ctx.cols, FP!Advance(n), c)
         /\ n.i < R!M /\ FP!Canonical(ctx.cols, n) =>
              /\ FP!Child(ctx.cols, n) \in CtxNodes
              /\ FP!AsConcept(FP!Child(ctx.cols, n)) \in CtxConcepts
<1>1. /\ n \in FP!Node /\ FP!IsConcept(ctx.cols, FP!AsConcept(n))
      /\ R!M \in Nat /\ FP!MAssumption /\ ctx.cols \in FP!AllContexts
  BY CtxFacts DEF CtxNodes
<1>2. n.i \in Nat /\ n.i <= R!M
  BY <1>1 DEF FP!Node
<1>3. ASSUME n.i = R!M, NEW c \in CtxConcepts PROVE ~Below(ctx.cols, n, c)
  <2>1. FP!IsConcept(ctx.cols, c)
    BY DEF CtxConcepts
  <2>2. ~FP!Below(ctx.cols, n, c)
    BY <1>1, <1>3, <2>1, FP!NothingBelow
  <2> QED BY <2>2, SameTerms
<1>4. ASSUME n.i < R!M PROVE FP!Advance(n) \in CtxNodes
  BY <1>1, <1>2, <1>4 DEF FP!Advance, FP!Node, FP!AsConcept, CtxNodes
<1>5. ASSUME n.i < R!M, ~FP!Canonical(ctx.cols, n), NEW c \in CtxConcepts
      PROVE  Below(ctx.cols, n, c) <=> Below(ctx.cols, FP!Advance(n), c)
  <2>1. FP!IsConcept(ctx.cols, c)
    BY DEF CtxConcepts
  <2>2. FP!Below(ctx.cols, n, c) <=> FP!Below(ctx.cols, FP!Advance(n), c)
    BY <1>1, <1>5, <2>1, FP!RejectKeeps
  <2> QED BY <2>2, SameTerms
<1>6. ASSUME n.i < R!M, FP!Canonical(ctx.cols, n)
      PROVE  /\ FP!Child(ctx.cols, n) \in CtxNodes
             /\ FP!AsConcept(FP!Child(ctx.cols, n)) \in CtxConcepts
  <2>1. /\ FP!Child(ctx.cols, n) \in FP!Node
        /\ FP!IsConcept(ctx.cols, FP!AsConcept(FP!Child(ctx.cols, n)))
    BY <1>1, <1>6, FP!ChildConcept
  <2> QED BY <2>1 DEF CtxNodes, CtxConcepts, FP!IsConcept
<1> QED BY <1>2, <1>3, <1>4, <1>5, <1>6

LEMMA OnSubtrees ==
  ASSUME RoaringAssumption, ctx \in RoaringContexts, NEW k \in Nat
  PROVE  /\ k <= R!M => Subtree(k) \in CtxNodes
         /\ Subtree(k).i = k
         /\ FP!Advance(Subtree(k)) = Subtree(k + 1)
         /\ k >= R!M => \A c \in CtxConcepts : ~Below(ctx.cols, Subtree(k), c)
         /\ \A c \in CtxConcepts : c # FP!Top(ctx.cols) => Below(ctx.cols, Subtree(0), c)
<1>1. R!M \in Nat /\ FP!MAssumption /\ ctx.cols \in FP!AllContexts
  BY CtxFacts
<1>2. FP!Root(ctx.cols) \in FP!Node /\ FP!IsConcept(ctx.cols, FP!AsConcept(FP!Root(ctx.cols)))
  BY <1>1, FP!RootConcept
<1>3. Subtree(k).i = k /\ FP!Advance(Subtree(k)) = Subtree(k + 1)
  BY DEF Subtree, FP!Root, FP!Advance
<1>4. k <= R!M => Subtree(k) \in CtxNodes
  BY <1>1, <1>2 DEF Subtree, CtxNodes, FP!Node, FP!AsConcept
<1>5. ASSUME k >= R!M, NEW c \in CtxConcepts PROVE ~Below(ctx.cols, Subtree(k), c)
  <2>1. \A a \in c.int : a < k
    BY <1>1, <1>5 DEF CtxConcepts, FP!Concept, FP!Attributes
  <2>2. Subtree(k).i = k
    BY <1>3
  <2> QED BY <2>1, <2>2 DEF Below
<1>6. ASSUME NEW c \in CtxConcepts, c # FP!Top(ctx.cols) PROVE Below(ctx.cols, Subtree(0), c)
  <2>1. FP!IsConcept(ctx.cols, c) /\ c = [ext |-> c.ext, int |-> c.int]
    BY DEF CtxConcepts, FP!Concept
  <2>2. FP!Below(ctx.cols, FP!Root(ctx.cols), c)
    BY <1>1, <1>6, <2>1, FP!AllBelowRoot
  <2>3. Subtree(0) = FP!Root(ctx.cols)
    BY DEF Subtree, FP!Root
  <2> QED BY <2>2, <2>3, SameTerms
<1> QED BY <1>3, <1>4, <1>5, <1>6

-----------------------------------------------------------------------------
(* What a step makes of the counter and of the thread that takes it.       *)

\* Thread t has calls cs, found os and ended or not, the counter is at nx.
Steps(t, nx, cs, os, ov) ==
  /\ ctx' = ctx /\ IsTeamState' /\ Enumerating'
  /\ st'.next = nx
  /\ st'.team \in [DOMAIN st.team -> TeamThreads]
  /\ \A u \in DOMAIN st.team \ {t} : st'.team[u] = st.team[u]
  /\ st'.team[t].calls = cs /\ st'.team[t].out = os /\ st'.team[t].over = ov

LEMMA ThreadFacts ==
  ASSUME TeamInv, Enumerating, NEW t \in DOMAIN st.team
  PROVE  /\ st.team[t] \in TeamThreads
         /\ st.team[t].calls \in Seq(CtxNodes) /\ st.team[t].out \in Seq(CtxConcepts)
         /\ st.team[t].over \in BOOLEAN
         /\ st.next \in Nat
<1>1. st.team[t] \in TeamThreads /\ st.next \in Nat
  BY DEF TeamInv
<1> QED BY <1>1 DEF TeamThreads

\* A thread with some of its fields replaced.
LEMMA NewFields ==
  ASSUME NEW th \in TeamThreads, NEW cs \in Seq(CtxNodes), NEW n,
         Append(cs, n) \in Seq(CtxNodes), Append(th.out, R!F!AsConcept(n)) \in Seq(CtxConcepts)
  PROVE  /\ R!Entered([th EXCEPT !.calls = cs], n) \in TeamThreads
         /\ R!Entered([th EXCEPT !.calls = cs], n).calls = Append(cs, n)
         /\ R!Entered([th EXCEPT !.calls = cs], n).out = Append(th.out, R!F!AsConcept(n))
         /\ R!Entered([th EXCEPT !.calls = cs], n).over = th.over
<1> DEFINE g == [th EXCEPT !.calls = cs]
           a == Append(cs, n)
           b == Append(th.out, R!F!AsConcept(n))
<1>1. g \in TeamThreads /\ g.calls = cs /\ g.out = th.out /\ g.over = th.over
  BY DEF TeamThreads
<1> HIDE DEF g
<1>2. R!Entered(g, n) = [g EXCEPT !.calls = a, !.out = b]
  BY <1>1 DEF R!Entered
<1>3. a \in Seq(CtxNodes) /\ b \in Seq(CtxConcepts)
  OBVIOUS
<1> HIDE DEF a, b
<1> DEFINE h == [g EXCEPT !.calls = a]
<1>4. h \in TeamThreads /\ h.calls = a /\ h.over = g.over
  BY <1>1, <1>3 DEF TeamThreads
<1>5. [g EXCEPT !.calls = a, !.out = b] = [h EXCEPT !.out = b]
  OBVIOUS
<1> HIDE DEF h
<1> DEFINE k == [h EXCEPT !.out = b]
<1>6. k \in TeamThreads /\ k.calls = a /\ k.out = b /\ k.over = g.over
  BY <1>3, <1>4 DEF TeamThreads
<1> HIDE DEF k
<1>7. R!Entered(g, n) = k
  BY <1>2, <1>5 DEF k
<1> QED BY <1>1, <1>6, <1>7 DEF g, a, b

\* A new value for the counter and for one thread.
LEMMA NewTeam ==
  ASSUME TeamInv, Enumerating, NEW t \in DOMAIN st.team, ctx' = ctx,
         NEW nx, NEW th \in TeamThreads,
         \/ st' = [st EXCEPT !.next = nx, !.team[t] = th]
         \/ st' = [st EXCEPT !.team[t] = th] /\ nx = st.next
  PROVE  Steps(t, nx, th.calls, th.out, th.over)
<1> DEFINE tm == st.team
           tm2 == [tm EXCEPT ![t] = th]
<1>1. {"phase", "next", "team"} \subseteq DOMAIN st /\ tm \in [DOMAIN tm -> TeamThreads]
  BY DEF TeamInv, IsTeamState
<1>2. st'.next = nx /\ st'.team = tm2 /\ st'.phase = st.phase /\ DOMAIN st' = DOMAIN st
  <2>1. CASE st' = [st EXCEPT !.next = nx, !.team[t] = th]
    <3> DEFINE z == [st EXCEPT !.next = nx]
    <3>1. st' = [z EXCEPT !.team[t] = th]
      BY <2>1
    <3>2. z.team = tm /\ z.next = nx /\ z.phase = st.phase /\ DOMAIN z = DOMAIN st
      BY <1>1
    <3> HIDE DEF z
    <3> QED BY ONLY <1>1, <3>1, <3>2
  <2>2. CASE st' = [st EXCEPT !.team[t] = th] /\ nx = st.next
    BY ONLY <1>1, <2>2
  <2> QED BY <2>1, <2>2
<1>3. tm2 \in [DOMAIN tm -> TeamThreads] /\ tm2[t] = th /\ \A u \in DOMAIN tm \ {t} : tm2[u] = tm[u]
  BY <1>1
<1>4. TeamThreads' = TeamThreads
  BY DEF TeamThreads, CtxNodes, CtxConcepts, FP!Node, FP!Concept, FP!Attributes, FP!IsConcept, FP!AsConcept,
         FP!Extent, FP!Intent, R!M
<1> QED BY <1>1, <1>2, <1>3 DEF Steps, Enumerating, IsTeamState

Claimed(t) ==
  LET o == st.team[t].out
      child == FP!Child(ctx.cols, Subtree(st.next))
  IN  IF st.next >= R!M THEN Steps(t, st.next + 1, <<>>, o, TRUE)
      ELSE IF FP!Canonical(ctx.cols, Subtree(st.next))
           THEN Steps(t, st.next + 1, Append(<<>>, child), Append(o, FP!AsConcept(child)), FALSE)
      ELSE Steps(t, st.next + 1, <<>>, o, FALSE)

\* enum_thread: the next subtree is taken, if there is one.
LEMMA ClaimSteps ==
  ASSUME RoaringAssumption, TeamInv, NEW t, R!Claim(t)
  PROVE  /\ Enumerating /\ t \in DOMAIN st.team /\ st.team[t].calls = <<>>
         /\ Claimed(t)
<1> DEFINE th == st.team[t]
           n == Subtree(st.next)
           child == FP!Child(ctx.cols, n)
           can == FP!Canonical(ctx.cols, n)
           new == IF st.next >= R!M THEN [th EXCEPT !.over = TRUE]
                  ELSE IF can THEN R!Entered(th, child) ELSE th
<1>1. /\ Enumerating /\ t \in DOMAIN st.team /\ ~th.over /\ th.calls = <<>>
      /\ ctx' = ctx
      /\ st' = [st EXCEPT
              !.next = @ + 1,
              !.team[t] = IF st.next >= R!M THEN [@ EXCEPT !.over = TRUE]
                          ELSE IF R!F!Canonical(ctx.cols, R!NextSubtree)
                               THEN R!Entered(@, R!F!Child(ctx.cols, R!NextSubtree))
                          ELSE @]
  BY DEF R!Claim, R!In, Enumerating
<1>2. /\ R!NextSubtree = n /\ R!F!Child(ctx.cols, n) = child
      /\ R!F!Canonical(ctx.cols, n) <=> can
      /\ R!F!AsConcept(child) = FP!AsConcept(child)
  BY SameTerms
<1>3. /\ th \in TeamThreads /\ th.calls = <<>> /\ th.over = FALSE
      /\ th.out \in Seq(CtxConcepts) /\ st.next \in Nat /\ ctx \in RoaringContexts /\ R!M \in Nat
  BY <1>1, ThreadFacts, CtxFacts DEF TeamInv
<1>guard. Enumerating /\ t \in DOMAIN st.team /\ ctx' = ctx
  BY <1>1
<1>4. ASSUME ~(st.next >= R!M), can PROVE child \in CtxNodes /\ FP!AsConcept(child) \in CtxConcepts
  <2>1. st.next < R!M /\ n \in CtxNodes /\ n.i = st.next
    <3>1. st.next < R!M /\ st.next <= R!M
      BY <1>3, <1>4
    <3> QED BY <1>3, <3>1, OnSubtrees
  <2> HIDE DEF n
  <2> QED BY <1>3, <1>4, <2>1, OnNodes
<1>5. st' = [st EXCEPT !.next = st.next + 1, !.team[t] = new]
  <2> HIDE DEF n, child, can
  <2> QED BY <1>1, <1>2
<1> DEFINE c1 == Append(<<>>, child)
           o == th.out
           o1 == Append(o, FP!AsConcept(child))
<1>6. Claimed(t) <=> IF st.next >= R!M THEN Steps(t, st.next + 1, <<>>, o, TRUE)
                     ELSE IF can THEN Steps(t, st.next + 1, c1, o1, FALSE)
                     ELSE Steps(t, st.next + 1, <<>>, o, FALSE)
  BY DEF Claimed
<1>7. ASSUME NEW x \in CtxNodes, NEW y \in CtxConcepts
      PROVE  Append(<<>>, x) \in Seq(CtxNodes) /\ Append(o, y) \in Seq(CtxConcepts)
  BY <1>3, AppendProperties
<1> HIDE DEF n, child, can, th, o
<1>8. CASE st.next >= R!M
  <2>1. new = [th EXCEPT !.over = TRUE]
    BY <1>8
  <2>2. new \in TeamThreads /\ new.calls = <<>> /\ new.out = o /\ new.over = TRUE
    BY <1>3, <2>1 DEF TeamThreads, o
  <2> HIDE DEF new
  <2>3. Steps(t, st.next + 1, new.calls, new.out, new.over)
    BY <1>guard, <1>5, <2>2, NewTeam
  <2>4. Steps(t, st.next + 1, <<>>, o, TRUE)
    BY <2>2, <2>3
  <2> QED BY <1>1, <1>6, <1>8, <2>4 DEF th
<1>9. CASE ~(st.next >= R!M) /\ can
  <2> DEFINE z == [th EXCEPT !.calls = <<>>]
  <2>1. z = th
    BY <1>3 DEF TeamThreads
  <2>2. new = R!Entered(z, child)
    BY <1>9, <2>1
  <2>3. c1 \in Seq(CtxNodes) /\ o1 \in Seq(CtxConcepts) /\ <<>> \in Seq(CtxNodes)
    BY <1>4, <1>7, <1>9
  <2>4. new \in TeamThreads /\ new.calls = c1 /\ new.out = o1 /\ new.over = FALSE
    <3>1. Append(th.out, R!F!AsConcept(child)) = o1
      BY <1>2 DEF o
    <3> HIDE DEF new, o1
    <3> QED BY <1>3, <2>2, <2>3, <3>1, NewFields
  <2> HIDE DEF new, c1, o1
  <2>5. Steps(t, st.next + 1, new.calls, new.out, new.over)
    BY <1>guard, <1>5, <2>4, NewTeam
  <2>6. Steps(t, st.next + 1, c1, o1, FALSE)
    BY <2>4, <2>5
  <2> QED BY <1>1, <1>6, <1>9, <2>6 DEF th
<1>10. CASE ~(st.next >= R!M) /\ ~can
  <2>1. new = th
    BY <1>10
  <2>2. new \in TeamThreads /\ new.calls = <<>> /\ new.out = o /\ new.over = FALSE
    BY <1>3, <2>1 DEF o
  <2> HIDE DEF new
  <2>3. Steps(t, st.next + 1, new.calls, new.out, new.over)
    BY <1>guard, <1>5, <2>2, NewTeam
  <2>4. Steps(t, st.next + 1, <<>>, o, FALSE)
    BY <2>2, <2>3
  <2> QED BY <1>1, <1>6, <1>10, <2>4 DEF th
<1> QED BY <1>8, <1>9, <1>10

Explored(t) ==
  LET cs == st.team[t].calls
      o == st.team[t].out
      n == cs[Len(cs)]
      child == FP!Child(ctx.cols, n)
      going == Append(Front(cs), FP!Advance(n))
  IN  IF n.i = R!M THEN Steps(t, st.next, Front(cs), o, FALSE)
      ELSE IF FP!Canonical(ctx.cols, n)
           THEN Steps(t, st.next, Append(going, child), Append(o, FP!AsConcept(child)), FALSE)
      ELSE Steps(t, st.next, going, o, FALSE)

\* The call under way, and what it may be replaced by.
LEMMA TopCall ==
  ASSUME RoaringAssumption, ctx \in RoaringContexts, NEW cs \in Seq(CtxNodes), cs # <<>>
  PROVE  /\ Len(cs) \in Nat \ {0} /\ DOMAIN cs = 1 .. Len(cs)
         /\ cs[Len(cs)] \in CtxNodes /\ Front(cs) \in Seq(CtxNodes)
         /\ Len(Front(cs)) = Len(cs) - 1
         /\ \A k \in 1 .. Len(cs) - 1 : Front(cs)[k] = cs[k]
         /\ R!Last(cs) = cs[Len(cs)] /\ R!Front(cs) = Front(cs)
<1>1. /\ Last(cs) \in CtxNodes /\ Front(cs) \in Seq(CtxNodes)
      /\ Len(cs) \in Nat \ {0}
      /\ Len(Front(cs)) = Len(cs) - 1
      /\ \A k \in 1 .. Len(cs) - 1 : Front(cs)[k] = cs[k]
  BY LastAndFront
<1>2. R!Last(cs) = cs[Len(cs)] /\ R!Front(cs) = Front(cs) /\ Last(cs) = cs[Len(cs)]
  BY DEF R!Last, R!Front, Front, Last
<1> QED BY <1>1, <1>2, LenProperties

\* cbo_enum_local, one attribute on.
LEMMA ExploreSteps ==
  ASSUME RoaringAssumption, TeamInv, NEW t, R!Explore(t)
  PROVE  /\ Enumerating /\ t \in DOMAIN st.team /\ st.team[t].calls # <<>>
         /\ Explored(t)
<1> DEFINE th == st.team[t]
           cs == th.calls
           n == cs[Len(cs)]
           rest == Front(cs)
           adv == FP!Advance(n)
           going == Append(rest, adv)
           child == FP!Child(ctx.cols, n)
           can == FP!Canonical(ctx.cols, n)
           g == [th EXCEPT !.calls = going]
           new == IF n.i = R!M THEN [th EXCEPT !.calls = rest]
                  ELSE IF can THEN R!Entered(g, child) ELSE g
<1>1. /\ Enumerating /\ t \in DOMAIN st.team /\ ~th.over /\ cs # <<>> /\ ctx' = ctx
      /\ st' = [st EXCEPT !.team[t] =
                  IF R!Last(cs).i = R!M THEN [@ EXCEPT !.calls = R!Callers(cs)]
                  ELSE IF R!F!Canonical(ctx.cols, R!Last(cs))
                       THEN R!Entered([@ EXCEPT !.calls = Append(R!Front(cs), R!F!Advance(R!Last(cs)))],
                                      R!F!Child(ctx.cols, R!Last(cs)))
                  ELSE [@ EXCEPT !.calls = Append(R!Front(cs), R!F!Advance(R!Last(cs)))]]
  BY DEF R!Explore, R!In, Enumerating
<1>2. /\ th \in TeamThreads /\ cs \in Seq(CtxNodes) /\ th.over = FALSE
      /\ th.out \in Seq(CtxConcepts) /\ ctx \in RoaringContexts
  BY <1>1, ThreadFacts DEF TeamInv
<1> HIDE DEF cs
<1>3. R!Last(cs) = n /\ R!Front(cs) = rest /\ rest \in Seq(CtxNodes) /\ n \in CtxNodes
  BY <1>1, <1>2, TopCall
<1>4. /\ R!F!Child(ctx.cols, n) = child
      /\ R!F!Canonical(ctx.cols, n) <=> can
      /\ R!F!AsConcept(child) = FP!AsConcept(child)
      /\ R!F!Advance(n) = adv
  BY SameTerms
<1>5. R!Callers(cs) = rest
  BY <1>3 DEF R!Callers
<1>6. /\ n.i # R!M => adv \in CtxNodes
      /\ n.i # R!M /\ can => child \in CtxNodes /\ FP!AsConcept(child) \in CtxConcepts
  <2> HIDE DEF n
  <2>1. n.i # R!M => n.i < R!M
    BY <1>2, <1>3, OnNodes, CtxFacts
  <2> QED BY <1>2, <1>3, <2>1, OnNodes
<1> HIDE DEF n, rest, adv, child, can
<1>7. st' = [st EXCEPT !.team[t] = new]
  BY <1>1, <1>3, <1>4, <1>5
<1>guard. Enumerating /\ t \in DOMAIN st.team /\ ctx' = ctx
  BY <1>1
<1> DEFINE c1 == Append(going, child)
           o == th.out
           o1 == Append(o, FP!AsConcept(child))
<1>8. Explored(t) <=> IF n.i = R!M THEN Steps(t, st.next, rest, o, FALSE)
                      ELSE IF can THEN Steps(t, st.next, c1, o1, FALSE)
                      ELSE Steps(t, st.next, going, o, FALSE)
  BY DEF Explored, n, rest, adv, child, can, cs
<1>9. n.i # R!M => going \in Seq(CtxNodes)
  BY <1>3, <1>6, AppendProperties
<1>10. n.i # R!M /\ can => c1 \in Seq(CtxNodes) /\ o1 \in Seq(CtxConcepts)
  <2> HIDE DEF going
  <2> QED BY <1>2, <1>6, <1>9, AppendProperties
<1> HIDE DEF th, o, going
<1>11. CASE n.i = R!M
  <2>1. new = [th EXCEPT !.calls = rest]
    BY <1>11
  <2>2. new \in TeamThreads /\ new.calls = rest /\ new.out = o /\ new.over = FALSE
    BY <1>2, <1>3, <2>1 DEF TeamThreads, o
  <2> HIDE DEF new
  <2>3. Steps(t, st.next, new.calls, new.out, new.over)
    BY <1>guard, <1>7, <2>2, NewTeam
  <2>4. Steps(t, st.next, rest, o, FALSE)
    BY <2>2, <2>3
  <2> QED BY <1>1, <1>8, <1>11, <2>4 DEF cs, th
<1>12. CASE n.i # R!M /\ can
  <2>1. new = R!Entered(g, child)
    BY <1>12
  <2>2. new \in TeamThreads /\ new.calls = c1 /\ new.out = o1 /\ new.over = FALSE
    <3>1. Append(th.out, R!F!AsConcept(child)) = o1
      BY <1>4 DEF o
    <3> HIDE DEF new, o1
    <3> QED BY <1>2, <1>9, <1>10, <1>12, <2>1, <3>1, NewFields
  <2> HIDE DEF new, c1, o1
  <2>3. Steps(t, st.next, new.calls, new.out, new.over)
    BY <1>guard, <1>7, <2>2, NewTeam
  <2>4. Steps(t, st.next, c1, o1, FALSE)
    BY <2>2, <2>3
  <2> QED BY <1>1, <1>8, <1>12, <2>4 DEF cs, th
<1>13. CASE n.i # R!M /\ ~can
  <2>1. new = [th EXCEPT !.calls = going]
    BY <1>13
  <2>2. new \in TeamThreads /\ new.calls = going /\ new.out = o /\ new.over = FALSE
    BY <1>2, <1>9, <1>13, <2>1 DEF TeamThreads, o
  <2> HIDE DEF new
  <2>3. Steps(t, st.next, new.calls, new.out, new.over)
    BY <1>guard, <1>7, <2>2, NewTeam
  <2>4. Steps(t, st.next, going, o, FALSE)
    BY <2>2, <2>3
  <2> QED BY <1>1, <1>8, <1>13, <2>4 DEF cs, th
<1> QED BY <1>11, <1>12, <1>13

-----------------------------------------------------------------------------
(* Types, and what the threads have come to when they end.                 *)

LEMMA TeamInitially == RoaringAssumption /\ R!Init => TeamInv
<1> SUFFICES ASSUME RoaringAssumption, R!Init PROVE TeamInv
  OBVIOUS
<1>1. PICK asked \in ThreadCounts :
        st = [phase |-> "enumerate", asked |-> asked, next |-> 0, words |-> << >>,
              team |-> IF R!M = 0 THEN [t \in 1 .. asked |-> R!Thread] ELSE R!Team(asked, R!M)]
  BY DEF R!Init
<1>2. ctx \in RoaringContexts /\ R!M \in Nat /\ asked \in Nat \ {0}
  BY CtxFacts DEF R!Init, RoaringAssumption
<1>3. PICK k \in Nat \ {0} : st.team = [t \in 1 .. k |-> R!Thread]
  <2>1. CASE R!M = 0
    BY <1>1, <1>2, <2>1
  <2>2. CASE R!M # 0
    <3> DEFINE k == R!AtLeast(R!AtMost(asked, R!M), 1)
    <3>1. k \in Nat \ {0}
      BY <1>2, <2>2 DEF R!AtLeast, R!AtMost
    <3>2. st.team = [t \in 1 .. k |-> R!Thread]
      BY <1>1, <2>2 DEF R!Team
    <3> QED BY <3>1, <3>2
  <2> QED BY <2>1, <2>2
<1>4. /\ R!Thread \in TeamThreads /\ R!Thread.over = FALSE
  <2>1. <<>> \in Seq(CtxNodes) /\ <<>> \in Seq(CtxConcepts)
    OBVIOUS
  <2> QED BY <2>1 DEF R!Thread, TeamThreads
<1>5. /\ DOMAIN st.team = 1 .. k /\ 1 \in 1 .. k
      /\ \A t \in 1 .. k : st.team[t] = R!Thread
      /\ st.team \in [1 .. k -> TeamThreads]
  BY <1>3, <1>4
<1>6. st.next = 0 /\ IsTeamState
  BY <1>1 DEF IsTeamState
<1>7. \A t \in DOMAIN st.team : st.team[t].over = FALSE
  BY <1>4, <1>5
<1>8. st.next \in Nat /\ st.team \in [DOMAIN st.team -> TeamThreads] /\ DOMAIN st.team # {}
  <2>1. st.next \in Nat
    BY <1>6
  <2>2. st.team \in [DOMAIN st.team -> TeamThreads]
    BY ONLY <1>5
  <2>3. DOMAIN st.team # {}
    BY ONLY <1>5
  <2> QED BY ONLY <2>1, <2>2, <2>3
<1> QED BY ONLY <1>2, <1>6, <1>7, <1>8 DEF TeamInv

LEMMA SameContext ==
  ASSUME ctx' = ctx
  PROVE  /\ CtxNodes' = CtxNodes /\ CtxConcepts' = CtxConcepts /\ TeamThreads' = TeamThreads
         /\ R!M' = R!M /\ FP!Top(ctx.cols)' = FP!Top(ctx.cols)
BY DEF TeamThreads, CtxNodes, CtxConcepts, FP!Node, FP!Concept, FP!Attributes, FP!IsConcept, FP!AsConcept,
       FP!Extent, FP!Intent, R!M, FP!Top

LEMMA StepsTyped ==
  ASSUME TeamInv, Enumerating, NEW t \in DOMAIN st.team, NEW nx \in Nat, st.next <= nx,
         NEW cs, NEW os, NEW ov, Steps(t, nx, cs, os, ov),
         ov => cs = <<>> /\ nx >= R!M, R!M \in Nat
  PROVE  TeamInv'
<1>1. /\ ctx \in RoaringContexts /\ st.next \in Nat
      /\ st.team \in [DOMAIN st.team -> TeamThreads] /\ DOMAIN st.team # {}
      /\ \A u \in DOMAIN st.team :
           st.team[u].over => st.team[u].calls = <<>> /\ st.next >= R!M
  BY DEF TeamInv
<1>2. /\ ctx' = ctx /\ IsTeamState' /\ Enumerating' /\ st'.next = nx
      /\ st'.team \in [DOMAIN st.team -> TeamThreads]
      /\ \A u \in DOMAIN st.team \ {t} : st'.team[u] = st.team[u]
      /\ st'.team[t].calls = cs /\ st'.team[t].over = ov
  BY DEF Steps
<1>3. ASSUME NEW u \in DOMAIN st.team, st'.team[u].over
      PROVE  st'.team[u].calls = <<>> /\ nx >= R!M
  <2>1. CASE u = t
    BY <1>2, <1>3, <2>1
  <2>2. CASE u # t
    <3>1. st.team[u].calls = <<>> /\ st.next >= R!M /\ st'.team[u] = st.team[u]
      BY <1>1, <1>2, <1>3, <2>2
    <3> QED BY <1>1, <3>1
  <2> QED BY <2>1, <2>2
<1>4. DOMAIN st'.team = DOMAIN st.team
  BY <1>2
<1> QED BY <1>1, <1>2, <1>3, <1>4, SameContext DEF TeamInv

LEMMA ClaimTyped ==
  ASSUME RoaringAssumption, TeamInv, NEW t, R!Claim(t)
  PROVE  TeamInv'
<1> DEFINE th == st.team[t]
           child == FP!Child(ctx.cols, Subtree(st.next))
           can == FP!Canonical(ctx.cols, Subtree(st.next))
           c1 == Append(<<>>, child)
           o1 == Append(th.out, FP!AsConcept(child))
           nx == st.next + 1
<1>1. Enumerating /\ t \in DOMAIN st.team /\ Claimed(t)
  BY ClaimSteps
<1>2. st.next \in Nat /\ R!M \in Nat
  BY <1>1, CtxFacts DEF TeamInv
<1>3. nx \in Nat /\ st.next <= nx /\ (st.next >= R!M => nx >= R!M)
  BY <1>2
<1>4. IF st.next >= R!M THEN Steps(t, nx, <<>>, th.out, TRUE)
      ELSE IF can THEN Steps(t, nx, c1, o1, FALSE)
      ELSE Steps(t, nx, <<>>, th.out, FALSE)
  BY <1>1 DEF Claimed
<1> HIDE DEF nx, c1, o1, can
<1> QED BY <1>1, <1>2, <1>3, <1>4, StepsTyped

LEMMA ExploreTyped ==
  ASSUME RoaringAssumption, TeamInv, NEW t, R!Explore(t)
  PROVE  TeamInv'
<1> DEFINE cs == st.team[t].calls
           n == cs[Len(cs)]
           can == FP!Canonical(ctx.cols, n)
           going == Append(Front(cs), FP!Advance(n))
           c1 == Append(going, FP!Child(ctx.cols, n))
           o1 == Append(st.team[t].out, FP!AsConcept(FP!Child(ctx.cols, n)))
<1>1. Enumerating /\ t \in DOMAIN st.team /\ Explored(t)
  BY ExploreSteps
<1>2. st.next \in Nat /\ R!M \in Nat /\ st.next <= st.next
  BY <1>1, CtxFacts DEF TeamInv
<1>3. IF n.i = R!M THEN Steps(t, st.next, Front(cs), st.team[t].out, FALSE)
      ELSE IF can THEN Steps(t, st.next, c1, o1, FALSE)
      ELSE Steps(t, st.next, going, st.team[t].out, FALSE)
  BY <1>1 DEF Explored
<1> HIDE DEF n, can, going, c1, o1
<1> QED BY <1>1, <1>2, <1>3, StepsTyped

\* No other step takes place while the threads enumerate, but for the join.
LEMMA OtherSteps ==
  ASSUME TeamInv, [R!Next]_(R!vars), ~ \E t : R!Claim(t) \/ R!Explore(t)
  PROVE  \/ UNCHANGED <<ctx, st>>
         \/ ctx' = ctx /\ IsTeamState' /\ ~Enumerating'
<1>1. {"phase", "next", "team"} \subseteq DOMAIN st
  BY DEF TeamInv, IsTeamState
<1>2. ASSUME NEW ph, ph # "enumerate", NEW k, st' = R!Begin(ph, k), ctx' = ctx
      PROVE  IsTeamState' /\ ~Enumerating'
  <2>1. st'.phase = ph /\ DOMAIN st' = DOMAIN st
    BY <1>1, <1>2 DEF R!Begin
  <2> QED BY <1>1, <1>2, <2>1 DEF IsTeamState, Enumerating
<1>3. CASE R!Merge
  <2>1. \E k : st' = R!Begin("convert", k)
    BY <1>3 DEF R!Merge
  <2> QED BY <1>2, <1>3, <2>1 DEF R!Merge
<1>4. CASE R!ReduceIntents
  BY <1>2, <1>4 DEF R!ReduceIntents
<1>5. CASE R!AddAllEdges
  BY <1>2, <1>5 DEF R!AddAllEdges
<1>6. ASSUME NEW ph, ph # "enumerate", st.phase = ph, ctx' = ctx, st'.phase = st.phase, DOMAIN st' = DOMAIN st
      PROVE  IsTeamState' /\ ~Enumerating'
  BY <1>1, <1>6 DEF IsTeamState, Enumerating
<1>7. ASSUME NEW t, R!Convert(t) \/ R!Cover(t) \/ R!Rextents(t)
      PROVE  /\ st.phase \in {"convert", "covers", "rextents"} /\ ctx' = ctx
             /\ st'.phase = st.phase /\ DOMAIN st' = DOMAIN st
  <2>1. CASE R!Convert(t)
    <3>1. \E w : st' = [st EXCEPT !.words = w, !.team[t].over = TRUE]
      BY <2>1 DEF R!Convert
    <3>2. st'.phase = st.phase /\ DOMAIN st' = DOMAIN st
      BY ONLY <1>1, <3>1
    <3> QED BY <2>1, <3>2 DEF R!Convert, R!In
  <2>2. CASE R!Cover(t)
    <3>1. \E a, b : st' = [st EXCEPT !.next = a, !.team[t] = b]
      BY <2>2 DEF R!Cover
    <3>2. st'.phase = st.phase /\ DOMAIN st' = DOMAIN st
      BY ONLY <1>1, <3>1
    <3> QED BY <2>2, <3>2 DEF R!Cover, R!In
  <2>3. CASE R!Rextents(t)
    <3>1. \E a, b : st' = [st EXCEPT !.next = a, !.team[t].over = b]
      BY <2>3 DEF R!Rextents
    <3>2. st'.phase = st.phase /\ DOMAIN st' = DOMAIN st
      BY ONLY <1>1, <3>1
    <3> QED BY <2>3, <3>2 DEF R!Rextents, R!In
  <2> QED BY <1>7, <2>1, <2>2, <2>3
<1>8. CASE \E t : R!Convert(t) \/ R!Cover(t) \/ R!Rextents(t)
  BY <1>6, <1>7, <1>8
<1>9. CASE R!Deliver \/ UNCHANGED R!vars
  BY <1>9 DEF R!Deliver, R!vars
<1> QED BY <1>3, <1>4, <1>5, <1>8, <1>9 DEF R!Next

LEMMA TeamKept ==
  ASSUME RoaringAssumption, TeamInv, [R!Next]_(R!vars)
  PROVE  TeamInv'
<1>1. CASE \E t : R!Claim(t) \/ R!Explore(t)
  BY <1>1, ClaimTyped, ExploreTyped
<1>2. CASE UNCHANGED <<ctx, st>>
  BY <1>2, SameContext DEF TeamInv, IsTeamState, Enumerating
<1>3. CASE ctx' = ctx /\ IsTeamState' /\ ~Enumerating'
  BY <1>3 DEF TeamInv
<1> QED BY <1>1, <1>2, <1>3, OtherSteps

-----------------------------------------------------------------------------
(* One place answers for each concept.                                     *)

NextPlaces(nx, c) == {h \in {<<"next">>} : Below(ctx.cols, Subtree(nx), c)}
TeamCalls(tm, c) ==
  UNION {{<<"call", t, k>> : k \in {k \in DOMAIN tm[t].calls : Below(ctx.cols, tm[t].calls[k], c)}}
         : t \in DOMAIN tm}
TeamOuts(tm, c) ==
  UNION {{<<"out", t, k>> : k \in {k \in DOMAIN tm[t].out : tm[t].out[k] = c}}
         : t \in DOMAIN tm}

TeamPlaces(nx, tm, c) == NextPlaces(nx, c) \cup TeamCalls(tm, c) \cup TeamOuts(tm, c)

Sole(S) == \E h : S = {h}

OneTeamPlace ==
  Enumerating =>
    \A c \in CtxConcepts : c # FP!Top(ctx.cols) => Sole(TeamPlaces(st.next, st.team, c))

LEMMA TeamTags ==
  /\ \A t, k, u, m : <<"call", t, k>> = <<"call", u, m>> <=> t = u /\ k = m
  /\ \A t, k, u, m : <<"out", t, k>> = <<"out", u, m>> <=> t = u /\ k = m
  /\ \A t, k : <<"next">> # <<"call", t, k>>
  /\ \A t, k : <<"next">> # <<"out", t, k>>
  /\ \A t, k, u, m : <<"call", t, k>> # <<"out", u, m>>
OBVIOUS

LEMMA TeamForms ==
  ASSUME NEW nx, NEW tm, NEW c
  PROVE  /\ <<"next">> \in TeamPlaces(nx, tm, c) <=> Below(ctx.cols, Subtree(nx), c)
         /\ \A t, k : <<"call", t, k>> \in TeamPlaces(nx, tm, c)
              <=> t \in DOMAIN tm /\ k \in DOMAIN tm[t].calls /\ Below(ctx.cols, tm[t].calls[k], c)
         /\ \A t, k : <<"out", t, k>> \in TeamPlaces(nx, tm, c)
              <=> t \in DOMAIN tm /\ k \in DOMAIN tm[t].out /\ tm[t].out[k] = c
         /\ \A h \in TeamPlaces(nx, tm, c) :
              \/ h = <<"next">>
              \/ \E t, k : h = <<"call", t, k>>
              \/ \E t, k : h = <<"out", t, k>>
<1>1. /\ <<"next">> \in NextPlaces(nx, c) <=> Below(ctx.cols, Subtree(nx), c)
      /\ \A h \in NextPlaces(nx, c) : h = <<"next">>
  BY DEF NextPlaces
<1>2. /\ \A t, k : <<"call", t, k>> \in TeamCalls(tm, c)
           <=> t \in DOMAIN tm /\ k \in DOMAIN tm[t].calls /\ Below(ctx.cols, tm[t].calls[k], c)
      /\ \A h \in TeamCalls(tm, c) : \E t, k : h = <<"call", t, k>>
  BY TeamTags DEF TeamCalls
<1>3. /\ \A t, k : <<"out", t, k>> \in TeamOuts(tm, c)
           <=> t \in DOMAIN tm /\ k \in DOMAIN tm[t].out /\ tm[t].out[k] = c
      /\ \A h \in TeamOuts(tm, c) : \E t, k : h = <<"out", t, k>>
  BY TeamTags DEF TeamOuts
<1> QED BY <1>1, <1>2, <1>3, TeamTags DEF TeamPlaces

\* Two stacks of calls, or two vectors, of thread t answer alike outside A.
CallsAgree(t, cs, ds, c, A) ==
  \A k : <<"call", t, k>> \notin A =>
    (k \in DOMAIN cs /\ Below(ctx.cols, cs[k], c) <=> k \in DOMAIN ds /\ Below(ctx.cols, ds[k], c))

OutsAgree(t, os, ps, c, A) ==
  \A k : <<"out", t, k>> \notin A =>
    (k \in DOMAIN os /\ os[k] = c <=> k \in DOMAIN ps /\ ps[k] = c)

NextAgrees(nx, ny, c, A) ==
  <<"next">> \in A \/ (Below(ctx.cols, Subtree(nx), c) <=> Below(ctx.cols, Subtree(ny), c))

\* Places outside A answer as before when those of the thread do.
LEMMA TeamElsewhere ==
  ASSUME NEW t \in DOMAIN st.team, NEW nx, NEW cs, NEW os, NEW ov, Steps(t, nx, cs, os, ov), NEW c, NEW A,
         NextAgrees(nx, st.next, c, A),
         CallsAgree(t, cs, st.team[t].calls, c, A), OutsAgree(t, os, st.team[t].out, c, A)
  PROVE  \A g : g \notin A =>
           (g \in TeamPlaces(nx, st'.team, c) <=> g \in TeamPlaces(st.next, st.team, c))
<1> DEFINE H == TeamPlaces(st.next, st.team, c)
           G == TeamPlaces(nx, st'.team, c)
<1>1. /\ DOMAIN st'.team = DOMAIN st.team
      /\ \A u \in DOMAIN st.team \ {t} : st'.team[u] = st.team[u]
      /\ st'.team[t].calls = cs /\ st'.team[t].out = os
  BY DEF Steps
<1> SUFFICES ASSUME NEW g, g \notin A PROVE g \in G <=> g \in H
  OBVIOUS
<1>2. g \in G \/ g \in H => \/ g = <<"next">>
                            \/ \E u, k : g = <<"call", u, k>>
                            \/ \E u, k : g = <<"out", u, k>>
  BY TeamForms
<1>3. CASE g = <<"next">>
  BY <1>3, TeamForms DEF NextAgrees
<1>4. CASE \E u, k : g = <<"call", u, k>>
  <2>1. PICK u, k : g = <<"call", u, k>>
    BY <1>4
  <2>2. CASE u = t
    BY <1>1, <2>1, <2>2, TeamForms DEF CallsAgree
  <2>3. CASE u # t
    BY <1>1, <2>1, <2>3, TeamForms
  <2> QED BY <2>2, <2>3
<1>5. CASE \E u, k : g = <<"out", u, k>>
  <2>1. PICK u, k : g = <<"out", u, k>>
    BY <1>5
  <2>2. CASE u = t
    BY <1>1, <2>1, <2>2, TeamForms DEF OutsAgree
  <2>3. CASE u # t
    BY <1>1, <2>1, <2>3, TeamForms
  <2> QED BY <2>2, <2>3
<1> QED BY <1>2, <1>3, <1>4, <1>5

\* Before, a may be where to find c from node n, and b and d are not.  After,
\* a is where to find it from n one attribute on, b from the child of n, and d
\* is where the child is c.  All other places are the same.
TakenOver(n, c, H, G, a, b, d) ==
  /\ a # b /\ a # d /\ b # d
  /\ b \notin H /\ d \notin H
  /\ a \in H <=> Below(ctx.cols, n, c)
  /\ a \in G <=> Below(ctx.cols, FP!Advance(n), c)
  /\ b \in G <=> Below(ctx.cols, FP!Child(ctx.cols, n), c)
  /\ d \in G <=> c = FP!AsConcept(FP!Child(ctx.cols, n))
  /\ \A g : g \notin {a, b, d} => (g \in G <=> g \in H)

\* An accepted child: what was to be found from node n is the child, in the
\* vector, or is to be found from the child or, later, from n.
LEMMA ChildTakesOver ==
  ASSUME RoaringAssumption, ctx \in RoaringContexts, NEW c \in CtxConcepts,
         NEW n \in CtxNodes, n.i < R!M, FP!Canonical(ctx.cols, n),
         NEW H, NEW G, NEW a, NEW b, NEW d, TakenOver(n, c, H, G, a, b, d), Sole(H)
  PROVE  Sole(G)
<1> DEFINE here  == c = FP!AsConcept(FP!Child(ctx.cols, n))
           child == Below(ctx.cols, FP!Child(ctx.cols, n), c)
           next  == Below(ctx.cols, FP!Advance(n), c)
           A == {a, b, d}
<1>1. /\ Below(ctx.cols, n, c) <=> here \/ child \/ next
      /\ ~(here /\ child) /\ ~(here /\ next) /\ ~(child /\ next)
  <2>1. FP!IsConcept(ctx.cols, c) /\ c = [ext |-> c.ext, int |-> c.int]
    BY DEF CtxConcepts, FP!Concept
  <2>2. /\ n \in FP!Node /\ FP!IsConcept(ctx.cols, FP!AsConcept(n))
        /\ ctx.cols \in FP!AllContexts /\ FP!MAssumption
    BY CtxFacts DEF CtxNodes
  <2>3. LET fchild == FP!Below(ctx.cols, FP!Child(ctx.cols, n), c)
            fnext == FP!Below(ctx.cols, FP!Advance(n), c)
        IN  /\ FP!Below(ctx.cols, n, c) <=> here \/ fchild \/ fnext
            /\ ~(here /\ fchild) /\ ~(here /\ fnext) /\ ~(fchild /\ fnext)
    BY <2>1, <2>2, FP!AcceptSplits
  <2> QED BY <2>3, SameTerms
<1> HIDE DEF here, child, next
<1>2. a \in H => \E g \in A : \A k \in A : k \in G <=> k = g
  BY <1>1 DEF here, child, next, TakenOver
<1>3. a \notin H => G \cap A = {}
  BY <1>1 DEF here, child, next, TakenOver
<1>4. H \cap A \subseteq {a} /\ a \in A
  BY DEF TakenOver
<1>5. \A g : g \notin A => (g \in G <=> g \in H)
  BY DEF TakenOver
<1>6. \E h : H = {h}
  BY DEF Sole
<1> HIDE DEF A
<1> QED BY ONLY <1>2, <1>3, <1>4, <1>5, <1>6, AnswerMoves DEF Sole

\* The calls under way, the top one replaced by x, then with y on top.
LEMMA CallsReplaced ==
  ASSUME RoaringAssumption, ctx \in RoaringContexts, NEW cs \in Seq(CtxNodes), cs # <<>>,
         NEW x \in CtxNodes, NEW y \in CtxNodes
  PROVE  LET L == Len(cs)
             going == Append(Front(cs), x)
             both == Append(going, y)
         IN  /\ L \in Nat \ {0} /\ DOMAIN cs = 1 .. L
             /\ DOMAIN Front(cs) = 1 .. L - 1
             /\ DOMAIN going = 1 .. L /\ DOMAIN both = 1 .. L + 1
             /\ \A k \in 1 .. L - 1 : Front(cs)[k] = cs[k] /\ going[k] = cs[k] /\ both[k] = cs[k]
             /\ going[L] = x /\ both[L] = x /\ both[L + 1] = y
<1> DEFINE L == Len(cs)
           rest == Front(cs)
           going == Append(rest, x)
           both == Append(going, y)
<1>1. /\ L \in Nat \ {0} /\ DOMAIN cs = 1 .. L /\ rest \in Seq(CtxNodes)
      /\ Len(rest) = L - 1 /\ \A k \in 1 .. L - 1 : rest[k] = cs[k]
  BY TopCall
<1> HIDE DEF rest, L
<1>2. /\ going \in Seq(CtxNodes) /\ Len(going) = L /\ going[L] = x
      /\ \A k \in 1 .. L - 1 : going[k] = rest[k]
  <2>1. /\ going \in Seq(CtxNodes) /\ Len(going) = Len(rest) + 1
        /\ \A k \in 1 .. Len(rest) : going[k] = rest[k]
        /\ going[Len(rest) + 1] = x
    BY ONLY <1>1, x \in CtxNodes, AppendProperties DEF going
  <2>2. Len(rest) + 1 = L
    BY <1>1
  <2> HIDE DEF going
  <2> QED BY ONLY <1>1, <2>1, <2>2
<1> HIDE DEF going
<1>3. /\ both \in Seq(CtxNodes) /\ Len(both) = L + 1 /\ both[L + 1] = y
      /\ \A k \in 1 .. L : both[k] = going[k]
  BY ONLY <1>2, y \in CtxNodes, AppendProperties DEF both
<1> HIDE DEF both
<1>4. DOMAIN rest = 1 .. L - 1 /\ DOMAIN going = 1 .. L /\ DOMAIN both = 1 .. L + 1
  BY <1>1, <1>2, <1>3, LenProperties
<1>5. \A k \in 1 .. L - 1 : k \in 1 .. L
  BY <1>1
<1>6. L \in 1 .. L
  BY <1>1
<1>7. \A k \in 1 .. L - 1 : rest[k] = cs[k] /\ going[k] = cs[k] /\ both[k] = cs[k]
  BY <1>1, <1>2, <1>3, <1>5
<1>8. both[L] = x
  BY <1>2, <1>3, <1>6
<1> QED BY <1>1, <1>2, <1>3, <1>4, <1>7, <1>8 DEF L, rest, going, both

\* A vector with one more concept.
LEMMA OutAppended ==
  ASSUME NEW os \in Seq(CtxConcepts), NEW x \in CtxConcepts
  PROVE  LET L == Len(os)
             more == Append(os, x)
         IN  /\ L \in Nat /\ DOMAIN os = 1 .. L /\ DOMAIN more = 1 .. L + 1
             /\ more[L + 1] = x
             /\ \A k \in 1 .. L : more[k] = os[k]
<1> DEFINE more == Append(os, x)
           L == Len(os)
<1>1. /\ more \in Seq(CtxConcepts) /\ Len(more) = L + 1
      /\ \A k \in 1 .. L : more[k] = os[k]
      /\ more[L + 1] = x /\ L \in Nat /\ DOMAIN os = 1 .. L
  BY AppendProperties, LenProperties
<1> HIDE DEF more
<1>2. DOMAIN more = 1 .. L + 1
  BY <1>1, LenProperties
<1> QED BY <1>1, <1>2 DEF more

\* The same places answer.
LEMMA SameTeamPlaces ==
  ASSUME NEW t \in DOMAIN st.team, NEW nx, NEW cs, NEW os, NEW ov, Steps(t, nx, cs, os, ov), NEW c,
         NextAgrees(nx, st.next, c, {}),
         CallsAgree(t, cs, st.team[t].calls, c, {}), os = st.team[t].out,
         Sole(TeamPlaces(st.next, st.team, c))
  PROVE  Sole(TeamPlaces(nx, st'.team, c))
<1> DEFINE H == TeamPlaces(st.next, st.team, c)
           G == TeamPlaces(nx, st'.team, c)
<1>1. OutsAgree(t, os, st.team[t].out, c, {})
  BY DEF OutsAgree
<1>2. \A g : g \notin {} => (g \in G <=> g \in H)
  BY <1>1, TeamElsewhere
<1>3. G = H
  BY <1>2
<1> QED BY <1>3

\* A call returns when no concept is left to be found from its node; otherwise
\* it goes on to the next attribute, and may enter the child of this one.
LEMMA ExploreOnce ==
  ASSUME RoaringAssumption, TeamInv, NEW t, R!Explore(t), NEW c \in CtxConcepts,
         Sole(TeamPlaces(st.next, st.team, c))
  PROVE  Sole(TeamPlaces(st.next, st'.team, c))
<1> DEFINE cs == st.team[t].calls
           o == st.team[t].out
           n == cs[Len(cs)]
           adv == FP!Advance(n)
           child == FP!Child(ctx.cols, n)
           can == FP!Canonical(ctx.cols, n)
           L == Len(cs)
           going == Append(Front(cs), adv)
           both == Append(going, child)
           o1 == Append(o, FP!AsConcept(child))
<1>1. Enumerating /\ t \in DOMAIN st.team /\ cs # <<>> /\ Explored(t)
  BY ExploreSteps
<1>2. /\ ctx \in RoaringContexts /\ cs \in Seq(CtxNodes) /\ o \in Seq(CtxConcepts)
  BY <1>1, ThreadFacts DEF TeamInv
<1>3. n \in CtxNodes
  BY <1>1, <1>2, TopCall
<1>4. IF n.i = R!M THEN Steps(t, st.next, Front(cs), o, FALSE)
      ELSE IF can THEN Steps(t, st.next, both, o1, FALSE)
      ELSE Steps(t, st.next, going, o, FALSE)
  BY <1>1 DEF Explored
<1> HIDE DEF adv, child, can, o
<1>5. /\ n.i # R!M => n.i < R!M
      /\ n.i = R!M => ~Below(ctx.cols, n, c)
      /\ n.i < R!M => adv \in CtxNodes
      /\ n.i < R!M /\ ~can => (Below(ctx.cols, n, c) <=> Below(ctx.cols, adv, c))
      /\ n.i < R!M /\ can => child \in CtxNodes /\ FP!AsConcept(child) \in CtxConcepts
  <2> HIDE DEF n
  <2>1. R!M \in Nat
    BY <1>2, CtxFacts
  <2>2. n.i \in Nat /\ n.i <= R!M
    BY <1>2, <1>3, OnNodes
  <2>3. n.i # R!M => n.i < R!M
    BY <2>1, <2>2
  <2> QED BY <1>2, <1>3, <2>3, OnNodes DEF adv, child, can
<1>6. ASSUME NEW x \in CtxNodes, NEW y \in CtxNodes
      PROVE  LET g == Append(Front(cs), x)
                 b == Append(g, y)
             IN  /\ L \in Nat \ {0} /\ DOMAIN cs = 1 .. L
                 /\ DOMAIN Front(cs) = 1 .. L - 1
                 /\ DOMAIN g = 1 .. L /\ DOMAIN b = 1 .. L + 1
                 /\ \A k \in 1 .. L - 1 : Front(cs)[k] = cs[k] /\ g[k] = cs[k] /\ b[k] = cs[k]
                 /\ g[L] = x /\ b[L] = x /\ b[L + 1] = y
  <2> HIDE DEF cs
  <2> QED BY <1>1, <1>2, CallsReplaced DEF L
<1>7. n = cs[L]
  OBVIOUS
<1>8. CASE n.i = R!M
  <2>1. Steps(t, st.next, Front(cs), o, FALSE) /\ ~Below(ctx.cols, n, c)
    BY <1>4, <1>5, <1>8
  <2>2. /\ L \in Nat \ {0} /\ DOMAIN cs = 1 .. L /\ DOMAIN Front(cs) = 1 .. L - 1
        /\ \A k \in 1 .. L - 1 : Front(cs)[k] = cs[k]
    BY <1>3, <1>6
  <2> HIDE DEF n, L
  <2>3. CallsAgree(t, Front(cs), cs, c, {})
    <3>1. \A k : k \in 1 .. L <=> k \in 1 .. L - 1 \/ k = L
      BY <2>2
    <3>2. L \notin 1 .. L - 1
      BY <2>2
    <3> QED BY ONLY <1>7, <2>1, <2>2, <3>1, <3>2 DEF CallsAgree
  <2>4. NextAgrees(st.next, st.next, c, {})
    BY DEF NextAgrees
  <2>5. o = st.team[t].out
    BY DEF o
  <2> QED BY <1>1, <2>1, <2>3, <2>4, <2>5, SameTeamPlaces
<1>9. CASE n.i # R!M /\ ~can
  <2>1. /\ Steps(t, st.next, going, o, FALSE) /\ adv \in CtxNodes
        /\ Below(ctx.cols, n, c) <=> Below(ctx.cols, adv, c)
    BY <1>4, <1>5, <1>9
  <2>2. /\ L \in Nat \ {0} /\ DOMAIN cs = 1 .. L /\ DOMAIN going = 1 .. L
        /\ going[L] = adv
        /\ \A k \in 1 .. L - 1 : going[k] = cs[k]
    BY <1>6, <2>1
  <2> HIDE DEF n, L, going
  <2>3. CallsAgree(t, going, cs, c, {})
    <3>1. \A k : k \in 1 .. L <=> k \in 1 .. L - 1 \/ k = L
      BY <2>2
    <3> QED BY ONLY <1>7, <2>1, <2>2, <3>1 DEF CallsAgree
  <2>4. NextAgrees(st.next, st.next, c, {})
    BY DEF NextAgrees
  <2>5. o = st.team[t].out
    BY DEF o
  <2> QED BY <1>1, <2>1, <2>3, <2>4, <2>5, SameTeamPlaces
<1>10. CASE n.i # R!M /\ can
  <2>1. /\ Steps(t, st.next, both, o1, FALSE) /\ adv \in CtxNodes /\ child \in CtxNodes
        /\ FP!AsConcept(child) \in CtxConcepts /\ n.i < R!M
    BY <1>4, <1>5, <1>10
  <2>2. /\ L \in Nat \ {0} /\ DOMAIN cs = 1 .. L /\ DOMAIN both = 1 .. L + 1
        /\ both[L] = adv /\ both[L + 1] = child
        /\ \A k \in 1 .. L - 1 : both[k] = cs[k]
    BY <1>6, <2>1
  <2> DEFINE N == Len(o)
             here == FP!AsConcept(child)
  <2>3. /\ N \in Nat /\ DOMAIN o = 1 .. N /\ DOMAIN o1 = 1 .. N + 1
        /\ o1[N + 1] = here /\ \A k \in 1 .. N : o1[k] = o[k]
    BY <1>2, <2>1, OutAppended
  <2> DEFINE a == <<"call", t, L>>
             b == <<"call", t, L + 1>>
             d == <<"out", t, N + 1>>
             A == {a, b, d}
             H == TeamPlaces(st.next, st.team, c)
             G == TeamPlaces(st.next, st'.team, c)
  <2> HIDE DEF n, L, going, both, o1, N, here
  <2>4. a # b /\ a # d /\ b # d
    <3>1. L # L + 1
      BY <2>2
    <3> QED BY <3>1, TeamTags
  <2>5. CallsAgree(t, both, cs, c, A)
    <3>1. \A k : <<"call", t, k>> \notin A => k # L /\ k # L + 1
      OBVIOUS
    <3>2. \A k : /\ k \in 1 .. L <=> k \in 1 .. L - 1 \/ k = L
                 /\ k \in 1 .. L + 1 <=> k \in 1 .. L - 1 \/ k = L \/ k = L + 1
      BY <2>2
    <3> QED BY ONLY <2>2, <3>1, <3>2 DEF CallsAgree
  <2>6. OutsAgree(t, o1, o, c, A)
    <3>1. \A k : <<"out", t, k>> \notin A => k # N + 1
      OBVIOUS
    <3>2. \A k : k \in 1 .. N + 1 <=> k \in 1 .. N \/ k = N + 1
      BY <2>3
    <3> QED BY ONLY <2>3, <3>1, <3>2 DEF OutsAgree
  <2>7. \A g : g \notin A => (g \in G <=> g \in H)
    <3>1. NextAgrees(st.next, st.next, c, A)
      BY DEF NextAgrees
    <3>2. OutsAgree(t, o1, st.team[t].out, c, A)
      BY <2>6 DEF o
    <3> HIDE DEF A
    <3> QED BY <1>1, <2>1, <2>5, <3>1, <3>2, TeamElsewhere
  <2>8. b \notin H /\ d \notin H /\ (a \in H <=> Below(ctx.cols, n, c))
    <3>1. L \in DOMAIN cs /\ L + 1 \notin DOMAIN cs /\ N + 1 \notin DOMAIN o
      BY <2>2, <2>3
    <3> QED BY <1>1, <1>7, <3>1, TeamForms DEF o
  <2>9. /\ a \in G <=> Below(ctx.cols, adv, c)
        /\ b \in G <=> Below(ctx.cols, child, c)
        /\ d \in G <=> c = here
    <3>1. L \in DOMAIN both /\ L + 1 \in DOMAIN both /\ N + 1 \in DOMAIN o1
      BY <2>2, <2>3
    <3>2. st'.team[t].calls = both /\ st'.team[t].out = o1 /\ t \in DOMAIN st'.team
      BY <1>1, <2>1 DEF Steps
    <3> QED BY <2>2, <2>3, <3>1, <3>2, TeamForms
  <2> HIDE DEF a, b, d, G, H
  <2>10. Sole(H)
    BY DEF H
  <2>11. Sole(G)
    <3>1. \A g : g \notin {a, b, d} => (g \in G <=> g \in H)
      BY <2>7
    <3>2. FP!Canonical(ctx.cols, n) /\ adv = FP!Advance(n) /\ child = FP!Child(ctx.cols, n)
          /\ here = FP!AsConcept(FP!Child(ctx.cols, n))
      BY <1>10 DEF can, adv, child, here
    <3>3. ctx \in RoaringContexts /\ n \in CtxNodes /\ n.i < R!M
      BY <1>2, <1>3, <2>1
    <3>4. TakenOver(n, c, H, G, a, b, d)
      BY <2>4, <2>8, <2>9, <3>1, <3>2 DEF TakenOver
    <3> QED BY <2>10, <3>2, <3>3, <3>4, ChildTakesOver
  <2> QED BY <2>11 DEF G
<1> QED BY <1>8, <1>9, <1>10

\* A claim enters the child of the attribute the counter is at, if it is
\* canonical, and the counter then stands for the attributes after it.
LEMMA ClaimOnce ==
  ASSUME RoaringAssumption, TeamInv, NEW t, R!Claim(t), NEW c \in CtxConcepts,
         Sole(TeamPlaces(st.next, st.team, c))
  PROVE  Sole(TeamPlaces(st.next + 1, st'.team, c))
<1> DEFINE cs == st.team[t].calls
           o == st.team[t].out
           n == Subtree(st.next)
           adv == FP!Advance(n)
           child == FP!Child(ctx.cols, n)
           can == FP!Canonical(ctx.cols, n)
           here == FP!AsConcept(child)
           c1 == Append(<<>>, child)
           o1 == Append(o, here)
           nx == st.next + 1
<1>1. Enumerating /\ t \in DOMAIN st.team /\ cs = <<>> /\ Claimed(t)
  BY ClaimSteps
<1>2. ctx \in RoaringContexts /\ o \in Seq(CtxConcepts) /\ st.next \in Nat /\ R!M \in Nat
  BY <1>1, ThreadFacts, CtxFacts DEF TeamInv
<1>3. IF st.next >= R!M THEN Steps(t, nx, cs, o, TRUE)
      ELSE IF can THEN Steps(t, nx, c1, o1, FALSE)
      ELSE Steps(t, nx, cs, o, FALSE)
  BY <1>1 DEF Claimed
<1>4. nx \in Nat /\ (st.next >= R!M => nx >= R!M)
  BY <1>2
<1>5. /\ n.i = st.next /\ adv = Subtree(nx)
      /\ st.next <= R!M => n \in CtxNodes
      /\ st.next >= R!M => ~Below(ctx.cols, n, c) /\ ~Below(ctx.cols, Subtree(nx), c)
  BY <1>2, <1>4, OnSubtrees
<1>6. CallsAgree(t, cs, st.team[t].calls, c, {}) /\ o = st.team[t].out
  BY DEF CallsAgree
<1>7. (st.next < R!M /\ n \in CtxNodes) \/ st.next >= R!M
  BY <1>2, <1>5
<1> HIDE DEF cs, o, n, adv, child, can, nx
<1>8. CASE st.next >= R!M
  <2>1. NextAgrees(nx, st.next, c, {}) /\ Steps(t, nx, cs, o, TRUE)
    BY <1>3, <1>5, <1>8 DEF NextAgrees, n
  <2> QED BY <1>1, <1>6, <2>1, SameTeamPlaces DEF nx
<1>9. CASE ~(st.next >= R!M) /\ ~can
  <2>1. Below(ctx.cols, n, c) <=> Below(ctx.cols, adv, c)
    BY <1>2, <1>5, <1>7, <1>9, OnNodes DEF adv, can
  <2>2. NextAgrees(nx, st.next, c, {}) /\ Steps(t, nx, cs, o, FALSE)
    BY <1>3, <1>5, <1>9, <2>1 DEF NextAgrees, n
  <2> QED BY <1>1, <1>6, <2>2, SameTeamPlaces DEF nx
<1>10. CASE ~(st.next >= R!M) /\ can
  <2>1. n \in CtxNodes /\ n.i < R!M
    BY <1>5, <1>7, <1>10
  <2>2. child \in CtxNodes /\ here \in CtxConcepts
    BY <1>2, <1>10, <2>1, OnNodes DEF child, can
  <2>3. Steps(t, nx, c1, o1, FALSE)
    BY <1>3, <1>10
  <2> DEFINE N == Len(o)
  <2>4. /\ N \in Nat /\ DOMAIN o = 1 .. N /\ DOMAIN o1 = 1 .. N + 1
        /\ o1[N + 1] = here /\ \A k \in 1 .. N : o1[k] = o[k]
    BY <1>2, <2>2, OutAppended
  <2>5. DOMAIN c1 = {1} /\ c1[1] = child /\ DOMAIN cs = {}
    <3>1. c1 = <<child>>
      OBVIOUS
    <3>2. DOMAIN <<child>> = {1} /\ <<child>>[1] = child
      OBVIOUS
    <3> QED BY <1>1, <3>1, <3>2
  <2> DEFINE a == <<"next">>
             b == <<"call", t, 1>>
             d == <<"out", t, N + 1>>
             A == {a, b, d}
             H == TeamPlaces(st.next, st.team, c)
             G == TeamPlaces(nx, st'.team, c)
  <2> HIDE DEF c1, o1, N, here
  <2>6. a # b /\ a # d /\ b # d
    BY TeamTags
  <2>7. CallsAgree(t, c1, cs, c, A)
    <3>1. \A k : <<"call", t, k>> \notin A => k # 1
      OBVIOUS
    <3> QED BY ONLY <2>5, <3>1 DEF CallsAgree
  <2>8. OutsAgree(t, o1, o, c, A)
    <3>1. \A k : <<"out", t, k>> \notin A => k # N + 1
      OBVIOUS
    <3>2. \A k : k \in 1 .. N + 1 <=> k \in 1 .. N \/ k = N + 1
      BY <2>4
    <3> QED BY ONLY <2>4, <3>1, <3>2 DEF OutsAgree
  <2>9. \A g : g \notin A => (g \in G <=> g \in H)
    <3>1. NextAgrees(nx, st.next, c, A)
      BY DEF NextAgrees
    <3>2. OutsAgree(t, o1, st.team[t].out, c, A) /\ CallsAgree(t, c1, st.team[t].calls, c, A)
      BY <2>7, <2>8 DEF o, cs
    <3> HIDE DEF A
    <3> QED BY <1>1, <2>3, <3>1, <3>2, TeamElsewhere
  <2>10. b \notin H /\ d \notin H /\ (a \in H <=> Below(ctx.cols, n, c))
    <3>1. 1 \notin DOMAIN cs /\ N + 1 \notin DOMAIN o
      BY <2>4, <2>5
    <3> QED BY <1>1, <3>1, TeamForms DEF o, cs, n
  <2>11. /\ a \in G <=> Below(ctx.cols, adv, c)
         /\ b \in G <=> Below(ctx.cols, child, c)
         /\ d \in G <=> c = here
    <3>1. 1 \in DOMAIN c1 /\ N + 1 \in DOMAIN o1
      BY <2>4, <2>5
    <3>2. st'.team[t].calls = c1 /\ st'.team[t].out = o1 /\ t \in DOMAIN st'.team
      BY <1>1, <2>3 DEF Steps
    <3> QED BY <1>5, <2>4, <2>5, <3>1, <3>2, TeamForms
  <2> HIDE DEF a, b, d, G, H
  <2>12. Sole(H)
    BY DEF H
  <2>13. Sole(G)
    <3>1. \A g : g \notin {a, b, d} => (g \in G <=> g \in H)
      BY <2>9
    <3>2. FP!Canonical(ctx.cols, n) /\ adv = FP!Advance(n) /\ child = FP!Child(ctx.cols, n)
          /\ here = FP!AsConcept(FP!Child(ctx.cols, n))
      BY <1>10 DEF can, adv, child, here
    <3>3. TakenOver(n, c, H, G, a, b, d)
      BY <2>6, <2>10, <2>11, <3>1, <3>2 DEF TakenOver
    <3> QED BY <1>2, <2>1, <2>12, <3>2, <3>3, ChildTakesOver
  <2> QED BY <2>13 DEF G, nx
<1> QED BY <1>8, <1>9, <1>10

\* At first the counter stands for all concepts but top.
LEMMA CounterAnswersFirst ==
  ASSUME RoaringAssumption, R!Init
  PROVE  OneTeamPlace
<1>1. /\ ctx \in RoaringContexts /\ st.next = 0
      /\ \A t \in DOMAIN st.team : st.team[t].calls = <<>> /\ st.team[t].out = <<>>
  <2>1. PICK asked :
          st = [phase |-> "enumerate", asked |-> asked, next |-> 0, words |-> << >>,
                team |-> IF R!M = 0 THEN [t \in 1 .. asked |-> R!Thread] ELSE R!Team(asked, R!M)]
    BY DEF R!Init
  <2>2. \A t \in DOMAIN st.team : st.team[t] = R!Thread
    <3>1. CASE R!M = 0
      BY <2>1, <3>1
    <3>2. CASE R!M # 0
      BY <2>1, <3>2 DEF R!Team
    <3> QED BY <3>1, <3>2
  <2>3. R!Thread.calls = <<>> /\ R!Thread.out = <<>>
    BY DEF R!Thread
  <2>4. st.next = 0
    BY ONLY <2>1
  <2> QED BY <2>2, <2>3, <2>4 DEF R!Init
<1>2. ASSUME NEW c \in CtxConcepts, c # FP!Top(ctx.cols) PROVE Sole(TeamPlaces(st.next, st.team, c))
  <2> DEFINE H == TeamPlaces(st.next, st.team, c)
  <2>1. <<"next">> \in H
    BY <1>1, <1>2, OnSubtrees, TeamForms
  <2>2. DOMAIN <<>> = {}
    OBVIOUS
  <2>3. ASSUME NEW h \in H PROVE h = <<"next">>
    BY <1>1, <2>2, TeamForms
  <2>4. H = {<<"next">>}
    BY <2>1, <2>3
  <2> QED BY <2>4 DEF Sole
<1> QED BY <1>2 DEF OneTeamPlace

LEMMA OnceAfter ==
  ASSUME ctx' = ctx, NEW nx, st'.next = nx,
         \A c \in CtxConcepts : c # FP!Top(ctx.cols) => Sole(TeamPlaces(nx, st'.team, c))
  PROVE  OneTeamPlace'
<1>1. \A c : TeamPlaces(st.next, st.team, c)' = TeamPlaces(nx, st'.team, c)
  BY DEF TeamPlaces, NextPlaces, TeamCalls, TeamOuts, Subtree, FP!Root, FP!Intent, FP!Attributes, R!M
<1> QED BY <1>1, SameContext DEF OneTeamPlace, Sole

LEMMA OnceKept ==
  ASSUME RoaringAssumption, TeamInv, OneTeamPlace, [R!Next]_(R!vars)
  PROVE  OneTeamPlace'
<1>1. ASSUME NEW t, R!Claim(t) PROVE OneTeamPlace'
  <2> DEFINE nx == st.next + 1
  <2>1. Enumerating /\ ctx' = ctx /\ st'.next = nx
    BY <1>1, ClaimSteps DEF Claimed, Steps
  <2>2. ASSUME NEW c \in CtxConcepts, c # FP!Top(ctx.cols) PROVE Sole(TeamPlaces(nx, st'.team, c))
    BY <1>1, <2>1, <2>2, ClaimOnce DEF OneTeamPlace
  <2> HIDE DEF nx
  <2> QED BY <2>1, <2>2, OnceAfter
<1>2. ASSUME NEW t, R!Explore(t) PROVE OneTeamPlace'
  <2>1. Enumerating /\ ctx' = ctx /\ st'.next = st.next
    BY <1>2, ExploreSteps DEF Explored, Steps
  <2>2. ASSUME NEW c \in CtxConcepts, c # FP!Top(ctx.cols) PROVE Sole(TeamPlaces(st.next, st'.team, c))
    BY <1>2, <2>1, <2>2, ExploreOnce DEF OneTeamPlace
  <2> QED BY <2>1, <2>2, OnceAfter
<1>3. CASE UNCHANGED <<ctx, st>>
  <2>1. CASE ~Enumerating
    BY <1>3, <2>1 DEF OneTeamPlace, Enumerating
  <2>2. CASE Enumerating
    BY <1>3, <2>2, OnceAfter DEF OneTeamPlace
  <2> QED BY <2>1, <2>2
<1>4. CASE ctx' = ctx /\ IsTeamState' /\ ~Enumerating'
  BY <1>4 DEF OneTeamPlace
<1> QED BY <1>1, <1>2, <1>3, <1>4, OtherSteps

\* One place of all is what EachAnsweredOnce counts.
LEMMA OneIsCounted == TeamInv /\ OneTeamPlace => R!EachAnsweredOnce
<1> SUFFICES ASSUME TeamInv, OneTeamPlace, Enumerating,
                    NEW c \in R!F!Concepts(ctx.cols) \ {R!F!Top(ctx.cols)}
             PROVE  LET calls == UNION {{t} \X {k \in DOMAIN st.team[t].calls :
                                                  R!F!Below(ctx.cols, st.team[t].calls[k], c)} :
                                          t \in DOMAIN st.team}
                        outs  == UNION {{t} \X {k \in DOMAIN st.team[t].out : st.team[t].out[k] = c} :
                                          t \in DOMAIN st.team}
                    IN  1 = R!Cardinality(calls) + R!Cardinality(outs)
                             + (IF R!F!Below(ctx.cols, R!NextSubtree, c) THEN 1 ELSE 0)
  BY DEF R!EachAnsweredOnce, Enumerating
<1> DEFINE calls == UNION {{t} \X {k \in DOMAIN st.team[t].calls :
                                     R!F!Below(ctx.cols, st.team[t].calls[k], c)} :
                             t \in DOMAIN st.team}
           outs  == UNION {{t} \X {k \in DOMAIN st.team[t].out : st.team[t].out[k] = c} :
                             t \in DOMAIN st.team}
           left  == R!F!Below(ctx.cols, R!NextSubtree, c)
           G == TeamPlaces(st.next, st.team, c)
<1> SUFFICES 1 = R!Cardinality(calls) + R!Cardinality(outs) + (IF left THEN 1 ELSE 0)
  OBVIOUS
<1>1. c \in CtxConcepts /\ c # FP!Top(ctx.cols)
  BY DEF R!F!Concepts, R!F!Concept, R!F!IsConcept, R!F!Top, R!F!Extent, R!F!Intent, R!F!Attributes,
         CtxConcepts, FP!Concept, FP!IsConcept, FP!Top, FP!Extent, FP!Intent, FP!Attributes
<1>2. PICK h : G = {h}
  BY <1>1 DEF OneTeamPlace, Sole
<1>3. /\ \A t, k : <<t, k>> \in calls <=> <<"call", t, k>> \in G
      /\ \A p \in calls : \E t, k : p = <<t, k>>
  BY SameTerms, TeamForms
<1>4. /\ \A t, k : <<t, k>> \in outs <=> <<"out", t, k>> \in G
      /\ \A p \in outs : \E t, k : p = <<t, k>>
  BY TeamForms
<1>5. left <=> <<"next">> \in G
  BY SameTerms, TeamForms
<1>6. /\ R!Cardinality({}) = 0
      /\ \A x : R!Cardinality({x}) = 1
  <2>1. Cardinality({}) = 0 /\ \A x : Cardinality({x}) = 1
    BY FS_EmptySet, FS_Singleton
  <2>2. \A S : R!Cardinality(S) = Cardinality(S)
    BY DEF R!Cardinality, Cardinality
  <2> QED BY <2>1, <2>2
<1>7. \/ h = <<"next">>
      \/ \E t, k : h = <<"call", t, k>>
      \/ \E t, k : h = <<"out", t, k>>
  BY <1>2, TeamForms
<1> HIDE DEF calls, outs, left, G
<1>8. CASE h = <<"next">>
  <2>1. calls = {} /\ outs = {} /\ left
    BY <1>2, <1>3, <1>4, <1>5, <1>8, TeamTags
  <2> QED BY ONLY <1>6, <2>1
<1>9. CASE \E t, k : h = <<"call", t, k>>
  <2>1. PICK t, k : h = <<"call", t, k>>
    BY <1>9
  <2>2. \A u, m : <<u, m>> \in calls <=> u = t /\ m = k
    BY <1>2, <1>3, <2>1, TeamTags
  <2>3. calls = {<<t, k>>}
    BY <1>3, <2>2
  <2>4. outs = {} /\ ~left
    BY <1>2, <1>4, <1>5, <2>1, TeamTags
  <2>5. R!Cardinality(calls) = 1
    BY ONLY <1>6, <2>3
  <2>6. R!Cardinality(outs) = 0
    BY ONLY <1>6, <2>4
  <2> QED BY ONLY <2>4, <2>5, <2>6
<1>10. CASE \E t, k : h = <<"out", t, k>>
  <2>1. PICK t, k : h = <<"out", t, k>>
    BY <1>10
  <2>2. \A u, m : <<u, m>> \in outs <=> u = t /\ m = k
    BY <1>2, <1>4, <2>1, TeamTags
  <2>3. outs = {<<t, k>>}
    BY <1>4, <2>2
  <2>4. calls = {} /\ ~left
    BY <1>2, <1>3, <1>5, <2>1, TeamTags
  <2>5. R!Cardinality(outs) = 1
    BY ONLY <1>6, <2>3
  <2>6. R!Cardinality(calls) = 0
    BY ONLY <1>6, <2>4
  <2> QED BY ONLY <2>4, <2>5, <2>6
<1> QED BY <1>7, <1>8, <1>9, <1>10

\* In the roaring variant, with any number of threads and whichever takes which
\* subtree, every concept but top is in the vector of one thread, or still to
\* be found from one call under way or from the counter, and from one of these
\* only, until the threads are joined (enum_thread, cbo_enum_local).
THEOREM RoaringFindsEachOnce ==
  ASSUME RoaringAssumption
  PROVE  R!Spec => []R!EachAnsweredOnce
<1>1. R!Init => TeamInv /\ OneTeamPlace
  BY TeamInitially, CounterAnswersFirst
<1>2. TeamInv /\ OneTeamPlace /\ [R!Next]_(R!vars) => (TeamInv /\ OneTeamPlace)'
  BY TeamKept, OnceKept
<1>3. TeamInv /\ OneTeamPlace => R!EachAnsweredOnce
  BY OneIsCounted
<1> QED BY <1>1, <1>2, <1>3, PTL DEF R!Spec

\* When the threads are joined, their vectors hold concepts only, and each
\* concept but top at one index of one of them.
VectorsComplete ==
  Enumerating /\ R!AllOver =>
    /\ \A t \in DOMAIN st.team : st.team[t].out \in Seq(R!F!Concepts(ctx.cols))
    /\ \A c \in R!F!Concepts(ctx.cols) \ {R!F!Top(ctx.cols)} :
         \E t \in DOMAIN st.team : \E k \in DOMAIN st.team[t].out :
           /\ st.team[t].out[k] = c
           /\ \A u \in DOMAIN st.team : \A m \in DOMAIN st.team[u].out :
                st.team[u].out[m] = c => u = t /\ m = k

LEMMA NothingIsLeft == RoaringAssumption /\ TeamInv /\ OneTeamPlace => VectorsComplete
<1> SUFFICES ASSUME RoaringAssumption, TeamInv, OneTeamPlace, Enumerating, R!AllOver
             PROVE  VectorsComplete
  BY DEF VectorsComplete
<1>1. /\ CtxConcepts = R!F!Concepts(ctx.cols)
      /\ FP!Top(ctx.cols) = R!F!Top(ctx.cols)
  BY DEF R!F!Concepts, R!F!Concept, R!F!IsConcept, R!F!Top, R!F!Extent, R!F!Intent, R!F!Attributes,
         CtxConcepts, FP!Concept, FP!IsConcept, FP!Top, FP!Extent, FP!Intent, FP!Attributes
<1>2. /\ \A t \in DOMAIN st.team : st.team[t].calls = <<>> /\ st.next >= R!M
      /\ DOMAIN st.team # {} /\ st.next \in Nat /\ ctx \in RoaringContexts
  BY DEF R!AllOver, TeamInv
<1>3. \A t \in DOMAIN st.team : st.team[t].out \in Seq(CtxConcepts)
  BY ThreadFacts
<1>4. ASSUME NEW c \in CtxConcepts, c # FP!Top(ctx.cols)
      PROVE  \E t \in DOMAIN st.team : \E k \in DOMAIN st.team[t].out :
               /\ st.team[t].out[k] = c
               /\ \A u \in DOMAIN st.team : \A m \in DOMAIN st.team[u].out :
                    st.team[u].out[m] = c => u = t /\ m = k
  <2> DEFINE G == TeamPlaces(st.next, st.team, c)
  <2>1. PICK h : G = {h}
    BY <1>4 DEF OneTeamPlace, Sole
  <2>2. h # <<"next">>
    <3>1. st.next >= R!M
      BY <1>2
    <3>2. ~Below(ctx.cols, Subtree(st.next), c)
      BY <1>2, <3>1, OnSubtrees
    <3> QED BY <2>1, <3>2, TeamForms
  <2>3. ~ \E t, k : h = <<"call", t, k>>
    <3>1. DOMAIN <<>> = {}
      OBVIOUS
    <3> QED BY <1>2, <2>1, <3>1, TeamForms
  <2>4. PICK t, k : h = <<"out", t, k>>
    BY <2>1, <2>2, <2>3, TeamForms
  <2>5. t \in DOMAIN st.team /\ k \in DOMAIN st.team[t].out /\ st.team[t].out[k] = c
    BY <2>1, <2>4, TeamForms
  <2>6. ASSUME NEW u \in DOMAIN st.team, NEW m \in DOMAIN st.team[u].out, st.team[u].out[m] = c
        PROVE  u = t /\ m = k
    <3>1. <<"out", u, m>> \in G
      BY <2>6, TeamForms
    <3> QED BY <2>1, <2>4, <3>1, TeamTags
  <2> QED BY <2>5, <2>6
<1> QED BY <1>1, <1>3, <1>4 DEF VectorsComplete

\* The threads of the roaring variant are joined only when they have found
\* every concept but top, and none twice: what the main thread numbers after
\* top is a list of all concepts (enum_thread, build_lattice_cbo).
THEOREM RoaringJoinsAllConcepts ==
  ASSUME RoaringAssumption
  PROVE  R!Spec => []VectorsComplete
<1>1. R!Init => TeamInv /\ OneTeamPlace
  BY TeamInitially, CounterAnswersFirst
<1>2. TeamInv /\ OneTeamPlace /\ [R!Next]_(R!vars) => (TeamInv /\ OneTeamPlace)'
  BY TeamKept, OnceKept
<1>3. TeamInv /\ OneTeamPlace => VectorsComplete
  BY NothingIsLeft
<1> QED BY <1>1, <1>2, <1>3, PTL DEF R!Spec

-----------------------------------------------------------------------------
(***************************************************************************)
(* LinCbO: Close-by-One over the sets closed under the implications found  *)
(* so far, in one thread.  The counters that a call hands down stay right, *)
(* and the list is the canonical basis in the end.                         *)
(***************************************************************************)
CONSTANT LinContexts
VARIABLE impls

L == INSTANCE LinCbO WITH Contexts <- LinContexts

\* Attributes are numbered from 0; no list of implications is Null.
LinAssumption ==
  /\ \A C \in LinContexts : \E n \in Nat : C.cols \in [0 .. n - 1 -> SUBSET C.objs]
  /\ \A S : Null \notin Seq(S)

LinAttrs == 0 .. L!N - 1

\* What can be in the list, and the states of a closure under way.
Rules == {L!Implication(ctx, P, C) : P \in SUBSET LinAttrs, C \in SUBSET LinAttrs}

Closings == [ok : BOOLEAN, D : SUBSET LinAttrs, Z : SUBSET LinAttrs,
             count : [1 .. Len(impls) -> Int]]

LinTyped == LinAssumption /\ ctx \in LinContexts /\ impls \in Seq(Rules)

LEMMA LinFacts ==
  ASSUME LinAssumption, ctx \in LinContexts
  PROVE  /\ L!N \in Nat /\ L!Attrs(ctx) = LinAttrs /\ DOMAIN ctx.cols = LinAttrs
         /\ IsFiniteSet(LinAttrs) /\ Cardinality(LinAttrs) = L!N
<1>1. PICK n \in Nat : ctx.cols \in [0 .. n - 1 -> SUBSET ctx.objs]
  BY DEF LinAssumption
<1>2. Cardinality(0 .. n - 1) = n /\ IsFiniteSet(0 .. n - 1)
  <2>1. 0 \in Int /\ n - 1 \in Int
    OBVIOUS
  <2>2. Cardinality(0 .. n - 1) = (IF 0 > n - 1 THEN 0 ELSE n - 1 - 0 + 1) /\ IsFiniteSet(0 .. n - 1)
    BY ONLY <2>1, FS_Interval
  <2> QED BY <2>2
<1>3. L!N = n
  <2>1. L!Attrs(ctx) = 0 .. n - 1
    BY <1>1 DEF L!Attrs
  <2>2. L!Cardinality(0 .. n - 1) = Cardinality(0 .. n - 1)
    BY DEF L!Cardinality, Cardinality, L!IsFiniteSet, IsFiniteSet
  <2> QED BY <1>2, <2>1, <2>2 DEF L!N
<1> QED BY <1>1, <1>2, <1>3 DEF L!Attrs, LinAttrs

LEMMA SameSizes ==
  \A S : L!Cardinality(S) = Cardinality(S)
BY DEF L!Cardinality, Cardinality, L!IsFiniteSet, IsFiniteSet

LEMMA Rule ==
  ASSUME LinTyped
  PROVE  /\ Len(impls) \in Nat /\ DOMAIN impls = 1 .. Len(impls)
         /\ \A k \in 1 .. Len(impls) :
              /\ impls[k].premise \in SUBSET LinAttrs
              /\ impls[k].conclusion \in SUBSET LinAttrs
              /\ IsFiniteSet(impls[k].premise)
<1>1. Len(impls) \in Nat /\ DOMAIN impls = 1 .. Len(impls)
  BY LenProperties DEF LinTyped
<1>2. ASSUME NEW k \in 1 .. Len(impls)
      PROVE  impls[k].premise \in SUBSET LinAttrs /\ impls[k].conclusion \in SUBSET LinAttrs
  <2>1. impls[k] \in Rules
    BY <1>2, ElementOfSeq DEF LinTyped
  <2> QED BY <2>1 DEF Rules, L!Implication
<1>3. IsFiniteSet(LinAttrs)
  BY LinFacts DEF LinTyped
<1> QED BY <1>1, <1>2, <1>3, FS_Subset

\* The least of a set of attributes.
LEMMA Least ==
  ASSUME LinTyped, NEW S \in SUBSET LinAttrs
  PROVE  /\ S = {} => L!MinOr(S, L!N) = L!N
         /\ S # {} => L!MinOr(S, L!N) \in S /\ \A x \in S : L!MinOr(S, L!N) <= x
<1>1. CASE S = {}
  BY <1>1 DEF L!MinOr
<1>2. CASE S # {}
  <2>1. L!N \in Nat
    BY LinFacts DEF LinTyped
  <2>2. S \subseteq Nat
    BY <2>1 DEF LinAttrs
  <2>3. \E x \in S : \A y \in S : x <= y
    <3> DEFINE less == OpToRel(<, Nat)
    <3>1. IsWellFoundedOn(less, Nat)
      BY NatLessThanWellFounded
    <3>2. \A x, y \in Nat : <<x, y>> \in less <=> x < y
      BY DEF OpToRel
    <3> HIDE DEF less
    <3>3. \E m \in S : \A j \in S : ~(<<j, m>> \in less)
      BY <1>2, <2>2, <3>1, WFMin
    <3>4. PICK m \in S : \A j \in S : ~(<<j, m>> \in less)
      BY <3>3
    <3>5. \A j \in S : m <= j
      <4> TAKE j \in S
      <4>1. j \in Nat /\ m \in Nat /\ ~(j < m)
        BY <2>2, <3>2, <3>4
      <4> QED BY <4>1
    <3> QED BY <3>5
  <2> QED BY <1>2, <2>3 DEF L!MinOr
<1> QED BY <1>1, <1>2

\* One implication touched: its counter goes down, or it fires, or the closure
\* is given up because of an attribute of its conclusion.
LEMMA Touched ==
  ASSUME LinTyped, NEW c \in Closings, NEW k \in 1 .. Len(impls), NEW y \in Int, y <= L!N
  PROVE  LET d == L!Touch(c, k, y)
             add == impls[k].conclusion \ c.D
         IN  /\ d \in Closings
             /\ ~ c.ok => d = c
             /\ c.ok /\ c.count[k] # 1 =>
                  d.ok /\ d.D = c.D /\ d.Z = c.Z /\ d.count = [c.count EXCEPT ![k] = @ - 1]
             /\ c.ok /\ c.count[k] = 1 /\ ~ d.ok => \E x \in add : x < y
             /\ c.ok /\ c.count[k] = 1 /\ d.ok =>
                  /\ d.D = c.D \cup add /\ d.Z = c.Z \cup add
                  /\ d.count = [c.count EXCEPT ![k] = 0]
                  /\ \A x \in add : x >= y
<1> DEFINE d == L!Touch(c, k, y)
           C == impls[k].conclusion
           add == C \ c.D
           lower == [c.count EXCEPT ![k] = @ - 1]
           zero == [c.count EXCEPT ![k] = 0]
           cut == \/ L!MinOr(C, L!N) < y /\ L!MinOr(c.D, L!N) >= y
                  \/ L!MinOr(add, L!N) < y
<1>1. /\ c.ok \in BOOLEAN /\ c.D \in SUBSET LinAttrs /\ c.Z \in SUBSET LinAttrs
      /\ c.count \in [1 .. Len(impls) -> Int]
      /\ c = [ok |-> c.ok, D |-> c.D, Z |-> c.Z, count |-> c.count]
  BY DEF Closings
<1>2. C \in SUBSET LinAttrs /\ add \in SUBSET LinAttrs
  BY Rule
<1>3. L!N \in Nat /\ LinAttrs \subseteq Nat
  BY LinFacts DEF LinTyped, LinAttrs
<1>4. lower \in [1 .. Len(impls) -> Int] /\ zero \in [1 .. Len(impls) -> Int]
  BY <1>1
<1>5. cut => \E x \in add : x < y
  <2>1. CASE L!MinOr(add, L!N) < y
    <3>1. add # {}
      BY <1>2, <1>3, <2>1, Least
    <3> QED BY <1>2, <2>1, <3>1, Least
  <2>2. CASE L!MinOr(C, L!N) < y /\ L!MinOr(c.D, L!N) >= y
    <3>1. C # {}
      BY <1>2, <1>3, <2>2, Least
    <3>2. L!MinOr(C, L!N) \in C
      BY <1>2, <3>1, Least
    <3>3. L!MinOr(C, L!N) \notin c.D
      <4> SUFFICES ASSUME L!MinOr(C, L!N) \in c.D PROVE FALSE
        OBVIOUS
      <4>1. L!MinOr(c.D, L!N) \in c.D /\ L!MinOr(c.D, L!N) <= L!MinOr(C, L!N)
        BY <1>1, Least
      <4> QED BY <1>1, <1>3, <2>2, <4>1
    <3> QED BY <2>2, <3>2, <3>3
  <2> QED BY <2>1, <2>2
<1>6. ~cut => \A x \in add : x >= y
  <2> SUFFICES ASSUME ~cut, NEW x \in add PROVE x >= y
    OBVIOUS
  <2>1. PICK m \in add : m <= x /\ ~(m < y)
    <3>1. L!MinOr(add, L!N) \in add /\ L!MinOr(add, L!N) <= x /\ ~(L!MinOr(add, L!N) < y)
      BY <1>2, Least
    <3> QED BY <3>1
  <2>2. m \in Nat /\ x \in Nat
    BY <1>2, <1>3
  <2> QED BY <2>1, <2>2
<1>7. CASE ~ c.ok
  <2>1. d = c
    BY <1>7 DEF L!Touch
  <2> QED BY <1>7, <2>1
<1>8. CASE c.ok /\ c.count[k] # 1
  <2>1. d = [c EXCEPT !.count[k] = @ - 1]
    BY <1>8 DEF L!Touch
  <2>2. d = [ok |-> c.ok, D |-> c.D, Z |-> c.Z, count |-> lower]
    BY <1>1, <2>1
  <2>3. d.ok /\ d.D = c.D /\ d.Z = c.Z /\ d.count = lower
    BY <1>8, <2>2
  <2>4. d \in Closings
    BY <1>1, <1>4, <2>2 DEF Closings
  <2> QED BY <1>8, <2>3, <2>4
<1>9. CASE c.ok /\ c.count[k] = 1 /\ cut
  <2>1. d = [c EXCEPT !.ok = FALSE]
    BY <1>9 DEF L!Touch
  <2>2. d = [ok |-> FALSE, D |-> c.D, Z |-> c.Z, count |-> c.count]
    BY <1>1, <2>1
  <2>3. d \in Closings /\ ~ d.ok
    BY <1>1, <2>2 DEF Closings
  <2> QED BY <1>5, <1>9, <2>3
<1>10. CASE c.ok /\ c.count[k] = 1 /\ ~ cut
  <2>1. d = [c EXCEPT !.count[k] = 0, !.D = @ \cup add, !.Z = @ \cup add]
    BY <1>10 DEF L!Touch
  <2>2. d = [ok |-> c.ok, D |-> c.D \cup add, Z |-> c.Z \cup add, count |-> zero]
    BY <1>1, <2>1
  <2>3. d.ok /\ d.D = c.D \cup add /\ d.Z = c.Z \cup add /\ d.count = zero
    BY <1>10, <2>2
  <2>4. d \in Closings
    BY <1>1, <1>2, <1>4, <2>2 DEF Closings
  <2> QED BY <1>6, <1>10, <2>3, <2>4
<1> QED BY <1>7, <1>8, <1>9, <1>10

\* The sets with B that the implications found hold in.
Models(B) ==
  {Y \in SUBSET LinAttrs :
     B \subseteq Y /\ \A k \in 1 .. Len(impls) :
                        impls[k].premise \subseteq Y => impls[k].conclusion \subseteq Y}

\* D is part of B closed under the implications, and has B up to y.
Within(D, B, y) ==
  /\ B \subseteq D
  /\ \A x \in D \ B : x >= y
  /\ \A Y \in Models(B) : D \subseteq Y

\* Closing B under the implications adds something before y.
AddsBefore(B, y) == \A Y \in Models(B) : \E x \in Y \ B : x < y

\* The counters while m is worked off: those up to j are right for the set P
\* of what is worked off with m, those after j for P without it.
Midway(c, B, y, P, m, j) ==
  IF c.ok
  THEN /\ c.Z \subseteq c.D /\ c.D \ c.Z = P /\ Within(c.D, B, y)
       /\ \A k \in 1 .. Len(impls) :
            /\ c.count[k] = Cardinality(impls[k].premise \ (IF k <= j THEN P ELSE P \ {m}))
            /\ c.count[k] = 0 => impls[k].conclusion \subseteq c.D
  ELSE AddsBefore(B, y)

LEMMA OneLess ==
  ASSUME NEW S, IsFiniteSet(S), NEW P, NEW m
  PROVE  /\ Cardinality(S \ P) \in Nat
         /\ Cardinality(S \ P) = 0 => S \subseteq P
         /\ m \in S /\ m \in P => Cardinality(S \ (P \ {m})) = Cardinality(S \ P) + 1
         /\ m \notin S => S \ (P \ {m}) = S \ P
<1>1. IsFiniteSet(S \ P)
  BY FS_Subset
<1>2. Cardinality(S \ P) \in Nat /\ (Cardinality(S \ P) = 0 => S \ P = {})
  BY <1>1, FS_CardinalityType, FS_EmptySet
<1>3. ASSUME m \in S, m \in P PROVE Cardinality(S \ (P \ {m})) = Cardinality(S \ P) + 1
  <2>1. S \ (P \ {m}) = (S \ P) \cup {m} /\ m \notin S \ P
    BY <1>3
  <2> QED BY <1>1, <2>1, FS_AddElement
<1> QED BY <1>2, <1>3

LEMMA MidStep ==
  ASSUME LinTyped, NEW c \in Closings, NEW B \in SUBSET LinAttrs, NEW y \in Int, y <= L!N,
         NEW P \in SUBSET LinAttrs, NEW m \in P, NEW k \in 1 .. Len(impls),
         Midway(c, B, y, P, m, k - 1)
  PROVE  LET d == IF m \in impls[k].premise THEN L!Touch(c, k, y) ELSE c
         IN  d \in Closings /\ Midway(d, B, y, P, m, k)
<1> DEFINE d == IF m \in impls[k].premise THEN L!Touch(c, k, y) ELSE c
           S(i) == impls[i].premise
           C(i) == impls[i].conclusion
           add == C(k) \ c.D
<1>0. /\ Len(impls) \in Nat /\ k \in Nat
      /\ \A i \in 1 .. Len(impls) : IsFiniteSet(S(i)) /\ S(i) \in SUBSET LinAttrs /\ C(i) \in SUBSET LinAttrs
  BY Rule
<1>1. ASSUME NEW i \in 1 .. Len(impls), i # k
      PROVE  (IF i <= k - 1 THEN P ELSE P \ {m}) = (IF i <= k THEN P ELSE P \ {m})
  <2>1. i <= k - 1 <=> i <= k
    BY <1>0, <1>1
  <2> QED BY <2>1
<1>2. /\ (IF k <= k - 1 THEN P ELSE P \ {m}) = P \ {m}
      /\ (IF k <= k THEN P ELSE P \ {m}) = P
  BY <1>0
<1>3. c.ok \in BOOLEAN /\ c.count \in [1 .. Len(impls) -> Int] /\ c.D \in SUBSET LinAttrs
  BY DEF Closings
<1>4. CASE m \notin S(k)
  <2>1. d = c
    BY <1>4
  <2>2. CASE c.ok
    <3>1. S(k) \ (P \ {m}) = S(k) \ P
      BY <1>4
    <3>2. ASSUME NEW i \in 1 .. Len(impls)
          PROVE  c.count[i] = Cardinality(S(i) \ (IF i <= k THEN P ELSE P \ {m}))
      <4>1. c.count[i] = Cardinality(S(i) \ (IF i <= k - 1 THEN P ELSE P \ {m}))
        BY <2>2 DEF Midway
      <4>2. CASE i # k
        BY <1>1, <4>1, <4>2
      <4>3. CASE i = k
        BY <1>2, <3>1, <4>1, <4>3
      <4> QED BY <4>2, <4>3
    <3> QED BY <2>1, <2>2, <3>2 DEF Midway
  <2>3. CASE ~ c.ok
    BY <2>1, <2>3 DEF Midway
  <2> QED BY <2>2, <2>3
<1>5. CASE m \in S(k) /\ ~ c.ok
  <2>1. d = c
    BY <1>5, Touched
  <2> QED BY <1>5, <2>1 DEF Midway
<1>6. CASE m \in S(k) /\ c.ok
  <2>1. d = L!Touch(c, k, y)
    BY <1>6
  <2>2. /\ c.Z \subseteq c.D /\ c.D \ c.Z = P /\ Within(c.D, B, y)
        /\ \A i \in 1 .. Len(impls) :
             /\ c.count[i] = Cardinality(S(i) \ (IF i <= k - 1 THEN P ELSE P \ {m}))
             /\ c.count[i] = 0 => C(i) \subseteq c.D
    BY <1>6 DEF Midway
  <2>3. Cardinality(S(k) \ P) \in Nat /\ c.count[k] = Cardinality(S(k) \ P) + 1
        /\ (Cardinality(S(k) \ P) = 0 => S(k) \subseteq P)
    <3>1. c.count[k] = Cardinality(S(k) \ (P \ {m}))
      BY <1>2, <2>2
    <3> QED BY <1>0, <1>6, <3>1, OneLess
  <2>4. CASE c.count[k] # 1
    <3>1. d \in Closings /\ d.ok /\ d.D = c.D /\ d.Z = c.Z /\ d.count = [c.count EXCEPT ![k] = @ - 1]
      BY <1>6, <2>1, <2>4, Touched
    <3>2. ASSUME NEW i \in 1 .. Len(impls)
          PROVE  /\ d.count[i] = Cardinality(S(i) \ (IF i <= k THEN P ELSE P \ {m}))
                 /\ d.count[i] = 0 => C(i) \subseteq d.D
      <4>1. CASE i # k
        <5>1. d.count[i] = c.count[i]
          BY <1>3, <3>1, <4>1
        <5> QED BY <1>1, <2>2, <3>1, <4>1, <5>1
      <4>2. CASE i = k
        <5>1. d.count[k] = c.count[k] - 1
          BY <1>3, <3>1
        <5>2. d.count[k] = Cardinality(S(k) \ P) /\ d.count[k] # 0
          BY <2>3, <2>4, <5>1
        <5> QED BY <1>2, <4>2, <5>2
      <4> QED BY <4>1, <4>2
    <3> QED BY <2>2, <3>1, <3>2 DEF Midway
  <2>5. CASE c.count[k] = 1
    <3>1. S(k) \subseteq c.D
      BY <2>2, <2>3, <2>5
    <3>2. ASSUME NEW Y \in Models(B) PROVE C(k) \subseteq Y /\ c.D \subseteq Y
      BY <2>2, <3>1 DEF Within, Models
    <3>3. CASE ~ d.ok
      <4>1. d \in Closings /\ \E x \in add : x < y
        BY <1>6, <2>1, <2>5, <3>3, Touched
      <4>2. AddsBefore(B, y)
        BY <2>2, <3>2, <4>1 DEF AddsBefore, Within
      <4> QED BY <3>3, <4>1, <4>2 DEF Midway
    <3>4. CASE d.ok
      <4>1. /\ d \in Closings /\ d.D = c.D \cup add /\ d.Z = c.Z \cup add
            /\ d.count = [c.count EXCEPT ![k] = 0]
            /\ \A x \in add : x >= y
        BY <1>6, <2>1, <2>5, <3>4, Touched
      <4>2. Within(d.D, B, y)
        BY <2>2, <3>2, <4>1 DEF Within
      <4>3. d.Z \subseteq d.D /\ d.D \ d.Z = P
        BY <2>2, <4>1
      <4>4. ASSUME NEW i \in 1 .. Len(impls)
            PROVE  /\ d.count[i] = Cardinality(S(i) \ (IF i <= k THEN P ELSE P \ {m}))
                   /\ d.count[i] = 0 => C(i) \subseteq d.D
        <5>1. CASE i # k
          <6>1. d.count[i] = c.count[i]
            BY <1>3, <4>1, <5>1
          <6> QED BY <1>1, <2>2, <4>1, <5>1, <6>1
        <5>2. CASE i = k
          <6>1. d.count[k] = 0 /\ Cardinality(S(k) \ P) = 0
            BY <1>3, <2>3, <2>5, <4>1
          <6> QED BY <1>2, <4>1, <5>2, <6>1
        <5> QED BY <5>1, <5>2
      <4> QED BY <3>4, <4>1, <4>2, <4>3, <4>4 DEF Midway
    <3> QED BY <3>3, <3>4
  <2> QED BY <2>4, <2>5
<1> QED BY <1>3, <1>4, <1>5, <1>6

\* The counters between two members of Z.
Between(c, B, y) ==
  IF c.ok
  THEN /\ c.Z \subseteq c.D /\ Within(c.D, B, y)
       /\ \A k \in 1 .. Len(impls) :
            /\ c.count[k] = Cardinality(impls[k].premise \ (c.D \ c.Z))
            /\ c.count[k] = 0 => impls[k].conclusion \subseteq c.D
  ELSE AddsBefore(B, y)

\* The member m is worked off: one more is, and the counters are right again.
LEMMA WorkedOff ==
  ASSUME LinTyped, NEW c \in Closings, NEW B \in SUBSET LinAttrs, NEW y \in Int, y <= L!N,
         c.ok, NEW m \in c.Z, Between(c, B, y)
  PROVE  LET d == L!Processed(c, m, y)
         IN  /\ d \in Closings /\ Between(d, B, y)
             /\ d.ok => d.D \ d.Z = (c.D \ c.Z) \cup {m}
<1> DEFINE n == Len(impls)
           P == (c.D \ c.Z) \cup {m}
           W == Closings
           b == [c EXCEPT !.Z = @ \ {m}]
           step(k, x) == IF m \in impls[k].premise THEN L!Touch(x, k, y) ELSE x
           F == [k \in 1 .. n |-> [x \in W |-> step(k, x)]]
<1>0. n \in Nat
  BY Rule
<1>1. /\ c.ok \in BOOLEAN /\ c.D \in SUBSET LinAttrs /\ c.Z \in SUBSET LinAttrs
      /\ c.count \in [1 .. n -> Int]
      /\ c = [ok |-> c.ok, D |-> c.D, Z |-> c.Z, count |-> c.count]
  BY DEF Closings
<1>2. b = [ok |-> c.ok, D |-> c.D, Z |-> c.Z \ {m}, count |-> c.count]
  <2>1. PICK o, U, G, f : c = [ok |-> o, D |-> U, Z |-> G, count |-> f]
    BY <1>1
  <2>2. c.ok = o /\ c.D = U /\ c.Z = G /\ c.count = f
    BY <2>1
  <2>3. [c EXCEPT !.Z = @ \ {m}] = [ok |-> o, D |-> U, Z |-> G \ {m}, count |-> f]
    BY ONLY <2>1
  <2> QED BY <2>2, <2>3
<1>3. b \in W /\ b.ok /\ b.D = c.D /\ b.Z = c.Z \ {m} /\ b.count = c.count
  BY <1>1, <1>2 DEF Closings
<1>4. c.Z \subseteq c.D /\ Within(c.D, B, y)
  BY DEF Between
<1>5. Midway(b, B, y, P, m, 0)
  <2>1. b.Z \subseteq b.D /\ b.D \ b.Z = P /\ P \ {m} = c.D \ c.Z
    BY <1>3, <1>4
  <2>2. \A k \in 1 .. n : ~(k <= 0)
    BY <1>0
  <2>3. \A k \in 1 .. n : (IF k <= 0 THEN P ELSE P \ {m}) = c.D \ c.Z
    BY <2>1, <2>2
  <2> HIDE DEF b, P
  <2> QED BY <1>3, <1>4, <2>1, <2>3 DEF Midway, Between
<1>6. P \in SUBSET LinAttrs /\ m \in P
  BY <1>1
<1>7. \A k \in 1 .. n : \A x \in W : step(k, x) \in W
  BY Touched
<1>8. F \in [1 .. n -> [W -> W]] /\ \A k \in 1 .. n : \A x \in W : F[k][x] = step(k, x)
  BY <1>7
<1>9. \A k \in 1 .. n : \A x \in W : Midway(x, B, y, P, m, k - 1) => Midway(step(k, x), B, y, P, m, k)
  <2> HIDE DEF P
  <2> QED BY <1>6, MidStep
<1> HIDE DEF F, W, b, step, P, n
<1>10. PICK r : Iterates(r, W, n, b, F)
  BY <1>0, <1>3, <1>8, StepByStep
<1>11. r \in [0 .. n -> W] /\ r[0] = b /\ \A k \in 1 .. n : r[k] = step(k, r[k - 1])
  <2>1. r \in [0 .. n -> W] /\ r[0] = b /\ \A k \in 1 .. n : r[k] = F[k][r[k - 1]]
    BY <1>10 DEF Iterates
  <2>2. \A k \in 1 .. n : k - 1 \in 0 .. n
    BY <1>0
  <2>3. \A k \in 1 .. n : r[k - 1] \in W
    BY <2>1, <2>2
  <2> QED BY <1>8, <2>1, <2>3
<1> DEFINE Def(f) == f = [k \in 0 .. n |-> IF k = 0 THEN b ELSE step(k, f[k - 1])]
           touched == CHOOSE f : Def(f)
<1>12. L!Processed(c, m, y) = touched[n]
  BY DEF L!Processed, n, b, step
<1>13. Def(r)
  <2>1. \A k \in 0 .. n : r[k] = IF k = 0 THEN b ELSE step(k, r[k - 1])
    BY <1>0, <1>11
  <2>2. r = [k \in 0 .. n |-> r[k]]
    BY <1>11
  <2> QED BY <2>1, <2>2
<1>14. Def(touched)
  <2> HIDE DEF Def
  <2> QED BY <1>13
<1>15. \A k \in 0 .. n : touched[k] = IF k = 0 THEN b ELSE step(k, touched[k - 1])
  <2> HIDE DEF touched
  <2> QED BY <1>14
<1> HIDE DEF touched, Def
<1> DEFINE T == {k \in Nat : k <= n => touched[k] \in W /\ Midway(touched[k], B, y, P, m, k)}
<1>16. 0 \in T
  <2>1. touched[0] = b
    BY <1>0, <1>15
  <2> QED BY <1>3, <1>5, <2>1
<1>17. ASSUME NEW k \in Nat, k \in T PROVE k + 1 \in T
  <2> SUFFICES ASSUME k + 1 <= n PROVE touched[k + 1] \in W /\ Midway(touched[k + 1], B, y, P, m, k + 1)
    OBVIOUS
  <2>1. PICK j \in 1 .. n : j = k + 1 /\ j - 1 = k
    BY <1>0
  <2>2. j \in 0 .. n /\ j # 0 /\ touched[k] \in W /\ Midway(touched[k], B, y, P, m, k)
    BY <1>0, <1>17, <2>1
  <2>3. touched[j] = step(j, touched[k])
    BY <1>15, <2>1, <2>2
  <2>4. touched[j] \in W /\ Midway(touched[j], B, y, P, m, j)
    BY <1>7, <1>9, <2>1, <2>2, <2>3
  <2> QED BY <2>1, <2>4
<1>18. n \in T
  <2> HIDE DEF T
  <2> QED BY <1>0, <1>16, <1>17, Induction
<1> DEFINE d == L!Processed(c, m, y)
<1>19. d \in Closings /\ Midway(d, B, y, P, m, n)
  BY <1>0, <1>12, <1>18 DEF W
<1>20. \A k \in 1 .. Len(impls) : k <= n
  BY <1>0 DEF n
<1>21. d.ok => d.D \ d.Z = P
  BY <1>19 DEF Midway
<1>22. Between(d, B, y)
  <2>1. CASE d.ok
    <3>1. \A k \in 1 .. Len(impls) : (IF k <= n THEN P ELSE P \ {m}) = d.D \ d.Z
      BY <1>20, <1>21, <2>1
    <3> HIDE DEF d
    <3> QED BY <1>19, <2>1, <3>1 DEF Midway, Between
  <2>2. CASE ~ d.ok
    BY <1>19, <2>2 DEF Midway, Between
  <2> QED BY <2>1, <2>2
<1> QED BY <1>19, <1>21, <1>22 DEF P

\* What a call is handed down fits its set: the counters it gets are right for
\* what is not fresh in it, and the implications found since miss no fresh
\* attribute.
Ready(C, found, B, Z, prev) ==
  /\ B \in SUBSET L!Attrs(C) /\ Z \subseteq B
  /\ prev \in Seq(Int) /\ Len(prev) <= Len(found)
  /\ \A k \in 1 .. Len(prev) :
       /\ prev[k] = Cardinality(found[k].premise \ (B \ Z))
       /\ found[k].premise \subseteq B \ Z => found[k].conclusion \subseteq B
  /\ \A k \in 1 .. Len(found) :
       k > Len(prev) => /\ found[k].premise \cap Z = {}
                        /\ found[k].premise \subseteq B => found[k].conclusion \subseteq B

LEMMA Begun ==
  ASSUME LinTyped, NEW B, NEW Z, NEW prev, Ready(ctx, impls, B, Z, prev), NEW y
  PROVE  LET s == L!Start(B, Z, prev)
         IN  s \in Closings /\ s.ok /\ Between(s, B, y)
<1> DEFINE s == L!Start(B, Z, prev)
           n == Len(impls)
           q == Len(prev)
           f == L!Counts(B, prev)
<1>0. /\ n \in Nat /\ DOMAIN impls = 1 .. n
      /\ \A k \in 1 .. n : IsFiniteSet(impls[k].premise) /\ impls[k].conclusion \in SUBSET LinAttrs
  BY Rule
<1>1. /\ B \in SUBSET LinAttrs /\ Z \subseteq B
      /\ q \in Nat /\ DOMAIN prev = 1 .. q /\ q <= n
      /\ \A k \in 1 .. q :
           /\ prev[k] = Cardinality(impls[k].premise \ (B \ Z))
           /\ impls[k].premise \subseteq B \ Z => impls[k].conclusion \subseteq B
      /\ \A k \in 1 .. n : 
           k > q => /\ impls[k].premise \cap Z = {}
                    /\ impls[k].premise \subseteq B => impls[k].conclusion \subseteq B
  BY LenProperties, LinFacts DEF Ready, LinTyped
<1>2. ASSUME NEW k \in 1 .. n
      PROVE  /\ f[k] = Cardinality(impls[k].premise \ (B \ Z)) /\ f[k] \in Int
             /\ f[k] = 0 => impls[k].conclusion \subseteq B
             /\ impls[k].premise = {} => impls[k].conclusion \subseteq B
  <2>1. f[k] = IF k \in DOMAIN prev THEN prev[k] ELSE Cardinality(impls[k].premise \ B)
    BY <1>0, SameSizes DEF L!Counts
  <2>2. f[k] = Cardinality(impls[k].premise \ (B \ Z))
    <3>1. CASE k <= q
      <4>1. k \in 1 .. q
        BY <1>0, <1>1, <3>1
      <4> QED BY <1>1, <2>1, <4>1
    <3>2. CASE k > q
      <4>1. k \notin DOMAIN prev /\ impls[k].premise \cap Z = {}
        BY <1>0, <1>1, <3>2
      <4>2. impls[k].premise \ B = impls[k].premise \ (B \ Z)
        BY <1>1, <4>1
      <4> QED BY <2>1, <4>1, <4>2
    <3> QED BY <1>0, <1>1, <3>1, <3>2
  <2>3. impls[k].premise \subseteq B \ Z => impls[k].conclusion \subseteq B
    <3>1. CASE k <= q
      <4>1. k \in 1 .. q
        BY <1>0, <1>1, <3>1
      <4> QED BY <1>1, <4>1
    <3>2. CASE k > q
      BY <1>1, <3>2
    <3> QED BY <1>0, <1>1, <3>1, <3>2
  <2>4. f[k] \in Nat /\ (f[k] = 0 => impls[k].premise \subseteq B \ Z)
    <3>1. IsFiniteSet(impls[k].premise)
      BY <1>0
    <3>2. /\ Cardinality(impls[k].premise \ (B \ Z)) \in Nat
          /\ Cardinality(impls[k].premise \ (B \ Z)) = 0 => impls[k].premise \subseteq B \ Z
      BY ONLY <3>1, OneLess
    <3> HIDE DEF f
    <3> QED BY ONLY <2>2, <3>2
  <2> QED BY <2>2, <2>3, <2>4
<1>3. L!DefaultConclusion \subseteq B
  BY <1>0, <1>2 DEF L!DefaultConclusion
<1>4. s = [ok |-> TRUE, D |-> B, Z |-> Z, count |-> f]
  BY <1>3 DEF L!Start
<1>5. f \in [1 .. n -> Int]
  <2>1. f = [k \in 1 .. n |-> f[k]]
    BY <1>0 DEF L!Counts
  <2> HIDE DEF f
  <2> QED BY <1>2, <2>1
<1>6. s.ok /\ s.D = B /\ s.Z = Z /\ s.count = f
  BY <1>4
<1>7. s \in Closings
  <2> HIDE DEF f
  <2> QED BY <1>1, <1>4, <1>5 DEF Closings
<1>8. Within(B, B, y)
  BY DEF Within, Models
<1>9. \A k \in 1 .. n : /\ f[k] = Cardinality(impls[k].premise \ (B \ Z))
                        /\ f[k] = 0 => impls[k].conclusion \subseteq B
  <2> HIDE DEF f
  <2> QED BY <1>2
<1> HIDE DEF f
<1>10. Between(s, B, y)
  <2> HIDE DEF s
  <2>1. s.Z \subseteq s.D /\ Within(s.D, B, y)
    BY <1>1, <1>6, <1>8
  <2>2. \A k \in 1 .. Len(impls) :
          /\ s.count[k] = Cardinality(impls[k].premise \ (s.D \ s.Z))
          /\ s.count[k] = 0 => impls[k].conclusion \subseteq s.D
    <3> TAKE k \in 1 .. Len(impls)
    <3>1. /\ f[k] = Cardinality(impls[k].premise \ (B \ Z))
          /\ f[k] = 0 => impls[k].conclusion \subseteq B
      BY <1>9
    <3> QED BY ONLY <1>6, <3>1
  <2> QED BY ONLY <1>6, <2>1, <2>2 DEF Between
<1> QED BY <1>6, <1>7, <1>10

\* Enough rounds: each takes a member off Z that was not taken off before, and
\* there are N of them.
LEMMA ClosedRight ==
  ASSUME LinTyped, NEW B, NEW Z, NEW prev, Ready(ctx, impls, B, Z, prev), NEW y \in Int, y <= L!N
  PROVE  LET c == L!LinClosure(B, y, Z, prev)
         IN  /\ c.ok \in BOOLEAN
             /\ ~ c.ok => AddsBefore(B, y)
             /\ c.ok => /\ Within(c.D, B, y) /\ c.D \in Models(B)
                        /\ c.count \in Seq(Int) /\ Len(c.count) = Len(impls)
                        /\ \A k \in 1 .. Len(impls) :
                             c.count[k] = Cardinality(impls[k].premise \ c.D)
<1> DEFINE n == L!N
           W == Closings
           b == L!Start(B, Z, prev)
           round(x) == IF x.Z = {} \/ ~ x.ok THEN x ELSE L!Processed(x, L!MinOr(x.Z, L!N), y)
           Fine(x) == x \in W /\ Between(x, B, y)
<1>0. /\ n \in Nat /\ IsFiniteSet(LinAttrs) /\ Cardinality(LinAttrs) = n
  BY LinFacts DEF LinTyped
<1>1. Fine(b) /\ b.ok
  BY Begun
<1>2. B \in SUBSET LinAttrs
  BY LinFacts DEF Ready, LinTyped
<1>3. ASSUME NEW x, Fine(x), ~(x.Z = {} \/ ~ x.ok)
      PROVE  Fine(round(x)) /\ (round(x).ok => \E m \in x.Z : round(x).D \ round(x).Z = (x.D \ x.Z) \cup {m})
  <2>1. x.Z \in SUBSET LinAttrs /\ x.ok /\ x.Z # {}
    BY <1>3 DEF Closings
  <2>2. PICK m \in x.Z : m = L!MinOr(x.Z, L!N)
    BY <2>1, Least
  <2>3. round(x) = L!Processed(x, m, y)
    BY <1>3, <2>2
  <2>4. x \in Closings /\ Between(x, B, y)
    BY <1>3
  <2>5. LET d == L!Processed(x, m, y)
        IN  /\ d \in Closings /\ Between(d, B, y)
            /\ d.ok => d.D \ d.Z = (x.D \ x.Z) \cup {m}
    <3>1. m \in x.Z /\ y \in Int /\ y <= L!N
      OBVIOUS
    <3> QED BY ONLY LinTyped, <1>2, <2>1, <2>4, <3>1, WorkedOff
  <2> HIDE DEF round
  <2> QED BY <2>3, <2>5
<1>4. \A x : Fine(x) => Fine(round(x))
  <2> SUFFICES ASSUME NEW x, Fine(x) PROVE Fine(round(x))
    OBVIOUS
  <2>1. CASE x.Z = {} \/ ~ x.ok
    BY <2>1
  <2> HIDE DEF Fine, round
  <2> QED BY <1>3, <2>1
<1> DEFINE V == {x \in W : Between(x, B, y)}
           F == [k \in 1 .. n |-> [x \in V |-> round(x)]]
<1>5. \A x : x \in V <=> Fine(x)
  OBVIOUS
<1> HIDE DEF V, Fine
<1>6. F \in [1 .. n -> [V -> V]] /\ \A k \in 1 .. n : \A x \in V : F[k][x] = round(x)
  <2> HIDE DEF round
  <2> QED BY <1>4, <1>5
<1> HIDE DEF F, W, b, round, n
<1>7. PICK r : Iterates(r, V, n, b, F)
  BY <1>0, <1>1, <1>5, <1>6, StepByStep
<1>8. r \in [0 .. n -> V] /\ r[0] = b /\ \A k \in 1 .. n : r[k] = round(r[k - 1])
  <2>1. r \in [0 .. n -> V] /\ r[0] = b /\ \A k \in 1 .. n : r[k] = F[k][r[k - 1]]
    BY <1>7 DEF Iterates
  <2>2. \A k \in 1 .. n : k - 1 \in 0 .. n
    BY <1>0
  <2>3. \A k \in 1 .. n : r[k - 1] \in V
    BY <2>1, <2>2
  <2> QED BY <1>6, <2>1, <2>3
<1> DEFINE Def(f) == f = [k \in 0 .. n |-> IF k = 0 THEN b ELSE round(f[k - 1])]
           run == CHOOSE f : Def(f)
<1>9. L!LinClosure(B, y, Z, prev) = run[n]
  BY DEF L!LinClosure, n, b, round
<1>10. Def(r)
  <2>1. \A k \in 0 .. n : r[k] = IF k = 0 THEN b ELSE round(r[k - 1])
    BY <1>0, <1>8
  <2>2. r = [k \in 0 .. n |-> r[k]]
    BY <1>8
  <2> QED BY <2>1, <2>2
<1>11. Def(run)
  <2> HIDE DEF Def
  <2> QED BY <1>10
<1>12. \A k \in 0 .. n : run[k] = IF k = 0 THEN b ELSE round(run[k - 1])
  <2> HIDE DEF run
  <2> QED BY <1>11
<1> HIDE DEF run, Def
<1> DEFINE Off(x) == x.D \ x.Z
           Far(x, k) == x.ok /\ x.Z # {} => Cardinality(Off(x)) >= k
           T == {k \in Nat : k <= n => Fine(run[k]) /\ Far(run[k], k)}
<1>13. \A x : Fine(x) => /\ x.ok \in BOOLEAN /\ x.D \in SUBSET LinAttrs /\ x.Z \in SUBSET LinAttrs
                         /\ x.count \in [1 .. Len(impls) -> Int]
                         /\ Between(x, B, y)
                         /\ Off(x) \in SUBSET LinAttrs /\ IsFiniteSet(Off(x))
                         /\ Cardinality(Off(x)) \in Nat
  <2> SUFFICES ASSUME NEW x, Fine(x)
               PROVE  /\ x.ok \in BOOLEAN /\ x.D \in SUBSET LinAttrs /\ x.Z \in SUBSET LinAttrs
                      /\ x.count \in [1 .. Len(impls) -> Int]
                      /\ Between(x, B, y)
                      /\ Off(x) \in SUBSET LinAttrs /\ IsFiniteSet(Off(x))
                      /\ Cardinality(Off(x)) \in Nat
    OBVIOUS
  <2>1. /\ x.ok \in BOOLEAN /\ x.D \in SUBSET LinAttrs /\ x.Z \in SUBSET LinAttrs
        /\ x.count \in [1 .. Len(impls) -> Int] /\ Between(x, B, y)
    BY DEF Fine, W, Closings
  <2>2. Off(x) \in SUBSET LinAttrs
    BY <2>1
  <2> HIDE DEF Off
  <2>3. IsFiniteSet(Off(x))
    BY <1>0, <2>2, FS_Subset
  <2> QED BY <2>1, <2>2, <2>3, FS_CardinalityType
<1>14. 0 \in T
  <2>1. run[0] = b
    BY <1>0, <1>12
  <2> HIDE DEF Off
  <2> QED BY <1>1, <1>13, <2>1
<1>15. ASSUME NEW k \in Nat, k \in T PROVE k + 1 \in T
  <2> SUFFICES ASSUME k + 1 <= n PROVE Fine(run[k + 1]) /\ Far(run[k + 1], k + 1)
    <3> HIDE DEF Far
    <3> QED OBVIOUS
  <2> DEFINE x == run[k]
             d == run[k + 1]
  <2>1. k + 1 \in 0 .. n /\ k + 1 # 0 /\ k + 1 - 1 = k /\ k <= n
    BY <1>0
  <2>2. Fine(x) /\ Far(x, k)
    <3> HIDE DEF Far
    <3> QED BY <1>15, <2>1
  <2>3. d = round(x)
    BY <1>12, <2>1
  <2>4. Fine(d)
    BY <1>4, <2>2, <2>3
  <2>5. ASSUME d.ok, d.Z # {} PROVE Cardinality(Off(d)) >= k + 1
    <3>1. ~(x.Z = {} \/ ~ x.ok)
      BY <2>3, <2>5 DEF round
    <3>2. PICK m \in x.Z : Off(d) = Off(x) \cup {m}
      BY <1>3, <2>2, <2>3, <2>5, <3>1
    <3>3. m \notin Off(x)
      OBVIOUS
    <3>4. IsFiniteSet(Off(x)) /\ Cardinality(Off(x)) \in Nat
      BY <1>13, <2>2
    <3>5. Cardinality(Off(x)) >= k
      BY <2>2, <3>1
    <3> HIDE DEF Off, x, d
    <3>6. Cardinality(Off(d)) = Cardinality(Off(x)) + 1
      BY <3>2, <3>3, <3>4, FS_AddElement
    <3> QED BY <3>4, <3>5, <3>6
  <2> HIDE DEF Off
  <2> QED BY <2>4, <2>5
<1>16. n \in T
  <2> HIDE DEF T
  <2> QED BY <1>0, <1>14, <1>15, Induction
<1> DEFINE c == L!LinClosure(B, y, Z, prev)
<1>17. Fine(c) /\ Far(c, n)
  <2> HIDE DEF Far
  <2> QED BY <1>0, <1>9, <1>16
<1>18. c.ok => c.Z = {}
  <2> SUFFICES ASSUME c.ok, c.Z # {} PROVE FALSE
    OBVIOUS
  <2> HIDE DEF c
  <2>1. Off(c) \in SUBSET LinAttrs /\ Cardinality(Off(c)) \in Nat /\ Cardinality(Off(c)) >= n
    BY <1>13, <1>17
  <2>2. c.Z \subseteq LinAttrs
    BY <1>13, <1>17
  <2>3. Off(c) = LinAttrs
    <3> HIDE DEF Off
    <3> QED BY <1>0, <2>1, FS_Subset
  <2> QED BY <2>2, <2>3
<1>19. ~ c.ok => AddsBefore(B, y)
  BY <1>13, <1>17 DEF Between
<1>20. ASSUME c.ok
       PROVE  /\ Within(c.D, B, y) /\ c.D \in Models(B)
              /\ c.count \in Seq(Int) /\ Len(c.count) = Len(impls)
              /\ \A k \in 1 .. Len(impls) : c.count[k] = Cardinality(impls[k].premise \ c.D)
  <2> HIDE DEF c
  <2>1. /\ Within(c.D, B, y) /\ c.D \in SUBSET LinAttrs
        /\ c.count \in [1 .. Len(impls) -> Int]
        /\ \A k \in 1 .. Len(impls) :
             /\ c.count[k] = Cardinality(impls[k].premise \ c.D)
             /\ c.count[k] = 0 => impls[k].conclusion \subseteq c.D
    <3>1. c.D \ c.Z = c.D
      BY <1>18, <1>20
    <3> QED BY <1>13, <1>17, <1>20, <3>1 DEF Between
  <2>2. c.count \in Seq(Int) /\ Len(c.count) = Len(impls)
    BY <2>1, Rule, SeqDef, LenProperties
  <2>3. ASSUME NEW k \in 1 .. Len(impls), impls[k].premise \subseteq c.D
        PROVE  impls[k].conclusion \subseteq c.D
    <3>1. impls[k].premise \ c.D = {}
      BY <2>3
    <3> QED BY <2>1, <3>1, FS_EmptySet
  <2> QED BY <2>1, <2>2, <2>3 DEF Models, Within
<1>21. c.ok \in BOOLEAN
  BY <1>13, <1>17
<1> QED BY <1>19, <1>20, <1>21

-----------------------------------------------------------------------------
(* The calls on the stack. *)

Calls(C) ==
  [closed : BOOLEAN, set : SUBSET L!Attrs(C), y : Int, fresh : SUBSET L!Attrs(C),
   count : Seq(Int), i : Int]

\* X has what the set of call f has up to f.i, and something new from there on.
Beyond(X, f) ==
  /\ \A x \in X : x < f.i => x \in f.set
  /\ \E x \in X : x >= f.i /\ x \notin f.set

\* The counters of a call in its loop are right, and each implication found
\* since it began has a premise beyond what is left of the loop.
InLoop(C, found, f) ==
  /\ f.y < f.i /\ f.i <= Cardinality(L!Attrs(C))
  /\ L!ClosureOf(C, f.set) = f.set
  /\ \A k \in 1 .. Len(f.count) :
       /\ f.count[k] = Cardinality(found[k].premise \ f.set)
       /\ found[k].premise \subseteq f.set => found[k].conclusion \subseteq f.set
  /\ \A k \in 1 .. Len(found) : k > Len(f.count) => Beyond(found[k].premise, f)

CallOk(C, found, f) ==
  /\ f \in Calls(C)
  /\ -1 <= f.y /\ f.y < Cardinality(L!Attrs(C)) /\ (f.y >= 0 => f.y \in f.set)
  /\ Len(f.count) <= Len(found)
  /\ IF f.closed THEN InLoop(C, found, f) ELSE Ready(C, found, f.set, f.fresh, f.count)

\* Call e has been made by call f, or by one that f has led to.
MadeBy(e, f) == f.set \subseteq e.set /\ e.y >= f.i /\ Beyond(e.set, f)

Piled(C, s) ==
  /\ s \in Seq(Calls(C))
  /\ \A j \in 1 .. Len(s) : j > 1 => s[j].closed
  /\ \A j, h \in 1 .. Len(s) : j < h => MadeBy(s[j], s[h])

LinInv == LinTyped /\ Piled(ctx, st) /\ \A j \in 1 .. Len(st) : CallOk(ctx, impls, st[j])

LEMMA OnTop ==
  ASSUME NEW S, NEW s \in Seq(S), s # <<>>
  PROVE  /\ Head(s) \in S /\ Head(s) = s[1] /\ 1 \in 1 .. Len(s)
         /\ Tail(s) \in Seq(S) /\ Len(s) \in Nat /\ Len(Tail(s)) \in Nat
         /\ Len(s) = Len(Tail(s)) + 1
         /\ \A j \in 1 .. Len(Tail(s)) : j + 1 \in 1 .. Len(s) /\ Tail(s)[j] = s[j + 1]
<1>1. Len(s) \in Nat /\ Len(s) # 0 /\ Tail(s) \in Seq(S) /\ Len(Tail(s)) = Len(s) - 1
  BY HeadTailProperties, LenProperties, EmptySeq
<1>2. Head(s) \in S /\ Head(s) = s[1]
  BY HeadTailProperties
<1>3. \A j \in 1 .. Len(Tail(s)) : Tail(s)[j] = s[j + 1]
  BY HeadTailProperties
<1> QED BY <1>1, <1>2, <1>3

LEMMA Pushed ==
  ASSUME NEW S, NEW e \in S, NEW t \in Seq(S)
  PROVE  /\ <<e>> \o t \in Seq(S) /\ Len(t) \in Nat /\ Len(<<e>> \o t) = Len(t) + 1
         /\ (<<e>> \o t)[1] = e
         /\ \A j \in 1 .. Len(t) : (<<e>> \o t)[j + 1] = t[j]
         /\ \A j \in 1 .. Len(<<e>> \o t) : j # 1 => j - 1 \in 1 .. Len(t) /\ (<<e>> \o t)[j] = t[j - 1]
<1>1. <<e>> \in Seq(S) /\ Len(<<e>>) = 1 /\ <<e>>[1] = e
  OBVIOUS
<1>2. Len(t) \in Nat /\ Len(<<e>> \o t) = Len(t) + 1 /\ <<e>> \o t \in Seq(S)
  BY <1>1, ConcatProperties, LenProperties
<1>3. \A j \in 1 .. Len(t) + 1 : (<<e>> \o t)[j] = IF j <= 1 THEN <<e>>[j] ELSE t[j - 1]
  BY <1>1, <1>2, ConcatProperties
<1>4. ASSUME NEW j \in 1 .. Len(t) PROVE (<<e>> \o t)[j + 1] = t[j]
  <2>1. j + 1 \in 1 .. Len(t) + 1 /\ ~(j + 1 <= 1) /\ j + 1 - 1 = j
    BY <1>2
  <2> QED BY <1>3, <2>1
<1>5. (<<e>> \o t)[1] = e
  <2>1. 1 \in 1 .. Len(t) + 1
    BY <1>2
  <2> QED BY <1>1, <1>3, <2>1
<1>6. ASSUME NEW j \in 1 .. Len(<<e>> \o t), j # 1
      PROVE  j - 1 \in 1 .. Len(t) /\ (<<e>> \o t)[j] = t[j - 1]
  <2>1. j - 1 \in 1 .. Len(t) /\ j \in 1 .. Len(t) + 1 /\ ~(j <= 1)
    BY <1>2, <1>6
  <2> QED BY <1>3, <2>1
<1> QED BY <1>2, <1>4, <1>5, <1>6

LEMMA PileTail ==
  ASSUME NEW C, NEW s, Piled(C, s), s # <<>>
  PROVE  /\ Piled(C, Tail(s))
         /\ \A h \in 1 .. Len(Tail(s)) : Tail(s)[h].closed /\ MadeBy(Head(s), Tail(s)[h])
<1> DEFINE t == Tail(s)
<1>1. s \in Seq(Calls(C))
  BY DEF Piled
<1>2. /\ Head(s) = s[1] /\ 1 \in 1 .. Len(s) /\ t \in Seq(Calls(C)) /\ Len(t) \in Nat
      /\ \A j \in 1 .. Len(t) : j + 1 \in 1 .. Len(s) /\ t[j] = s[j + 1]
  BY <1>1, OnTop
<1> HIDE DEF t
<1>3. ASSUME NEW j \in 1 .. Len(t) PROVE t[j].closed /\ MadeBy(Head(s), t[j])
  <2>1. j + 1 > 1 /\ 1 < j + 1
    BY <1>2
  <2> QED BY <1>2, <2>1 DEF Piled
<1>4. ASSUME NEW j \in 1 .. Len(t), NEW h \in 1 .. Len(t), j < h PROVE MadeBy(t[j], t[h])
  <2>1. j + 1 < h + 1
    BY <1>2, <1>4
  <2> QED BY <1>2, <2>1 DEF Piled
<1> QED BY <1>2, <1>3, <1>4 DEF Piled, t

LEMMA PilePush ==
  ASSUME NEW C, NEW t, Piled(C, t), NEW e \in Calls(C),
         \A h \in 1 .. Len(t) : t[h].closed /\ MadeBy(e, t[h])
  PROVE  Piled(C, <<e>> \o t)
<1> DEFINE s == <<e>> \o t
<1>1. t \in Seq(Calls(C))
  BY DEF Piled
<1>2. /\ s \in Seq(Calls(C)) /\ s[1] = e /\ Len(t) \in Nat /\ Len(s) = Len(t) + 1
      /\ \A j \in 1 .. Len(s) : j # 1 => j - 1 \in 1 .. Len(t) /\ s[j] = t[j - 1]
  BY <1>1, Pushed
<1> HIDE DEF s
<1>3. ASSUME NEW j \in 1 .. Len(s), j > 1 PROVE s[j].closed
  BY <1>2, <1>3
<1>4. ASSUME NEW j \in 1 .. Len(s), NEW h \in 1 .. Len(s), j < h PROVE MadeBy(s[j], s[h])
  <2>1. h # 1 /\ h - 1 \in 1 .. Len(t) /\ s[h] = t[h - 1]
    BY <1>2, <1>4
  <2>2. CASE j = 1
    BY <1>2, <2>1, <2>2
  <2>3. CASE j # 1
    <3>1. j - 1 \in 1 .. Len(t) /\ s[j] = t[j - 1] /\ j - 1 < h - 1
      BY <1>2, <1>4, <2>3
    <3> QED BY <2>1, <3>1 DEF Piled
  <2> QED BY <2>2, <2>3
<1> QED BY <1>2, <1>3, <1>4 DEF Piled, s

\* What grows out of a call's set without anything new before its y is beyond
\* the calls that made it.
LEMMA Grown ==
  ASSUME LinTyped, NEW e \in Calls(ctx), NEW f \in Calls(ctx), MadeBy(e, f),
         NEW X \in SUBSET LinAttrs, e.set \subseteq X, \A x \in X : x < e.y => x \in e.set
  PROVE  f.set \subseteq X /\ Beyond(X, f)
<1>1. LinAttrs \subseteq Int /\ e.y \in Int /\ f.i \in Int
  BY LinFacts DEF LinTyped, LinAttrs, Calls
<1>2. /\ f.set \subseteq e.set /\ e.y >= f.i
      /\ \A x \in e.set : x < f.i => x \in f.set
      /\ \E x \in e.set : x >= f.i /\ x \notin f.set
  BY DEF MadeBy, Beyond
<1>3. ASSUME NEW x \in X, x < f.i PROVE x \in f.set
  <2>1. x \in Int /\ x < e.y
    BY <1>1, <1>2, <1>3
  <2> QED BY <1>2, <1>3, <2>1
<1>4. \E x \in X : x >= f.i /\ x \notin f.set
  BY <1>2
<1> QED BY <1>2, <1>3, <1>4 DEF Beyond

LEMMA ClosureFacts ==
  ASSUME LinTyped, NEW X \in SUBSET LinAttrs
  PROVE  X \subseteq L!ClosureOf(ctx, X) /\ L!ClosureOf(ctx, X) \in SUBSET LinAttrs
BY LinFacts DEF LinTyped, L!ClosureOf, L!IntentOf

\* A call that has not computed its closure yet, and what it computes.
LEMMA Entry ==
  ASSUME LinInv, L!Entering
  PROVE  LET e == L!Call
             c == L!Closing
         IN  /\ e \in Calls(ctx) /\ st \in Seq(Calls(ctx)) /\ st # <<>>
             /\ Piled(ctx, Tail(st))
             /\ \A h \in 1 .. Len(Tail(st)) :
                  Tail(st)[h].closed /\ MadeBy(e, Tail(st)[h]) /\ CallOk(ctx, impls, Tail(st)[h])
             /\ -1 <= e.y /\ e.y < L!N /\ (e.y >= 0 => e.y \in e.set)
             /\ c.ok \in BOOLEAN
             /\ ~ c.ok => AddsBefore(e.set, e.y)
             /\ c.ok => /\ Within(c.D, e.set, e.y) /\ c.D \in Models(e.set)
                        /\ c.count \in Seq(Int) /\ Len(c.count) = Len(impls)
                        /\ \A k \in 1 .. Len(impls) :
                             c.count[k] = Cardinality(impls[k].premise \ c.D)
<1> DEFINE e == L!Call
<1>1. st \in Seq(Calls(ctx)) /\ st # <<>> /\ Piled(ctx, st) /\ LinTyped /\ ~ e.closed
  BY DEF LinInv, Piled, L!Entering
<1>2. e \in Calls(ctx) /\ CallOk(ctx, impls, e)
  <2>1. Head(st) = st[1] /\ 1 \in 1 .. Len(st) /\ Head(st) \in Calls(ctx)
    BY <1>1, OnTop
  <2> QED BY <2>1 DEF LinInv, L!Call
<1>3. \A h \in 1 .. Len(Tail(st)) : Tail(st)[h].closed /\ MadeBy(e, Tail(st)[h]) /\ CallOk(ctx, impls, Tail(st)[h])
  <2>1. \A h \in 1 .. Len(Tail(st)) : h + 1 \in 1 .. Len(st) /\ Tail(st)[h] = st[h + 1]
    BY <1>1, OnTop
  <2> QED BY <1>1, <2>1, PileTail DEF LinInv, L!Call
<1>4. Piled(ctx, Tail(st))
  BY <1>1, PileTail
<1>5. /\ Ready(ctx, impls, e.set, e.fresh, e.count) /\ e.y \in Int /\ -1 <= e.y /\ e.y < L!N
      /\ (e.y >= 0 => e.y \in e.set)
  <2>1. Cardinality(L!Attrs(ctx)) = L!N
    BY <1>1, LinFacts DEF LinTyped
  <2> HIDE DEF e
  <2> QED BY <1>1, <1>2, <2>1 DEF CallOk, Calls
<1>6. e.y <= L!N
  BY <1>1, <1>5, LinFacts DEF LinTyped
<1> HIDE DEF e
<1>7. LET c == L!LinClosure(e.set, e.y, e.fresh, e.count)
      IN  /\ c.ok \in BOOLEAN
          /\ ~ c.ok => AddsBefore(e.set, e.y)
          /\ c.ok => /\ Within(c.D, e.set, e.y) /\ c.D \in Models(e.set)
                     /\ c.count \in Seq(Int) /\ Len(c.count) = Len(impls)
                     /\ \A k \in 1 .. Len(impls) :
                          c.count[k] = Cardinality(impls[k].premise \ c.D)
  BY <1>1, <1>5, <1>6, ClosedRight
<1>8. L!Closing = L!LinClosure(e.set, e.y, e.fresh, e.count)
  BY DEF L!Closing, e
<1> QED BY <1>1, <1>2, <1>3, <1>4, <1>5, <1>7, <1>8 DEF e

LEMMA LinInitially == LinAssumption /\ L!Init => LinInv
<1> SUFFICES ASSUME LinAssumption, L!Init PROVE LinInv
  OBVIOUS
<1> DEFINE e == L!Enter({}, -1, {}, <<>>)
           none == <<>>
<1>1. impls = <<>> /\ st = <<e>> /\ ctx \in LinContexts
  BY DEF L!Init
<1>2. L!N \in Nat /\ Cardinality(L!Attrs(ctx)) = L!N
  BY <1>1, LinFacts
<1>3. LinTyped /\ Len(impls) = 0
  BY <1>1 DEF LinTyped
<1>4. /\ e.closed = FALSE /\ e.set = {} /\ e.y = -1 /\ e.fresh = {} /\ e.count = none
      /\ e \in Calls(ctx) /\ Len(none) = 0 /\ none \in Seq(Int)
  BY DEF L!Enter, Calls
<1> HIDE DEF e, none
<1>5. Ready(ctx, impls, e.set, e.fresh, e.count)
  BY <1>3, <1>4 DEF Ready
<1>6. CallOk(ctx, impls, e)
  BY <1>2, <1>3, <1>4, <1>5 DEF CallOk
<1>7. st \in Seq(Calls(ctx)) /\ Len(st) = 1 /\ st[1] = e
  BY <1>1, <1>4
<1>8. Piled(ctx, st)
  BY <1>7 DEF Piled
<1> QED BY <1>3, <1>6, <1>7, <1>8 DEF LinInv


\* The list stays, or gets an implication more at the end.
LEMMA ListKept ==
  ASSUME LinTyped, ctx' = ctx,
         impls' = impls \/ \E X \in Rules : impls' = Append(impls, X)
  PROVE  LinTyped'
<1>1. LinAttrs' = LinAttrs
  BY DEF L!N, L!Attrs, LinAttrs
<1>2. Rules' = Rules
  BY <1>1 DEF Rules, L!Implication, L!ExtentOf, L!Row, L!Attrs
<1>3. impls' \in Seq(Rules)
  BY AppendProperties DEF LinTyped
<1> QED BY <1>2, <1>3 DEF LinTyped, LinAssumption

LEMMA Built ==
  ASSUME LinTyped', ctx' = ctx, NEW t, Piled(ctx, t), NEW e, CallOk(ctx, impls', e),
         \A h \in 1 .. Len(t) : t[h].closed /\ MadeBy(e, t[h]) /\ CallOk(ctx, impls', t[h]),
         st' = <<e>> \o t
  PROVE  LinInv'
<1>1. e \in Calls(ctx) /\ t \in Seq(Calls(ctx))
  BY DEF CallOk, Piled
<1>2. Piled(ctx', st')
  BY <1>1, PilePush
<1>3. ASSUME NEW j \in 1 .. Len(st') PROVE CallOk(ctx', impls', st'[j])
  <2>1. st'[1] = e /\ (j # 1 => j - 1 \in 1 .. Len(t) /\ st'[j] = t[j - 1])
    BY <1>1, Pushed
  <2> QED BY <2>1
<1> QED BY <1>2, <1>3 DEF LinInv

LEMMA Leaves ==
  ASSUME LinInv, st # <<>>, st' = Tail(st), UNCHANGED <<ctx, impls>>
  PROVE  LinInv'
<1>1. LinTyped'
  BY ListKept DEF LinInv
<1>2. Piled(ctx, Tail(st)) /\ st \in Seq(Calls(ctx))
  BY PileTail DEF LinInv, Piled
<1>3. \A j \in 1 .. Len(Tail(st)) : CallOk(ctx, impls, Tail(st)[j])
  BY <1>2, OnTop DEF LinInv
<1> QED BY <1>1, <1>2, <1>3 DEF LinInv

\* An implication more disturbs no call whose set its premise is beyond of.
LEMMA StillOk ==
  ASSUME LinTyped, NEW X \in Rules, NEW f, f.closed, CallOk(ctx, impls, f), Beyond(X.premise, f)
  PROVE  CallOk(ctx, Append(impls, X), f)
<1> DEFINE found == Append(impls, X)
           n == Len(impls)
<1>1. /\ n \in Nat /\ Len(found) = n + 1 /\ found[n + 1] = X
      /\ \A k \in 1 .. n : found[k] = impls[k]
  BY AppendProperties, LenProperties DEF LinTyped
<1>2. /\ f \in Calls(ctx) /\ Len(f.count) <= n /\ InLoop(ctx, impls, f)
      /\ -1 <= f.y /\ f.y < Cardinality(L!Attrs(ctx)) /\ (f.y >= 0 => f.y \in f.set)
  BY DEF CallOk
<1>3. Len(f.count) \in Nat
  BY <1>2, LenProperties DEF Calls
<1> HIDE DEF found, n
<1>4. Len(f.count) <= Len(found)
  BY <1>1, <1>2, <1>3
<1>5. ASSUME NEW k \in 1 .. Len(f.count)
      PROVE  /\ f.count[k] = Cardinality(found[k].premise \ f.set)
             /\ found[k].premise \subseteq f.set => found[k].conclusion \subseteq f.set
  <2>1. k \in 1 .. n
    BY <1>1, <1>2, <1>3
  <2> QED BY <1>1, <1>2, <2>1 DEF InLoop
<1>6. ASSUME NEW k \in 1 .. Len(found), k > Len(f.count) PROVE Beyond(found[k].premise, f)
  <2>1. CASE k <= n
    <3>1. k \in 1 .. n
      BY <1>1, <2>1
    <3> QED BY <1>1, <1>2, <1>6, <3>1 DEF InLoop, n
  <2>2. CASE k > n
    <3>1. k = n + 1
      BY <1>1, <2>2
    <3> QED BY <1>1, <3>1
  <2> QED BY <1>1, <2>1, <2>2
<1>7. InLoop(ctx, found, f)
  BY <1>2, <1>5, <1>6 DEF InLoop
<1> QED BY <1>2, <1>4, <1>7 DEF CallOk, found

LEMMA InductiveAdd ==
  ASSUME LinInv, L!AddImplication
  PROVE  LinInv'
<1> DEFINE e == L!Call
           c == L!Closing
           D == c.D
           F == L!ClosureOf(ctx, D)
           X == L!Implication(ctx, D, F)
           t == Tail(st)
           found == Append(impls, X)
           g == L!Enter(F, e.y, F \ D, c.count)
<1>1. /\ c.ok /\ F # D /\ impls' = found /\ ctx' = ctx /\ L!Entering
      /\ st' = IF L!GoOn(D, F, e.y) THEN <<g>> \o t ELSE t
  BY DEF L!AddImplication
<1>2. LinTyped
  BY DEF LinInv
<1> HIDE DEF e, c
<1>3. /\ e \in Calls(ctx) /\ st \in Seq(Calls(ctx)) /\ st # <<>> /\ Piled(ctx, t)
      /\ \A h \in 1 .. Len(t) : t[h].closed /\ MadeBy(e, t[h]) /\ CallOk(ctx, impls, t[h])
      /\ -1 <= e.y /\ e.y < L!N /\ (e.y >= 0 => e.y \in e.set)
      /\ Within(D, e.set, e.y) /\ D \in Models(e.set)
      /\ c.count \in Seq(Int) /\ Len(c.count) = Len(impls)
      /\ \A k \in 1 .. Len(impls) : c.count[k] = Cardinality(impls[k].premise \ D)
  BY <1>1, Entry DEF e, c
<1>4. D \in SUBSET LinAttrs /\ F \in SUBSET LinAttrs /\ D \subseteq F /\ e.set \subseteq D
  BY <1>2, <1>3, ClosureFacts DEF Models, Within
<1>5. /\ L!N \in Nat /\ Cardinality(L!Attrs(ctx)) = L!N /\ L!Attrs(ctx) = LinAttrs
      /\ LinAttrs \subseteq Int
  BY <1>2, LinFacts DEF LinTyped, LinAttrs
<1>6. X \in Rules /\ X.premise = D /\ X.conclusion = F \ D
  <2> HIDE DEF F, D
  <2>1. X.premise = D /\ X.conclusion = F \ D
    BY DEF L!Implication
  <2>2. X \in Rules
    BY ONLY <1>4 DEF Rules
  <2> QED BY <2>1, <2>2
<1> HIDE DEF X, D
<1>7. LinTyped'
  BY <1>1, <1>2, <1>6, ListKept
<1>8. e.y \in Int
  BY <1>3 DEF Calls
<1>9. \A x \in D : x < e.y => x \in e.set
  <2> SUFFICES ASSUME NEW x \in D, x < e.y, x \notin e.set PROVE FALSE
    OBVIOUS
  <2>1. x >= e.y /\ x \in Int
    BY <1>3, <1>4, <1>5 DEF Within
  <2> QED BY <1>8, <2>1
<1>10. \A h \in 1 .. Len(t) : t[h] \in Calls(ctx)
  BY <1>3 DEF CallOk
<1>11. ASSUME NEW h \in 1 .. Len(t) PROVE CallOk(ctx, found, t[h])
  <2>1. Beyond(X.premise, t[h])
    BY <1>2, <1>3, <1>4, <1>6, <1>9, <1>10, Grown
  <2> QED BY <1>2, <1>3, <1>6, <2>1, StillOk
<1>12. CASE L!GoOn(D, F, e.y)
  <2>1. \A x \in F : x < e.y => x \in e.set
    <3> SUFFICES ASSUME NEW x \in F, x < e.y PROVE x \in D
      BY <1>9
    <3>1. x \in F \ D => x > e.y
      BY <1>12 DEF L!GoOn, L!EqualsUntil
    <3>2. x \in Int
      BY <1>4, <1>5
    <3> HIDE DEF F
    <3> QED BY <1>8, <3>1, <3>2
  <2>2. /\ g.closed = FALSE /\ g.set = F /\ g.y = e.y /\ g.fresh = F \ D /\ g.count = c.count
        /\ g \in Calls(ctx)
    BY <1>3, <1>4, <1>5, <1>8 DEF L!Enter, Calls
  <2> HIDE DEF g
  <2>3. ASSUME NEW h \in 1 .. Len(t) PROVE MadeBy(g, t[h])
    <3>1. t[h].set \subseteq F /\ Beyond(F, t[h])
      BY <1>2, <1>3, <1>4, <1>10, <2>1, Grown
    <3> QED BY <1>3, <2>2, <3>1 DEF MadeBy
  <2>4. /\ Len(impls) \in Nat /\ Len(found) = Len(impls) + 1 /\ found[Len(impls) + 1] = X
        /\ \A k \in 1 .. Len(impls) : found[k] = impls[k]
    BY <1>2, <1>6, AppendProperties, LenProperties DEF LinTyped
  <2>5. Ready(ctx, found, F, F \ D, c.count)
    <3>1. F \ (F \ D) = D
      BY <1>4
    <3>2. ASSUME NEW k \in 1 .. Len(c.count)
          PROVE  /\ c.count[k] = Cardinality(found[k].premise \ D)
                 /\ found[k].premise \subseteq D => found[k].conclusion \subseteq F
      <4>1. k \in 1 .. Len(impls)
        BY <1>3
      <4>2. impls[k].premise \subseteq D => impls[k].conclusion \subseteq D
        BY <1>3, <4>1 DEF Models
      <4> HIDE DEF found
      <4> QED BY <1>3, <1>4, <2>4, <4>1, <4>2
    <3>3. ASSUME NEW k \in 1 .. Len(found), k > Len(c.count)
          PROVE  found[k].premise \cap (F \ D) = {} /\ found[k].conclusion \subseteq F
      <4> HIDE DEF found
      <4>1. k = Len(impls) + 1
        BY <1>3, <2>4, <3>3
      <4>2. found[k] = X
        BY <2>4, <4>1
      <4> QED BY <1>6, <4>2
    <3> HIDE DEF found
    <3>4. Len(c.count) <= Len(found)
      BY <1>3, <2>4
    <3> HIDE DEF F
    <3>5. F \in SUBSET L!Attrs(ctx) /\ F \ D \subseteq F
      BY <1>4, <1>5
    <3> QED BY <1>3, <3>1, <3>2, <3>3, <3>4, <3>5 DEF Ready
  <2>6. CallOk(ctx, found, g)
    <3>1. Len(g.count) <= Len(found) /\ (g.y >= 0 => g.y \in g.set)
      <4> HIDE DEF found
      <4> QED BY <1>3, <1>4, <2>2, <2>4
    <3> HIDE DEF found, F
    <3> QED BY <1>3, <1>5, <2>2, <2>5, <3>1 DEF CallOk
  <2>7. st' = <<g>> \o t
    BY <1>1, <1>12
  <2> HIDE DEF found
  <2> QED BY <1>1, <1>3, <1>7, <1>11, <2>3, <2>6, <2>7, Built
<1>13. CASE ~ L!GoOn(D, F, e.y)
  <2>1. st' = t
    BY <1>1, <1>13
  <2> HIDE DEF found
  <2> QED BY <1>1, <1>3, <1>7, <1>11, <2>1 DEF LinInv
<1> QED BY <1>12, <1>13

LEMMA InductiveBranch ==
  ASSUME LinInv, L!Branch
  PROVE  LinInv'
<1> DEFINE e == L!Call
           c == L!Closing
           t == Tail(st)
           g == [closed |-> TRUE, set |-> c.D, y |-> e.y, fresh |-> {}, count |-> c.count, i |-> L!N]
<1>1. /\ c.ok /\ L!ClosureOf(ctx, c.D) = c.D /\ impls' = impls /\ ctx' = ctx /\ L!Entering
      /\ st' = <<g>> \o t
  BY DEF L!Branch
<1>2. LinTyped
  BY DEF LinInv
<1> HIDE DEF e, c
<1>3. /\ e \in Calls(ctx) /\ Piled(ctx, t)
      /\ \A h \in 1 .. Len(t) : t[h].closed /\ MadeBy(e, t[h]) /\ CallOk(ctx, impls, t[h])
      /\ -1 <= e.y /\ e.y < L!N /\ (e.y >= 0 => e.y \in e.set)
      /\ Within(c.D, e.set, e.y) /\ c.D \in Models(e.set)
      /\ c.count \in Seq(Int) /\ Len(c.count) = Len(impls)
      /\ \A k \in 1 .. Len(impls) : c.count[k] = Cardinality(impls[k].premise \ c.D)
  BY <1>1, Entry DEF e, c
<1>4. c.D \in SUBSET LinAttrs /\ e.set \subseteq c.D
  BY <1>3 DEF Models, Within
<1>5. /\ L!N \in Nat /\ Cardinality(L!Attrs(ctx)) = L!N /\ L!Attrs(ctx) = LinAttrs
      /\ LinAttrs \subseteq Int /\ e.y \in Int
  BY <1>2, <1>3, LinFacts DEF LinTyped, LinAttrs, Calls
<1>6. LinTyped'
  BY <1>1, <1>2, ListKept
<1>7. \A x \in c.D : x < e.y => x \in e.set
  <2> SUFFICES ASSUME NEW x \in c.D, x < e.y, x \notin e.set PROVE FALSE
    OBVIOUS
  <2>1. x >= e.y /\ x \in Int
    BY <1>3, <1>4, <1>5 DEF Within
  <2> QED BY <1>5, <2>1
<1>8. /\ g.closed = TRUE /\ g.set = c.D /\ g.y = e.y /\ g.count = c.count /\ g.i = L!N
      /\ g \in Calls(ctx)
  BY <1>3, <1>4, <1>5 DEF Calls
<1> HIDE DEF g
<1>9. ASSUME NEW h \in 1 .. Len(t) PROVE MadeBy(g, t[h])
  <2>1. t[h] \in Calls(ctx)
    BY <1>3 DEF CallOk
  <2>2. t[h].set \subseteq c.D /\ Beyond(c.D, t[h])
    BY <1>2, <1>3, <1>4, <1>7, <2>1, Grown
  <2> QED BY <1>3, <1>8, <2>2 DEF MadeBy
<1>10. Len(impls) \in Nat
  BY <1>2, Rule
<1>11. InLoop(ctx, impls, g)
  <2>1. g.y < g.i /\ g.i <= Cardinality(L!Attrs(ctx))
    BY <1>3, <1>5, <1>8
  <2>2. \A k \in 1 .. Len(g.count) :
          /\ g.count[k] = Cardinality(impls[k].premise \ g.set)
          /\ impls[k].premise \subseteq g.set => impls[k].conclusion \subseteq g.set
    BY <1>3, <1>8 DEF Models
  <2>3. \A k \in 1 .. Len(impls) : ~(k > Len(g.count))
    BY <1>3, <1>8, <1>10
  <2> QED BY <1>1, <1>8, <2>1, <2>2, <2>3 DEF InLoop
<1>12. CallOk(ctx, impls, g)
  <2>1. Len(g.count) <= Len(impls) /\ (g.y >= 0 => g.y \in g.set)
    BY <1>3, <1>4, <1>8, <1>10
  <2> QED BY <1>3, <1>5, <1>8, <1>11, <2>1 DEF CallOk
<1> QED BY <1>1, <1>3, <1>6, <1>9, <1>12, Built

LEMMA InductiveNext ==
  ASSUME LinInv, L!NextAttribute
  PROVE  LinInv'
<1> DEFINE e == L!Call
           t == Tail(st)
           i == e.i - 1
           g == [e EXCEPT !.i = i]
           d == L!Enter(e.set \cup {i}, i, {i}, e.count)
<1>1. /\ st # <<>> /\ e.closed /\ i > e.y /\ impls' = impls /\ ctx' = ctx
      /\ st' = IF i \in e.set THEN <<g>> \o t ELSE <<d>> \o (<<g>> \o t)
  BY DEF L!NextAttribute
<1>2. LinTyped /\ Piled(ctx, st) /\ st \in Seq(Calls(ctx))
  BY DEF LinInv, Piled
<1>3. CallOk(ctx, impls, e)
  <2>1. Head(st) = st[1] /\ 1 \in 1 .. Len(st)
    BY <1>1, <1>2, OnTop
  <2> QED BY <2>1 DEF LinInv, L!Call
<1>4. /\ Piled(ctx, t)
      /\ \A h \in 1 .. Len(t) : t[h].closed /\ MadeBy(e, t[h]) /\ CallOk(ctx, impls, t[h])
  <2>1. \A h \in 1 .. Len(t) : h + 1 \in 1 .. Len(st) /\ t[h] = st[h + 1]
    BY <1>1, <1>2, OnTop
  <2> QED BY <1>1, <1>2, <2>1, PileTail DEF LinInv, L!Call
<1> HIDE DEF e
<1>5. /\ e \in Calls(ctx) /\ InLoop(ctx, impls, e) /\ -1 <= e.y /\ e.y < L!N
      /\ (e.y >= 0 => e.y \in e.set) /\ Len(e.count) <= Len(impls)
      /\ L!N \in Nat /\ Cardinality(L!Attrs(ctx)) = L!N /\ L!Attrs(ctx) = LinAttrs
  BY <1>1, <1>2, <1>3, LinFacts DEF CallOk, LinTyped
<1>6. /\ e.set \in SUBSET LinAttrs /\ e.y \in Int /\ e.i \in Int /\ e.count \in Seq(Int)
      /\ LinAttrs \subseteq Int /\ i \in Int /\ i < e.i /\ i \in LinAttrs /\ e.i <= L!N
      /\ Len(e.count) \in Nat /\ Len(impls) \in Nat
  <2>1. /\ e.set \in SUBSET LinAttrs /\ e.y \in Int /\ e.i \in Int /\ e.count \in Seq(Int)
        /\ e.i <= L!N
    BY <1>5 DEF Calls, InLoop
  <2>2. Len(e.count) \in Nat /\ Len(impls) \in Nat
    BY <1>2, <2>1, LenProperties, Rule
  <2> QED BY <1>1, <1>5, <2>1, <2>2 DEF LinAttrs
<1>7. LinTyped'
  BY <1>1, <1>2, ListKept
<1>8. /\ g.closed /\ g.set = e.set /\ g.y = e.y /\ g.fresh = e.fresh /\ g.count = e.count /\ g.i = i
      /\ g \in Calls(ctx)
  BY <1>1, <1>5, <1>6 DEF Calls
<1> HIDE DEF g
<1>9. \A h \in 1 .. Len(t) : MadeBy(g, t[h])
  BY <1>4, <1>8 DEF MadeBy
<1>10. CallOk(ctx, impls, g)
  <2>1. g.y < g.i /\ g.i <= Cardinality(L!Attrs(ctx))
    BY <1>1, <1>5, <1>6, <1>8
  <2>2. ASSUME NEW k \in 1 .. Len(impls), k > Len(g.count) PROVE Beyond(impls[k].premise, g)
    <3>1. Beyond(impls[k].premise, e) /\ impls[k].premise \subseteq Int
      BY <1>2, <1>5, <1>6, <1>8, <2>2, Rule DEF InLoop
    <3>2. \A x \in Int : (x < i => x < e.i) /\ (x >= e.i => x >= i)
      BY <1>6
    <3> QED BY <1>8, <3>1, <3>2 DEF Beyond
  <2>3. InLoop(ctx, impls, g)
    BY <1>5, <1>8, <2>1, <2>2 DEF InLoop
  <2> QED BY <1>5, <1>8, <2>3 DEF CallOk
<1>11. Piled(ctx, <<g>> \o t)
  BY <1>4, <1>8, <1>9, PilePush
<1>12. CASE i \in e.set
  <2>1. st' = <<g>> \o t
    BY <1>1, <1>12
  <2> QED BY <1>1, <1>4, <1>7, <1>9, <1>10, <2>1, Built
<1>13. CASE i \notin e.set
  <2> DEFINE B == e.set \cup {i}
             u == <<g>> \o t
  <2>1. st' = <<d>> \o u
    BY <1>1, <1>13
  <2>2. /\ d.closed = FALSE /\ d.set = B /\ d.y = i /\ d.fresh = {i} /\ d.count = e.count
        /\ d \in Calls(ctx)
    BY <1>5, <1>6 DEF L!Enter, Calls
  <2> HIDE DEF d
  <2>3. MadeBy(d, g)
    <3>1. i >= i /\ i \in B /\ \A x \in B : x < i => x \in e.set
      BY <1>6
    <3> QED BY <1>8, <1>13, <2>2, <3>1 DEF MadeBy, Beyond
  <2>4. ASSUME NEW h \in 1 .. Len(t) PROVE MadeBy(d, t[h])
    <3>1. MadeBy(e, t[h]) /\ t[h].i \in Int
      BY <1>4 DEF CallOk, Calls
    <3>2. e.y >= t[h].i /\ i >= t[h].i
      BY <1>1, <1>6, <3>1 DEF MadeBy
    <3>3. \A x \in B : x < t[h].i => x \in t[h].set
      <4>1. ~(i < t[h].i)
        BY <1>6, <3>1, <3>2
      <4> QED BY <3>1, <4>1 DEF MadeBy, Beyond
    <3> QED BY <2>2, <3>1, <3>2, <3>3 DEF MadeBy, Beyond
  <2>5. t \in Seq(Calls(ctx))
    BY <1>4 DEF Piled
  <2>6. ASSUME NEW h \in 1 .. Len(u)
        PROVE  u[h].closed /\ MadeBy(d, u[h]) /\ CallOk(ctx, impls, u[h])
    <3>1. u[1] = g /\ (h # 1 => h - 1 \in 1 .. Len(t) /\ u[h] = t[h - 1])
      BY <1>8, <2>5, Pushed
    <3> HIDE DEF u
    <3>2. CASE h = 1
      BY <1>8, <1>10, <2>3, <3>1, <3>2
    <3>3. CASE h # 1
      BY <1>4, <2>4, <3>1, <3>3
    <3> QED BY <3>2, <3>3
  <2>7. Ready(ctx, impls, B, {i}, e.count)
    <3>1. B \ {i} = e.set /\ B \in SUBSET L!Attrs(ctx) /\ {i} \subseteq B
      BY <1>5, <1>6, <1>13
    <3>2. ASSUME NEW k \in 1 .. Len(impls), k > Len(e.count)
          PROVE  impls[k].premise \cap {i} = {} /\ ~(impls[k].premise \subseteq B)
      <4>1. Beyond(impls[k].premise, e) /\ impls[k].premise \subseteq Int
        BY <1>2, <1>5, <1>6, <3>2, Rule DEF InLoop
      <4>2. i \notin impls[k].premise
        BY <1>6, <1>13, <4>1 DEF Beyond
      <4> QED BY <4>1, <4>2 DEF Beyond
    <3>3. \A k \in 1 .. Len(e.count) :
            /\ e.count[k] = Cardinality(impls[k].premise \ (B \ {i}))
            /\ impls[k].premise \subseteq B \ {i} => impls[k].conclusion \subseteq B
      <4> HIDE DEF B
      <4>1. e.set \subseteq B
        BY <3>1
      <4> QED BY <1>5, <3>1, <4>1 DEF InLoop
    <3> HIDE DEF B
    <3> QED BY <1>5, <1>6, <3>1, <3>2, <3>3 DEF Ready
  <2>8. CallOk(ctx, impls, d)
    <3>1. -1 <= d.y /\ d.y < L!N /\ d.y \in d.set
      BY <1>1, <1>5, <1>6, <2>2
    <3> HIDE DEF B
    <3> QED BY <1>5, <2>2, <2>7, <3>1 DEF CallOk
  <2> HIDE DEF u
  <2>9. Piled(ctx, u)
    BY <1>11 DEF u
  <2> QED BY <1>1, <1>7, <2>1, <2>6, <2>8, <2>9, Built
<1> QED BY <1>12, <1>13

LEMMA LinInductive == LinInv /\ [L!Next]_(L!vars) => LinInv'
<1> SUFFICES ASSUME LinInv, [L!Next]_(L!vars) PROVE LinInv'
  OBVIOUS
<1>1. CASE L!Cut
  <2>1. st # <<>> /\ st' = Tail(st) /\ UNCHANGED <<ctx, impls>>
    BY <1>1 DEF L!Cut, L!Entering
  <2> QED BY <2>1, Leaves
<1>2. CASE L!AddImplication
  BY <1>2, InductiveAdd
<1>3. CASE L!Branch
  BY <1>3, InductiveBranch
<1>4. CASE L!NextAttribute
  BY <1>4, InductiveNext
<1>5. CASE L!Return
  <2>1. st # <<>> /\ st' = Tail(st) /\ UNCHANGED <<ctx, impls>>
    BY <1>5 DEF L!Return
  <2> QED BY <2>1, Leaves
<1>6. CASE L!Deliver \/ UNCHANGED L!vars
  <2>1. UNCHANGED <<ctx, impls, st>>
    BY <1>6 DEF L!Deliver, L!vars
  <2>2. LinTyped'
    BY <2>1, ListKept DEF LinInv
  <2> QED BY <2>1, <2>2 DEF LinInv
<1> QED BY <1>1, <1>2, <1>3, <1>4, <1>5, <1>6 DEF L!Next

\* Each call in its loop holds the right counters for the implications it
\* knew, however many the calls it made have found.
THEOREM CountersRight == LinAssumption /\ L!Spec => []L!CountersExact
<1>1. LinInv => L!CountersExact
  <2> SUFFICES ASSUME LinInv, NEW j \in DOMAIN st, st[j].closed, NEW k \in DOMAIN st[j].count
               PROVE  st[j].count[k] = Cardinality(impls[k].premise \ st[j].set)
    BY SameSizes DEF L!CountersExact
  <2>1. st \in Seq(Calls(ctx))
    BY DEF LinInv, Piled
  <2>2. j \in 1 .. Len(st)
    BY <2>1, LenProperties
  <2>3. InLoop(ctx, impls, st[j]) /\ st[j].count \in Seq(Int)
    BY <2>2 DEF LinInv, CallOk, Calls
  <2>4. k \in 1 .. Len(st[j].count)
    BY <2>3, LenProperties
  <2> QED BY <2>3, <2>4 DEF InLoop
<1> QED BY <1>1, LinInitially, LinInductive, PTL DEF L!Spec

-----------------------------------------------------------------------------
(***************************************************************************)
(* What LinCbO finds.                                                      *)
(***************************************************************************)

\* Sets of attributes with fewer members.
LEMMA Fewer ==
  ASSUME LinTyped, NEW P \in SUBSET LinAttrs
  PROVE  /\ Cardinality(P) \in Nat /\ Cardinality(P) <= L!N
         /\ \A Y : Y \subseteq P /\ Y # P => Cardinality(Y) \in Nat /\ Cardinality(Y) < Cardinality(P)
<1>1. IsFiniteSet(LinAttrs) /\ Cardinality(LinAttrs) = L!N
  BY LinFacts DEF LinTyped
<1>2. IsFiniteSet(P) /\ Cardinality(P) <= L!N
  BY <1>1, FS_Subset
<1>3. ASSUME NEW Y, Y \subseteq P, Y # P
      PROVE  Cardinality(Y) \in Nat /\ Cardinality(Y) < Cardinality(P)
  <2>1. IsFiniteSet(Y) /\ Cardinality(Y) <= Cardinality(P) /\ Cardinality(P) # Cardinality(Y)
    BY <1>2, <1>3, FS_Subset
  <2>2. Cardinality(Y) \in Nat /\ Cardinality(P) \in Nat
    BY <1>2, <2>1, FS_CardinalityType
  <2> QED BY <2>1, <2>2
<1>4. Cardinality(P) \in Nat
  BY <1>2, FS_CardinalityType
<1> QED BY <1>2, <1>3, <1>4

\* The pseudo-intents without their levels.
LEMMA PseudoIntent ==
  ASSUME LinTyped
  PROVE  \A P : P \in L!PseudoIntents(ctx) <=>
                  /\ P \in SUBSET LinAttrs
                  /\ L!ClosureOf(ctx, P) # P
                  /\ \A Y \in L!PseudoIntents(ctx) :
                       Y \subseteq P /\ Y # P => L!ClosureOf(ctx, Y) \subseteq P
<1> DEFINE A == LinAttrs
           n == L!N
           W == SUBSET (SUBSET A)
           Cl(P) == L!ClosureOf(ctx, P)
           none == {}
           step(k, S) == S \cup {P \in SUBSET L!Attrs(ctx) :
                                                  /\ L!Cardinality(P) = k
                                                  /\ Cl(P) # P
                                                  /\ \A Y \in S : Y \subseteq P => Cl(Y) \subseteq P}
           F == [k \in 1 .. n + 1 |-> [S \in W |-> step(k - 1, S)]]
<1>0. n \in Nat /\ n + 1 \in Nat /\ L!Attrs(ctx) = A
  BY LinFacts DEF LinTyped
<1>1. none \in W /\ \A k : \A S \in W : step(k, S) \in W
  BY <1>0
<1>2. F \in [1 .. n + 1 -> [W -> W]] /\ \A k \in 1 .. n + 1 : \A S \in W : F[k][S] = step(k - 1, S)
  <2> HIDE DEF step, W
  <2> QED BY <1>1
<1>3. L!PseudoIntents(ctx) =
        LET upTo[k \in -1 .. n] == IF k = -1 THEN none ELSE step(k, upTo[k - 1]) IN upTo[n]
  BY DEF L!PseudoIntents, L!N
<1> HIDE DEF step, F, W, none, n, A, Cl
<1>4. PICK h : Iterates(h, W, n + 1, none, F)
  BY <1>0, <1>1, <1>2, StepByStep
<1>5. h \in [0 .. n + 1 -> W] /\ h[0] = none /\ \A k \in 1 .. n + 1 : h[k] = step(k - 1, h[k - 1])
  <2>1. h \in [0 .. n + 1 -> W] /\ h[0] = none /\ \A k \in 1 .. n + 1 : h[k] = F[k][h[k - 1]]
    BY <1>4 DEF Iterates
  <2>2. \A k \in 1 .. n + 1 : k - 1 \in 0 .. n + 1
    BY <1>0
  <2>3. \A k \in 1 .. n + 1 : h[k - 1] \in W
    BY <2>1, <2>2
  <2> QED BY <1>2, <2>1, <2>3
<1> DEFINE Def(f) == f = [k \in -1 .. n |-> IF k = -1 THEN none ELSE step(k, f[k - 1])]
           upTo == CHOOSE f : Def(f)
           u == [k \in -1 .. n |-> h[k + 1]]
<1>6. L!PseudoIntents(ctx) = upTo[n]
  BY <1>3
<1>7. Def(u)
  <2>1. ASSUME NEW k \in -1 .. n PROVE u[k] = IF k = -1 THEN none ELSE step(k, u[k - 1])
    <3>1. CASE k = -1
      BY <1>5, <3>1
    <3>2. CASE k # -1
      <4>1. k + 1 \in 1 .. n + 1 /\ k + 1 - 1 = k /\ k - 1 \in -1 .. n /\ k - 1 + 1 = k
        BY <1>0, <3>2
      <4>2. h[k + 1] = step(k, h[k])
        BY <1>5, <4>1
      <4> QED BY <3>2, <4>1, <4>2
    <3> QED BY <3>1, <3>2
  <2>2. u = [k \in -1 .. n |-> u[k]]
    OBVIOUS
  <2> HIDE DEF u
  <2> QED BY <2>1, <2>2
<1>8. Def(upTo)
  <2> HIDE DEF Def, u
  <2> QED BY <1>7
<1>9. \A k \in -1 .. n : upTo[k] = IF k = -1 THEN none ELSE step(k, upTo[k - 1])
  <2> HIDE DEF upTo
  <2> QED BY <1>8
<1> HIDE DEF upTo, Def, u
<1> DEFINE Low(k) == upTo[k - 1]
           Right(k) ==
             \A P : P \in Low(k) <=>
                      /\ P \in SUBSET A /\ Cardinality(P) < k /\ Cl(P) # P
                      /\ \A Y \in Low(k) : Y \subseteq P /\ Y # P => Cl(Y) \subseteq P
           T == {k \in Nat : k <= n + 1 => Right(k)}
<1>10. \A P \in SUBSET A : /\ Cardinality(P) \in Nat /\ Cardinality(P) <= n
                           /\ \A Y : Y \subseteq P /\ Y # P =>
                                Cardinality(Y) \in Nat /\ Cardinality(Y) < Cardinality(P)
  BY Fewer DEF A, n
<1>11. 0 \in T
  <2>1. Low(0) = none
    BY <1>0, <1>9
  <2>2. \A P \in SUBSET A : ~(Cardinality(P) < 0)
    BY <1>10
  <2> QED BY <2>1, <2>2 DEF none
<1>12. ASSUME NEW k \in Nat, k \in T PROVE k + 1 \in T
  <2> SUFFICES ASSUME k + 1 <= n + 1 PROVE Right(k + 1)
    <3> HIDE DEF Right
    <3> QED OBVIOUS
  <2>1. k <= n + 1 /\ k \in -1 .. n /\ k # -1 /\ k + 1 - 1 = k
    BY <1>0
  <2>2. Right(k)
    <3> HIDE DEF Right
    <3> QED BY <1>12, <2>1
  <2>3. Low(k + 1) = step(k, Low(k))
    BY <1>9, <2>1
  <2>4. \A P : P \in Low(k + 1) <=>
                 \/ P \in Low(k)
                 \/ /\ P \in SUBSET A /\ Cardinality(P) = k /\ Cl(P) # P
                    /\ \A Y \in Low(k) : Y \subseteq P => Cl(Y) \subseteq P
    <3> HIDE DEF Low
    <3> QED BY <1>0, <2>3, SameSizes DEF step
  <2>5. \A P : P \in Low(k) => P \in SUBSET A /\ Cardinality(P) < k
    BY <2>2
  <2> HIDE DEF Low
  <2>6. ASSUME NEW P, P \in Low(k + 1)
        PROVE  /\ P \in SUBSET A /\ Cardinality(P) < k + 1 /\ Cl(P) # P
               /\ \A Y \in Low(k + 1) : Y \subseteq P /\ Y # P => Cl(Y) \subseteq P
    <3>1. P \in SUBSET A /\ Cardinality(P) <= k /\ Cl(P) # P /\ Cardinality(P) \in Nat
      <4>1. P \in SUBSET A /\ Cl(P) # P /\ (Cardinality(P) < k \/ Cardinality(P) = k)
        BY <2>2, <2>4, <2>6
      <4>2. Cardinality(P) \in Nat
        BY <1>10, <4>1
      <4> QED BY <4>1, <4>2
    <3>2. ASSUME NEW Y \in Low(k + 1), Y \subseteq P, Y # P PROVE Cl(Y) \subseteq P
      <4>1. Cardinality(Y) \in Nat /\ Cardinality(Y) < k
        BY <1>10, <3>1, <3>2
      <4>2. Y \in Low(k)
        BY <2>4, <4>1
      <4>3. CASE P \in Low(k)
        BY <2>2, <3>2, <4>2, <4>3
      <4>4. CASE P \notin Low(k)
        BY <2>4, <2>6, <3>2, <4>2, <4>4
      <4> QED BY <4>3, <4>4
    <3> QED BY <3>1, <3>2
  <2>7. ASSUME NEW P, P \in SUBSET A, Cardinality(P) < k + 1, Cl(P) # P,
               \A Y \in Low(k + 1) : Y \subseteq P /\ Y # P => Cl(Y) \subseteq P
        PROVE  P \in Low(k + 1)
    <3>1. \A Y \in Low(k) : Y \subseteq P /\ Y # P => Cl(Y) \subseteq P
      BY <2>4, <2>7
    <3>2. CASE Cardinality(P) < k
      BY <2>2, <2>4, <2>7, <3>1, <3>2
    <3>3. CASE Cardinality(P) = k
      <4>1. \A Y \in Low(k) : Y # P
        <5>1. ~(k < k)
          OBVIOUS
        <5> QED BY <2>5, <3>3, <5>1
      <4> QED BY <2>4, <2>7, <3>1, <3>3, <4>1
    <3>4. Cardinality(P) \in Nat
      BY <1>10, <2>7
    <3> QED BY <2>7, <3>2, <3>3, <3>4
  <2> QED BY <2>6, <2>7
<1>13. n + 1 \in T
  <2> HIDE DEF T
  <2> QED BY <1>0, <1>11, <1>12, Induction
<1>14. Right(n + 1)
  <2> HIDE DEF Right
  <2> QED BY <1>0, <1>13
<1>15. Low(n + 1) = L!PseudoIntents(ctx)
  <2>1. PICK k \in Nat : k = n + 1 /\ k - 1 = n
    BY <1>0
  <2>2. Low(k) = upTo[n]
    BY <2>1
  <2> QED BY <1>6, <2>1, <2>2
<1>16. \A P \in SUBSET A : Cardinality(P) < n + 1
  BY <1>0, <1>10
<1> HIDE DEF Low
<1> QED BY <1>14, <1>15, <1>16 DEF A, Cl

Known(found, P) == \E k \in 1 .. Len(found) : found[k].premise = P

\* Call f may still lead to P: what P has and its set has not comes after f.y,
\* and in its loop some of it before f.i.
Awaits(P, f) ==
  /\ f.set \subseteq P
  /\ \A x \in P : x <= f.y => x \in f.set
  /\ f.closed => \E x \in P : x < f.i /\ x \notin f.set

\* The list holds implications of the canonical basis, each once.
FoundRight(C, found) ==
  \A k \in 1 .. Len(found) :
    /\ found[k].premise \in L!PseudoIntents(C)
    /\ found[k] = L!Implication(C, found[k].premise, L!ClosureOf(C, found[k].premise))
    /\ \A j \in 1 .. Len(found) : found[j].premise = found[k].premise => j = k

\* Those it does not hold are still to come.
NoneMissed(C, found, s) ==
  \A P \in L!PseudoIntents(C) :
    Known(found, P) \/ \E j \in 1 .. Len(s) : Awaits(P, s[j])

BasisInv ==
  /\ LinInv /\ FoundRight(ctx, impls) /\ NoneMissed(ctx, impls, st)
  /\ result # Null => result = impls /\ st = <<>>

LEMMA Pseudo ==
  ASSUME LinTyped, NEW P \in L!PseudoIntents(ctx)
  PROVE  /\ P \in SUBSET LinAttrs /\ L!ClosureOf(ctx, P) # P
         /\ \A Y \in L!PseudoIntents(ctx) :
              Y \subseteq P /\ Y # P => L!ClosureOf(ctx, Y) \subseteq P
BY PseudoIntent

\* An implication found, by its premise.
LEMMA FoundRule ==
  ASSUME BasisInv, NEW k \in 1 .. Len(impls)
  PROVE  LET Y == impls[k].premise
         IN  Y \in L!PseudoIntents(ctx) /\ impls[k].conclusion = L!ClosureOf(ctx, Y) \ Y
<1> DEFINE Y == impls[k].premise
<1>1. Y \in L!PseudoIntents(ctx) /\ impls[k] = L!Implication(ctx, Y, L!ClosureOf(ctx, Y))
  BY DEF BasisInv, FoundRight
<1> HIDE DEF Y
<1>2. impls[k].conclusion = L!ClosureOf(ctx, Y) \ Y
  BY ONLY <1>1 DEF L!Implication
<1> QED BY <1>1, <1>2 DEF Y

\* What the implications found say of a pseudo-intent that is not among them:
\* it respects them all.
LEMMA Unknown ==
  ASSUME BasisInv, NEW P \in L!PseudoIntents(ctx), ~ Known(impls, P),
         NEW B, B \subseteq P
  PROVE  P \in Models(B)
<1>1. LinTyped
  BY DEF BasisInv, LinInv
<1>2. P \in SUBSET LinAttrs
  BY <1>1, Pseudo
<1>3. ASSUME NEW k \in 1 .. Len(impls), impls[k].premise \subseteq P
      PROVE  impls[k].conclusion \subseteq P
  <2>1. /\ impls[k].premise \in L!PseudoIntents(ctx)
        /\ impls[k].conclusion = L!ClosureOf(ctx, impls[k].premise) \ impls[k].premise
    BY FoundRule
  <2>2. impls[k].premise # P
    BY DEF Known
  <2>3. L!ClosureOf(ctx, impls[k].premise) \subseteq P
    BY <1>1, <1>3, <2>1, <2>2, Pseudo
  <2> QED BY <1>3, <2>1, <2>3
<1> QED BY <1>2, <1>3 DEF Models

\* Either the call on top may still lead to a pseudo-intent or one below it.
LEMMA WhoAwaits ==
  ASSUME BasisInv, st # <<>>, NEW P \in L!PseudoIntents(ctx), ~ Known(impls, P),
         ~ Awaits(P, Head(st))
  PROVE  \E h \in 1 .. Len(Tail(st)) : Awaits(P, Tail(st)[h])
<1>1. st \in Seq(Calls(ctx))
  BY DEF BasisInv, LinInv, Piled
<1>2. PICK j \in 1 .. Len(st) : Awaits(P, st[j])
  BY DEF BasisInv, NoneMissed
<1>3. Head(st) = st[1] /\ Len(st) \in Nat /\ Len(st) = Len(Tail(st)) + 1 /\ Len(Tail(st)) \in Nat
      /\ \A i \in 1 .. Len(Tail(st)) : Tail(st)[i] = st[i + 1]
  BY <1>1, OnTop
<1>4. j # 1
  BY <1>2, <1>3
<1>5. PICK h \in 1 .. Len(Tail(st)) : h + 1 = j
  <2>1. j - 1 \in 1 .. Len(Tail(st)) /\ j - 1 + 1 = j
    BY <1>3, <1>4
  <2> QED BY <2>1
<1> QED BY <1>2, <1>3, <1>5

\* The call on top goes when it can lead to nothing any more.
LEMMA BasisLeaves ==
  ASSUME BasisInv, LinInv', st # <<>>, st' = Tail(st), UNCHANGED <<ctx, impls, result>>,
         \A P \in L!PseudoIntents(ctx) : ~ Known(impls, P) => ~ Awaits(P, Head(st))
  PROVE  BasisInv'
<1>1. NoneMissed(ctx, impls, Tail(st))
  BY WhoAwaits DEF NoneMissed
<1>2. result = Null
  BY DEF BasisInv
<1> QED BY <1>1, <1>2 DEF BasisInv

\* It is replaced by calls that may lead to what it may.
LEMMA BasisMoves ==
  ASSUME BasisInv, LinInv', st # <<>>, UNCHANGED <<ctx, impls, result>>,
         NEW s, s \in Seq(Calls(ctx)), st' = s \o Tail(st),
         \A P \in L!PseudoIntents(ctx) :
           ~ Known(impls, P) /\ Awaits(P, Head(st)) => \E j \in 1 .. Len(s) : Awaits(P, s[j])
  PROVE  BasisInv'
<1> DEFINE t == Tail(st)
           r == s \o t
<1>1. t \in Seq(Calls(ctx)) /\ Len(t) \in Nat /\ Len(s) \in Nat
  BY OnTop, LenProperties DEF BasisInv, LinInv, Piled
<1>2. /\ Len(r) = Len(s) + Len(t)
      /\ \A i \in 1 .. Len(s) + Len(t) : r[i] = IF i <= Len(s) THEN s[i] ELSE t[i - Len(s)]
  BY <1>1, ConcatProperties
<1> HIDE DEF t, r
<1>3. ASSUME NEW P \in L!PseudoIntents(ctx), ~ Known(impls, P)
      PROVE  \E j \in 1 .. Len(r) : Awaits(P, r[j])
  <2>1. CASE Awaits(P, Head(st))
    <3>1. PICK j \in 1 .. Len(s) : Awaits(P, s[j])
      BY <1>3, <2>1
    <3>2. j \in 1 .. Len(r) /\ r[j] = s[j]
      BY <1>1, <1>2
    <3> QED BY <3>1, <3>2
  <2>2. CASE ~ Awaits(P, Head(st))
    <3>1. PICK h \in 1 .. Len(t) : Awaits(P, t[h])
      BY <1>3, <2>2, WhoAwaits DEF t
    <3>2. h + Len(s) \in 1 .. Len(r) /\ ~(h + Len(s) <= Len(s)) /\ h + Len(s) - Len(s) = h
      BY <1>1, <1>2
    <3>3. r[h + Len(s)] = t[h]
      BY <1>2, <3>2
    <3> QED BY <3>1, <3>2, <3>3
  <2> QED BY <2>1, <2>2
<1>4. NoneMissed(ctx, impls, r)
  BY <1>3 DEF NoneMissed
<1>5. result = Null
  BY DEF BasisInv
<1>6. st' = r
  BY DEF r, t
<1> QED BY <1>4, <1>5, <1>6 DEF BasisInv

LEMMA BasisCut ==
  ASSUME BasisInv, LinInv', L!Cut
  PROVE  BasisInv'
<1> DEFINE e == L!Call
<1>1. /\ L!Entering /\ ~ L!Closing.ok /\ st # <<>>
      /\ st' = Tail(st) /\ UNCHANGED <<ctx, impls, result>>
  BY DEF L!Cut, L!Entering
<1>2. AddsBefore(e.set, e.y) /\ LinTyped /\ e \in Calls(ctx)
  BY <1>1, Entry DEF BasisInv, LinInv
<1> HIDE DEF e
<1>3. ASSUME NEW P \in L!PseudoIntents(ctx), ~ Known(impls, P), Awaits(P, e) PROVE FALSE
  <2>1. P \in Models(e.set)
    BY <1>3, Unknown DEF Awaits
  <2>2. PICK x \in P \ e.set : x < e.y
    BY <1>2, <2>1 DEF AddsBefore
  <2>3. x \in Int /\ e.y \in Int
    BY <1>2, LinFacts, Pseudo DEF LinTyped, LinAttrs, Calls
  <2>4. x <= e.y
    BY <2>2, <2>3
  <2> QED BY <1>3, <2>2, <2>4 DEF Awaits
<1> QED BY <1>1, <1>3, BasisLeaves DEF L!Call, e

LEMMA BasisBranch ==
  ASSUME BasisInv, LinInv', L!Branch
  PROVE  BasisInv'
<1> DEFINE e == L!Call
           c == L!Closing
           g == [closed |-> TRUE, set |-> c.D, y |-> e.y, fresh |-> {}, count |-> c.count, i |-> L!N]
<1>1. /\ c.ok /\ L!ClosureOf(ctx, c.D) = c.D /\ UNCHANGED <<ctx, impls, result>> /\ L!Entering
      /\ st' = <<g>> \o Tail(st) /\ st # <<>>
  BY DEF L!Branch, L!Entering
<1>2. LinTyped /\ LinInv
  BY DEF BasisInv, LinInv
<1> HIDE DEF c, e
<1>3. /\ e \in Calls(ctx) /\ Within(c.D, e.set, e.y) /\ c.D \in Models(e.set) /\ c.count \in Seq(Int)
  BY <1>1, <1>2, Entry DEF c, e
<1>4. /\ L!N \in Nat /\ LinAttrs \subseteq Int /\ L!Attrs(ctx) = LinAttrs
      /\ \A x \in LinAttrs : x < L!N
  BY <1>2, LinFacts DEF LinTyped, LinAttrs
<1>5. /\ g.closed /\ g.set = c.D /\ g.y = e.y /\ g.i = L!N /\ g \in Calls(ctx)
  BY <1>3, <1>4 DEF Calls, Models
<1> HIDE DEF g
<1>6. ASSUME NEW P \in L!PseudoIntents(ctx), ~ Known(impls, P), Awaits(P, e)
      PROVE  Awaits(P, g)
  <2>1. P \in Models(e.set)
    BY <1>6, Unknown DEF Awaits
  <2>2. c.D \subseteq P /\ e.set \subseteq c.D
    BY <1>3, <2>1 DEF Within
  <2>3. c.D # P /\ P \in SUBSET LinAttrs
    BY <1>1, <1>2, Pseudo
  <2>4. \E x \in P : x < L!N /\ x \notin c.D
    BY <1>4, <2>2, <2>3
  <2> QED BY <1>5, <1>6, <2>2, <2>4 DEF Awaits
<1>7. <<g>> \in Seq(Calls(ctx)) /\ 1 \in 1 .. Len(<<g>>) /\ <<g>>[1] = g
  BY <1>5
<1>8. \A P \in L!PseudoIntents(ctx) :
        ~ Known(impls, P) /\ Awaits(P, Head(st)) => \E j \in 1 .. Len(<<g>>) : Awaits(P, <<g>>[j])
  BY <1>6, <1>7 DEF L!Call, e
<1> DEFINE s == <<g>>
<1>9. /\ s \in Seq(Calls(ctx)) /\ st' = s \o Tail(st)
      /\ \A P \in L!PseudoIntents(ctx) :
           ~ Known(impls, P) /\ Awaits(P, Head(st)) => \E j \in 1 .. Len(s) : Awaits(P, s[j])
  BY <1>1, <1>7, <1>8
<1> HIDE DEF s
<1> QED BY <1>1, <1>9, BasisMoves

LEMMA BasisNext ==
  ASSUME BasisInv, LinInv', L!NextAttribute
  PROVE  BasisInv'
<1> DEFINE e == L!Call
           i == e.i - 1
           g == [e EXCEPT !.i = i]
           d == L!Enter(e.set \cup {i}, i, {i}, e.count)
           s == IF i \in e.set THEN <<g>> ELSE <<d, g>>
<1>1. /\ st # <<>> /\ e.closed /\ i > e.y /\ UNCHANGED <<ctx, impls, result>>
      /\ st' = IF i \in e.set THEN <<g>> \o Tail(st) ELSE <<d>> \o (<<g>> \o Tail(st))
  BY DEF L!NextAttribute
<1>2. LinTyped /\ st \in Seq(Calls(ctx))
  BY DEF BasisInv, LinInv, Piled
<1>3. e \in Calls(ctx) /\ CallOk(ctx, impls, e) /\ Tail(st) \in Seq(Calls(ctx))
  <2>1. Head(st) = st[1] /\ 1 \in 1 .. Len(st) /\ Head(st) \in Calls(ctx) /\ Tail(st) \in Seq(Calls(ctx))
    BY <1>1, <1>2, OnTop
  <2> QED BY <2>1 DEF BasisInv, LinInv, L!Call
<1>a. Head(st) = e
  BY DEF L!Call
<1> HIDE DEF e
<1>4. /\ e.i \in Int /\ i \in Int /\ e.y \in Int /\ e.set \in SUBSET LinAttrs /\ i \in LinAttrs
      /\ LinAttrs \subseteq Int /\ L!Attrs(ctx) = LinAttrs
  <2>1. /\ InLoop(ctx, impls, e) /\ -1 <= e.y /\ e.i \in Int /\ e.y \in Int
        /\ e.set \in SUBSET LinAttrs /\ L!N \in Nat /\ Cardinality(L!Attrs(ctx)) = L!N
        /\ L!Attrs(ctx) = LinAttrs
    BY <1>1, <1>2, <1>3, LinFacts DEF CallOk, Calls, LinTyped
  <2>2. e.i <= L!N
    BY <2>1 DEF InLoop
  <2> QED BY <1>1, <2>1, <2>2 DEF LinAttrs
<1>5. /\ g.closed /\ g.set = e.set /\ g.y = e.y /\ g.i = i /\ g \in Calls(ctx)
  BY <1>1, <1>3, <1>4 DEF Calls
<1>6. /\ d.closed = FALSE /\ d.set = e.set \cup {i} /\ d.y = i /\ d \in Calls(ctx)
  BY <1>3, <1>4 DEF L!Enter, Calls
<1> HIDE DEF g, d
<1>7. s \in Seq(Calls(ctx))
  BY <1>5, <1>6
<1>8. st' = s \o Tail(st)
  <2>1. CASE i \in e.set
    BY <1>1, <2>1
  <2>2. CASE i \notin e.set
    <3>1. <<d>> \o (<<g>> \o Tail(st)) = (<<d>> \o <<g>>) \o Tail(st)
      BY <1>3, <1>5, <1>6, ConcatAssociative
    <3>2. <<d>> \o <<g>> = <<d, g>>
      <4>1. <<d>> \in Seq(Calls(ctx)) /\ <<g>> \in Seq(Calls(ctx)) /\ <<d, g>> \in Seq(Calls(ctx))
        BY <1>5, <1>6
      <4>2. Len(<<d>> \o <<g>>) = 2 /\ \A j \in 1 .. 2 : (<<d>> \o <<g>>)[j] = <<d, g>>[j]
        <5>1. Len(<<d>>) = 1 /\ Len(<<g>>) = 1 /\ <<d>>[1] = d /\ <<g>>[1] = g
          OBVIOUS
        <5>2. /\ Len(<<d>> \o <<g>>) = 1 + 1
              /\ \A j \in 1 .. 1 + 1 : (<<d>> \o <<g>>)[j] = IF j <= 1 THEN <<d>>[j] ELSE <<g>>[j - 1]
          BY <4>1, <5>1, ConcatProperties
        <5>3. (<<d>> \o <<g>>)[1] = d /\ (<<d>> \o <<g>>)[2] = g
          <6>1. 1 \in 1 .. 1 + 1 /\ 2 \in 1 .. 1 + 1 /\ 1 <= 1 /\ ~(2 <= 1) /\ 2 - 1 = 1
            OBVIOUS
          <6> QED BY <5>1, <5>2, <6>1
        <5>4. <<d, g>>[1] = d /\ <<d, g>>[2] = g
          OBVIOUS
        <5>5. \A j \in 1 .. 2 : j = 1 \/ j = 2
          OBVIOUS
        <5> QED BY <5>2, <5>3, <5>4, <5>5
      <4>3. <<d>> \o <<g>> \in Seq(Calls(ctx)) /\ Len(<<d, g>>) = 2
        BY <4>1, ConcatProperties
      <4> QED BY <4>1, <4>2, <4>3, SeqEqual
    <3> QED BY <1>1, <2>2, <3>1, <3>2
  <2> QED BY <2>1, <2>2
<1>9. ASSUME NEW P \in L!PseudoIntents(ctx), ~ Known(impls, P), Awaits(P, e)
      PROVE  \E j \in 1 .. Len(s) : Awaits(P, s[j])
  <2>1. /\ e.set \subseteq P /\ P \subseteq Int
        /\ \A x \in P : x <= e.y => x \in e.set
        /\ \E x \in P : x < e.i /\ x \notin e.set
    BY <1>1, <1>2, <1>4, <1>9, Pseudo DEF Awaits
  <2>2. ASSUME NEW x \in P, x < i, x \notin e.set PROVE Awaits(P, g)
    BY <1>5, <2>1, <2>2 DEF Awaits
  <2>3. CASE i \in e.set
    <3>1. PICK x \in P : x < e.i /\ x \notin e.set
      BY <2>1
    <3>2. x < i
      BY <1>4, <2>1, <2>3, <3>1
    <3>3. Awaits(P, g)
      BY <2>2, <3>1, <3>2
    <3>4. Len(s) = 1 /\ s[1] = g
      BY <2>3
    <3> HIDE DEF s
    <3> QED BY <3>3, <3>4
  <2>4. CASE i \notin e.set
    <3>1. Len(s) = 2 /\ s[1] = d /\ s[2] = g
      BY <2>4
    <3> HIDE DEF s
    <3>2. CASE \E x \in P : x < i /\ x \notin e.set
      <4>1. Awaits(P, g)
        BY <2>2, <3>2
      <4> QED BY <3>1, <4>1
    <3>3. CASE ~ \E x \in P : x < i /\ x \notin e.set
      <4>1. PICK x \in P : x < e.i /\ x \notin e.set
        BY <2>1
      <4>2. x = i
        BY <1>4, <2>1, <3>3, <4>1
      <4>3. \A z \in P : z <= i => z = i \/ z \in e.set
        <5> SUFFICES ASSUME NEW z \in P, z <= i, z # i PROVE z \in e.set
          OBVIOUS
        <5>1. z < i
          BY <1>4, <2>1
        <5> QED BY <3>3, <5>1
      <4>4. Awaits(P, d)
        BY <1>6, <2>1, <4>1, <4>2, <4>3 DEF Awaits
      <4> QED BY <3>1, <4>4
    <3> QED BY <3>2, <3>3
  <2> QED BY <2>3, <2>4
<1> HIDE DEF s
<1> QED BY <1>1, <1>7, <1>8, <1>9, <1>a, BasisMoves

LEMMA BasisReturn ==
  ASSUME BasisInv, LinInv', L!Return
  PROVE  BasisInv'
<1> DEFINE e == L!Call
<1>1. /\ st # <<>> /\ e.closed /\ e.i - 1 <= e.y
      /\ st' = Tail(st) /\ UNCHANGED <<ctx, impls, result>>
  BY DEF L!Return
<1>2. LinTyped /\ e \in Calls(ctx)
  <2>1. st \in Seq(Calls(ctx)) /\ LinTyped
    BY DEF BasisInv, LinInv, Piled
  <2> QED BY <1>1, <2>1, OnTop DEF L!Call
<1> HIDE DEF e
<1>3. ASSUME NEW P \in L!PseudoIntents(ctx), ~ Known(impls, P), Awaits(P, e) PROVE FALSE
  <2>1. PICK x \in P : x < e.i /\ x \notin e.set
    BY <1>1, <1>3 DEF Awaits
  <2>2. x \in Int /\ e.y \in Int /\ e.i \in Int
    BY <1>2, LinFacts, Pseudo DEF LinTyped, LinAttrs, Calls
  <2>3. x <= e.y
    BY <1>1, <2>1, <2>2
  <2> QED BY <1>3, <2>1, <2>3 DEF Awaits
<1> QED BY <1>1, <1>3, BasisLeaves DEF L!Call, e

\* The set that is closed under what was found and not by the context is a
\* pseudo-intent, and a new one.
LEMMA NewRule ==
  ASSUME BasisInv, L!Entering, L!Closing.ok, L!ClosureOf(ctx, L!Closing.D) # L!Closing.D
  PROVE  L!Closing.D \in L!PseudoIntents(ctx) /\ ~ Known(impls, L!Closing.D)
<1> DEFINE e == L!Call
           c == L!Closing
           D == c.D
           t == Tail(st)
<1>1. LinTyped /\ LinInv /\ st # <<>> /\ Head(st) = e
  BY DEF BasisInv, LinInv, L!Entering, L!Call
<1> HIDE DEF e, c
<1>2. /\ e \in Calls(ctx) /\ Within(D, e.set, e.y) /\ D \in Models(e.set) /\ st \in Seq(Calls(ctx))
      /\ \A h \in 1 .. Len(t) : t[h].closed /\ MadeBy(e, t[h]) /\ CallOk(ctx, impls, t[h])
  BY <1>1, Entry DEF c, e
<1>3. D \in SUBSET LinAttrs /\ e.set \subseteq D /\ LinAttrs \subseteq Int /\ e.y \in Int
  BY <1>1, <1>2, LinFacts DEF Models, Within, LinAttrs, Calls, LinTyped
<1>4. \A x \in D : x < e.y => x \in e.set
  <2> SUFFICES ASSUME NEW x \in D, x < e.y, x \notin e.set PROVE FALSE
    OBVIOUS
  <2>1. x >= e.y /\ x \in Int
    BY <1>2, <1>3 DEF Within
  <2> QED BY <1>3, <2>1
<1>5. ASSUME NEW k \in 1 .. Len(impls), impls[k].premise \subseteq D
      PROVE  L!ClosureOf(ctx, impls[k].premise) \subseteq D
  <2>1. impls[k].conclusion \subseteq D
    BY <1>2, <1>5 DEF Models
  <2>2. impls[k].conclusion = L!ClosureOf(ctx, impls[k].premise) \ impls[k].premise
    BY FoundRule
  <2> QED BY <1>5, <2>1, <2>2
<1>6. L!ClosureOf(ctx, D) # D /\ D \subseteq L!ClosureOf(ctx, D)
  BY <1>1, <1>3, ClosureFacts DEF c
<1> HIDE DEF D
<1>7. ~ Known(impls, D)
  <2> SUFFICES ASSUME NEW k \in 1 .. Len(impls), impls[k].premise = D PROVE FALSE
    BY DEF Known
  <2> QED BY <1>5, <1>6
<1>8. ASSUME NEW Y \in L!PseudoIntents(ctx), Y \subseteq D, Y # D
      PROVE  L!ClosureOf(ctx, Y) \subseteq D
  <2>1. CASE Known(impls, Y)
    BY <1>5, <1>8, <2>1 DEF Known
  <2>2. CASE ~ Known(impls, Y) /\ Awaits(Y, e)
    <3>1. Y \in Models(e.set)
      BY <2>2, Unknown DEF Awaits
    <3> QED BY <1>2, <1>8, <3>1 DEF Within
  <2>3. CASE ~ Known(impls, Y) /\ ~ Awaits(Y, e)
    <3>1. PICK h \in 1 .. Len(t) : Awaits(Y, t[h])
      BY <1>1, <2>3, WhoAwaits
    <3>2. t[h].closed /\ t[h] \in Calls(ctx) /\ MadeBy(e, t[h])
      BY <1>2 DEF CallOk
    <3>3. Beyond(D, t[h])
      BY <1>1, <1>2, <1>3, <1>4, <3>2, Grown
    <3>4. \E x \in Y : x < t[h].i /\ x \notin t[h].set
      BY <3>1, <3>2 DEF Awaits
    <3> QED BY <1>8, <3>3, <3>4 DEF Beyond
  <2> QED BY <2>1, <2>2, <2>3
<1> QED BY <1>1, <1>3, <1>6, <1>7, <1>8, PseudoIntent DEF D, c

\* The list gets one more of the canonical basis.
LEMMA OneMore ==
  ASSUME BasisInv, NEW D \in L!PseudoIntents(ctx), ~ Known(impls, D)
  PROVE  LET found == Append(impls, L!Implication(ctx, D, L!ClosureOf(ctx, D)))
         IN  /\ FoundRight(ctx, found) /\ Known(found, D)
             /\ \A P : Known(impls, P) => Known(found, P)
<1> DEFINE X == L!Implication(ctx, D, L!ClosureOf(ctx, D))
           found == Append(impls, X)
           n == Len(impls)
<1>1. LinTyped
  BY DEF BasisInv, LinInv
<1>2. D \in SUBSET LinAttrs /\ L!ClosureOf(ctx, D) \in SUBSET LinAttrs
  BY <1>1, Pseudo, ClosureFacts
<1>3. X \in Rules /\ X.premise = D
  <2> DEFINE F == L!ClosureOf(ctx, D)
  <2>1. F \in SUBSET LinAttrs
    BY <1>2
  <2>2. X = L!Implication(ctx, D, F)
    OBVIOUS
  <2> HIDE DEF F, X
  <2>3. X.premise = D
    BY ONLY <2>2 DEF L!Implication
  <2>4. X \in Rules
    BY ONLY <1>2, <2>1, <2>2 DEF Rules
  <2> QED BY <2>3, <2>4
<1> HIDE DEF X
<1>4. /\ n \in Nat /\ Len(found) = n + 1 /\ found[n + 1] = X
      /\ \A k \in 1 .. n : found[k] = impls[k]
  BY <1>1, <1>3, AppendProperties, LenProperties DEF LinTyped
<1> HIDE DEF found, n
<1>5. \A k \in 1 .. Len(found) : k = n + 1 \/ k \in 1 .. n
  BY <1>4
<1>6. n + 1 \in 1 .. Len(found) /\ \A k \in 1 .. n : k \in 1 .. Len(found)
  BY <1>4
<1>7. ASSUME NEW k \in 1 .. Len(found)
      PROVE  /\ found[k].premise \in L!PseudoIntents(ctx)
             /\ found[k] = L!Implication(ctx, found[k].premise, L!ClosureOf(ctx, found[k].premise))
             /\ \A j \in 1 .. Len(found) : found[j].premise = found[k].premise => j = k
  <2>1. \A j \in 1 .. n : impls[j].premise # D
    BY DEF Known, n
  <2>2. CASE k = n + 1
    <3>1. found[k] = X /\ found[k].premise = D
      BY <1>3, <1>4, <2>2
    <3>2. \A j \in 1 .. Len(found) : found[j].premise = D => j = k
      BY <1>4, <1>5, <2>1, <2>2
    <3> QED BY <3>1, <3>2 DEF X
  <2>3. CASE k \in 1 .. n
    <3>1. /\ impls[k].premise \in L!PseudoIntents(ctx) /\ found[k] = impls[k]
          /\ impls[k] = L!Implication(ctx, impls[k].premise, L!ClosureOf(ctx, impls[k].premise))
          /\ \A j \in 1 .. n : impls[j].premise = impls[k].premise => j = k
      BY <1>4, <2>3 DEF BasisInv, FoundRight, n
    <3>2. \A j \in 1 .. Len(found) : found[j].premise = found[k].premise => j = k
      <4> SUFFICES ASSUME NEW j \in 1 .. Len(found), found[j].premise = found[k].premise PROVE j = k
        OBVIOUS
      <4>1. CASE j = n + 1
        BY <1>3, <1>4, <2>1, <2>3, <3>1, <4>1
      <4>2. CASE j \in 1 .. n
        BY <1>4, <3>1, <4>2
      <4> QED BY <1>5, <4>1, <4>2
    <3> QED BY <3>1, <3>2
  <2> QED BY <1>5, <2>2, <2>3
<1>8. FoundRight(ctx, found)
  BY <1>7 DEF FoundRight
<1>9. Known(found, D)
  BY <1>3, <1>4, <1>6 DEF Known
<1>10. \A P : Known(impls, P) => Known(found, P)
  BY <1>4, <1>6 DEF Known, n
<1> QED BY <1>8, <1>9, <1>10 DEF found, X

LEMMA BasisAdd ==
  ASSUME BasisInv, LinInv', L!AddImplication
  PROVE  BasisInv'
<1> DEFINE e == L!Call
           c == L!Closing
           D == c.D
           F == L!ClosureOf(ctx, D)
           t == Tail(st)
           found == Append(impls, L!Implication(ctx, D, F))
           g == L!Enter(F, e.y, F \ D, c.count)
<1>1. /\ c.ok /\ F # D /\ impls' = found /\ ctx' = ctx /\ result' = result /\ L!Entering
      /\ st # <<>> /\ Head(st) = e
      /\ st' = IF L!GoOn(D, F, e.y) THEN <<g>> \o t ELSE t
  BY DEF L!AddImplication, L!Entering, L!Call
<1>2. LinTyped /\ LinInv
  BY DEF BasisInv, LinInv
<1>3. D \in L!PseudoIntents(ctx) /\ ~ Known(impls, D)
  BY <1>1, NewRule
<1> HIDE DEF e, c
<1>4. /\ e \in Calls(ctx) /\ Within(D, e.set, e.y) /\ D \in Models(e.set) /\ st \in Seq(Calls(ctx))
      /\ Piled(ctx, t) /\ c.count \in Seq(Int)
  BY <1>1, <1>2, Entry DEF c, e
<1>5. D \in SUBSET LinAttrs /\ e.set \subseteq D /\ LinAttrs \subseteq Int /\ e.y \in Int
  BY <1>2, <1>4, LinFacts DEF Models, Within, LinAttrs, Calls, LinTyped
<1>6. D \subseteq F /\ F \in SUBSET LinAttrs /\ L!Attrs(ctx) = LinAttrs
  BY <1>2, <1>5, ClosureFacts, LinFacts DEF LinTyped
<1> HIDE DEF D
<1>7. FoundRight(ctx, found) /\ Known(found, D) /\ \A P : Known(impls, P) => Known(found, P)
  BY <1>3, OneMore
<1> HIDE DEF found
<1>8. ASSUME NEW P \in L!PseudoIntents(ctx), ~ Known(found, P)
      PROVE  \/ \E h \in 1 .. Len(t) : Awaits(P, t[h])
             \/ e.set \subseteq P /\ F \subseteq P /\ \A x \in P : x <= e.y => x \in e.set
  <2>1. ~ Known(impls, P) /\ P # D
    BY <1>7, <1>8
  <2> SUFFICES ASSUME Awaits(P, e)
               PROVE  e.set \subseteq P /\ F \subseteq P /\ \A x \in P : x <= e.y => x \in e.set
    BY <1>1, <2>1, WhoAwaits
  <2>2. e.set \subseteq P /\ \A x \in P : x <= e.y => x \in e.set
    BY DEF Awaits
  <2>3. P \in Models(e.set)
    BY <2>1, <2>2, Unknown
  <2>4. D \subseteq P
    BY <1>4, <2>3 DEF Within
  <2>5. F \subseteq P
    BY <1>2, <1>3, <2>1, <2>4, Pseudo
  <2> QED BY <2>2, <2>5
<1>9. result = Null
  BY <1>1 DEF BasisInv
<1>10. CASE L!GoOn(D, F, e.y)
  <2>1. /\ g.closed = FALSE /\ g.set = F /\ g.y = e.y /\ g \in Calls(ctx)
    <3> HIDE DEF F
    <3> QED BY <1>4, <1>5, <1>6 DEF L!Enter, Calls
  <2> HIDE DEF g, F
  <2> DEFINE r == <<g>> \o t
  <2>2. /\ Len(t) \in Nat /\ Len(r) = Len(t) + 1 /\ r[1] = g
        /\ \A j \in 1 .. Len(t) : r[j + 1] = t[j]
    BY <1>4, <2>1, Pushed DEF Piled
  <2>3. st' = r
    BY <1>1, <1>10
  <2> HIDE DEF r, t
  <2>4. ASSUME NEW P \in L!PseudoIntents(ctx), ~ Known(found, P)
        PROVE  \E j \in 1 .. Len(r) : Awaits(P, r[j])
    <3>1. CASE \E h \in 1 .. Len(t) : Awaits(P, t[h])
      <4>1. PICK h \in 1 .. Len(t) : Awaits(P, t[h])
        BY <3>1
      <4>2. h + 1 \in 1 .. Len(r) /\ r[h + 1] = t[h]
        BY <2>2
      <4> QED BY <4>1, <4>2
    <3>2. CASE e.set \subseteq P /\ F \subseteq P /\ \A x \in P : x <= e.y => x \in e.set
      <4>1. Awaits(P, g)
        BY <1>5, <1>6, <2>1, <3>2 DEF Awaits
      <4>2. 1 \in 1 .. Len(r)
        BY <2>2
      <4> QED BY <2>2, <4>1, <4>2
    <3> QED BY <1>8, <2>4, <3>1, <3>2
  <2>5. NoneMissed(ctx, found, r)
    BY <2>4 DEF NoneMissed
  <2> QED BY <1>1, <1>7, <1>9, <2>3, <2>5 DEF BasisInv
<1>11. CASE ~ L!GoOn(D, F, e.y)
  <2>1. PICK x \in F \ D : ~(x > e.y)
    <3> HIDE DEF F
    <3> QED BY <1>6, <1>11 DEF L!GoOn, L!EqualsUntil
  <2> HIDE DEF F
  <2>2. x <= e.y /\ x \notin e.set
    BY <1>5, <1>6, <2>1
  <2>3. NoneMissed(ctx, found, t)
    BY <1>8, <2>1, <2>2 DEF NoneMissed
  <2>4. st' = t
    BY <1>1, <1>11
  <2> HIDE DEF t
  <2> QED BY <1>1, <1>7, <1>9, <2>3, <2>4 DEF BasisInv
<1> QED BY <1>10, <1>11

LEMMA BasisInitially == LinAssumption /\ L!Init => BasisInv
<1> SUFFICES ASSUME LinAssumption, L!Init PROVE BasisInv
  OBVIOUS
<1> DEFINE e == L!Enter({}, -1, {}, <<>>)
<1>1. LinInv /\ LinTyped
  BY LinInitially DEF LinInv
<1>2. impls = <<>> /\ st = <<e>> /\ result = Null
  BY DEF L!Init
<1>3. FoundRight(ctx, impls)
  BY <1>2 DEF FoundRight
<1>4. e.closed = FALSE /\ e.set = {} /\ e.y = -1
  BY DEF L!Enter
<1> HIDE DEF e
<1>5. ASSUME NEW P \in L!PseudoIntents(ctx) PROVE Awaits(P, e)
  <2>1. \A x \in P : ~(x <= -1)
    BY <1>1, LinFacts, Pseudo DEF LinTyped, LinAttrs
  <2> QED BY <1>4, <2>1 DEF Awaits
<1>6. 1 \in 1 .. Len(st) /\ st[1] = e
  BY <1>2
<1>7. NoneMissed(ctx, impls, st)
  BY <1>5, <1>6 DEF NoneMissed
<1> QED BY <1>1, <1>2, <1>3, <1>7 DEF BasisInv

LEMMA BasisInductive == BasisInv /\ [L!Next]_(L!vars) => BasisInv'
<1> SUFFICES ASSUME BasisInv, [L!Next]_(L!vars) PROVE BasisInv'
  OBVIOUS
<1>1. LinInv'
  BY LinInductive DEF BasisInv
<1>2. CASE L!Cut
  BY <1>1, <1>2, BasisCut
<1>3. CASE L!AddImplication
  BY <1>1, <1>3, BasisAdd
<1>4. CASE L!Branch
  BY <1>1, <1>4, BasisBranch
<1>5. CASE L!NextAttribute
  BY <1>1, <1>5, BasisNext
<1>6. CASE L!Return
  BY <1>1, <1>6, BasisReturn
<1>7. CASE L!Deliver
  <2>1. st = <<>> /\ result' = impls /\ UNCHANGED <<ctx, impls, st>>
    BY <1>7 DEF L!Deliver
  <2> QED BY <1>1, <2>1 DEF BasisInv
<1>8. CASE UNCHANGED L!vars
  <2>1. UNCHANGED <<ctx, impls, st, result>>
    BY <1>8 DEF L!vars
  <2> QED BY <1>1, <2>1 DEF BasisInv
<1> QED BY <1>2, <1>3, <1>4, <1>5, <1>6, <1>7, <1>8 DEF L!Next

\* What LinCbO promises its caller.
Basis == INSTANCE BasisBuilder WITH wanted <- "canonical", support <- 0

\* The two modules speak of the same basis.
LEMMA SameBasis ==
  Basis!CanonicalBasis(ctx) =
    {L!Implication(ctx, P, L!ClosureOf(ctx, P)) : P \in L!PseudoIntents(ctx)}
<1>1. L!CanonicalBasis(ctx) =
        {L!Implication(ctx, P, L!ClosureOf(ctx, P)) : P \in L!PseudoIntents(ctx)}
  BY DEF L!CanonicalBasis
<1>2. Basis!PseudoIntents(ctx) = L!PseudoIntents(ctx)
  BY DEF Basis!PseudoIntents, L!PseudoIntents, Basis!Attrs, L!Attrs, Basis!Cardinality,
         L!Cardinality, Basis!IsFiniteSet, L!IsFiniteSet, Basis!ClosureOf, L!ClosureOf,
         Basis!IntentOf, L!IntentOf, Basis!ExtentOf, L!ExtentOf, Basis!Row, L!Row
<1>3. \A P : Basis!ClosureOf(ctx, P) = L!ClosureOf(ctx, P)
  BY DEF Basis!ClosureOf, L!ClosureOf, Basis!IntentOf, L!IntentOf, Basis!ExtentOf, L!ExtentOf,
         Basis!Row, L!Row, Basis!Attrs, L!Attrs
<1>4. \A P, C : Basis!Implication(ctx, P, C) = L!Implication(ctx, P, C)
  BY DEF Basis!Implication, L!Implication, Basis!ExtentOf, L!ExtentOf, Basis!Row, L!Row,
         Basis!Attrs, L!Attrs, Basis!Cardinality, L!Cardinality, Basis!IsFiniteSet, L!IsFiniteSet
<1>5. Basis!CanonicalBasis(ctx) =
        {Basis!Implication(ctx, P, Basis!ClosureOf(ctx, P)) : P \in Basis!PseudoIntents(ctx)}
  BY DEF Basis!CanonicalBasis
<1> QED BY ONLY <1>2, <1>3, <1>4, <1>5

\* Once there is no call left the list is the basis, each implication once.
LEMMA BasisComplete ==
  ASSUME BasisInv, st = <<>>
  PROVE  Basis!IsCanonicalBasis(impls) /\ impls # Null
<1> DEFINE X(P) == L!Implication(ctx, P, L!ClosureOf(ctx, P))
           n == Len(impls)
           S == {impls[k] : k \in 1 .. n}
<1>1. /\ LinTyped /\ n \in Nat /\ DOMAIN impls = 1 .. n
      /\ FoundRight(ctx, impls) /\ NoneMissed(ctx, impls, st)
  BY LenProperties DEF BasisInv, LinInv, LinTyped
<1>2. Basis!ToSet(impls) = S
  BY <1>1 DEF Basis!ToSet
<1> HIDE DEF n
<1>3. \A P \in L!PseudoIntents(ctx) : \E k \in 1 .. n : impls[k].premise = P
  <2>1. ~ \E j \in 1 .. Len(st) : TRUE
    OBVIOUS
  <2> QED BY <1>1, <2>1 DEF NoneMissed, Known, n
<1>4. ASSUME NEW k \in 1 .. n
      PROVE  impls[k].premise \in L!PseudoIntents(ctx) /\ impls[k] = X(impls[k].premise)
  BY <1>1 DEF FoundRight, n
<1>5. \A k, j \in 1 .. n : impls[k] = impls[j] => k = j
  BY <1>1 DEF FoundRight, n
<1>6. S = {X(P) : P \in L!PseudoIntents(ctx)}
  <2> HIDE DEF X
  <2>1. \A P \in L!PseudoIntents(ctx) : X(P) \in S
    BY <1>3, <1>4
  <2>2. \A s \in S : \E P \in L!PseudoIntents(ctx) : s = X(P)
    BY <1>4
  <2> HIDE DEF S
  <2> QED BY <2>1, <2>2
<1>7. Cardinality(S) = n
  <2> DEFINE f == [k \in 1 .. n |-> impls[k]]
  <2>1. f \in Bijection(1 .. n, S)
    <3>1. f \in [1 .. n -> S] /\ \A a, b \in 1 .. n : f[a] = f[b] => a = b
      BY <1>5
    <3>2. \A s \in S : \E k \in 1 .. n : f[k] = s
      OBVIOUS
    <3> HIDE DEF f, S
    <3>3. DOMAIN f = 1 .. n
      BY <3>1
    <3> QED BY <3>1, <3>2, <3>3 DEF Bijection, Injection, Surjection, IsInjective
  <2>2. ExistsBijection(1 .. n, S)
    BY <2>1 DEF ExistsBijection
  <2> QED BY <1>1, <2>2, FS_CountingElements
<1> HIDE DEF S
<1>8. Basis!Cardinality(Basis!ToSet(impls)) = Len(impls)
  <2>1. Basis!Cardinality(S) = Cardinality(S)
    BY DEF Basis!Cardinality, Cardinality, Basis!IsFiniteSet, IsFiniteSet
  <2> QED BY <1>2, <1>7, <2>1 DEF n
<1>9. Basis!ToSet(impls) = Basis!CanonicalBasis(ctx)
  BY <1>2, <1>6, SameBasis
<1>10. impls # Null
  BY <1>1 DEF LinTyped, LinAssumption
<1> QED BY <1>8, <1>9, <1>10 DEF Basis!IsCanonicalBasis

\* LinCbO, whatever the context: what it hands over is the canonical basis,
\* each implication once.
THEOREM LinDeliversBasis ==
  LinAssumption /\ L!Spec => [](result # Null => Basis!IsCanonicalBasis(result))
<1>1. BasisInv => (result # Null => Basis!IsCanonicalBasis(result))
  BY BasisComplete DEF BasisInv
<1> QED BY <1>1, BasisInitially, BasisInductive, PTL DEF L!Spec

\* LinCbO hands over once, and does step by step what BasisBuilder allows: the
\* calls that build the list are not seen outside.
THEOREM LinRefinesBasis ==
  LinAssumption /\ L!Spec => Basis!Init /\ [][Basis!Next]_(Basis!vars)
<1>1. LinAssumption /\ L!Init => Basis!Init
  BY DEF L!Init, Basis!Init
<1>2. BasisInv /\ [L!Next]_(L!vars) => [Basis!Next]_(Basis!vars)
  <2> SUFFICES ASSUME BasisInv, [L!Next]_(L!vars) PROVE [Basis!Next]_(Basis!vars)
    OBVIOUS
  <2>1. CASE L!Deliver
    <3>1. st = <<>> /\ result = Null /\ result' = impls /\ ctx' = ctx
      BY <2>1 DEF L!Deliver
    <3>2. Basis!IsCanonicalBasis(impls) /\ impls # Null
      BY <3>1, BasisComplete
    <3>3. Basis!IsCanonicalBasis(result')
      BY <3>1, <3>2
    <3>4. UNCHANGED <<"canonical", ctx, 0>>
      BY <3>1
    <3>5. "canonical" # "direct"
      OBVIOUS
    <3> QED BY <3>1, <3>2, <3>3, <3>4, <3>5 DEF Basis!Next, Basis!HandOver
  <2>2. CASE ~ L!Deliver
    <3>1. ctx' = ctx /\ result' = result
      BY <2>2 DEF L!Next, L!Cut, L!AddImplication, L!Branch, L!NextAttribute, L!Return, L!vars
    <3> QED BY <3>1 DEF Basis!vars
  <2> QED BY <2>1, <2>2
<1> QED BY <1>1, <1>2, BasisInitially, BasisInductive, PTL DEF L!Spec
=============================================================================
