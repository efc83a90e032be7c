------------------------- MODULE ParallelCbOProofs -------------------------
(***************************************************************************)
(* Proofs about the fork/join enumeration in Java, for every context and   *)
(* whatever the pool runs when: each concept is registered exactly once,   *)
(* and no task is left behind when the first one is done.                  *)
(***************************************************************************)
EXTENDS ParallelCbO, FormalContextProofs, FiniteSetTheorems, WellFoundedInduction

\* The frames of a concept of the context, and its concepts.
GoodFrames == {f \in Frame : IsConcept(cols, AsConcept(f.node))}
Good == {c \in Concept : IsConcept(cols, c)}

\* A call below another on a stack has tried an attribute more.
Depth ==
  \A k \in DOMAIN tasks : \A d \in DOMAIN tasks[k] :
    /\ d - 1 <= tasks[k][d].node.i
    /\ d < Len(tasks[k]) => d <= tasks[k][d].node.i

\* A call forks tasks with higher numbers than its own task's.
ForkedLater ==
  \A k \in DOMAIN tasks : \A d \in DOMAIN tasks[k] :
    \A m \in ToSet(tasks[k][d].forked) : m \in DOMAIN tasks /\ k < m

Awaits(j, k) == \E d \in DOMAIN tasks[j] : k \in ToSet(tasks[j][d].forked)

Awaited ==
  \A k \in DOMAIN tasks \ {1} : Running(k) => \E j \in DOMAIN tasks : Awaits(j, k)

Typed ==
  /\ cols \in AllContexts
  /\ tasks \in Seq(Seq(GoodFrames)) /\ 1 \in DOMAIN tasks
  /\ puts \in Seq(SUBSET Objects)

IInv == Typed /\ Depth /\ ForkedLater /\ Awaited

-----------------------------------------------------------------------------
\* What a step of task k makes of the stacks: ns in the place of its current
\* frame, and the tasks new behind the others.
Moved(k, ns, new) ==
  /\ tasks' \in Seq(Seq(GoodFrames))
  /\ DOMAIN tasks' = 1 .. Len(tasks) + Len(new)
  /\ \A j \in DOMAIN tasks \ {k} : tasks'[j] = tasks[j]
  /\ DOMAIN tasks'[k] = 1 .. Len(tasks[k]) - 1 + Len(ns)
  /\ \A d \in 1 .. Len(tasks[k]) - 1 : tasks'[k][d] = tasks[k][d]
  /\ \A d \in 1 .. Len(ns) : tasks'[k][Len(tasks[k]) - 1 + d] = ns[d]
  /\ \A j \in 1 .. Len(new) : tasks'[Len(tasks) + j] = new[j]

LEMMA ReplacedTasks ==
  ASSUME Typed, NEW k \in DOMAIN tasks, Running(k), NEW ns \in Seq(GoodFrames)
  PROVE  /\ Replace(k, ns) \in Seq(Seq(GoodFrames))
         /\ DOMAIN Replace(k, ns) = 1 .. Len(tasks)
         /\ \A j \in DOMAIN tasks \ {k} : Replace(k, ns)[j] = tasks[j]
         /\ DOMAIN Replace(k, ns)[k] = 1 .. Len(tasks[k]) - 1 + Len(ns)
         /\ \A d \in 1 .. Len(tasks[k]) - 1 : Replace(k, ns)[k][d] = tasks[k][d]
         /\ \A d \in 1 .. Len(ns) : Replace(k, ns)[k][Len(tasks[k]) - 1 + d] = ns[d]
<1> DEFINE s == tasks[k]
           r == Front(s) \o ns
<1>1. s \in Seq(GoodFrames) /\ s # <<>>
  BY ElementOfSeq, LenProperties DEF Typed, Running
<1>2. /\ r \in Seq(GoodFrames) /\ Len(r) = Len(s) - 1 + Len(ns)
      /\ \A d \in 1 .. Len(s) - 1 : r[d] = s[d]
      /\ \A d \in 1 .. Len(ns) : r[Len(s) - 1 + d] = ns[d]
  BY <1>1, TopReplaced
<1>3. DOMAIN r = 1 .. Len(r)
  BY <1>2, LenProperties
<1>4. Replace(k, ns) = [tasks EXCEPT ![k] = r]
  BY DEF Replace
<1> HIDE DEF r
<1>5. /\ [tasks EXCEPT ![k] = r] \in Seq(Seq(GoodFrames))
      /\ DOMAIN [tasks EXCEPT ![k] = r] = 1 .. Len(tasks)
  <2>1. tasks \in Seq(Seq(GoodFrames)) /\ DOMAIN tasks = 1 .. Len(tasks) /\ k \in 1 .. Len(tasks)
    BY LenProperties DEF Typed
  <2> QED BY <1>2, <2>1, ExceptSeq
<1>6. [tasks EXCEPT ![k] = r][k] = r
      /\ \A j \in DOMAIN tasks \ {k} : [tasks EXCEPT ![k] = r][j] = tasks[j]
  OBVIOUS
<1> QED BY <1>2, <1>3, <1>4, <1>5, <1>6

LEMMA StepMoves ==
  ASSUME Typed, NEW k \in DOMAIN tasks, Running(k), NEW ns \in Seq(GoodFrames),
         UNCHANGED cols
  PROVE  /\ tasks' = Replace(k, ns) => Moved(k, ns, <<>>)
         /\ \A g \in GoodFrames :
              tasks' = Append(Replace(k, ns), <<g>>) => Moved(k, ns, <<<<g>>>>)
<1> DEFINE r == Replace(k, ns)
<1>1. /\ r \in Seq(Seq(GoodFrames))
      /\ DOMAIN r = 1 .. Len(tasks)
      /\ \A j \in DOMAIN tasks \ {k} : r[j] = tasks[j]
      /\ DOMAIN r[k] = 1 .. Len(tasks[k]) - 1 + Len(ns)
      /\ \A d \in 1 .. Len(tasks[k]) - 1 : r[k][d] = tasks[k][d]
      /\ \A d \in 1 .. Len(ns) : r[k][Len(tasks[k]) - 1 + d] = ns[d]
  BY ReplacedTasks
<1>2. Len(tasks) \in Nat /\ DOMAIN tasks = 1 .. Len(tasks) /\ Len(r) = Len(tasks)
  BY <1>1, LenProperties DEF Typed
<1> HIDE DEF r
<1>3. ASSUME tasks' = r PROVE Moved(k, ns, <<>>)
  BY <1>1, <1>2, <1>3 DEF Moved
<1>4. ASSUME NEW g \in GoodFrames, tasks' = Append(r, <<g>>)
      PROVE  Moved(k, ns, <<<<g>>>>)
  <2>1. <<g>> \in Seq(GoodFrames)
    OBVIOUS
  <2>2. /\ Append(r, <<g>>) \in Seq(Seq(GoodFrames))
        /\ Len(Append(r, <<g>>)) = Len(r) + 1
        /\ \A j \in 1 .. Len(r) : Append(r, <<g>>)[j] = r[j]
        /\ Append(r, <<g>>)[Len(r) + 1] = <<g>>
    BY <1>1, <2>1, AppendProperties
  <2>3. DOMAIN Append(r, <<g>>) = 1 .. Len(r) + 1
    BY <2>2, LenProperties
  <2>4. Len(<<<<g>>>>) = 1 /\ <<<<g>>>>[1] = <<g>>
    OBVIOUS
  <2> QED BY <1>1, <1>2, <1>4, <2>2, <2>3, <2>4 DEF Moved
<1> QED BY <1>3, <1>4 DEF r

\* The frame at work, and the frames a step may put in its place.
LEMMA CurrentFrame ==
  ASSUME Typed, NEW k \in DOMAIN tasks, Running(k)
  PROVE  /\ Len(tasks[k]) \in Nat \ {0} /\ DOMAIN tasks[k] = 1 .. Len(tasks[k])
         /\ Current(k) = tasks[k][Len(tasks[k])]
         /\ Current(k) \in GoodFrames
         /\ Current(k).node \in Node /\ IsConcept(cols, AsConcept(Current(k).node))
         /\ Current(k).forked \in Seq(Nat)
<1>1. tasks[k] \in Seq(GoodFrames) /\ tasks[k] # <<>>
  BY ElementOfSeq, LenProperties DEF Typed, Running
<1>2. Current(k) \in GoodFrames
  BY <1>1, LastAndFront DEF Current
<1> QED BY <1>1, <1>2, EmptySeq, LenProperties DEF Current, Last, GoodFrames, Frame

LEMMA TriedFrame ==
  ASSUME Typed, NEW k \in DOMAIN tasks, Running(k), Current(k).node.i < M
  PROVE  /\ Tried(k) \in GoodFrames
         /\ Tried(k).node = Advance(Current(k).node)
         /\ Tried(k).registered = Current(k).registered
         /\ Tried(k).forked = Current(k).forked
         /\ Tried(k).node.i = Current(k).node.i + 1
<1> DEFINE f == Current(k)
           n == f.node
<1>1. /\ f \in Frame /\ n \in Node /\ IsConcept(cols, AsConcept(n))
      /\ n.i + 1 \in 0 .. M
  BY CurrentFrame, MAssumption DEF GoodFrames, Node
<1> HIDE DEF n
<1>2. /\ Advance(n) \in Node /\ AsConcept(Advance(n)) = AsConcept(n)
      /\ Advance(n).i = n.i + 1
  BY <1>1 DEF Advance, AsConcept, Node
<1>3. /\ Tried(k).node = Advance(n) /\ Tried(k) \in Frame
      /\ Tried(k).registered = f.registered /\ Tried(k).forked = f.forked
  BY <1>1, <1>2 DEF Tried, Frame, n
<1> QED BY <1>1, <1>2, <1>3 DEF GoodFrames, n

LEMMA ChildFrame ==
  ASSUME Typed, NEW k \in DOMAIN tasks, Running(k), Current(k).node.i < M,
         Canonical(cols, Current(k).node)
  PROVE  LET child == Child(cols, Current(k).node)
         IN  /\ Call(child) \in GoodFrames /\ Call(child).node = child
             /\ ~Call(child).registered /\ Call(child).forked = <<>>
             /\ child.i = Current(k).node.i + 1
             /\ child \in Node /\ IsConcept(cols, AsConcept(child))
<1> DEFINE child == Child(cols, Current(k).node)
<1>1. child \in Node /\ IsConcept(cols, AsConcept(child))
  BY CurrentFrame, ChildConcept DEF Typed
<1>2. child.i = Current(k).node.i + 1
  BY DEF Child
<1> HIDE DEF child
<1>3. /\ Call(child) \in Frame /\ Call(child).node = child
      /\ ~Call(child).registered /\ Call(child).forked = <<>>
  BY <1>1, EmptySeq DEF Call, Frame
<1> QED BY <1>1, <1>2, <1>3 DEF GoodFrames, child

-----------------------------------------------------------------------------
(* What each step makes of the stacks.                                     *)

LEMMA RegisterMoves ==
  ASSUME Typed, NEW k \in DOMAIN tasks, Register(k)
  PROVE  \E f \in GoodFrames :
           /\ Moved(k, <<f>>, <<>>)
           /\ f.node = Current(k).node /\ f.registered
           /\ f.forked = Current(k).forked
<1> DEFINE f == [Current(k) EXCEPT !.registered = TRUE]
<1>1. f \in GoodFrames /\ f.node = Current(k).node /\ f.registered
      /\ f.forked = Current(k).forked
  BY CurrentFrame DEF GoodFrames, Frame, Register
<1>2. tasks' = Replace(k, <<f>>) /\ UNCHANGED cols /\ Running(k)
  BY DEF Register
<1> HIDE DEF f
<1>3. <<f>> \in Seq(GoodFrames)
  BY <1>1
<1> QED BY <1>1, <1>2, <1>3, StepMoves

LEMMA RejectMoves ==
  ASSUME Typed, NEW k \in DOMAIN tasks, Reject(k)
  PROVE  Moved(k, <<Tried(k)>>, <<>>) /\ Tried(k) \in GoodFrames /\ Current(k).node.i < M
<1>1. /\ tasks' = Replace(k, <<Tried(k)>>) /\ UNCHANGED cols
      /\ Running(k) /\ Current(k).node.i < M
  BY DEF Reject, Trying
<1>2. Tried(k) \in GoodFrames
  BY <1>1, TriedFrame
<1>3. <<Tried(k)>> \in Seq(GoodFrames)
  BY <1>2
<1> QED BY <1>1, <1>2, <1>3, StepMoves

LEMMA ForkMoves ==
  ASSUME Typed, NEW k \in DOMAIN tasks, Fork(k)
  PROVE  \E f \in GoodFrames :
           /\ Moved(k, <<f>>, <<<<Call(Child(cols, Current(k).node))>>>>)
           /\ f.node = Advance(Current(k).node) /\ f.registered
           /\ f.forked = Append(Current(k).forked, Len(tasks) + 1)
<1> DEFINE f == [Tried(k) EXCEPT !.forked = Append(@, Len(tasks) + 1)]
           g == Call(Child(cols, Current(k).node))
<1>1. /\ tasks' = Append(Replace(k, <<f>>), <<g>>) /\ UNCHANGED cols
      /\ Running(k) /\ Current(k).node.i < M /\ Canonical(cols, Current(k).node)
      /\ Current(k).registered
  BY DEF Fork, Trying
<1>2. g \in GoodFrames
  BY <1>1, ChildFrame
<1>3. /\ Tried(k) \in GoodFrames /\ Tried(k).node = Advance(Current(k).node)
      /\ Tried(k).registered /\ Tried(k).forked = Current(k).forked
  BY <1>1, TriedFrame
<1>4. Append(Current(k).forked, Len(tasks) + 1) \in Seq(Nat)
  BY <1>1, CurrentFrame, AppendProperties, LenProperties DEF Typed
<1>5. /\ f \in GoodFrames /\ f.node = Advance(Current(k).node) /\ f.registered
      /\ f.forked = Append(Current(k).forked, Len(tasks) + 1)
  BY <1>3, <1>4 DEF GoodFrames, Frame
<1> HIDE DEF f, g
<1>6. <<f>> \in Seq(GoodFrames)
  BY <1>5
<1>7. Moved(k, <<f>>, <<<<g>>>>)
  BY <1>1, <1>2, <1>6, StepMoves
<1> QED BY <1>5, <1>7 DEF g

LEMMA InlineMoves ==
  ASSUME Typed, NEW k \in DOMAIN tasks, Inline(k)
  PROVE  Moved(k, <<Tried(k), Call(Child(cols, Current(k).node))>>, <<>>)
<1> DEFINE f == Tried(k)
           g == Call(Child(cols, Current(k).node))
<1>1. /\ tasks' = Replace(k, <<f, g>>) /\ UNCHANGED cols
      /\ Running(k) /\ Current(k).node.i < M /\ Canonical(cols, Current(k).node)
  BY DEF Inline, Trying
<1>2. f \in GoodFrames /\ g \in GoodFrames
  BY <1>1, TriedFrame, ChildFrame
<1> HIDE DEF f, g
<1>3. <<f, g>> \in Seq(GoodFrames)
  BY <1>2
<1>4. Moved(k, <<f, g>>, <<>>)
  BY <1>1, <1>3, StepMoves
<1> QED BY <1>4 DEF f, g

LEMMA JoinMoves ==
  ASSUME Typed, NEW k \in DOMAIN tasks, Join(k)
  PROVE  \E f \in GoodFrames :
           /\ Moved(k, <<f>>, <<>>)
           /\ f.node = Current(k).node /\ f.registered
           /\ f.forked = Front(Current(k).forked)
<1> DEFINE f == [Current(k) EXCEPT !.forked = Front(@)]
<1>1. /\ tasks' = Replace(k, <<f>>) /\ UNCHANGED cols /\ Running(k)
      /\ Current(k).registered /\ Current(k).forked # <<>>
  BY DEF Join, Joining
<1>2. Current(k) \in GoodFrames /\ Current(k).forked \in Seq(Nat)
  BY <1>1, CurrentFrame
<1>3. Front(Current(k).forked) \in Seq(Nat)
  BY <1>1, <1>2, LastAndFront
<1>4. /\ f \in GoodFrames /\ f.node = Current(k).node /\ f.registered
      /\ f.forked = Front(Current(k).forked)
  BY <1>1, <1>2, <1>3 DEF GoodFrames, Frame
<1> HIDE DEF f
<1>5. <<f>> \in Seq(GoodFrames)
  BY <1>4
<1> QED BY <1>1, <1>4, <1>5, StepMoves

LEMMA ReturnMoves ==
  ASSUME Typed, NEW k \in DOMAIN tasks, Return(k)
  PROVE  Moved(k, <<>>, <<>>)
<1>1. tasks' = Replace(k, <<>>) /\ UNCHANGED cols /\ Running(k)
  BY DEF Return, Joining
<1>2. <<>> \in Seq(GoodFrames)
  OBVIOUS
<1> QED BY <1>1, <1>2, StepMoves

-----------------------------------------------------------------------------
(* The invariant.                                                          *)

LEMMA Initially == Init => IInv
<1> SUFFICES ASSUME Init PROVE IInv
  OBVIOUS
<1> DEFINE f == Call(Root(cols))
<1>1. cols \in AllContexts
  BY ContextsAssumption DEF Init
<1>2. Root(cols) \in Node /\ IsConcept(cols, AsConcept(Root(cols)))
  BY <1>1, RootConcept
<1>3. f \in GoodFrames /\ f.node.i = 0 /\ f.forked = <<>>
  BY <1>2, EmptySeq DEF GoodFrames, Frame, Call, Root
<1> HIDE DEF f
<1>4. tasks = <<<<f>>>> /\ puts = <<>>
  BY DEF Init, f
<1>5. Typed
  BY <1>1, <1>3, <1>4 DEF Typed
<1>6. /\ DOMAIN tasks = {1} /\ tasks[1] = <<f>>
      /\ DOMAIN tasks[1] = {1} /\ Len(tasks[1]) = 1 /\ tasks[1][1] = f
  BY <1>4
<1>7. Depth
  <2> SUFFICES ASSUME NEW k \in DOMAIN tasks, NEW d \in DOMAIN tasks[k]
               PROVE  /\ d - 1 <= tasks[k][d].node.i
                      /\ d < Len(tasks[k]) => d <= tasks[k][d].node.i
    BY DEF Depth
  <2>1. k = 1 /\ d = 1
    BY <1>6
  <2>2. tasks[k][d].node.i = 0 /\ Len(tasks[k]) = 1
    BY <1>3, <1>6, <2>1
  <2> QED BY <2>1, <2>2
<1>8. ToSet(f.forked) = {}
  BY <1>3 DEF ToSet
<1>9. ForkedLater /\ Awaited
  BY <1>6, <1>8 DEF ForkedLater, Awaited
<1> QED BY <1>5, <1>7, <1>9 DEF IInv

\* The stacks of a step, once more, by the lengths of ns and new.
LEMMA MovedLengths ==
  ASSUME Typed, NEW k \in DOMAIN tasks, Running(k), NEW ns, NEW new, Moved(k, ns, new),
         NEW p \in Nat, Len(ns) = p, NEW q \in Nat, Len(new) = q
  PROVE  /\ Len(tasks) \in Nat /\ DOMAIN tasks = 1 .. Len(tasks)
         /\ DOMAIN tasks' = 1 .. Len(tasks) + q
         /\ \A j \in DOMAIN tasks' : Len(tasks'[j]) \in Nat /\ DOMAIN tasks'[j] = 1 .. Len(tasks'[j])
         /\ \A j \in DOMAIN tasks : Len(tasks[j]) \in Nat /\ DOMAIN tasks[j] = 1 .. Len(tasks[j])
         /\ Len(tasks'[k]) = Len(tasks[k]) - 1 + p
<1>1. Len(tasks) \in Nat /\ DOMAIN tasks = 1 .. Len(tasks)
  BY LenProperties DEF Typed
<1>2. tasks' \in Seq(Seq(GoodFrames)) /\ DOMAIN tasks' = 1 .. Len(tasks) + q
  BY DEF Moved
<1>3. ASSUME NEW j \in DOMAIN tasks'
      PROVE  Len(tasks'[j]) \in Nat /\ DOMAIN tasks'[j] = 1 .. Len(tasks'[j])
  <2>1. tasks'[j] \in Seq(GoodFrames)
    BY <1>2, ElementOfSeq, LenProperties
  <2> QED BY <2>1, LenProperties
<1>4. ASSUME NEW j \in DOMAIN tasks
      PROVE  Len(tasks[j]) \in Nat /\ DOMAIN tasks[j] = 1 .. Len(tasks[j])
  <2>1. tasks[j] \in Seq(GoodFrames)
    BY ElementOfSeq, LenProperties DEF Typed
  <2> QED BY <2>1, LenProperties
<1>5. Len(tasks'[k]) = Len(tasks[k]) - 1 + p
  <2>1. k \in DOMAIN tasks'
    BY <1>1, <1>2
  <2>2. DOMAIN tasks'[k] = 1 .. Len(tasks[k]) - 1 + p
    BY DEF Moved
  <2>3. Len(tasks[k]) \in Nat \ {0}
    BY CurrentFrame
  <2> QED BY <1>3, <2>1, <2>2, <2>3
<1> QED BY <1>1, <1>2, <1>3, <1>4, <1>5

LEMMA DepthKept ==
  ASSUME Typed, Depth, NEW k \in DOMAIN tasks, Running(k), NEW ns, NEW new, Moved(k, ns, new),
         NEW p \in Nat, Len(ns) = p, NEW q \in Nat, Len(new) = q,
         \A d \in 1 .. p :
           /\ ns[d].node.i \in Nat
           /\ Len(tasks[k]) - 2 + d <= ns[d].node.i
           /\ d < p => Len(tasks[k]) - 1 + d <= ns[d].node.i,
         \A j \in 1 .. q : DOMAIN new[j] = {1} /\ Len(new[j]) = 1 /\ new[j][1].node.i \in Nat
  PROVE  Depth'
<1> SUFFICES ASSUME NEW j \in DOMAIN tasks', NEW d \in DOMAIN tasks'[j]
             PROVE  /\ d - 1 <= tasks'[j][d].node.i
                    /\ d < Len(tasks'[j]) => d <= tasks'[j][d].node.i
  BY DEF Depth
<1>1. /\ Len(tasks) \in Nat /\ DOMAIN tasks = 1 .. Len(tasks)
      /\ DOMAIN tasks' = 1 .. Len(tasks) + q
      /\ \A i \in DOMAIN tasks' : Len(tasks'[i]) \in Nat /\ DOMAIN tasks'[i] = 1 .. Len(tasks'[i])
      /\ Len(tasks'[k]) = Len(tasks[k]) - 1 + p
  BY MovedLengths
<1>2. Len(tasks[k]) \in Nat \ {0} /\ DOMAIN tasks[k] = 1 .. Len(tasks[k])
  BY CurrentFrame
<1>3. CASE j \in DOMAIN tasks \ {k}
  <2>1. tasks'[j] = tasks[j]
    BY <1>3 DEF Moved
  <2> QED BY <1>3, <2>1 DEF Depth
<1>4. CASE j = k /\ d <= Len(tasks[k]) - 1
  <2>1. d \in 1 .. Len(tasks[k]) - 1 /\ d \in DOMAIN tasks[k] /\ d < Len(tasks[k])
    BY <1>1, <1>2, <1>4
  <2>2. tasks'[k][d] = tasks[k][d]
    BY <2>1 DEF Moved
  <2>3. d <= tasks[k][d].node.i /\ d - 1 <= tasks[k][d].node.i
    BY <2>1 DEF Depth
  <2> QED BY <1>4, <2>2, <2>3
<1>5. CASE j = k /\ ~(d <= Len(tasks[k]) - 1)
  <2> DEFINE e == d - (Len(tasks[k]) - 1)
  <2>1. e \in 1 .. p /\ d = Len(tasks[k]) - 1 + e
    BY <1>1, <1>2, <1>5
  <2>2. tasks'[k][d] = ns[e]
    BY <2>1 DEF Moved
  <2>3. /\ ns[e].node.i \in Nat /\ Len(tasks[k]) - 2 + e <= ns[e].node.i
        /\ e < p => Len(tasks[k]) - 1 + e <= ns[e].node.i
    BY <2>1
  <2>4. d - 1 <= ns[e].node.i
    BY <1>2, <2>1, <2>3
  <2>5. Len(tasks'[k]) = Len(tasks[k]) - 1 + p
    BY <1>1
  <2>6. d < Len(tasks'[k]) => d <= ns[e].node.i
    BY <1>2, <2>1, <2>3, <2>5
  <2> QED BY <1>5, <2>2, <2>4, <2>6
<1>6. CASE j \notin DOMAIN tasks
  <2> DEFINE e == j - Len(tasks)
  <2>1. e \in 1 .. q /\ j = Len(tasks) + e
    BY <1>1, <1>6
  <2>2. tasks'[j] = new[e]
    BY <2>1 DEF Moved
  <2>3. d = 1 /\ Len(tasks'[j]) = 1
    BY <2>1, <2>2
  <2> QED BY <2>1, <2>2, <2>3
<1> QED BY <1>3, <1>4, <1>5, <1>6

LEMMA ForksKept ==
  ASSUME Typed, ForkedLater, Awaited,
         NEW k \in DOMAIN tasks, Running(k), NEW ns, NEW new, Moved(k, ns, new),
         NEW p \in Nat, Len(ns) = p, NEW q \in Nat, Len(new) = q,
         \A d \in 1 .. p : \A m \in ToSet(ns[d].forked) : m \in 1 .. Len(tasks) + q /\ k < m,
         \A j \in 1 .. q : DOMAIN new[j] = {1} /\ ToSet(new[j][1].forked) = {},
         \A m \in ToSet(Current(k).forked) :
           Done(m) \/ \E d \in 1 .. p : m \in ToSet(ns[d].forked),
         \A j \in 1 .. q : \E d \in 1 .. p : Len(tasks) + j \in ToSet(ns[d].forked)
  PROVE  ForkedLater' /\ Awaited'
<1> DEFINE L == Len(tasks[k])
<1>1. /\ Len(tasks) \in Nat /\ DOMAIN tasks = 1 .. Len(tasks)
      /\ DOMAIN tasks' = 1 .. Len(tasks) + q
      /\ \A i \in DOMAIN tasks' : Len(tasks'[i]) \in Nat /\ DOMAIN tasks'[i] = 1 .. Len(tasks'[i])
      /\ Len(tasks'[k]) = L - 1 + p
  BY MovedLengths
<1>2. L \in Nat \ {0} /\ DOMAIN tasks[k] = 1 .. L /\ Current(k) = tasks[k][L]
  BY CurrentFrame
<1>3. /\ \A j \in DOMAIN tasks \ {k} : tasks'[j] = tasks[j]
      /\ \A d \in 1 .. L - 1 : tasks'[k][d] = tasks[k][d]
      /\ \A d \in 1 .. p : tasks'[k][L - 1 + d] = ns[d]
      /\ \A j \in 1 .. q : tasks'[Len(tasks) + j] = new[j]
  BY DEF Moved
<1>4. ForkedLater'
  <2> SUFFICES ASSUME NEW j \in DOMAIN tasks', NEW d \in DOMAIN tasks'[j],
                      NEW m \in ToSet(tasks'[j][d].forked)
               PROVE  m \in DOMAIN tasks' /\ j < m
    BY DEF ForkedLater
  <2>1. CASE j \in DOMAIN tasks \ {k}
    <3>1. m \in DOMAIN tasks /\ j < m
      BY <1>3, <2>1 DEF ForkedLater
    <3> QED BY <1>1, <3>1
  <2>2. CASE j = k /\ d <= L - 1
    <3>1. d \in 1 .. L - 1 /\ d \in DOMAIN tasks[k]
      BY <1>1, <1>2, <2>2
    <3>2. m \in ToSet(tasks[k][d].forked)
      BY <1>3, <2>2, <3>1
    <3>3. m \in DOMAIN tasks /\ k < m
      BY <3>1, <3>2 DEF ForkedLater
    <3> QED BY <1>1, <2>2, <3>3
  <2>3. CASE j = k /\ ~(d <= L - 1)
    <3> DEFINE e == d - (L - 1)
    <3>1. e \in 1 .. p /\ d = L - 1 + e
      BY <1>1, <1>2, <2>3
    <3>2. m \in ToSet(ns[e].forked)
      BY <1>3, <2>3, <3>1
    <3> QED BY <1>1, <2>3, <3>1, <3>2
  <2>4. CASE j \notin DOMAIN tasks
    <3> DEFINE e == j - Len(tasks)
    <3>1. e \in 1 .. q /\ j = Len(tasks) + e
      BY <1>1, <2>4
    <3>2. tasks'[j] = new[e]
      BY <1>3, <3>1
    <3>3. d = 1
      BY <3>1, <3>2
    <3> QED BY <3>1, <3>2, <3>3
  <2> QED BY <2>1, <2>2, <2>3, <2>4
<1>5. \A m \in DOMAIN tasks : Running(m)' => Running(m)
  BY <1>3 DEF Running
<1>6. ASSUME NEW m, NEW e \in 1 .. p, m \in ToSet(ns[e].forked)
      PROVE  \E j \in DOMAIN tasks' : Awaits(j, m)'
  <2>1. L - 1 + e \in DOMAIN tasks'[k] /\ k \in DOMAIN tasks'
    BY <1>1, <1>2
  <2>2. m \in ToSet(tasks'[k][L - 1 + e].forked)
    BY <1>3, <1>6
  <2> QED BY <2>1, <2>2 DEF Awaits
<1>7. Awaited'
  <2> SUFFICES ASSUME NEW m \in DOMAIN tasks' \ {1}, Running(m)'
               PROVE  \E j \in DOMAIN tasks' : Awaits(j, m)'
    BY DEF Awaited
  <2>1. CASE m \in DOMAIN tasks
    <3>1. Running(m)
      BY <1>5, <2>1
    <3>2. PICK j \in DOMAIN tasks : Awaits(j, m)
      BY <2>1, <3>1 DEF Awaited
    <3>3. PICK d \in DOMAIN tasks[j] : m \in ToSet(tasks[j][d].forked)
      BY <3>2 DEF Awaits
    <3>4. j \in DOMAIN tasks'
      BY <1>1
    <3>5. CASE j # k
      <4>1. tasks'[j] = tasks[j]
        BY <1>3, <3>5
      <4> QED BY <3>3, <3>4, <4>1 DEF Awaits
    <3>6. CASE j = k /\ d # L
      <4>1. d \in 1 .. L - 1
        BY <1>2, <3>6
      <4>2. tasks'[k][d] = tasks[k][d]
        BY <1>3, <4>1
      <4>3. d \in DOMAIN tasks'[k]
        <5>1. DOMAIN tasks'[k] = 1 .. L - 1 + p
          BY <1>1
        <5> QED BY <1>2, <4>1, <5>1
      <4> QED BY <3>3, <3>4, <3>6, <4>2, <4>3 DEF Awaits
    <3>7. CASE j = k /\ d = L
      <4>1. m \in ToSet(Current(k).forked)
        BY <1>2, <3>3, <3>7
      <4>2. ~Done(m)
        BY <3>1 DEF Done, Running
      <4>3. \E e \in 1 .. p : m \in ToSet(ns[e].forked)
        BY <4>1, <4>2
      <4> QED BY <1>6, <4>3
    <3> QED BY <3>5, <3>6, <3>7
  <2>2. CASE m \notin DOMAIN tasks
    <3> DEFINE e == m - Len(tasks)
    <3>1. e \in 1 .. q /\ m = Len(tasks) + e
      BY <1>1, <2>2
    <3>2. \E d \in 1 .. p : m \in ToSet(ns[d].forked)
      BY <3>1
    <3> QED BY <1>6, <3>2
  <2> QED BY <2>1, <2>2
<1> QED BY <1>4, <1>7

LEMMA ForkedSets ==
  ASSUME NEW s \in Seq(Nat)
  PROVE  /\ ToSet(s) \subseteq Nat
         /\ \A x \in Nat : ToSet(Append(s, x)) = ToSet(s) \cup {x}
         /\ s # <<>> => ToSet(s) = ToSet(Front(s)) \cup {Last(s)}
<1>1. Len(s) \in Nat /\ DOMAIN s = 1 .. Len(s) /\ \A i \in DOMAIN s : s[i] \in Nat
  BY LenProperties, ElementOfSeq
<1>2. ASSUME NEW x \in Nat PROVE ToSet(Append(s, x)) = ToSet(s) \cup {x}
  <2> DEFINE a == Append(s, x)
  <2>1. /\ a \in Seq(Nat) /\ Len(a) = Len(s) + 1
        /\ \A i \in 1 .. Len(s) : a[i] = s[i]
        /\ a[Len(s) + 1] = x
    BY AppendProperties
  <2>2. DOMAIN a = 1 .. Len(s) + 1
    BY <2>1, LenProperties
  <2> HIDE DEF a
  <2>3. \A y \in ToSet(a) : y \in ToSet(s) \cup {x}
    BY <1>1, <2>1, <2>2 DEF ToSet
  <2>4. \A y \in ToSet(s) : y \in ToSet(a)
    BY <1>1, <2>1, <2>2 DEF ToSet
  <2>5. x \in ToSet(a)
    BY <1>1, <2>1, <2>2 DEF ToSet
  <2> QED BY <2>3, <2>4, <2>5 DEF a
<1>3. ASSUME s # <<>> PROVE ToSet(s) = ToSet(Front(s)) \cup {Last(s)}
  <2> DEFINE f == Front(s)
  <2>1. /\ f \in Seq(Nat) /\ Len(s) \in Nat \ {0} /\ Len(f) = Len(s) - 1
        /\ \A i \in 1 .. Len(s) - 1 : f[i] = s[i]
    BY <1>3, LastAndFront
  <2>2. DOMAIN f = 1 .. Len(s) - 1 /\ Last(s) = s[Len(s)]
    BY <2>1, LenProperties DEF Last
  <2> HIDE DEF f
  <2>3. \A y \in ToSet(s) : y \in ToSet(f) \cup {Last(s)}
    <3> TAKE y \in ToSet(s)
    <3>1. PICK i \in 1 .. Len(s) : y = s[i]
      BY <1>1 DEF ToSet
    <3>2. CASE i = Len(s)
      BY <2>2, <3>1, <3>2
    <3>3. CASE i # Len(s)
      <4>1. i \in 1 .. Len(s) - 1
        BY <2>1, <3>3
      <4> QED BY <2>1, <2>2, <3>1, <4>1 DEF ToSet
    <3> QED BY <3>2, <3>3
  <2>4. \A y \in ToSet(f) : y \in ToSet(s)
    <3> TAKE y \in ToSet(f)
    <3>1. PICK i \in 1 .. Len(s) - 1 : y = s[i]
      BY <2>1, <2>2 DEF ToSet
    <3>2. i \in DOMAIN s
      BY <1>1, <2>1, <3>1
    <3> QED BY <3>1, <3>2 DEF ToSet
  <2>5. Last(s) \in ToSet(s)
    BY <1>1, <2>1, <2>2 DEF ToSet
  <2> QED BY <2>3, <2>4, <2>5 DEF f
<1>4. ToSet(s) \subseteq Nat
  BY <1>1 DEF ToSet
<1> QED BY <1>2, <1>3, <1>4

\* A step that replaces the frame at work by one of the same call.
LEMMA OneFrameKept ==
  ASSUME IInv, NEW k \in DOMAIN tasks, Running(k), NEW f \in GoodFrames,
         Moved(k, <<f>>, <<>>), f.node.i >= Current(k).node.i,
         ToSet(f.forked) \subseteq ToSet(Current(k).forked),
         \A m \in ToSet(Current(k).forked) : Done(m) \/ m \in ToSet(f.forked)
  PROVE  Depth' /\ ForkedLater' /\ Awaited'
<1> DEFINE ns == <<f>>
           new == <<>>
           L == Len(tasks[k])
           p == 1
           q == 0
<1>1. /\ Len(ns) = p /\ Len(new) = q /\ ns[1] = f /\ p \in Nat /\ q \in Nat
      /\ 1 .. p = {1} /\ 1 .. q = {} /\ \A n \in Int : n + q = n
  OBVIOUS
<1>2. /\ L \in Nat \ {0} /\ L \in DOMAIN tasks[k] /\ Current(k) = tasks[k][L]
      /\ Current(k).node.i \in Nat /\ f.node.i \in Nat
  BY CurrentFrame, MAssumption DEF IInv, Node, GoodFrames, Frame
<1>3. L - 1 <= f.node.i
  <2>1. L - 1 <= Current(k).node.i
    BY <1>2 DEF IInv, Depth
  <2> QED BY <1>2, <2>1
<1>4. \A m \in ToSet(Current(k).forked) : m \in DOMAIN tasks /\ k < m
  BY <1>2 DEF IInv, ForkedLater
<1>5. Len(tasks) \in Nat /\ DOMAIN tasks = 1 .. Len(tasks)
  BY LenProperties DEF IInv, Typed
<1>6. Typed /\ Depth /\ ForkedLater /\ Awaited /\ Moved(k, ns, new)
  BY DEF IInv
<1> HIDE DEF ns, new, p, q
<1>7. Depth'
  <2>1. \A d \in 1 .. p : /\ ns[d].node.i \in Nat
                          /\ L - 2 + d <= ns[d].node.i
                          /\ d < p => L - 1 + d <= ns[d].node.i
    BY <1>1, <1>2, <1>3 DEF p
  <2>2. \A j \in 1 .. q : DOMAIN new[j] = {1} /\ Len(new[j]) = 1 /\ new[j][1].node.i \in Nat
    BY <1>1
  <2> QED BY <1>1, <1>6, <2>1, <2>2, DepthKept
<1>8. ForkedLater' /\ Awaited'
  <2>1. \A d \in 1 .. p : \A m \in ToSet(ns[d].forked) : m \in 1 .. Len(tasks) + q /\ k < m
    BY <1>1, <1>4, <1>5
  <2>2. \A m \in ToSet(Current(k).forked) :
          Done(m) \/ \E d \in 1 .. p : m \in ToSet(ns[d].forked)
    BY <1>1
  <2>3. /\ \A j \in 1 .. q : DOMAIN new[j] = {1} /\ ToSet(new[j][1].forked) = {}
        /\ \A j \in 1 .. q : \E d \in 1 .. p : Len(tasks) + j \in ToSet(ns[d].forked)
    BY <1>1
  <2> QED BY <1>1, <1>6, <2>1, <2>2, <2>3, ForksKept
<1> QED BY <1>7, <1>8

\* The frame at work is at least at its depth, and its forked tasks are known.
LEMMA CurrentKnown ==
  ASSUME IInv, NEW k \in DOMAIN tasks, Running(k)
  PROVE  /\ Len(tasks[k]) \in Nat \ {0} /\ Current(k).node.i \in Nat
         /\ Len(tasks[k]) - 1 <= Current(k).node.i
         /\ Len(tasks) \in Nat /\ DOMAIN tasks = 1 .. Len(tasks)
         /\ \A m \in ToSet(Current(k).forked) : m \in 1 .. Len(tasks) /\ k < m
         /\ Current(k).forked \in Seq(Nat)
         /\ Current(k).node \in Node
<1>1. /\ Len(tasks[k]) \in Nat \ {0} /\ Len(tasks[k]) \in DOMAIN tasks[k]
      /\ Current(k) = tasks[k][Len(tasks[k])] /\ Current(k).node.i \in Nat
      /\ Current(k).forked \in Seq(Nat) /\ Current(k).node \in Node
  BY CurrentFrame, MAssumption DEF IInv, Node
<1>2. Len(tasks) \in Nat /\ DOMAIN tasks = 1 .. Len(tasks)
  BY LenProperties DEF IInv, Typed
<1>3. Len(tasks[k]) - 1 <= Current(k).node.i
  BY <1>1 DEF IInv, Depth
<1>4. \A m \in ToSet(Current(k).forked) : m \in DOMAIN tasks /\ k < m
  BY <1>1 DEF IInv, ForkedLater
<1> QED BY <1>1, <1>2, <1>3, <1>4

LEMMA ForkKept ==
  ASSUME IInv, NEW k \in DOMAIN tasks, Fork(k)
  PROVE  Depth' /\ ForkedLater' /\ Awaited'
<1> DEFINE n == Current(k).node
           g == Call(Child(cols, n))
           L == Len(tasks[k])
           p == 1
<1>1. Running(k) /\ n.i < M /\ Canonical(cols, n)
  BY DEF Fork, Trying
<1>2. Typed /\ Depth /\ ForkedLater /\ Awaited
  BY DEF IInv
<1>3. PICK f \in GoodFrames :
        /\ Moved(k, <<f>>, <<<<g>>>>)
        /\ f.node = Advance(n) /\ f.registered
        /\ f.forked = Append(Current(k).forked, Len(tasks) + 1)
  BY <1>2, ForkMoves
<1>4. /\ L \in Nat \ {0} /\ n.i \in Nat /\ L - 1 <= n.i
      /\ Len(tasks) \in Nat /\ DOMAIN tasks = 1 .. Len(tasks)
      /\ \A m \in ToSet(Current(k).forked) : m \in 1 .. Len(tasks) /\ k < m
      /\ Current(k).forked \in Seq(Nat) /\ n \in Node
  BY <1>1, CurrentKnown
<1>5. g.node.i = n.i + 1 /\ g.forked = <<>>
  BY <1>1, <1>2, ChildFrame
<1>6. f.node.i = n.i + 1
  BY <1>3, <1>4 DEF Advance, Node
<1>7. ToSet(f.forked) = ToSet(Current(k).forked) \cup {Len(tasks) + 1}
  BY <1>3, <1>4, ForkedSets
<1> DEFINE ns == <<f>>
           h == <<g>>
           new == <<h>>
<1>8. /\ Len(ns) = p /\ Len(new) = p /\ ns[1] = f /\ p \in Nat /\ 1 .. p = {1}
      /\ new[1] = h /\ DOMAIN h = {1} /\ Len(h) = 1 /\ h[1] = g
  OBVIOUS
<1>9. Moved(k, ns, new)
  BY <1>3
<1>10. ToSet(g.forked) = {}
  BY <1>5 DEF ToSet
<1> HIDE DEF ns, new, h, g, n
<1>11. Depth'
  <2>1. \A d \in 1 .. p : /\ ns[d].node.i \in Nat
                          /\ L - 2 + d <= ns[d].node.i
                          /\ d < p => L - 1 + d <= ns[d].node.i
    BY <1>4, <1>6, <1>8 DEF p
  <2>2. \A j \in 1 .. p : DOMAIN new[j] = {1} /\ Len(new[j]) = 1 /\ new[j][1].node.i \in Nat
    BY <1>4, <1>5, <1>8
  <2> HIDE DEF p
  <2> QED BY <1>1, <1>2, <1>8, <1>9, <2>1, <2>2, DepthKept
<1>12. ForkedLater' /\ Awaited'
  <2>1. \A d \in 1 .. p : \A m \in ToSet(ns[d].forked) : m \in 1 .. Len(tasks) + p /\ k < m
    BY <1>4, <1>7, <1>8 DEF p
  <2>2. \A m \in ToSet(Current(k).forked) :
          Done(m) \/ \E d \in 1 .. p : m \in ToSet(ns[d].forked)
    BY <1>7, <1>8
  <2>3. \A j \in 1 .. p : DOMAIN new[j] = {1} /\ ToSet(new[j][1].forked) = {}
    BY <1>8, <1>10
  <2>4. \A j \in 1 .. p : \E d \in 1 .. p : Len(tasks) + j \in ToSet(ns[d].forked)
    BY <1>7, <1>8
  <2> HIDE DEF p
  <2> QED BY <1>1, <1>2, <1>8, <1>9, <2>1, <2>2, <2>3, <2>4, ForksKept
<1> QED BY <1>11, <1>12

LEMMA InlineKept ==
  ASSUME IInv, NEW k \in DOMAIN tasks, Inline(k)
  PROVE  Depth' /\ ForkedLater' /\ Awaited'
<1> DEFINE n == Current(k).node
           f == Tried(k)
           g == Call(Child(cols, n))
           L == Len(tasks[k])
           p == 2
           q == 0
           ns == <<f, g>>
           new == <<>>
<1>1. Running(k) /\ n.i < M /\ Canonical(cols, n)
  BY DEF Inline, Trying
<1>2. Typed /\ Depth /\ ForkedLater /\ Awaited
  BY DEF IInv
<1>3. Moved(k, ns, new)
  BY <1>2, InlineMoves
<1>4. /\ L \in Nat \ {0} /\ n.i \in Nat /\ L - 1 <= n.i
      /\ Len(tasks) \in Nat /\ DOMAIN tasks = 1 .. Len(tasks)
      /\ \A m \in ToSet(Current(k).forked) : m \in 1 .. Len(tasks) /\ k < m
  BY <1>1, CurrentKnown
<1>5. g.node.i = n.i + 1 /\ g.forked = <<>>
  BY <1>1, <1>2, ChildFrame
<1>6. f.node.i = n.i + 1 /\ f.forked = Current(k).forked
  BY <1>1, <1>2, TriedFrame
<1>7. /\ Len(ns) = p /\ Len(new) = q /\ ns[1] = f /\ ns[2] = g /\ p \in Nat /\ q \in Nat
      /\ 1 .. p = {1, 2} /\ 1 .. q = {} /\ \A m \in Int : m + q = m
  OBVIOUS
<1>8. ToSet(g.forked) = {}
  BY <1>5 DEF ToSet
<1> HIDE DEF ns, new, f, g, n, q
<1>9. Depth'
  <2>1. \A d \in 1 .. p : /\ ns[d].node.i \in Nat
                          /\ L - 2 + d <= ns[d].node.i
                          /\ d < p => L - 1 + d <= ns[d].node.i
    BY <1>4, <1>5, <1>6, <1>7 DEF p
  <2>2. \A j \in 1 .. q : DOMAIN new[j] = {1} /\ Len(new[j]) = 1 /\ new[j][1].node.i \in Nat
    BY <1>7
  <2> HIDE DEF p
  <2> QED BY <1>1, <1>2, <1>3, <1>7, <2>1, <2>2, DepthKept
<1>10. ForkedLater' /\ Awaited'
  <2>1. \A d \in 1 .. p : \A m \in ToSet(ns[d].forked) : m \in 1 .. Len(tasks) + q /\ k < m
    <3>1. \A m \in ToSet(ns[1].forked) : m \in 1 .. Len(tasks) + q /\ k < m
      BY <1>4, <1>6, <1>7
    <3>2. ToSet(ns[2].forked) = {}
      BY <1>7, <1>8
    <3> HIDE DEF p
    <3> QED BY <1>7, <3>1, <3>2
  <2>2. \A m \in ToSet(Current(k).forked) :
          Done(m) \/ \E d \in 1 .. p : m \in ToSet(ns[d].forked)
    BY <1>6, <1>7
  <2>3. /\ \A j \in 1 .. q : DOMAIN new[j] = {1} /\ ToSet(new[j][1].forked) = {}
        /\ \A j \in 1 .. q : \E d \in 1 .. p : Len(tasks) + j \in ToSet(ns[d].forked)
    BY <1>7
  <2> HIDE DEF p
  <2> QED BY <1>1, <1>2, <1>3, <1>7, <2>1, <2>2, <2>3, ForksKept
<1> QED BY <1>9, <1>10

LEMMA ReturnKept ==
  ASSUME IInv, NEW k \in DOMAIN tasks, Return(k)
  PROVE  Depth' /\ ForkedLater' /\ Awaited'
<1> DEFINE q == 0
           ns == <<>>
<1>1. Running(k) /\ Current(k).forked = <<>>
  BY DEF Return, Joining
<1>2. Typed /\ Depth /\ ForkedLater /\ Awaited
  BY DEF IInv
<1>3. Moved(k, ns, ns)
  BY <1>2, ReturnMoves
<1>4. ToSet(Current(k).forked) = {}
  BY <1>1 DEF ToSet
<1>5. Len(ns) = q /\ q \in Nat /\ 1 .. q = {}
  OBVIOUS
<1> HIDE DEF ns, q
<1>6. Depth'
  <2>1. \A d \in 1 .. q : /\ ns[d].node.i \in Nat
                          /\ Len(tasks[k]) - 2 + d <= ns[d].node.i
                          /\ d < q => Len(tasks[k]) - 1 + d <= ns[d].node.i
    BY <1>5
  <2>2. \A j \in 1 .. q : DOMAIN ns[j] = {1} /\ Len(ns[j]) = 1 /\ ns[j][1].node.i \in Nat
    BY <1>5
  <2> QED BY <1>1, <1>2, <1>3, <1>5, <2>1, <2>2, DepthKept
<1>7. ForkedLater' /\ Awaited'
  <2>1. /\ \A d \in 1 .. q : \A m \in ToSet(ns[d].forked) : m \in 1 .. Len(tasks) + q /\ k < m
        /\ \A j \in 1 .. q : DOMAIN ns[j] = {1} /\ ToSet(ns[j][1].forked) = {}
        /\ \A j \in 1 .. q : \E d \in 1 .. q : Len(tasks) + j \in ToSet(ns[d].forked)
    BY <1>5
  <2>2. \A m \in ToSet(Current(k).forked) :
          Done(m) \/ \E d \in 1 .. q : m \in ToSet(ns[d].forked)
    BY <1>4
  <2> QED BY <1>1, <1>2, <1>3, <1>5, <2>1, <2>2, ForksKept
<1> QED BY <1>6, <1>7

LEMMA TypedKept ==
  ASSUME Typed, NEW k \in DOMAIN tasks, Running(k), NEW ns, NEW new, Moved(k, ns, new),
         UNCHANGED cols, Len(new) \in Nat, puts' \in Seq(SUBSET Objects)
  PROVE  Typed'
<1>1. GoodFrames' = GoodFrames
  BY DEF GoodFrames
<1>2. tasks' \in Seq(Seq(GoodFrames)) /\ DOMAIN tasks' = 1 .. Len(tasks) + Len(new)
  BY DEF Moved
<1>3. 1 \in DOMAIN tasks /\ DOMAIN tasks = 1 .. Len(tasks) /\ Len(tasks) \in Nat
  BY LenProperties DEF Typed
<1>4. 1 \in DOMAIN tasks'
  BY <1>2, <1>3
<1>5. cols' \in AllContexts
  BY DEF Typed
<1> QED BY <1>1, <1>2, <1>4, <1>5 DEF Typed

LEMMA StepKeeps ==
  ASSUME IInv, NEW k \in DOMAIN tasks, Step(k)
  PROVE  IInv'
<1>1. Typed /\ Running(k)
  BY DEF IInv, Step, Register, Reject, Fork, Inline, Join, Return, Trying, Joining
<1>2. /\ Current(k).node.i \in Nat /\ Current(k).forked \in Seq(Nat)
      /\ Current(k).node \in Node
  BY <1>1, CurrentKnown
<1>3. puts \in Seq(SUBSET Objects)
  BY <1>1 DEF Typed
<1>4. CASE Register(k)
  <2>1. PICK f \in GoodFrames :
          Moved(k, <<f>>, <<>>) /\ f.node = Current(k).node /\ f.forked = Current(k).forked
    BY <1>1, <1>4, RegisterMoves
  <2>2. Depth' /\ ForkedLater' /\ Awaited'
    BY <1>1, <1>2, <2>1, OneFrameKept
  <2>3. Current(k).node.ext \in SUBSET Objects
    BY <1>2 DEF Node
  <2>4. puts' \in Seq(SUBSET Objects)
    BY <1>3, <1>4, <2>3, AppendProperties DEF Register
  <2>5. Typed'
    BY <1>1, <1>4, <2>1, <2>4, TypedKept DEF Register
  <2> QED BY <2>2, <2>5 DEF IInv
<1>5. CASE Reject(k)
  <2> DEFINE f == Tried(k)
  <2>1. f \in GoodFrames /\ Moved(k, <<f>>, <<>>) /\ Current(k).node.i < M
    BY <1>1, <1>5, RejectMoves
  <2>2. f.node.i = Current(k).node.i + 1 /\ f.forked = Current(k).forked
    BY <1>1, <2>1, TriedFrame
  <2> HIDE DEF f
  <2>3. f.node.i >= Current(k).node.i
    BY <1>2, <2>2
  <2>4. Depth' /\ ForkedLater' /\ Awaited'
    BY <1>1, <2>1, <2>2, <2>3, OneFrameKept
  <2>5. Typed'
    BY <1>1, <1>3, <1>5, <2>1, TypedKept DEF Reject
  <2> QED BY <2>4, <2>5 DEF IInv
<1>6. CASE Fork(k)
  <2>1. \E f \in GoodFrames : Moved(k, <<f>>, <<<<Call(Child(cols, Current(k).node))>>>>)
    BY <1>1, <1>6, ForkMoves
  <2>2. Typed'
    BY <1>1, <1>3, <1>6, <2>1, TypedKept DEF Fork
  <2> QED BY <1>6, <2>2, ForkKept DEF IInv
<1>7. CASE Inline(k)
  <2>1. Moved(k, <<Tried(k), Call(Child(cols, Current(k).node))>>, <<>>)
    BY <1>1, <1>7, InlineMoves
  <2>2. Typed'
    BY <1>1, <1>3, <1>7, <2>1, TypedKept DEF Inline
  <2> QED BY <1>7, <2>2, InlineKept DEF IInv
<1>8. CASE Join(k)
  <2>1. PICK f \in GoodFrames :
          /\ Moved(k, <<f>>, <<>>) /\ f.node = Current(k).node
          /\ f.forked = Front(Current(k).forked)
    BY <1>1, <1>8, JoinMoves
  <2>2. /\ ToSet(Current(k).forked) = ToSet(f.forked) \cup {Last(Current(k).forked)}
        /\ Done(Last(Current(k).forked))
    BY <1>2, <1>8, <2>1, ForkedSets DEF Join
  <2>3. Depth' /\ ForkedLater' /\ Awaited'
    BY <1>1, <1>2, <2>1, <2>2, OneFrameKept
  <2>4. Typed'
    BY <1>1, <1>3, <1>8, <2>1, TypedKept DEF Join
  <2> QED BY <2>3, <2>4 DEF IInv
<1>9. CASE Return(k)
  <2>1. Moved(k, <<>>, <<>>)
    BY <1>1, <1>9, ReturnMoves
  <2>2. Typed'
    BY <1>1, <1>3, <1>9, <2>1, TypedKept DEF Return
  <2> QED BY <1>9, <2>2, ReturnKept DEF IInv
<1> QED BY <1>4, <1>5, <1>6, <1>7, <1>8, <1>9 DEF Step

\* The invariant, of every state.
THEOREM Invariant == Spec => []IInv
<1>1. IInv /\ [Next]_vars => IInv'
  <2> SUFFICES ASSUME IInv, [Next]_vars PROVE IInv'
    OBVIOUS
  <2>1. CASE \E k \in DOMAIN tasks : Step(k)
    BY <2>1, StepKeeps
  <2>2. CASE UNCHANGED <<cols, tasks, puts>>
    BY <2>2 DEF IInv, Typed, Depth, ForkedLater, Awaited, Awaits, Running, GoodFrames
  <2>3. Collect \/ Terminated \/ UNCHANGED vars => UNCHANGED <<cols, tasks, puts>>
    BY DEF Collect, Terminated, vars
  <2> QED BY <2>1, <2>2, <2>3 DEF Next
<1> QED BY <1>1, Initially, PTL DEF Spec

LEMMA LeastTask ==
  ASSUME NEW T, T \subseteq Nat, T # {}
  PROVE  \E m \in T : \A j \in T : ~(j < m)
<1> DEFINE R == OpToRel(<, Nat)
<1>1. IsWellFoundedOn(R, Nat)
  BY NatLessThanWellFounded
<1>2. \A x, y \in Nat : <<x, y>> \in R <=> x < y
  BY DEF OpToRel
<1> HIDE DEF R
<1>3. PICK m \in T : \A j \in T : ~(<<j, m>> \in R)
  BY <1>1, WFMin
<1> QED BY <1>2, <1>3

LEMMA NoneLeftNow == IInv => NothingLeftBehind
<1> SUFFICES ASSUME IInv PROVE NothingLeftBehind
  OBVIOUS
<1>1. \A k \in DOMAIN tasks \ {1} :
        Running(k) => \E j \in DOMAIN tasks : \E d \in DOMAIN tasks[j] :
                        k \in ToSet(tasks[j][d].forked)
  BY DEF IInv, Awaited, Awaits
<1>2. ASSUME Done(1), NEW k \in DOMAIN tasks, ~Done(k) PROVE FALSE
  <2> DEFINE T == {j \in DOMAIN tasks : Running(j)}
  <2>1. DOMAIN tasks \subseteq Nat
    BY LenProperties DEF IInv, Typed
  <2>2. T \subseteq Nat /\ T # {}
    BY <1>2, <2>1 DEF Running, Done
  <2>3. PICK m \in T : \A j \in T : ~(j < m)
    BY <2>2, LeastTask
  <2>4. m \in DOMAIN tasks \ {1} /\ Running(m)
    BY <1>2, <2>3 DEF Running, Done
  <2>5. PICK j \in DOMAIN tasks :
               \E d \in DOMAIN tasks[j] : m \in ToSet(tasks[j][d].forked)
    BY <1>1, <2>4
  <2>6. j < m
    BY <2>5 DEF IInv, ForkedLater
  <2>7. Running(j)
    BY <2>5 DEF Running
  <2> QED BY <2>3, <2>5, <2>6, <2>7
<1> QED BY <1>1, <1>2 DEF NothingLeftBehind

\* No task outlives the one that forked it, and when the first task is done,
\* so is every other, whatever the pool has run when: pool.invoke returns with
\* no task behind, as the least task that runs would be awaited by a lesser one.
THEOREM NoneLeft == Spec => []NothingLeftBehind
BY NoneLeftNow, Invariant, PTL

-----------------------------------------------------------------------------
(* Each concept is registered, or to be registered, in one place.          *)

\* A call answers for its own concept until it has registered it, and for
\* those still to be found from its node.
Answers(x, f, c) == (~f.registered /\ f.node.ext = c.ext) \/ Below(x, f.node, c)

PutPlaces(ps, c) == {<<"put", j>> : j \in {j \in DOMAIN ps : ps[j] = c.ext}}

CallPlaces(x, ts, c) ==
  UNION {{<<"call", k, d>> : d \in {d \in DOMAIN ts[k] : Answers(x, ts[k][d], c)}}
         : k \in DOMAIN ts}

Places(x, ts, ps, c) == PutPlaces(ps, c) \cup CallPlaces(x, ts, c)

PlacesOf(c) == Places(cols, tasks, puts, c)

OnePlace == \A c \in Good : \E h : PlacesOf(c) = {h}

LEMMA Tags ==
  /\ \A j, m : <<"put", j>> = <<"put", m>> <=> j = m
  /\ \A k, d, l, m : <<"call", k, d>> = <<"call", l, m>> <=> k = l /\ d = m
  /\ \A j, k, d : <<"put", j>> # <<"call", k, d>>
OBVIOUS

LEMMA PlaceForms ==
  ASSUME NEW x, NEW ts, NEW ps, NEW c
  PROVE  /\ \A j : <<"put", j>> \in Places(x, ts, ps, c) <=> j \in DOMAIN ps /\ ps[j] = c.ext
         /\ \A k, d : <<"call", k, d>> \in Places(x, ts, ps, c)
                        <=> k \in DOMAIN ts /\ d \in DOMAIN ts[k] /\ Answers(x, ts[k][d], c)
         /\ \A h \in Places(x, ts, ps, c) :
              (\E j : h = <<"put", j>>) \/ (\E k, d : h = <<"call", k, d>>)
<1>1. /\ \A j : <<"put", j>> \in PutPlaces(ps, c) <=> j \in DOMAIN ps /\ ps[j] = c.ext
      /\ \A h \in PutPlaces(ps, c) : \E j : h = <<"put", j>>
  BY Tags DEF PutPlaces
<1>2. /\ \A k, d : <<"call", k, d>> \in CallPlaces(x, ts, c)
                     <=> k \in DOMAIN ts /\ d \in DOMAIN ts[k] /\ Answers(x, ts[k][d], c)
      /\ \A h \in CallPlaces(x, ts, c) : \E k, d : h = <<"call", k, d>>
  BY Tags DEF CallPlaces
<1> QED BY <1>1, <1>2, Tags DEF Places

\* What a step makes of the places in calls.
LEMMA CallsMoved ==
  ASSUME Typed, NEW k \in DOMAIN tasks, Running(k), NEW ns, NEW new, Moved(k, ns, new),
         NEW p \in Nat, Len(ns) = p, NEW q \in Nat, Len(new) = q,
         \A j \in 1 .. q : DOMAIN new[j] = {1}, NEW c
  PROVE  LET L == Len(tasks[k])
             H == Places(cols, tasks, puts, c)
             G == Places(cols, tasks', puts', c)
         IN  /\ <<"call", k, L>> \in H <=> Answers(cols, Current(k), c)
             /\ \A d \in 1 .. p : <<"call", k, L - 1 + d>> \in G <=> Answers(cols, ns[d], c)
             /\ \A j \in 1 .. q :
                  <<"call", Len(tasks) + j, 1>> \in G <=> Answers(cols, new[j][1], c)
             /\ \A d : <<"call", k, d>> \in H => d \in 1 .. L
             /\ \A j, d : <<"call", j, d>> \in H => j \in 1 .. Len(tasks)
             /\ p = 0 => <<"call", k, L>> \notin G
<1> DEFINE L == Len(tasks[k])
           H == Places(cols, tasks, puts, c)
           G == Places(cols, tasks', puts', c)
<1>1. /\ Len(tasks) \in Nat /\ DOMAIN tasks = 1 .. Len(tasks)
      /\ DOMAIN tasks' = 1 .. Len(tasks) + q
      /\ \A i \in DOMAIN tasks' : Len(tasks'[i]) \in Nat /\ DOMAIN tasks'[i] = 1 .. Len(tasks'[i])
      /\ Len(tasks'[k]) = L - 1 + p
  BY MovedLengths
<1>2. L \in Nat \ {0} /\ DOMAIN tasks[k] = 1 .. L /\ Current(k) = tasks[k][L]
  BY CurrentFrame
<1>3. /\ \A d \in 1 .. p : tasks'[k][L - 1 + d] = ns[d]
      /\ \A j \in 1 .. q : tasks'[Len(tasks) + j] = new[j]
  BY DEF Moved
<1>4. k \in DOMAIN tasks' /\ DOMAIN tasks'[k] = 1 .. L - 1 + p
  BY <1>1
<1> HIDE DEF H, G, L
<1>5. <<"call", k, L>> \in H <=> Answers(cols, Current(k), c)
  BY <1>2, PlaceForms DEF H
<1>6. ASSUME NEW d \in 1 .. p
      PROVE  <<"call", k, L - 1 + d>> \in G <=> Answers(cols, ns[d], c)
  <2> DEFINE e == L - 1 + d
  <2>1. e \in DOMAIN tasks'[k]
    BY <1>2, <1>4
  <2>2. tasks'[k][e] = ns[d]
    BY <1>3
  <2> HIDE DEF e
  <2>3. <<"call", k, e>> \in G
          <=> k \in DOMAIN tasks' /\ e \in DOMAIN tasks'[k] /\ Answers(cols, tasks'[k][e], c)
    BY PlaceForms DEF G
  <2>4. <<"call", k, e>> \in G <=> Answers(cols, ns[d], c)
    BY <1>4, <2>1, <2>2, <2>3
  <2> QED BY <2>4 DEF e
<1>7. ASSUME NEW j \in 1 .. q
      PROVE  <<"call", Len(tasks) + j, 1>> \in G <=> Answers(cols, new[j][1], c)
  <2>1. Len(tasks) + j \in DOMAIN tasks'
    BY <1>1
  <2>2. tasks'[Len(tasks) + j] = new[j] /\ 1 \in DOMAIN new[j]
    BY <1>3
  <2> QED BY <2>1, <2>2, PlaceForms DEF G
<1>8. /\ \A d : <<"call", k, d>> \in H => d \in 1 .. L
      /\ \A j, d : <<"call", j, d>> \in H => j \in 1 .. Len(tasks)
  BY <1>1, <1>2, PlaceForms DEF H
<1>9. p = 0 => <<"call", k, L>> \notin G
  <2> SUFFICES ASSUME p = 0, L \in DOMAIN tasks'[k] PROVE FALSE
    BY PlaceForms DEF G
  <2> QED BY <1>2, <1>4
<1> QED BY <1>5, <1>6, <1>7, <1>8, <1>9 DEF H, G, L

\* Places outside A answer as before when A has those that the step replaces.
LEMMA SameElsewhere ==
  ASSUME Typed, NEW k \in DOMAIN tasks, Running(k), NEW ns, NEW new, Moved(k, ns, new),
         NEW p \in Nat, Len(ns) = p, NEW q \in Nat, Len(new) = q,
         \A j \in 1 .. q : DOMAIN new[j] = {1}, NEW c, NEW A,
         <<"call", k, Len(tasks[k])>> \in A,
         \A d \in 1 .. p : <<"call", k, Len(tasks[k]) - 1 + d>> \in A,
         \A j \in 1 .. q : <<"call", Len(tasks) + j, 1>> \in A,
         \A j : <<"put", j>> \notin A =>
           (j \in DOMAIN puts' /\ puts'[j] = c.ext <=> j \in DOMAIN puts /\ puts[j] = c.ext)
  PROVE  \A g : g \notin A =>
           (g \in Places(cols, tasks', puts', c) <=> g \in Places(cols, tasks, puts, c))
<1> DEFINE L == Len(tasks[k])
           H == Places(cols, tasks, puts, c)
           G == Places(cols, tasks', puts', c)
<1> SUFFICES ASSUME NEW g, g \notin A PROVE g \in G <=> g \in H
  OBVIOUS
<1>1. /\ Len(tasks) \in Nat /\ DOMAIN tasks = 1 .. Len(tasks)
      /\ DOMAIN tasks' = 1 .. Len(tasks) + q
      /\ \A i \in DOMAIN tasks' : Len(tasks'[i]) \in Nat /\ DOMAIN tasks'[i] = 1 .. Len(tasks'[i])
      /\ Len(tasks'[k]) = L - 1 + p
  BY MovedLengths
<1>2. L \in Nat \ {0} /\ DOMAIN tasks[k] = 1 .. L
  BY CurrentFrame
<1>3. /\ \A j \in DOMAIN tasks \ {k} : tasks'[j] = tasks[j]
      /\ \A d \in 1 .. L - 1 : tasks'[k][d] = tasks[k][d]
      /\ \A j \in 1 .. q : tasks'[Len(tasks) + j] = new[j]
  BY DEF Moved
<1>4. k \in DOMAIN tasks' /\ DOMAIN tasks'[k] = 1 .. L - 1 + p
  BY <1>1
<1>5. g \in G \/ g \in H => (\E j : g = <<"put", j>>) \/ (\E j, d : g = <<"call", j, d>>)
  BY PlaceForms
<1>6. CASE \E j : g = <<"put", j>>
  <2>1. PICK j : g = <<"put", j>>
    BY <1>6
  <2> QED BY <2>1, PlaceForms
<1>7. CASE \E j, d : g = <<"call", j, d>>
  <2>1. PICK j, d : g = <<"call", j, d>>
    BY <1>7
  <2>2. /\ g \in H <=> j \in DOMAIN tasks /\ d \in DOMAIN tasks[j] /\ Answers(cols, tasks[j][d], c)
        /\ g \in G <=> j \in DOMAIN tasks' /\ d \in DOMAIN tasks'[j]
                         /\ Answers(cols, tasks'[j][d], c)
    BY <2>1, PlaceForms
  <2> HIDE DEF G, H
  <2>3. CASE j \in DOMAIN tasks /\ j # k
    <3>1. tasks'[j] = tasks[j] /\ j \in DOMAIN tasks'
      BY <1>1, <1>3, <2>3
    <3> QED BY <2>2, <2>3, <3>1
  <2>4. CASE j = k /\ d \in 1 .. L - 1
    <3>1. tasks'[k][d] = tasks[k][d]
      BY <1>3, <2>4
    <3>2. d \in DOMAIN tasks[k] /\ d \in DOMAIN tasks'[k]
      BY <1>2, <1>4, <2>4
    <3> QED BY <1>4, <2>2, <2>4, <3>1, <3>2
  <2>5. CASE j = k /\ d \notin 1 .. L - 1
    <3>1. d \notin DOMAIN tasks[k]
      <4>1. d # L
        BY <2>1, <2>5
      <4> QED BY <1>2, <2>5, <4>1
    <3>2. ASSUME d \in DOMAIN tasks'[k] PROVE FALSE
      <4> DEFINE e == d - (L - 1)
      <4>1. e \in 1 .. p /\ d = L - 1 + e
        BY <1>2, <1>4, <2>5, <3>2
      <4>2. <<"call", k, L - 1 + e>> \in A
        BY <4>1
      <4> QED BY <2>1, <2>5, <4>1, <4>2
    <3> QED BY <2>2, <2>5, <3>1, <3>2
  <2>6. CASE j \notin DOMAIN tasks
    <3>1. ASSUME j \in DOMAIN tasks', d \in DOMAIN tasks'[j] PROVE FALSE
      <4> DEFINE e == j - Len(tasks)
      <4>1. e \in 1 .. q /\ j = Len(tasks) + e
        BY <1>1, <2>6, <3>1
      <4>2. tasks'[j] = new[e]
        BY <1>3, <4>1
      <4>3. d = 1
        BY <3>1, <4>1, <4>2
      <4>4. <<"call", Len(tasks) + e, 1>> \in A
        BY <4>1
      <4> QED BY <2>1, <4>1, <4>3, <4>4
    <3> QED BY <2>2, <2>6, <3>1
  <2> QED BY <2>3, <2>4, <2>5, <2>6
<1> QED BY <1>5, <1>6, <1>7

\* conceptByExtent.put: the map answers for the concept of the call, and the
\* call for those below it only.
LEMMA RegisterOnce ==
  ASSUME Typed, NEW k \in DOMAIN tasks, Register(k),
         NEW c \in Good, \E h : PlacesOf(c) = {h}
  PROVE  \E h : PlacesOf(c)' = {h}
<1> DEFINE n == Current(k).node
           L == Len(tasks[k])
           p == 1
           q == 0
           new == <<>>
           a == <<"call", k, L>>
           b == <<"put", Len(puts) + 1>>
           A == {a, b}
           H == Places(cols, tasks, puts, c)
           G == Places(cols, tasks', puts', c)
<1>1. /\ Running(k) /\ ~Current(k).registered /\ UNCHANGED cols
      /\ puts' = Append(puts, n.ext)
  BY DEF Register
<1>2. PICK f \in GoodFrames : Moved(k, <<f>>, <<>>) /\ f.node = n /\ f.registered
  BY RegisterMoves
<1>3. L \in Nat \ {0} /\ n \in Node /\ IsConcept(cols, AsConcept(n))
  BY <1>1, CurrentFrame
<1>4. /\ Answers(cols, Current(k), c) <=> n.ext = c.ext \/ Below(cols, n, c)
      /\ Answers(cols, f, c) <=> Below(cols, n, c)
      /\ ~(n.ext = c.ext /\ Below(cols, n, c))
  BY <1>1, <1>2, <1>3 DEF Answers, Below, IsConcept, AsConcept, Good
<1>5. /\ Len(puts) \in Nat /\ DOMAIN puts = 1 .. Len(puts)
      /\ DOMAIN puts' = 1 .. Len(puts) + 1
      /\ \A j \in 1 .. Len(puts) : puts'[j] = puts[j]
      /\ puts'[Len(puts) + 1] = n.ext
  <2>1. puts \in Seq(SUBSET Objects) /\ n.ext \in SUBSET Objects
    BY <1>3 DEF Typed, Node
  <2> QED BY <1>1, <2>1, AppendProperties, LenProperties
<1> DEFINE ns == <<f>>
<1>6. /\ Len(ns) = p /\ Len(new) = q /\ ns[1] = f /\ p \in Nat /\ q \in Nat
      /\ 1 .. p = {1} /\ 1 .. q = {} /\ L - 1 + 1 = L
  BY <1>3
<1>7. Moved(k, ns, new)
  BY <1>2
<1> HIDE DEF ns, new, p, q, n, L
<1>8. /\ a \in H <=> Answers(cols, Current(k), c)
      /\ a \in G <=> Answers(cols, f, c)
  <2>1. \A j \in 1 .. q : DOMAIN new[j] = {1}
    BY <1>6
  <2>2. /\ <<"call", k, L>> \in H <=> Answers(cols, Current(k), c)
        /\ \A d \in 1 .. p : <<"call", k, L - 1 + d>> \in G <=> Answers(cols, ns[d], c)
    BY <1>1, <1>6, <1>7, <2>1, CallsMoved DEF L
  <2> QED BY <1>6, <2>2
<1>9. b \notin H /\ (b \in G <=> n.ext = c.ext)
  BY <1>5, PlaceForms
<1>10. \A g : g \notin A => (g \in G <=> g \in H)
  <2>1. \A j : <<"put", j>> \notin A =>
          (j \in DOMAIN puts' /\ puts'[j] = c.ext <=> j \in DOMAIN puts /\ puts[j] = c.ext)
    BY <1>5
  <2>2. <<"call", k, Len(tasks[k])>> \in A
    BY DEF L
  <2>3. \A d \in 1 .. p : <<"call", k, Len(tasks[k]) - 1 + d>> \in A
    BY <1>6 DEF L
  <2>4. /\ \A j \in 1 .. q : <<"call", Len(tasks) + j, 1>> \in A
        /\ \A j \in 1 .. q : DOMAIN new[j] = {1}
    BY <1>6
  <2> HIDE DEF A
  <2> QED BY <1>1, <1>6, <1>7, <2>1, <2>2, <2>3, <2>4, SameElsewhere
<1>11. H = PlacesOf(c) /\ G = PlacesOf(c)' /\ a # b
  BY <1>1, Tags DEF PlacesOf
<1> HIDE DEF a, b, H, G
<1>12. a \in H => \E g \in A : \A h \in A : h \in G <=> h = g
  BY <1>4, <1>8, <1>9, <1>11
<1>13. a \notin H => G \cap A = {}
  BY <1>4, <1>8, <1>9
<1>14. H \cap A \subseteq {a} /\ a \in A
  BY <1>9
<1> HIDE DEF A
<1>15. \E h : H = {h}
  BY <1>11
<1>16. \E h : G = {h}
  BY ONLY <1>10, <1>12, <1>13, <1>14, <1>15, AnswerMoves
<1> QED BY <1>11, <1>16

\* The frame at work answers for what it did.
LEMMA FrameStays ==
  ASSUME Typed, NEW k \in DOMAIN tasks, Running(k), NEW f, Moved(k, <<f>>, <<>>),
         NEW c, UNCHANGED <<cols, puts>>, Answers(cols, f, c) <=> Answers(cols, Current(k), c)
  PROVE  PlacesOf(c)' = PlacesOf(c)
<1> DEFINE L == Len(tasks[k])
           p == 1
           q == 0
           ns == <<f>>
           new == <<>>
           a == <<"call", k, L>>
           A == {a}
           H == Places(cols, tasks, puts, c)
           G == Places(cols, tasks', puts', c)
<1>1. L \in Nat \ {0}
  BY CurrentFrame
<1>2. /\ Len(ns) = p /\ Len(new) = q /\ ns[1] = f /\ p \in Nat /\ q \in Nat
      /\ 1 .. p = {1} /\ 1 .. q = {} /\ L - 1 + 1 = L /\ Moved(k, ns, new)
  BY <1>1
<1> HIDE DEF ns, new, p, q, L
<1>3. \A j \in 1 .. q : DOMAIN new[j] = {1}
  BY <1>2
<1>4. a \in G <=> a \in H
  <2>1. /\ <<"call", k, L>> \in H <=> Answers(cols, Current(k), c)
        /\ \A d \in 1 .. p : <<"call", k, L - 1 + d>> \in G <=> Answers(cols, ns[d], c)
    BY <1>2, <1>3, CallsMoved DEF L
  <2> QED BY <1>2, <2>1
<1>5. \A g : g \notin A => (g \in G <=> g \in H)
  <2>1. <<"call", k, Len(tasks[k])>> \in A
    BY DEF L
  <2>2. \A d \in 1 .. p : <<"call", k, Len(tasks[k]) - 1 + d>> \in A
    BY <1>2 DEF L
  <2>3. \A j \in 1 .. q : <<"call", Len(tasks) + j, 1>> \in A
    BY <1>2
  <2> HIDE DEF A
  <2> QED BY <1>2, <1>3, <2>1, <2>2, <2>3, SameElsewhere
<1>6. \A g : g \in G <=> g \in H
  BY <1>4, <1>5
<1>7. G = H
  BY <1>6
<1> QED BY <1>7 DEF PlacesOf

LEMMA RejectOnce ==
  ASSUME Typed, NEW k \in DOMAIN tasks, Reject(k), NEW c \in Good
  PROVE  PlacesOf(c)' = PlacesOf(c)
<1> DEFINE n == Current(k).node
           f == Tried(k)
<1>1. /\ Running(k) /\ Current(k).registered /\ n.i < M /\ ~Canonical(cols, n)
      /\ UNCHANGED <<cols, puts>>
  BY DEF Reject, Trying
<1>2. Moved(k, <<f>>, <<>>) /\ f.node = Advance(n) /\ f.registered
  BY <1>1, RejectMoves, TriedFrame
<1>3. n \in Node /\ IsConcept(cols, AsConcept(n))
  BY <1>1, CurrentFrame
<1> HIDE DEF f
<1>4. Answers(cols, f, c) <=> Answers(cols, Current(k), c)
  <2>1. Below(cols, n, c) <=> Below(cols, Advance(n), c)
    BY <1>1, <1>3, RejectKeeps DEF Good, Typed
  <2> QED BY <1>1, <1>2, <2>1 DEF Answers
<1> QED BY <1>1, <1>2, <1>4, FrameStays

LEMMA JoinOnce ==
  ASSUME Typed, NEW k \in DOMAIN tasks, Join(k), NEW c \in Good
  PROVE  PlacesOf(c)' = PlacesOf(c)
<1>1. Running(k) /\ Current(k).registered /\ UNCHANGED <<cols, puts>>
  BY DEF Join, Joining
<1>2. PICK f \in GoodFrames :
        Moved(k, <<f>>, <<>>) /\ f.node = Current(k).node /\ f.registered
  BY JoinMoves
<1>3. Answers(cols, f, c) <=> Answers(cols, Current(k), c)
  BY <1>1, <1>2 DEF Answers
<1> QED BY <1>1, <1>2, <1>3, FrameStays

\* A call that has tried every attribute answers for nothing.
LEMMA ReturnOnce ==
  ASSUME Typed, NEW k \in DOMAIN tasks, Return(k), NEW c \in Good
  PROVE  PlacesOf(c)' = PlacesOf(c)
<1> DEFINE n == Current(k).node
           L == Len(tasks[k])
           q == 0
           ns == <<>>
           a == <<"call", k, L>>
           A == {a}
           H == Places(cols, tasks, puts, c)
           G == Places(cols, tasks', puts', c)
<1>1. /\ Running(k) /\ Current(k).registered /\ n.i = M /\ UNCHANGED <<cols, puts>>
  BY DEF Return, Joining
<1>2. n \in Node /\ IsConcept(cols, AsConcept(n))
  BY <1>1, CurrentFrame
<1>3. ~Answers(cols, Current(k), c)
  <2>1. ~Below(cols, n, c)
    BY <1>1, <1>2, NothingBelow DEF Good, Typed
  <2> QED BY <1>1, <2>1 DEF Answers
<1>4. Moved(k, ns, ns)
  BY ReturnMoves
<1>5. Len(ns) = q /\ q \in Nat /\ 1 .. q = {} /\ q = 0
  OBVIOUS
<1> HIDE DEF ns, q, L
<1>6. \A j \in 1 .. q : DOMAIN ns[j] = {1}
  BY <1>5
<1>7. a \notin G /\ a \notin H
  <2>1. /\ <<"call", k, L>> \in H <=> Answers(cols, Current(k), c)
        /\ q = 0 => <<"call", k, L>> \notin G
    BY <1>1, <1>4, <1>5, <1>6, CallsMoved DEF L
  <2> QED BY <1>3, <1>5, <2>1
<1>8. \A g : g \notin A => (g \in G <=> g \in H)
  <2>1. <<"call", k, Len(tasks[k])>> \in A
    BY DEF L
  <2>2. /\ \A d \in 1 .. q : <<"call", k, Len(tasks[k]) - 1 + d>> \in A
        /\ \A j \in 1 .. q : <<"call", Len(tasks) + j, 1>> \in A
    BY <1>5
  <2> HIDE DEF A
  <2> QED BY <1>1, <1>4, <1>5, <1>6, <2>1, <2>2, SameElsewhere
<1>9. \A g : g \in G <=> g \in H
  BY <1>7, <1>8
<1>10. G = H
  BY <1>9
<1> QED BY <1>1, <1>10 DEF PlacesOf

\* A call that finds a child hands over to it what is to be found from it, and
\* keeps the rest.
LEMMA ChildTakesOver ==
  ASSUME Typed, NEW k \in DOMAIN tasks, Running(k), Current(k).registered,
         Current(k).node.i < M, Canonical(cols, Current(k).node), NEW c \in Good,
         NEW f, f.node = Advance(Current(k).node), f.registered
  PROVE  LET g == Call(Child(cols, Current(k).node))
         IN  /\ Answers(cols, Current(k), c) <=> Answers(cols, f, c) \/ Answers(cols, g, c)
             /\ ~(Answers(cols, f, c) /\ Answers(cols, g, c))
<1> DEFINE n == Current(k).node
           m == Child(cols, n)
           g == Call(m)
           here  == c = AsConcept(m)
           child == Below(cols, m, c)
           next  == Below(cols, Advance(n), c)
<1>1. /\ n \in Node /\ IsConcept(cols, AsConcept(n))
      /\ g.node = m /\ ~g.registered /\ IsConcept(cols, AsConcept(m))
  BY CurrentFrame, ChildFrame
<1>2. IsConcept(cols, c) /\ c = [ext |-> c.ext, int |-> c.int]
  BY DEF Good, Concept
<1>3. /\ Below(cols, n, c) <=> here \/ child \/ next
      /\ ~(here /\ child) /\ ~(here /\ next) /\ ~(child /\ next)
  <2> HIDE DEF n
  <2> QED BY <1>1, <1>2, AcceptSplits DEF Typed, n
<1>4. m.ext = c.ext <=> here
  <2> HIDE DEF m
  <2>1. /\ AsConcept(m) = [ext |-> m.ext, int |-> m.int]
        /\ AsConcept(m).ext = m.ext /\ AsConcept(m).int = m.int
    BY DEF AsConcept
  <2>2. AsConcept(m).int = Intent(cols, AsConcept(m).ext)
    BY ONLY <1>1 DEF IsConcept
  <2>3. c.int = Intent(cols, c.ext)
    BY ONLY <1>2 DEF IsConcept
  <2>4. m.int = Intent(cols, m.ext)
    BY <2>1, <2>2
  <2> HIDE DEF here
  <2>5. here <=> c = [ext |-> m.ext, int |-> m.int]
    BY <2>1 DEF here
  <2> QED BY <1>2, <2>3, <2>4, <2>5
<1> HIDE DEF m, g, here, child, next, n
<1>5. /\ Answers(cols, Current(k), c) <=> Below(cols, n, c)
      /\ Answers(cols, f, c) <=> next
      /\ Answers(cols, g, c) <=> m.ext = c.ext \/ child
  BY <1>1 DEF Answers, n, next, child
<1>6. /\ Answers(cols, Current(k), c) <=> Answers(cols, f, c) \/ Answers(cols, g, c)
      /\ ~(Answers(cols, f, c) /\ Answers(cols, g, c))
  BY <1>3, <1>4, <1>5
<1> QED BY <1>6 DEF g, m, n

\* Of places a and b, only a answered before; now one of them does if a did.
LEMMA TwoPlaces ==
  ASSUME NEW H, NEW G, NEW a, NEW b, a # b, b \notin H,
         \A g : g \notin {a, b} => (g \in G <=> g \in H),
         a \in H <=> a \in G \/ b \in G, ~(a \in G /\ b \in G),
         \E h : H = {h}
  PROVE  \E h : G = {h}
<1> DEFINE A == {a, b}
<1>1. a \in H => \E g \in A : \A h \in A : h \in G <=> h = g
  OBVIOUS
<1>2. a \notin H => G \cap A = {}
  OBVIOUS
<1>3. H \cap A \subseteq {a} /\ a \in A
  OBVIOUS
<1>4. \A g : g \notin A => (g \in G <=> g \in H)
  OBVIOUS
<1>5. \E h : H = {h}
  OBVIOUS
<1> HIDE DEF A
<1> QED BY ONLY <1>1, <1>2, <1>3, <1>4, <1>5, AnswerMoves

LEMMA ForkOnce ==
  ASSUME Typed, NEW k \in DOMAIN tasks, Fork(k),
         NEW c \in Good, \E h : PlacesOf(c) = {h}
  PROVE  \E h : PlacesOf(c)' = {h}
<1> DEFINE g == Call(Child(cols, Current(k).node))
           t == <<g>>
           new == <<t>>
           L == Len(tasks[k])
           K == Len(tasks)
           p == 1
           a == <<"call", k, L>>
           b == <<"call", K + 1, 1>>
           A == {a, b}
           H == Places(cols, tasks, puts, c)
           G == Places(cols, tasks', puts', c)
<1>1. /\ Running(k) /\ Current(k).registered /\ Current(k).node.i < M
      /\ Canonical(cols, Current(k).node) /\ UNCHANGED <<cols, puts>>
  BY DEF Fork, Trying
<1>2. PICK f \in GoodFrames :
        Moved(k, <<f>>, new) /\ f.node = Advance(Current(k).node) /\ f.registered
  BY ForkMoves
<1> DEFINE ns == <<f>>
<1>3. /\ Answers(cols, Current(k), c) <=> Answers(cols, f, c) \/ Answers(cols, g, c)
      /\ ~(Answers(cols, f, c) /\ Answers(cols, g, c))
  BY <1>1, <1>2, ChildTakesOver
<1>4. L \in Nat \ {0} /\ K \in Nat /\ k \in 1 .. K
  BY <1>1, CurrentFrame, LenProperties DEF Typed
<1>5. /\ Len(ns) = p /\ Len(new) = p /\ ns[1] = f /\ p \in Nat
      /\ 1 .. p = {1} /\ L - 1 + 1 = L /\ Moved(k, ns, new)
      /\ new[1] = t /\ DOMAIN t = {1} /\ t[1] = g
  BY <1>2, <1>4
<1> HIDE DEF ns, new, t, g, p, L, K
<1>6. \A j \in 1 .. p : DOMAIN new[j] = {1}
  BY <1>5
<1>7. /\ a \in H <=> Answers(cols, Current(k), c)
      /\ a \in G <=> Answers(cols, f, c)
      /\ b \in G <=> Answers(cols, g, c)
      /\ b \notin H
  <2>1. /\ <<"call", k, L>> \in H <=> Answers(cols, Current(k), c)
        /\ \A d \in 1 .. p : <<"call", k, L - 1 + d>> \in G <=> Answers(cols, ns[d], c)
        /\ \A j \in 1 .. p : <<"call", K + j, 1>> \in G <=> Answers(cols, new[j][1], c)
        /\ \A j, d : <<"call", j, d>> \in H => j \in 1 .. K
    BY <1>1, <1>5, <1>6, CallsMoved DEF L, K
  <2>2. K + 1 \notin 1 .. K
    BY <1>4
  <2> QED BY <1>5, <2>1, <2>2
<1>8. \A h : h \notin A => (h \in G <=> h \in H)
  <2>1. <<"call", k, Len(tasks[k])>> \in A
    BY DEF L
  <2>2. /\ \A d \in 1 .. p : <<"call", k, Len(tasks[k]) - 1 + d>> \in A
        /\ \A j \in 1 .. p : <<"call", Len(tasks) + j, 1>> \in A
    BY <1>5 DEF L, K
  <2> HIDE DEF A
  <2> QED BY <1>1, <1>5, <1>6, <2>1, <2>2, SameElsewhere
<1>9. a # b
  BY <1>4, Tags
<1>10. H = PlacesOf(c) /\ G = PlacesOf(c)'
  BY <1>1 DEF PlacesOf
<1> HIDE DEF a, b, H, G
<1>11. \E h : G = {h}
  BY <1>3, <1>7, <1>8, <1>9, <1>10, TwoPlaces
<1> QED BY <1>10, <1>11

LEMMA InlineOnce ==
  ASSUME Typed, NEW k \in DOMAIN tasks, Inline(k),
         NEW c \in Good, \E h : PlacesOf(c) = {h}
  PROVE  \E h : PlacesOf(c)' = {h}
<1> DEFINE f == Tried(k)
           g == Call(Child(cols, Current(k).node))
           ns == <<f, g>>
           new == <<>>
           L == Len(tasks[k])
           p == 2
           q == 0
           a == <<"call", k, L>>
           b == <<"call", k, L + 1>>
           A == {a, b}
           H == Places(cols, tasks, puts, c)
           G == Places(cols, tasks', puts', c)
<1>1. /\ Running(k) /\ Current(k).registered /\ Current(k).node.i < M
      /\ Canonical(cols, Current(k).node) /\ UNCHANGED <<cols, puts>>
  BY DEF Inline, Trying
<1>2. Moved(k, ns, new) /\ f.node = Advance(Current(k).node) /\ f.registered
  BY <1>1, InlineMoves, TriedFrame
<1>3. /\ Answers(cols, Current(k), c) <=> Answers(cols, f, c) \/ Answers(cols, g, c)
      /\ ~(Answers(cols, f, c) /\ Answers(cols, g, c))
  BY <1>1, <1>2, ChildTakesOver
<1>4. L \in Nat \ {0}
  BY <1>1, CurrentFrame
<1>5. /\ Len(ns) = p /\ Len(new) = q /\ ns[1] = f /\ ns[2] = g /\ p \in Nat /\ q \in Nat
      /\ 1 .. p = {1, 2} /\ 1 .. q = {} /\ L - 1 + 1 = L /\ L - 1 + 2 = L + 1
  BY <1>4
<1> HIDE DEF ns, new, f, g, p, q, L
<1>6. \A j \in 1 .. q : DOMAIN new[j] = {1}
  BY <1>5
<1>7. /\ a \in H <=> Answers(cols, Current(k), c)
      /\ a \in G <=> Answers(cols, f, c)
      /\ b \in G <=> Answers(cols, g, c)
      /\ b \notin H
  <2>1. /\ <<"call", k, L>> \in H <=> Answers(cols, Current(k), c)
        /\ \A d \in 1 .. p : <<"call", k, L - 1 + d>> \in G <=> Answers(cols, ns[d], c)
        /\ \A d : <<"call", k, d>> \in H => d \in 1 .. L
    BY <1>1, <1>2, <1>5, <1>6, CallsMoved DEF L
  <2>2. L + 1 \notin 1 .. L
    BY <1>4
  <2> QED BY <1>5, <2>1, <2>2
<1>8. \A h : h \notin A => (h \in G <=> h \in H)
  <2>1. <<"call", k, Len(tasks[k])>> \in A
    BY DEF L
  <2>2. /\ \A d \in 1 .. p : <<"call", k, Len(tasks[k]) - 1 + d>> \in A
        /\ \A j \in 1 .. q : <<"call", Len(tasks) + j, 1>> \in A
    BY <1>5 DEF L
  <2> HIDE DEF A
  <2> QED BY <1>1, <1>2, <1>5, <1>6, <2>1, <2>2, SameElsewhere
<1>9. a # b
  BY <1>4, Tags
<1>10. H = PlacesOf(c) /\ G = PlacesOf(c)'
  BY <1>1 DEF PlacesOf
<1> HIDE DEF a, b, H, G
<1>11. \E h : G = {h}
  BY <1>3, <1>7, <1>8, <1>9, <1>10, TwoPlaces
<1> QED BY <1>10, <1>11

LEMMA OnceInitially == Init => OnePlace
<1> SUFFICES ASSUME Init, NEW c \in Good PROVE \E h : PlacesOf(c) = {h}
  BY DEF OnePlace
<1> DEFINE f == Call(Root(cols))
           t == <<f>>
           H == Places(cols, tasks, puts, c)
<1>1. cols \in AllContexts /\ tasks = <<t>> /\ puts = <<>>
  BY ContextsAssumption DEF Init
<1>2. IsConcept(cols, c) /\ c = [ext |-> c.ext, int |-> c.int]
  BY DEF Good, Concept
<1>3. Below(cols, Root(cols), c) <=> c # Top(cols)
  BY <1>1, <1>2, AllBelowRoot
<1>4. c = Top(cols) => Root(cols).ext = c.ext
  BY DEF Top, Root
<1>5. Answers(cols, f, c)
  <2>1. ~f.registered /\ f.node = Root(cols)
    BY DEF Call
  <2> QED BY <1>3, <1>4, <2>1 DEF Answers
<1> HIDE DEF f
<1>6. DOMAIN tasks = {1} /\ tasks[1] = t /\ DOMAIN t = {1} /\ t[1] = f /\ DOMAIN puts = {}
  BY <1>1
<1> HIDE DEF t
<1>7. <<"call", 1, 1>> \in H
  BY <1>5, <1>6, PlaceForms
<1>8. \A h \in H : h = <<"call", 1, 1>>
  BY <1>6, PlaceForms
<1>9. H = {<<"call", 1, 1>>}
  BY <1>7, <1>8
<1> QED BY <1>9 DEF PlacesOf

LEMMA OnceInductive == IInv /\ OnePlace /\ [Next]_vars => OnePlace'
<1> SUFFICES ASSUME IInv, OnePlace, [Next]_vars, NEW c \in Good'
             PROVE  \E h : PlacesOf(c)' = {h}
  BY DEF OnePlace
<1>1. Typed
  BY DEF IInv
<1>2. cols' = cols
  BY DEF Next, Step, vars, Register, Reject, Fork, Inline, Join, Return, Collect, Terminated
<1>3. c \in Good
  BY <1>2 DEF Good
<1>4. \E h : PlacesOf(c) = {h}
  BY <1>3 DEF OnePlace
<1>5. ASSUME NEW k \in DOMAIN tasks, Step(k) PROVE \E h : PlacesOf(c)' = {h}
  <2>1. CASE Register(k)
    BY <1>1, <1>3, <1>4, <2>1, RegisterOnce
  <2>2. CASE Fork(k)
    BY <1>1, <1>3, <1>4, <2>2, ForkOnce
  <2>3. CASE Inline(k)
    BY <1>1, <1>3, <1>4, <2>3, InlineOnce
  <2>4. CASE Reject(k) \/ Join(k) \/ Return(k)
    BY <1>1, <1>3, <1>4, <2>4, RejectOnce, JoinOnce, ReturnOnce
  <2> QED BY <1>5, <2>1, <2>2, <2>3, <2>4 DEF Step
<1>6. CASE Collect \/ Terminated \/ UNCHANGED vars
  <2>1. UNCHANGED <<cols, tasks, puts>>
    BY <1>6 DEF Collect, Terminated, vars
  <2>2. PlacesOf(c)' = PlacesOf(c)
    BY <2>1 DEF PlacesOf
  <2> QED BY <1>4, <2>2
<1> QED BY <1>5, <1>6 DEF Next

\* OnePlace counts as ExactlyOnce does.
LEMMA PlaceCounted ==
  ASSUME IInv, NEW c, NEW h, PlacesOf(c) = {h}
  PROVE  1 = Cardinality({j \in DOMAIN puts : puts[j] = c.ext})
               + Cardinality({f \in Frames : Holds(f, c)})
<1> DEFINE P == {j \in DOMAIN puts : puts[j] = c.ext}
           F == {f \in Frames : Holds(f, c)}
           H == Places(cols, tasks, puts, c)
<1>1. H = {h}
  BY DEF PlacesOf
<1>2. ASSUME NEW k \in DOMAIN tasks
      PROVE  Len(tasks[k]) \in Nat /\ DOMAIN tasks[k] = 1 .. Len(tasks[k])
             /\ \A d \in DOMAIN tasks[k] : d \in 1 .. M + 1
  <2>1. tasks[k] \in Seq(GoodFrames)
    BY ElementOfSeq, LenProperties DEF IInv, Typed
  <2>2. Len(tasks[k]) \in Nat /\ DOMAIN tasks[k] = 1 .. Len(tasks[k])
    BY <2>1, LenProperties
  <2>3. ASSUME NEW d \in DOMAIN tasks[k] PROVE d \in 1 .. M + 1
    <3>1. tasks[k][d] \in GoodFrames
      BY <2>1, <2>2, ElementOfSeq
    <3>2. tasks[k][d].node.i \in 0 .. M
      BY <3>1 DEF GoodFrames, Frame, Node
    <3>3. d - 1 <= tasks[k][d].node.i
      BY DEF IInv, Depth
    <3>4. d \in Nat \ {0}
      BY <2>2
    <3> QED BY <3>2, <3>3, <3>4, MAssumption
  <2> QED BY <2>2, <2>3
<1>3. \A j : j \in P <=> <<"put", j>> \in H
  <2> TAKE j
  <2>1. <<"put", j>> \in H <=> j \in DOMAIN puts /\ puts[j] = c.ext
    BY PlaceForms
  <2> HIDE DEF H
  <2> QED BY <2>1
<1>4. \A k, d : <<k, d>> \in F <=> <<"call", k, d>> \in H
  <2> TAKE k, d
  <2>1. <<k, d>> \in Frames <=> k \in DOMAIN tasks /\ d \in DOMAIN tasks[k]
    BY <1>2 DEF Frames
  <2>2. Holds(<<k, d>>, c) <=> Answers(cols, tasks[k][d], c)
    BY DEF Holds, Answers
  <2>3. <<"call", k, d>> \in H
          <=> k \in DOMAIN tasks /\ d \in DOMAIN tasks[k] /\ Answers(cols, tasks[k][d], c)
    BY PlaceForms
  <2> HIDE DEF H
  <2> QED BY <2>1, <2>2, <2>3
<1>5. \A f \in F : \E k, d : f = <<k, d>>
  BY DEF Frames
<1>6. h \in H
  BY <1>1
<1>7. (\E j : h = <<"put", j>>) \/ (\E k, d : h = <<"call", k, d>>)
  BY <1>6, PlaceForms
<1> HIDE DEF P, F, H
<1>8. CASE \E j : h = <<"put", j>>
  <2>1. PICK j : h = <<"put", j>>
    BY <1>8
  <2>2. P = {j}
    BY <1>1, <1>3, <2>1, Tags
  <2>3. F = {}
    BY <1>1, <1>4, <1>5, <2>1, Tags
  <2>4. Cardinality(P) = 1 /\ Cardinality(F) = 0
    BY <2>2, <2>3, FS_Singleton, FS_EmptySet
  <2> QED BY <2>4 DEF P, F
<1>9. CASE \E k, d : h = <<"call", k, d>>
  <2>1. PICK k, d : h = <<"call", k, d>>
    BY <1>9
  <2>2. P = {}
    BY <1>1, <1>3, <2>1, Tags
  <2>3. \A f : f \in F <=> f = <<k, d>>
    BY <1>1, <1>4, <1>5, <2>1, Tags
  <2>4. F = {<<k, d>>}
    BY <2>3
  <2>5. Cardinality(P) = 0 /\ Cardinality(F) = 1
    BY <2>2, <2>4, FS_Singleton, FS_EmptySet
  <2> QED BY <2>5 DEF P, F
<1> QED BY <1>7, <1>8, <1>9

\* Each concept is put into the shared map once, or is to be put there by one
\* call only, for every context and whatever the pool runs when: "Every closed
\* extent is generated exactly once from a single canonical parent".
THEOREM RegistersOnce == Spec => []ExactlyOnce
<1>1. IInv /\ OnePlace => ExactlyOnce
  <2> SUFFICES ASSUME IInv, OnePlace, NEW c \in Concepts(cols)
               PROVE  1 = Cardinality({j \in DOMAIN puts : puts[j] = c.ext})
                            + Cardinality({f \in Frames : Holds(f, c)})
    BY DEF ExactlyOnce
  <2>1. c \in Good
    BY DEF Good, Concepts, IsConcept, Concept, Extent, Intent, Attributes
  <2>2. PICK h : PlacesOf(c) = {h}
    BY <2>1 DEF OnePlace
  <2> QED BY <2>2, PlaceCounted
<1>2. Init => OnePlace
  BY OnceInitially
<1>3. IInv /\ OnePlace /\ [Next]_vars => OnePlace'
  BY OnceInductive
<1> QED BY <1>1, <1>2, <1>3, Invariant, PTL DEF Spec

-----------------------------------------------------------------------------
(* What pool.invoke comes back with.                                       *)

OfConcepts == \A j \in DOMAIN puts : \E c \in Good : puts[j] = c.ext

Collected ==
  extents # {} => extents = ToSet(puts) /\ \A k \in DOMAIN tasks : Done(k)

LEMMA GoodConcepts == Good = Concepts(cols) /\ \A c \in Good : c = [ext |-> c.ext, int |-> c.int]
<1>1. Good \subseteq Concepts(cols)
  BY DEF Good, Concepts, IsConcept, Concept
<1>2. Concepts(cols) \subseteq Good
  BY DEF Good, Concepts, IsConcept, Concept, Extent, Intent, Attributes
<1> QED BY <1>1, <1>2 DEF Good, Concept

LEMMA OfConceptsKept == IInv /\ OfConcepts /\ [Next]_vars => OfConcepts'
<1> SUFFICES ASSUME IInv, OfConcepts, [Next]_vars PROVE OfConcepts'
  OBVIOUS
<1>1. ASSUME NEW k \in DOMAIN tasks, Register(k) PROVE OfConcepts'
  <2> DEFINE n == Current(k).node
  <2>1. /\ n \in Node /\ IsConcept(cols, AsConcept(n))
        /\ puts' = Append(puts, n.ext) /\ cols' = cols /\ puts \in Seq(SUBSET Objects)
    BY <1>1, CurrentFrame DEF Register, IInv, Typed
  <2>2. n.ext \in SUBSET Objects
    BY <2>1 DEF Node
  <2> HIDE DEF n
  <2>3. /\ Len(puts) \in Nat /\ DOMAIN puts = 1 .. Len(puts)
        /\ DOMAIN puts' = 1 .. Len(puts) + 1
        /\ \A j \in 1 .. Len(puts) : puts'[j] = puts[j]
        /\ puts'[Len(puts) + 1] = n.ext
    BY <2>1, <2>2, AppendProperties, LenProperties
  <2>4. AsConcept(n) \in Good /\ AsConcept(n).ext = n.ext
    BY <2>1 DEF Good, IsConcept, AsConcept
  <2>5. Good' = Good
    BY <2>1 DEF Good
  <2>6. ASSUME NEW j \in DOMAIN puts' PROVE \E c \in Good : puts'[j] = c.ext
    <3>1. CASE j = Len(puts) + 1
      BY <2>3, <2>4, <3>1
    <3>2. CASE j # Len(puts) + 1
      <4>1. j \in DOMAIN puts /\ puts'[j] = puts[j]
        BY <2>3, <3>2
      <4> QED BY <4>1 DEF OfConcepts
    <3> QED BY <3>1, <3>2
  <2> QED BY <2>5, <2>6 DEF OfConcepts
<1>2. ASSUME UNCHANGED <<cols, puts>> PROVE OfConcepts'
  BY <1>2 DEF OfConcepts, Good
<1>3. \/ \E k \in DOMAIN tasks : Register(k)
      \/ UNCHANGED <<cols, puts>>
  BY DEF Next, Step, vars, Reject, Fork, Inline, Join, Return, Collect, Terminated
<1> QED BY <1>1, <1>2, <1>3

LEMMA CollectedKept == IInv /\ Collected /\ [Next]_vars => Collected'
<1> SUFFICES ASSUME IInv, Collected, [Next]_vars PROVE Collected'
  OBVIOUS
<1>1. ASSUME NEW k \in DOMAIN tasks, Step(k) PROVE Collected'
  <2>1. Running(k) /\ extents' = extents
    BY <1>1 DEF Step, Register, Reject, Fork, Inline, Join, Return, Trying, Joining
  <2>2. extents = {}
    BY <2>1 DEF Collected, Running, Done
  <2> QED BY <2>1, <2>2 DEF Collected
<1>2. CASE Collect
  <2>1. Done(1) /\ extents' = ToSet(puts) /\ UNCHANGED <<cols, tasks, puts>>
    BY <1>2 DEF Collect
  <2>2. \A k \in DOMAIN tasks : Done(k)
    BY <2>1, NoneLeftNow DEF NothingLeftBehind
  <2> QED BY <2>1, <2>2 DEF Collected, Done
<1>3. CASE Terminated \/ UNCHANGED vars
  BY <1>3 DEF Terminated, vars, Collected, Done
<1> QED BY <1>1, <1>2, <1>3 DEF Next

\* The concept of an extent, and the concepts found so far.
OfExtent(X) == [ext |-> X, int |-> Intent(cols, X)]
Found == {Top(cols)} \cup {OfExtent(X) : X \in ToSet(puts)}

\* When the first task is done the extents of all concepts are registered.
LEMMA DoneIsComplete ==
  ASSUME IInv, OnePlace, OfConcepts, Done(1)
  PROVE  ToSet(puts) = {c.ext : c \in Good} /\ Found = Concepts(cols)
<1>1. \A k \in DOMAIN tasks : Done(k)
  BY NoneLeftNow DEF NothingLeftBehind
<1>2. \A X \in ToSet(puts) : \E c \in Good : X = c.ext
  BY DEF OfConcepts, ToSet
<1>3. ASSUME NEW c \in Good PROVE c.ext \in ToSet(puts)
  <2>1. PICK h : PlacesOf(c) = {h}
    BY DEF OnePlace
  <2>2. h \in Places(cols, tasks, puts, c)
    BY <2>1 DEF PlacesOf
  <2>3. (\E j : h = <<"put", j>>) \/ (\E k, d : h = <<"call", k, d>>)
    BY <2>2, PlaceForms
  <2>4. ASSUME NEW k, NEW d, h = <<"call", k, d>> PROVE FALSE
    <3>1. k \in DOMAIN tasks /\ d \in DOMAIN tasks[k]
      BY <2>2, <2>4, PlaceForms
    <3>2. tasks[k] = <<>>
      BY <1>1, <3>1 DEF Done
    <3> QED BY <3>1, <3>2
  <2>5. PICK j : h = <<"put", j>>
    BY <2>3, <2>4
  <2>6. j \in DOMAIN puts /\ puts[j] = c.ext
    BY <2>2, <2>5, PlaceForms
  <2> QED BY <2>6 DEF ToSet
<1>4. \A c \in Good : c = OfExtent(c.ext)
  BY GoodConcepts DEF Good, IsConcept, OfExtent
<1>5. Top(cols) \in Good
  <2>1. IsConcept(cols, AsConcept(Root(cols)))
    BY RootConcept DEF IInv, Typed
  <2> QED BY <2>1 DEF AsConcept, Root, Top, Good, IsConcept
<1>6. \A c \in Good : c \in Found
  BY <1>3, <1>4 DEF Found
<1>7. \A c \in Found : c \in Good
  BY <1>2, <1>4, <1>5 DEF Found
<1> QED BY <1>2, <1>3, <1>6, <1>7, GoodConcepts

\* When pool.invoke has returned, the keys of conceptByExtent are the extents
\* of the concepts, all of them and nothing else.
THEOREM InvokeIsComplete ==
  Spec => [](extents # {} => extents = {c.ext : c \in Concepts(cols)})
<1>1. IInv /\ OnePlace /\ OfConcepts /\ Collected
        => (extents # {} => extents = {c.ext : c \in Concepts(cols)})
  <2> SUFFICES ASSUME IInv, OnePlace, OfConcepts, Collected, extents # {}
               PROVE  ToSet(puts) = {c.ext : c \in Good}
    BY GoodConcepts DEF Collected
  <2>1. Done(1)
    BY DEF Collected, IInv, Typed
  <2> QED BY <2>1, DoneIsComplete
<1>2. Init => OnePlace /\ OfConcepts /\ Collected
  <2>1. Init => OfConcepts /\ Collected
    BY DEF Init, OfConcepts, Collected
  <2> QED BY <2>1, OnceInitially
<1>3. IInv /\ OnePlace /\ OfConcepts /\ Collected /\ [Next]_vars
        => OnePlace' /\ OfConcepts' /\ Collected'
  BY OnceInductive, OfConceptsKept, CollectedKept
<1> QED BY <1>1, <1>2, <1>3, Invariant, PTL DEF Spec

-----------------------------------------------------------------------------
(***************************************************************************)
(* The tasks implement the enumeration: top counts as found before its     *)
(* task registers it, and each extent put into the map after it is that of *)
(* a concept not found before.                                             *)
(***************************************************************************)
\* Nothing happens before the first task registers top.
First ==
  /\ puts = <<>> => tasks = <<<<Call(Root(cols))>>>>
  /\ puts # <<>> => 1 \in DOMAIN puts /\ puts[1] = Objects

\* The first task, before it has registered top, can do nothing else.
LEMMA FirstStep ==
  ASSUME tasks = <<<<Call(Root(cols))>>>>
  PROVE  /\ DOMAIN tasks = {1} /\ Current(1) = Call(Root(cols)) /\ ~Done(1)
         /\ Current(1).node = Root(cols)
         /\ ~Trying(1) /\ ~Joining(1)
<1> DEFINE f == Call(Root(cols))
           s == <<f>>
<1>1. DOMAIN tasks = {1} /\ tasks[1] = s
  OBVIOUS
<1>2. s # <<>> /\ Last(s) = f
  BY DEF Last
<1>3. ~f.registered /\ f.node = Root(cols)
  BY DEF Call
<1> HIDE DEF s, f
<1> QED BY <1>1, <1>2, <1>3 DEF Current, Done, Trying, Joining, f

LEMMA PutsGrow ==
  ASSUME IInv, NEW k \in DOMAIN tasks, Register(k)
  PROVE  LET X == Current(k).node.ext
         IN  /\ X \in SUBSET Objects
             /\ Len(puts) \in Nat /\ DOMAIN puts = 1 .. Len(puts)
             /\ Len(puts') = Len(puts) + 1 /\ DOMAIN puts' = 1 .. Len(puts) + 1
             /\ \A j \in 1 .. Len(puts) : puts'[j] = puts[j]
             /\ puts'[Len(puts) + 1] = X
             /\ ToSet(puts') = ToSet(puts) \cup {X}
<1> DEFINE X == Current(k).node.ext
           z == Len(puts)
<1>1. X \in SUBSET Objects /\ puts' = Append(puts, X) /\ puts \in Seq(SUBSET Objects)
  BY CurrentFrame DEF Register, IInv, Typed, Node
<1> HIDE DEF X
<1>2. /\ z \in Nat /\ DOMAIN puts = 1 .. z
      /\ Len(puts') = z + 1 /\ DOMAIN puts' = 1 .. z + 1
      /\ \A j \in 1 .. z : puts'[j] = puts[j]
      /\ puts'[z + 1] = X
  BY <1>1, AppendProperties, LenProperties
<1> HIDE DEF z
<1>3. DOMAIN puts' = DOMAIN puts \cup {z + 1} /\ \A j \in DOMAIN puts : puts'[j] = puts[j]
  BY <1>2
<1>4. ToSet(puts') = ToSet(puts) \cup {X}
  BY ONLY <1>2, <1>3 DEF ToSet
<1> QED BY <1>1, <1>2, <1>4 DEF X, z

LEMMA FirstKept == IInv /\ First /\ [Next]_vars => First'
<1> SUFFICES ASSUME IInv, First, [Next]_vars PROVE First'
  OBVIOUS
<1>1. puts \in Seq(SUBSET Objects) /\ Len(puts) \in Nat
  BY LenProperties DEF IInv, Typed
<1>2. ASSUME NEW k \in DOMAIN tasks, Register(k) PROVE First'
  <2>1. Len(puts') = Len(puts) + 1 /\ DOMAIN puts' = 1 .. Len(puts) + 1
    BY <1>2, PutsGrow
  <2>2. puts' # <<>> /\ 1 \in DOMAIN puts'
    BY <1>1, <2>1
  <2>3. CASE puts = <<>>
    <3>1. k = 1 /\ Current(1).node.ext = Objects /\ Len(puts) = 0
      BY <2>3, FirstStep DEF First, Root
    <3>2. puts'[0 + 1] = Objects
      BY <1>2, <3>1, PutsGrow
    <3> QED BY <2>2, <3>2 DEF First
  <2>4. CASE puts # <<>>
    <3>1. 1 \in DOMAIN puts /\ puts[1] = Objects
      BY <2>4 DEF First
    <3>2. puts'[1] = puts[1]
      BY <1>2, <3>1, PutsGrow
    <3> QED BY <2>2, <3>1, <3>2 DEF First
  <2> QED BY <2>3, <2>4
<1>3. ASSUME NEW k \in DOMAIN tasks, Step(k), ~Register(k) PROVE First'
  <2>1. puts' = puts /\ (Trying(k) \/ Joining(k)) /\ cols' = cols
    BY <1>3 DEF Step, Reject, Fork, Inline, Join, Return
  <2>2. puts # <<>>
    BY <2>1, FirstStep DEF First
  <2> QED BY <2>1, <2>2 DEF First
<1>4. CASE Collect \/ Terminated \/ UNCHANGED vars
  <2>1. UNCHANGED <<cols, tasks, puts>>
    BY <1>4 DEF Collect, Terminated, vars
  <2> QED BY <2>1 DEF First, Call, Root, Intent
<1> QED BY <1>2, <1>3, <1>4 DEF Next

\* A registered extent is that of a concept not found before, top apart.
LEMMA RegisterFinds ==
  ASSUME IInv, OnePlace, First, NEW k \in DOMAIN tasks, Register(k)
  PROVE  /\ UNCHANGED <<cols, extents>>
         /\ puts = <<>> => Found' = Found /\ Len(puts') = 1
         /\ puts # <<>> =>
              /\ \E c \in Concepts(cols) : c \notin Found /\ Found' = Found \cup {c}
              /\ puts' # <<>> /\ Len(puts') = Len(puts) + 1
<1> DEFINE f == Current(k)
           X == f.node.ext
           c == AsConcept(f.node)
           L == Len(tasks[k])
<1>1. UNCHANGED <<cols, extents>> /\ Running(k) /\ ~f.registered
  BY DEF Register
<1>2. L \in DOMAIN tasks[k] /\ f = tasks[k][L] /\ IsConcept(cols, c)
  BY <1>1, CurrentFrame DEF IInv
<1>3. c \in Good /\ c.ext = X /\ c = OfExtent(X)
  BY <1>2 DEF Good, IsConcept, AsConcept, OfExtent
<1>4. /\ Len(puts) \in Nat /\ Len(puts') = Len(puts) + 1
      /\ ToSet(puts') = ToSet(puts) \cup {X}
  BY PutsGrow
<1>5. <<"call", k, L>> \in Places(cols, tasks, puts, c)
  BY <1>1, <1>2, <1>3, PlaceForms DEF Answers
<1> HIDE DEF f, L
<1>6. ASSUME NEW j \in DOMAIN puts, puts[j] = c.ext PROVE FALSE
  <2>1. <<"put", j>> \in Places(cols, tasks, puts, c)
    BY <1>6, PlaceForms
  <2>2. \E h : PlacesOf(c) = {h}
    BY <1>3 DEF OnePlace
  <2> HIDE DEF c
  <2> QED BY <1>5, <2>1, <2>2, Tags DEF PlacesOf
<1> HIDE DEF c, X
<1>7. \A Y : OfExtent(Y)' = OfExtent(Y)
  BY <1>1 DEF OfExtent, Intent
<1>8. Top(cols)' = Top(cols) /\ OfExtent(Objects) = Top(cols)
  BY <1>1 DEF Top, OfExtent, Intent
<1>9. Found' = Found \cup {c}
  BY <1>3, <1>4, <1>7, <1>8 DEF Found
<1>10. CASE puts = <<>>
  <2>1. k = 1 /\ X = Objects /\ Len(puts) = 0
    BY <1>10, FirstStep DEF First, Root, X, f
  <2>2. c \in Found
    BY <1>3, <1>8, <2>1 DEF Found
  <2> QED BY <1>1, <1>4, <1>9, <1>10, <2>1, <2>2
<1>11. CASE puts # <<>>
  <2>1. X # Objects /\ X \notin ToSet(puts)
    BY <1>3, <1>6, <1>11 DEF First, ToSet
  <2>2. \A Y : OfExtent(Y).ext = Y
    BY DEF OfExtent
  <2>3. c \notin Found
    BY <1>3, <1>8, <2>1, <2>2 DEF Found
  <2>4. puts' # <<>>
    BY <1>4
  <2> QED BY <1>1, <1>3, <1>4, <1>9, <1>11, <2>3, <2>4, GoodConcepts
<1> QED BY <1>10, <1>11

\* A step of the tasks is a step of the enumeration, or none of it.
LEMMA EnumerationStep ==
  ASSUME IInv, OnePlace, OfConcepts, First, [Next]_vars
  PROVE  [E!Next]_(E!vars)
<1> DEFINE found  == {Top(cols)} \cup {[ext |-> X, int |-> Intent(cols, X)] : X \in ToSet(puts)}
           stored == IF puts = <<>> THEN 1 ELSE Len(puts)
           result == {[ext |-> X, int |-> Intent(cols, X)] : X \in extents}
<1>1. found = Found
  BY DEF Found, OfExtent
<1>2. found' = Found'
  BY DEF Found, OfExtent
<1>3. E!Concepts(cols) = Concepts(cols)
  BY DEF E!Concepts, Concepts, E!Extent, Extent, E!Intent, Intent, E!Attributes, Attributes
<1>4. ASSUME UNCHANGED <<cols, puts, extents>> PROVE UNCHANGED E!vars
  BY <1>4 DEF E!vars, Top, Intent, E!Top, E!Intent, E!Attributes, Attributes
<1>5. ASSUME NEW k \in DOMAIN tasks, Register(k) PROVE [E!Next]_(E!vars)
  <2>1. cols' = cols /\ result' = result
    BY <1>5, RegisterFinds DEF Intent
  <2>2. CASE puts = <<>>
    <3>1. found' = found
      BY <1>1, <1>2, <1>5, <2>2, RegisterFinds
    <3>2. stored' = stored
      BY <1>5, <2>2, RegisterFinds
    <3> QED BY <2>1, <3>1, <3>2 DEF E!vars
  <2>3. CASE puts # <<>>
    <3>1. PICK c \in Concepts(cols) : c \notin Found /\ Found' = Found \cup {c}
      BY <1>5, <2>3, RegisterFinds
    <3>2. stored' = stored + 1
      BY <1>5, <2>3, RegisterFinds
    <3>3. c \notin found /\ found' = found \cup {c}
      BY <1>1, <1>2, <3>1
    <3>4. E!Find(c)
      BY <2>1, <3>2, <3>3 DEF E!Find
    <3> QED BY <1>3, <3>1, <3>4 DEF E!Next
  <2> QED BY <2>2, <2>3
<1>6. CASE Collect
  <2>1. Done(1) /\ extents = {} /\ extents' = ToSet(puts) /\ UNCHANGED <<cols, puts>>
    BY <1>6 DEF Collect
  <2>2. ToSet(puts) = {c.ext : c \in Good} /\ Found = Concepts(cols)
    BY <2>1, DoneIsComplete
  <2>3. Top(cols) \in Good /\ Top(cols) = [ext |-> Objects, int |-> Intent(cols, Objects)]
    <3>1. IsConcept(cols, AsConcept(Root(cols)))
      BY RootConcept DEF IInv, Typed
    <3> QED BY <3>1 DEF AsConcept, Root, Top, Good, IsConcept
  <2>4. Objects \in ToSet(puts)
    BY <2>2, <2>3
  <2>5. result = {} /\ result' = found
    <3>1. result' = {[ext |-> X, int |-> Intent(cols, X)] : X \in ToSet(puts)}
      BY <2>1 DEF Intent
    <3> QED BY <2>1, <2>3, <2>4, <3>1
  <2>6. found' = found /\ stored' = stored /\ cols' = cols
    BY <2>1 DEF Top, Intent
  <2>7. E!HandOver
    <3>1. found = E!Concepts(cols)
      BY <1>1, <1>3, <2>2
    <3> QED BY <2>5, <2>6, <3>1 DEF E!HandOver
  <2> QED BY <2>7 DEF E!Next
<1>7. ASSUME NEW k \in DOMAIN tasks, Step(k), ~Register(k) PROVE UNCHANGED E!vars
  <2>1. UNCHANGED <<cols, puts, extents>>
    BY <1>7 DEF Step, Reject, Fork, Inline, Join, Return
  <2> QED BY <1>4, <2>1
<1>8. CASE Terminated \/ UNCHANGED vars
  BY <1>4, <1>8 DEF Terminated, vars
<1> QED BY <1>5, <1>6, <1>7, <1>8 DEF Next

\* The tasks implement the enumeration, for every context and whatever the
\* pool runs when: each put after the first finds a concept that was not found
\* before, and invoke comes back with the concepts of the context, once, when
\* the last of them has been found.
THEOREM RefinesEnumeration == Spec => E!Init /\ [][E!Next]_(E!vars)
<1>1. Init => E!Init
  <2> SUFFICES ASSUME Init PROVE E!Init
    OBVIOUS
  <2>1. cols \in Contexts /\ puts = <<>> /\ ToSet(puts) = {} /\ extents = {}
    BY DEF Init, ToSet
  <2>2. E!Top(cols) = Top(cols)
    BY DEF E!Top, Top, E!Intent, Intent, E!Attributes, Attributes
  <2> QED BY <2>1, <2>2 DEF E!Init
<1>2. Init => OnePlace /\ OfConcepts /\ First
  <2>1. Init => OfConcepts /\ First
    BY DEF Init, OfConcepts, First
  <2> QED BY <2>1, OnceInitially
<1>3. IInv /\ OnePlace /\ OfConcepts /\ First /\ [Next]_vars
        => OnePlace' /\ OfConcepts' /\ First'
  BY OnceInductive, OfConceptsKept, FirstKept
<1>4. IInv /\ OnePlace /\ OfConcepts /\ First /\ [Next]_vars => [E!Next]_(E!vars)
  BY EnumerationStep
<1> QED BY <1>1, <1>2, <1>3, <1>4, Invariant, PTL DEF Spec
=============================================================================
