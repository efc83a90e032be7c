----------------------------- MODULE ParallelCbO -----------------------------
(***************************************************************************)
(* The parallel enumeration of the concepts by the Java lattice builder    *)
(* (runCbO and CbOTask.compute in Lattice_ParallelCbO.java).               *)
(*                                                                         *)
(* The tree of Close-by-One is cut into fork/join tasks.  A task has its   *)
(* own stack: the compute() it began with and the children it computes     *)
(* inline.  Each compute() registers its extent in the shared map, tries   *)
(* the attributes, and joins the children it forked, the last one first.   *)
(*                                                                         *)
(* The pool is external: a forked task may begin at any time, whatever the *)
(* number of workers, since a worker that joins runs other tasks; and      *)
(* whether the local queue is short (SURPLUS) is left open.                *)
(***************************************************************************)
EXTENDS FormalContext, Sequences, FiniteSets, SequencesExt

CONSTANT Contexts     (* the contexts considered                            *)

ASSUME ContextsAssumption == Contexts \subseteq AllContexts

VARIABLES
  cols,       (* the columns, never changed                                 *)
  tasks,      (* tasks[k]: the stack of task k, empty when it is done       *)
  puts,       (* the extents put into conceptByExtent, in order             *)
  extents     (* its keys once pool.invoke has returned, {} before          *)

vars == <<cols, tasks, puts, extents>>

\* One compute(): its node, with the next attribute of the loop, whether it
\* has registered its extent, and the tasks it has forked.
Frame == [node : Node, registered : BOOLEAN, forked : Seq(Nat)]

Call(node) == [node |-> node, registered |-> FALSE, forked |-> <<>>]

Init ==
  /\ cols \in Contexts
  /\ tasks = <<<<Call(Root(cols))>>>>
  /\ puts = <<>>
  /\ extents = {}

Running(k) == tasks[k] # <<>>
Current(k) == Last(tasks[k])
Done(k) == tasks[k] = <<>>

\* The stacks with frames f in the place of the current one of task k.
Replace(k, f) == [tasks EXCEPT ![k] = Front(@) \o f]

Trying(k) == Running(k) /\ Current(k).registered /\ Current(k).node.i < M
Joining(k) == Running(k) /\ Current(k).registered /\ Current(k).node.i = M

Tried(k) == [Current(k) EXCEPT !.node = Advance(@)]

-----------------------------------------------------------------------------
\* conceptByExtent.put(ext, -1).
Register(k) ==
  /\ Running(k) /\ ~Current(k).registered
  /\ puts' = Append(puts, Current(k).node.ext)
  /\ tasks' = Replace(k, <<[Current(k) EXCEPT !.registered = TRUE]>>)
  /\ UNCHANGED <<cols, extents>>

Reject(k) ==
  /\ Trying(k) /\ ~Canonical(cols, Current(k).node)
  /\ tasks' = Replace(k, <<Tried(k)>>)
  /\ UNCHANGED <<cols, puts, extents>>

\* child.fork()
Fork(k) ==
  LET child == Child(cols, Current(k).node)
      parent == [Tried(k) EXCEPT !.forked = Append(@, Len(tasks) + 1)]
  IN  /\ Trying(k) /\ Canonical(cols, Current(k).node)
      /\ tasks' = Append(Replace(k, <<parent>>), <<Call(child)>>)
      /\ UNCHANGED <<cols, puts, extents>>

\* child.compute()
Inline(k) ==
  /\ Trying(k) /\ Canonical(cols, Current(k).node)
  /\ tasks' = Replace(k, <<Tried(k), Call(Child(cols, Current(k).node))>>)
  /\ UNCHANGED <<cols, puts, extents>>

\* Wait for the last of the forked children that is not joined yet.
Join(k) ==
  /\ Joining(k) /\ Current(k).forked # <<>>
  /\ Done(Last(Current(k).forked))
  /\ tasks' = Replace(k, <<[Current(k) EXCEPT !.forked = Front(@)]>>)
  /\ UNCHANGED <<cols, puts, extents>>

\* Mutant: the forked children are not joined.
ReturnUnjoined(k) ==
  /\ Joining(k)
  /\ tasks' = Replace(k, <<>>)
  /\ UNCHANGED <<cols, puts, extents>>

Return(k) ==
  /\ Joining(k) /\ Current(k).forked = <<>>
  /\ tasks' = Replace(k, <<>>)
  /\ UNCHANGED <<cols, puts, extents>>

\* The first task is done: pool.invoke returns.
Collect ==
  /\ Done(1) /\ extents = {}
  /\ extents' = ToSet(puts)
  /\ UNCHANGED <<cols, tasks, puts>>

Step(k) ==
  \/ Register(k) \/ Reject(k) \/ Fork(k) \/ Inline(k)
  \/ Join(k) \/ Return(k)

Terminated == extents # {} /\ UNCHANGED vars

Next ==
  \/ \E k \in DOMAIN tasks : Step(k)
  \/ Collect
  \/ Terminated

\* The pool runs what is forked, and the caller comes back from invoke.
Spec == Init /\ [][Next]_vars /\ WF_vars(Next)

-----------------------------------------------------------------------------
(***************************************************************************)
(* Properties.                                                             *)
(***************************************************************************)

\* The concept of extent X is registered already, or a call under way will
\* register it: the one it belongs to, or one it is still to be found from.
\* There is one such place, for every concept and at every moment: "Every
\* closed extent is generated exactly once from a single canonical parent".
Frames == {f \in (DOMAIN tasks) \X (1 .. M + 1) : f[2] <= Len(tasks[f[1]])}

Holds(f, c) ==
  LET frame == tasks[f[1]][f[2]]
  IN  \/ ~frame.registered /\ frame.node.ext = c.ext
      \/ Below(cols, frame.node, c)

ExactlyOnce ==
  \A c \in Concepts(cols) :
    1 = Cardinality({j \in DOMAIN puts : puts[j] = c.ext})
        + Cardinality({f \in Frames : Holds(f, c)})

\* A call waits for all it has forked, so no task outlives the one that forked
\* it and none is left when the first is done.
NothingLeftBehind ==
  /\ \A k \in DOMAIN tasks \ {1} :
       Running(k) => \E j \in DOMAIN tasks : \E d \in DOMAIN tasks[j] :
                       k \in ToSet(tasks[j][d].forked)
  /\ Done(1) => \A k \in DOMAIN tasks : Done(k)

\* The tasks together implement ConceptEnumeration; top counts as found from
\* the beginning.
E == INSTANCE ConceptEnumeration WITH
       found  <- {Top(cols)} \cup {[ext |-> X, int |-> Intent(cols, X)] : X \in ToSet(puts)},
       stored <- IF puts = <<>> THEN 1 ELSE Len(puts),
       result <- {[ext |-> X, int |-> Intent(cols, X)] : X \in extents}

ImplementsEnumeration == E!Spec
=============================================================================
