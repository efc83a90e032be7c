------------------------- MODULE MCImplicationBases -------------------------
(***************************************************************************)
(* The native builders of implication bases side by side on small          *)
(* contexts: LinCbO and the engine of its pruned variants against the      *)
(* canonical basis, DBasis against what a basis has to give.  DBasis has   *)
(* larger contexts with one thread, smaller ones with two and three.       *)
(***************************************************************************)
EXTENDS Integers, Sequences

CONSTANT Null

VARIABLES
  algo,                             (* which builder runs                   *)
  ctx, impls, mode,                 (* of LinCbO and the engine             *)
  input, head, workers, nonBinary,  (* of DBasis                            *)
  st, result                        (* of each                              *)

sequentialOnly == <<ctx, impls, mode>>
dbasisOnly == <<input, head, workers, nonBinary>>
vars == <<algo, sequentialOnly, dbasisOnly, st, result>>

\* The rows as numbers; one context for each choice of them, not for each
\* order: objects are interchangeable here.
RowLists(o, a) ==
  {[objs |-> 0 .. o - 1,
    cols |-> [b \in 0 .. a - 1 |-> {x \in 0 .. o - 1 : (r[x] \div 2 ^ b) % 2 = 1}]] :
     r \in {f \in [0 .. o - 1 -> 0 .. 2 ^ a - 1] : \A i \in 1 .. o - 1 : f[i - 1] <= f[i]}}

MCContexts == RowLists(0, 2) \cup RowLists(4, 3) \cup RowLists(3, 4) \cup RowLists(2, 5)

MCInputs ==
  [ctx : RowLists(3, 4), support : 0 .. 2, threads : {1}]
  \cup [ctx : RowLists(4, 4), support : {0}, threads : {1}]
  \cup [ctx : RowLists(0, 2) \cup RowLists(3, 3), support : {0}, threads : {2, 3}]

LinCbO == INSTANCE LinCbO WITH Contexts <- MCContexts
Engine == INSTANCE LinCbOPruning WITH Contexts <- MCContexts
DBasis == INSTANCE DBasis WITH Inputs <- MCInputs

Init ==
  \/ /\ algo = "LinCbO" /\ LinCbO!Init
     /\ mode = "NONE" /\ input = Null /\ head = 0 /\ workers = << >> /\ nonBinary = << >>
  \/ /\ algo = "Engine" /\ Engine!Init
     /\ input = Null /\ head = 0 /\ workers = << >> /\ nonBinary = << >>
  \/ /\ algo = "DBasis" /\ DBasis!Init
     /\ ctx = Null /\ impls = << >> /\ mode = "NONE"

RunLinCbO == algo = "LinCbO" /\ UNCHANGED <<algo, mode, dbasisOnly>> /\ LinCbO!Next
RunEngine == algo = "Engine" /\ UNCHANGED <<algo, dbasisOnly>> /\ Engine!Next
RunDBasis == algo = "DBasis" /\ UNCHANGED <<algo, sequentialOnly>> /\ DBasis!Next

Returned == result # Null /\ UNCHANGED vars

Next == RunLinCbO \/ RunEngine \/ RunDBasis \/ Returned

\* A builder, and each thread of DBasis, goes on until it has returned.  This
\* is WF_vars(Next): deadlock is checked, so a step is possible until then.
GoesOn == []<>(result # Null) \/ []<><<TRUE>>_vars

Spec == Init /\ [][Next]_vars /\ GoesOn

-----------------------------------------------------------------------------
\* The first two hand over the canonical basis, each implication once.  What
\* DBasis hands over holds in the context and gives the closure of every set
\* of attributes that enough objects have: what the support and the E-basis
\* leave out can be derived.  They do come to that.
Promise == INSTANCE BasisBuilder WITH
             wanted  <- IF algo = "DBasis" THEN "direct" ELSE "canonical",
             ctx     <- IF algo = "DBasis" THEN input.ctx ELSE ctx,
             support <- IF algo = "DBasis" THEN input.support ELSE 0

ImplementsBasisBuilder == Promise!Spec

\* LinCbO: counters handed down stay right for the sets they are used with.
LinCbOCountersExact == algo = "LinCbO" => LinCbO!CountersExact

\* The engine: the frames, their counters and the rules fit together.
EngineFramesConsistent == algo = "Engine" => Engine!FramesConsistent

\* The engine: what a rule passes over would have been given up.
EngineSkipSound == algo = "Engine" => Engine!SkipSound

\* DBasis: whatever the threads have taken, worked on and handed in, what they
\* hold is the D-basis of the attributes worked on, each implication once.
MinimalCoversExact == algo = "DBasis" => DBasis!MinimalCoversExact
=============================================================================
