# FCA4J: a TLA+ model of its lattice construction

FCA4J is a Java toolkit for Formal Concept Analysis (concept lattices, AOC-posets, relational
concept analysis, implication bases) with a native C library for its heaviest kernels. This
directory holds TLA+ modules that model the parts whose correctness rests on concurrency, on
incremental bookkeeping or on a non-obvious algorithm, the TLC configurations that check them, and
theorems checked by TLAPS.

Paths below are relative to the repository. `LC` stands for
`src/fca4j-core-natif/src/main/native/algo/latticecbo.c`.

## 1. Inventory

| Component | State | Operations | Interaction | What is hard |
|---|---|---|---|---|
| Native lattice kernel, enumeration (`LC` 842-1069, 1320-1430) | job queue (array, `len_hint`, `published`, `busy`, condition variable), one stack and one vector a thread | `jq_push`, `jq_pop`, `jq_done`, `jq_should_publish`, `cbo_enum_job`, join and copy | threads share the queue; the main thread joins them | lost wakeups, early exit, stale unlocked reads, work handed over |
| Native lattice kernel, covers and layout (`LC` 152-260, 427-585, 1091-1165, 1432-1643) | cursor, per-thread vectors, CSR tables, flat array | digest, cover and reduced-extent passes; `csr_to_flat_array` | three pools of threads one after the other | lock-free sharing, order of per-thread vectors, domination by size |
| Native lattice bridge (`NativeLatticeCbO.java`, `fca4j_jni.c`) | working orientation, `CsrConceptOrder` | transpose, call, `populateFromFlat`, full sets, `dual` | Java calls the kernel through JNI | orientation, decoding, order of the last steps |
| Order store for large lattices (`CsrConceptOrder.java`) | concepts, edge buffer, lazily built CSR | add, remove, reduce, closure, full sets, dual, substitution | filled by the two lattice builders, read by writers and RCA | the cached CSR going stale |
| Java lattice builder (`Lattice_ParallelCbO.java`, `FastReduction.java`, `Clarification.java`) | fork/join tasks, `conceptByExtent` | clarify, enumerate, covers, reduced sets, substitution, dual | uses the order store | tasks left unjoined; irreducible attributes; two remappings |
| General order store (`ConceptOrder.java`; in C `core/conceptorder.c`, `core/dynorder.c`) | graph, cached extrema, full and reduced sets; in `dynorder.c` marks and a buffer of selected concepts | add and remove concepts and edges, full sets, maximal selected descendants, flat array | used by the incremental builders | extrema after removals; marks left over |
| Incremental lattice builders (`Lattice_AddExtent.java`, `Lattice_Iceberg.java`, `addextent.c`) | the order under construction, the calls under way | insert one attribute's extent | write the order store | a snapshot of children that the recursion makes stale |
| AOC-poset builders (`AOC_poset_{Ares,Ceres,Hermes,Pluton}.java`, `ares.c`, `ceres.c`, `hermes.c`, `pluton.c`) | partial posets, marks, partitions | insert or sort introducers | write the order store | four algorithms, one result; temporary edges and concepts |
| Relational concept analysis (`ExploRCA`, `RCAFamily`, `RCACommand`) | family of contexts and orders, numbers of concepts and steps by extent, index of attribute names | extend, clean, rebuild, register, until a step finds nothing | drives the builders | identity of concepts across steps, termination |
| Implication bases (`lincbo.c`, `lincbo_pruning.c`, `dbasis.c`; Java `LinCbO*`, `Closure*`, `DBaseV24`) | implications, counters, pruning rules, frames; a queue of attributes | closure with early stop, pruning, minimal covers by threads | read contexts | counters and rules handed down and outliving their use |
| Roaring variant of the native kernel (`build_lattice_cbo` in `LC`) | first-level subtrees from a counter under a mutex | the same enumeration, shared out differently | chosen by a system property | as the enumeration above |
| Choice of builder (`core/natif/Native*.java`) | whether the library loaded | delegate to C or to Java | called by the commands | - |
| GPU builders (`algo/gpu/`) | OpenCL buffers | AddExtent on the device | - | transfers |
| Sets, contexts, readers and writers, command line, vendored bitmaps | - | - | - | data structures and I/O |

Correctness, component by component: the enumeration lists every concept once and ends; each pass
handles every concept once; the edges are the Hasse diagram and each object and attribute is
introduced once; what Java decodes is what C encoded, in the orientation of the caller's context;
the order store answers from its current edges; every other builder hands over the lattice, or the
AOC-poset, of the same context; the bases are the canonical basis, or give every closure; RCA
stops at the fix-point its definition gives, and a concept keeps its number on the way.


## 2. Modules

| Module | Models | Kind |
|---|---|---|
| `FormalContext` | contexts, concepts, one candidate of Close-by-One (child, canonicity test, assembled intent) | operators, shared by both enumerations |
| `JobQueue` | `jq_*` of `LC`, for threads that do anything with their jobs | component |
| `ConceptEnumeration` | what an enumeration promises: each concept found once, all handed over once | abstract specification |
| `LatticeCbO` | `cbo_enum_job`, the enumeration threads, the join; uses `JobQueue` through `INSTANCE` | composition, implements `ConceptEnumeration` |
| `BatchCursor` | the fetch-and-add loop of the three parallel passes, with `int` wrap-around | component |
| `CoverAlgorithm` | irreducible attributes and candidates of `cover_thread` | operators |
| `LatticeCovers` | digest, covers and reduced-extent passes, the joins between them, the layout; uses `BatchCursor` | composition |
| `ConceptLattice` | the concept lattice of a context, by definition; `transpose`; sorted lists, counting-sort tables, the flat array and its decoding | reference definition, operators |
| `CsrConceptOrder` | the order store: its state, one action an operation | component |
| `CsrStore` | the store under any sequence of the operations its "build-once" contract allows | specification of the component |
| `NativeLatticeCbO` | `run()` on the Java side of the kernel, store included | composition |
| `ParallelCbO` | fork/join tasks of the Java enumeration | component, implements `ConceptEnumeration` |
| `Clarification` | classes of equal rows and columns; irreducible attributes (`FastReduction`) | operators |
| `ParallelLattice` | `run()` and `buildOrder()` of the Java builder, store included | composition |
| `AocPoset` | AOC-poset and lattice of a context, by definition; what a flat array says | reference definition |
| `OrderBuilder` | what every native builder of an order promises: one order, the one wanted, and it comes to that | abstract specification |
| `DynOrder`, `NativeConceptOrder` | the stores of `dynorder.c` and `conceptorder.c`, and the scan Hermes and Pluton share | operators |
| `Ares`, `Ceres`, `Hermes`, `Pluton`, `AddExtent` | the sequential builders in C, step by step | components, implement `OrderBuilder` |
| `RoaringLattice` | `build_lattice_cbo` with its four teams of threads | component, implements `OrderBuilder` |
| `ImplicationBasis` | closure in a context, implications; pseudo-intents, canonical basis, minimal covers, by definition | reference definition |
| `BasisBuilder` | what every builder of a basis promises | abstract specification |
| `LinCbO`, `LinCbOPruning`, `DBasis` | `lincbo.c`, the engine of `lincbo_pruning.c` with its modes, `dbasis.c` with its workers | components, implement `BasisBuilder` |
| `Rca` | the loop of relational concept analysis | composition of `ExploRCA`, `RCAFamily` and the command |
| `MCJavaBuilders`, `MCOrderBuilders`, `MCImplicationBases` | builders side by side, one of them chosen at the start | composition for TLC |
| other `MC*` | instances for TLC | |
| `*Proofs` | theorems | |

How state and actions correspond to the code:

- **`JobQueue`**: `jobs`, `cap`, `lenHint`, `published`, `busy` are the fields of `JobQueue` in C; `pc`
  holds the place of each thread, `"wait"` being membership in the condition variable's queue. One
  action is one critical section. `jq_push` is two (`PushStore`, `PushSignal`), because
  `jq_should_publish` reads `len_hint` and then `published` without the mutex and can fall between the
  two stores; `MutexFree` keeps every other critical section out in the meantime.
  `pthread_cond_wait` may wake up without a signal, and a woken thread competes for the mutex with
  everyone else.
- **`LatticeCbO`**: `stack[t]` holds the calls of `cbo_enum_job` under way in thread `t`, each with its
  loop variable; `out[t]` is the pair of per-thread vectors. The loop body is `Reject` or `Accept`;
  after `Accept` the thread may be between the two reads of `jq_should_publish`, may push the child
  (`Publish`, `PublishDone`), or goes on with the recursive call that is already on the stack.
- **`BatchCursor`, `LatticeCovers`**: `cursor`, `at[t]`, `stop[t]` are `*next_c` and the loop variables
  of a thread. A pass handles one concept a step, so that all interleavings of the reads and writes of
  two threads on different concepts are there; the joins are the guards of `StartCovers`, `StartRex` and `Deliver`.
- **`CsrConceptOrder`**: sets and edge buffer as in the class; `csr` is the pair of CSR tables with
  `csrBuilt`. Every operation that reads the adjacency builds it first.
- **`ParallelCbO`**: `tasks[k]` is the stack of one `CbOTask`. A forked task may start at any time and
  the `SURPLUS` test is left open: both belong to the pool, which is external.
- **`Ares`, `Ceres`, `Hermes`, `Pluton`, `AddExtent`**: `ord` is the order store, `st` the record of the
  builder's own fields and of its place in the code; one action is one turn of the loop of the C function (a
  concept visited, an object placed, two concepts compared), with every edge that turn adds or takes away.
  What a qsort leaves open is a choice, and so is the order of a bitmap that is walked only as a set.
- **`RoaringLattice`**: threads of a team are a sequence of records; a step takes a subtree from the counter,
  explores one node, or handles one concept; the caller waits for the whole team. The order of the reads and writes of two threads of a team is open.
- **`LinCbO`, `LinCbOPruning`**: the recursion is an explicit stack of calls, each with the set, the attribute, the
  counters handed down and the rules at its entry. `LinCbOPruning` keeps the frame array that the code has instead of recursion.
  A linear closure is one function, since nothing else runs in the meantime.
- **`DBasis`**: `head` is the queue's index, `workers` what each thread holds; `Take` and `HandIn` are the two critical
  sections. Steps before the creation of the threads and after the join are one action each.
- **`Rca`**: the maps of `ExploRCA` and `RCAFamily` under their names. One action extends all contexts, one builds
  the order of one context, one decides. The builder is taken at its word (the runs above check it), and gives its concepts any numbers.
- **Packed columns, bit sets, hashes** are sets; `wmap_get` compares extents, as the code does after the
  hash. JNI copies are the identity on arrays.

`NativeLatticeCbO` does not run the kernel again: it starts from "an array that decodes to the lattice,
concepts in any order after top", which is what `FlatFaithful` checks of `LatticeCovers`, whose input in
turn is "all concepts in any order", which `ExactlyOnce` and `ImplementsEnumeration` establish for `LatticeCbO`.
`ParallelLattice` starts from the result of `ParallelCbO` in the same way, and `Rca` from the lattice or AOC-poset that
the runs of the builders establish.

## 3. Runs

| Run | Instance | Distinct states | Shows |
|---|---|---|---|
| `job_queue` | 3 threads, 2 jobs, target 3, budget 7, initial array of 1 | 20,800 | who may leave, who is woken, the overshoot of the unlocked checks |
| `enumeration` | contexts of 3 objects and 3 attributes up to renaming objects, 2 threads, fair | 58,200 | concepts only, each answered for exactly once; the enumeration ends and implements `ConceptEnumeration` |
| `batch_cursor` | 3 threads, 0 to 7 concepts, batches of 2, the smallest `int` that suffices | 10,200 | every concept once, no wrap-around |
| `covers` | 3 by 3 contexts up to the order of columns, 2 threads, batches of 2; every order of the concepts when fewer than 4 besides top | 198,000 | Hasse diagram, reduced sets, flat array |
| `csr_store` | up to 3 concepts and 3 edges, any legal sequence of operations; and all 543 acyclic graphs on 4 concepts | 16,700 | no stale adjacency, full sets right; topological order, reduction, closure |
| `java_builders` | contexts up to 3 by 3 with at most 5 concepts, empty ones included, both orientations, with and without full sets, kernel failing or not; no empty column for the Java builder | 226,000 | the caller's lattice and full sets, from both builders |
| `parallel_cbo` | contexts of 3 by 3 up to the order of objects with at most 5 concepts, any number of workers | 78,900 | each extent registered once, nothing unjoined, implements `ConceptEnumeration` |
| `order_builders` | all contexts of 2 by 3 and 3 by 3 and those of 3 by 4 and 4 by 3 up to the order of rows, and some without attributes; for the roaring kernel 3 by 3 with teams of 1 to 3 threads, and contexts without objects | 265,000 | every builder keeps the order it promises at every step and hands over the AOC-poset or the lattice |
| `implication_bases` | contexts up to 4 by 3, 3 by 4 and 2 by 5 up to the order of rows; three pruning modes; for the D-basis 4 by 4, supports 0 to 2, and up to 3 threads on 3 by 3 | 265,000 | counters, rules and answers at every step; canonical basis, or every closure |
| `rca` | one context of 3 objects related to itself, two contexts of 2 objects related to each other; lattices and posets, `-clean` and not | 211,000 | numbers, fix-point, end |
| `java_builders_empty_column` | contexts up to 2 by 2 | violation | the first finding below |
| `rca_clean` | the families of `rca`, with `-clean` | violation | the second finding below |

The last two runs show the findings; the others pass. Deadlock is checked except where the system may stop: the queue (all
threads have left), the cursor and the order store (a bound reached). No run uses symmetry; where it says "up to", the definition of the
inputs picks one of several contexts that differ by a renaming the code does not look at.

Why the bounds suffice. The queue needs one thread that works, one that sleeps and one that steals the
wakeup: three. A budget above the target lets both limits bind. Three attributes give the first
context in which two paths of Close-by-One reach the same extent and the canonicity test must choose,
and in which a published child is itself the parent of one that is kept. The sizes of
`batch_cursor` lie on, before and after the end of a batch, with threads that find nothing. Four
concepts give every shape a transitive edge can have next to a chain. The limit of five concepts
keeps all contexts whose lattice is a chain, a diamond with a tail, or three incomparable
concepts, and leaves out those close to the powerset of three, which `covers` does include. Three
attributes give the builders of orders an insertion into an order that earlier insertions have reshaped, and Hermes and Pluton
equal rows and columns next to proper ones; the contexts of 3 by 4 and 4 by 3 make the two sides of Pluton's clarification
differ. For the bases three attributes are enough for a pseudo-intent that contains another and its closure, and those
with four and five leave room for a rule to be found in one branch and used in a later one. The mutants of
`PROJECT.json` are caught within these bounds.
Three objects related to themselves are enough for a concept to disappear from a poset, and two
contexts for numbers that must not be given out twice.

Fairness. `LatticeCbO` assumes weak fairness of each thread's steps and of the main thread: they are
operating-system threads, none of which waits for anything but the mutex and the condition variable,
and both are in the model. The critical sections are guarded by `MutexFree`, and a thread that holds
the mutex releases it in its next step. No fairness is given to a wakeup without a
signal, so termination does not rest on it. `ParallelCbO` assumes weak fairness of its next-state relation as a whole:
every step makes progress, so it is enough that the pool runs something.
In `MCOrderBuilders` and `MCImplicationBases` the fairness is `GoesOn`: infinitely often a result, or infinitely often a step.
Since deadlock is checked, a step is possible in every state, and this is weak fairness of `Next` without the evaluation of
`ENABLED` that makes TLC slow. For a sequential builder it says that the function is not suspended for ever; for the
threads of `DBasis` and `RoaringLattice`, that some thread runs, which is enough because each takes finitely many steps.
`rca` needs no fairness for what it says of termination: `EveryStepFinds` bounds the number of steps by that of the extents
(or by the limit), and deadlock is checked.

### Findings

**Empty columns.** `FastReduction.isIrreductible` (`FastReduction.java:199`) calls an attribute without objects
reducible, whatever the rest of the context: its `fermeture` starts from nothing and is empty, like its
extent. `Lattice_ParallelCbO` takes the candidates for lower covers from the irreducible attributes only, and
its comments (lines 51-53 and 94-95) say that this is sound and leaves the covers unchanged. With
two objects, `a = {o1}` and `b = {}`, the concept with the empty extent gets no edge to the concept of
`a`: `java_builders_empty_column` shows it. The run `java_builders` therefore leaves out contexts
with an empty column on the axis enumerated for this builder, and shows that there is no other such case within its bounds. The
native kernel decides irreducibility differently, and `covers` includes empty columns.

**Relational attributes after `-clean`.** `RCAFamily.cleanUnusedRelationalAttributes` (`RCAFamily.java:622-626`) takes attributes
out of the context, which moves those after them down (`BinaryContext.java:484-501`), and their own keys out of
`relationalAttributes`, whose later keys stay. With a builder of AOC-posets, from which concepts disappear, `isRelationalAttribute` and
`getRelationalAttribute` then speak of other attributes than the caller's, against the comment at
`RCAFamily.java:459-464`; `FamilyXMLWriter` writes a relational attribute as a plain one, or under the name of another. `rca_clean` shows
it with three objects and one relation. What the analysis computes does not read this map: `rca` checks orders, numbers
and columns with `-clean` too, and passes.

## 4. Proofs

All hold for every value of the constants, under the `ASSUME`s of the modules: at least one thread,
positive capacity, target, budget and batch, a natural number of attributes; for the cursor, room in an `int` for the
largest pass plus one batch a thread and one more; for `LatticeCovers`, finitely many objects numbered from 0, and inputs that
list every concept of their context once, top first (`InputsAssumption`, which is what the theorems about `LatticeCbO`
deliver); for `Rca`, families with finite contexts, relations
between contexts that are there, and a limit whenever `-clean` is asked for, as the command demands (`FamiliesAssumption`). TLC evaluates every one of them on a run.

- **`JobQueueProofs`** (`TypeCorrect`, `ExitCorrect`, `WakeupCorrect`, `BoundsCorrect`, `SleepersCorrect`). The
  safety properties are not inductive alone: `NoEarlyExit` needs `BusyCount` (`busy` counts exactly
  the threads that own a job) and `LengthBound` needs `HintExact` (`len_hint` is the length whenever a
  thread reads it). `Exclusion` records that one thread at a time is between the two halves of `jq_push`. The lost-wakeup property is inductive as stated: its counting form, "while
  somebody sleeps there are no more jobs than threads on their way", survives stolen wakeups; `NoSleepingForever` follows from it
  and `BusyCount`. The proofs split `Next` into steps that move one thread, and those that wake others besides.
- **`BatchCursorProofs`** (`ShareCorrect`, `PassComplete`, `CursorCorrect`). `CursorBound` is what keeps
  the fetch-and-add from wrapping, and is needed to prove that the batches are disjoint; `ExitedLate` (a
  thread leaves only when the cursor is past the end) gives completeness after the join.
- **`FormalContextProofs`**, the lemmas several components need. `ChildConcept`: the intent assembled from the parent's and the attributes after `i`
  is that of the child's extent, because the canonicity test covered those before `i`.
  `AcceptSplits`, `RejectKeeps`, `NothingBelow`, `AllBelowRoot`: `Below(n, c)`, "c is still to be found
  from node n", splits without overlap when a child is accepted, is unchanged when one is rejected,
  is empty when the loop ends, and holds at the root for all concepts but top. `Induction`: induction over the naturals for a set
  instead of a predicate, which is the form the provers can use; with it `ArrangedList`, `InOrder`, `Picked`: what a list
  sorted by a linear order, and a list with entries picked out, contain; `PartBetween` and `RowOf`: what lies between two offsets
  of a compressed row. `RoundTrip`: what the Java side decodes is what the kernel encoded. `HasseChains`: in a finite order the
  chains of edges of its Hasse diagram give back the whole order, in as many rounds as there are elements.
- **`LatticeCbOProofs`**. `StoresConcepts`, from the type of nodes and `StackShape` (which relates a thread's
  place in the queue to the height of its stack). `UsesQueue`: every step of the enumeration is a step of
  `JobQueue` or none, so the theorems about the queue hold of the kernel's threads.
  `FindsEachOnce` (`ExactlyOnce`): the set of places that answer for a concept is a
  singleton, and each action renames its element (`Take`, `Publish`), replaces it by one of three (`Accept`), or
  keeps it. `CompleteAtJoin` combines this with `NoEarlyExit`, transported from `JobQueueProofs` through
  `UsesQueue`: when all threads have left, no queue entry and no stack is left to answer, so the vectors do.
  `RefinesEnumeration`: under the refinement mapping every step of the kernel is a step of `ConceptEnumeration`, or none.
  The second part is about `RoaringLattice` (instance `R`), for every set of contexts with numbered attributes and any
  numbers of threads. `RoaringFindsEachOnce` (`EachAnsweredOnce` of `RoaringLattice`, which the run checks as `RoaringEachAnsweredOnce`) is again a singleton of places, now the counter, the calls and the
  vectors: `Claim` and `Explore` accept by `ChildTakesOver`, where the counter or the call keeps the rest; `OneIsCounted`
  turns the singleton into the sum of cardinalities that TLC evaluates. `RoaringJoinsAllConcepts`: by `TeamInv` a thread that has
  ended has no call under way and found the counter at the end, so at the join neither can answer and the vectors must.
  The third part is about `LinCbO` (instance `L`), for every set of contexts with attributes numbered from 0 (`LinAssumption`, which also
  says that `Null` is no list). `CountersRight` (`CountersExact` of `LinCbO`, which the run checks as `LinCbOCountersExact`) is not inductive alone.
  `LinInv` adds what a call is handed down (`Ready`: the counters it gets are right for what is not fresh in its set, and no implication found
  since misses a fresh attribute) and how the calls lie on each other (`MadeBy`: up to the attribute its loop has come to, a call's
  set agrees with that of the call that made it, and from there on it has something new). So an implication found below has a premise
  that no call above it has (`Beyond`), and its counters need no repair. `ClosedRight` is about `LinClosure`: the counters
  are right for what is worked off (`Between`, and `Midway` within the loop over `list[m]`), so in the end the set is closed under the
  implications and within every closed set above it (`Within`), and a closure given up would have added something before `y` (`AddsBefore`).
  `LinDeliversBasis` and `LinRefinesBasis` rest on `BasisInv`: the list holds implications of the canonical basis, each once (`FoundRight`), and every
  pseudo-intent not among the premises is awaited by a call (`NoneMissed`, `Awaits`). `PseudoIntent` turns the definition by increasing size
  into the usual one, `Unknown` says that a pseudo-intent not found yet respects every implication found, `NewRule` that the set which is closed
  under the list and not by the context is a pseudo-intent and a new one: a smaller one not found would be awaited by a call, and
  that call would have to find it before. When no call is left none is awaited, so the list is complete (`BasisComplete`).
- **`ParallelCbOProofs`**. `NoneLeft` (`NothingLeftBehind`): a call forks tasks with higher numbers than its own task's
  (`ForkedLater`) and every running task but the first is awaited (`Awaited`), so the least task that runs when the first is
  done would be awaited by a lesser one that runs. `RegistersOnce` (`ExactlyOnce`): as in the kernel, the set of places that
  answer for a concept is a singleton: `Register` moves the answer from the call to the map, `Fork` and `Inline` hand it to
  the child or keep it, the other steps leave it alone; `Depth` (a call below another has tried an attribute more) shows
  that no stack is higher than M + 1, the bound in `Frames`. `InvokeIsComplete` combines the two: what `pool.invoke` comes back with
  is the set of extents of the concepts. `RefinesEnumeration` is the refinement of `ConceptEnumeration` here.
- **`LatticeCoversProofs`**. `PassesImplement`: every step of the passes is a step of `BatchCursor`, a join and a new pass
  included, so `ShareCorrect` and `PassComplete` hold of the kernel's threads. `VectorsCorrect`: the inductive invariant `CInv` says for
  each phase what the vectors of the threads hold for the concepts handled so far (`InDigest`, `InCovers`, `InRex`) and what
  the main thread reads after the join (`AfterDigest`, `AfterCovers`, `AfterRex`). On the algorithm of a cover:
  `ThroughIrreducible` (for two concepts one below the other, an irreducible attribute leads from the greater one to a concept above the
  lesser: of the columns outside the intent take the largest) shows that the irreducible attributes give every candidate;
  `ConfirmsStep` is the invariant of the filter that compares sizes before inclusion; `CoversFound` puts them together.
  `CoversCorrect` (`CoversExact`) and `IntroducedCorrect` (`IntroducedOnce`) follow, for every order of the concepts and every
  interleaving. `FlatCorrect` (`FlatFaithful`) adds to `CInv` that the counts made along with the pairs are right (`Counts`), so
  that the offsets summed up from them delimit the reduced extents (`ReducedExtents`). `ReadBack` is then
  `RoundTrip`; by `HasseChains` the chains of the edges read are inclusion of extents (`ChainsAreOrder`), and the reduced sets
  gathered along them the full ones (`SetsRead`), because an object is in an extent exactly when its object concept is below.
- **`RcaProofs`**. `NumbersUnique` (`Numbered`: no number is given to two concepts) is inductive with the types and `Continued` (between two
  steps the orders at hand are those of the last one, from which the next counts on). `NamesLeadCorrect` adds `NamesKnown`: the attribute
  that a name in use stands for is that of a concept some step has found. `EveryStepCorrect` and `LoopBounded` (at most as many steps as there are extents and one more, or as the limit says)
  use `Registered`, what each step has put in the map. `StepsCorrect` is
  the main one: scaling only the concepts of the last step gives the columns of the definition. Its invariant `FInv` says that the names in the
  index are old (`IndexOld`), the numbers of new concepts above all of them (`NumbersFresh`), that everything older has been scaled (`OlderScaled`), that
  the orders of this step are those of the columns as they are (`CurrentOrdered`), and what a step that finds nothing means (`NothingNew`).
- **`CsrStoreProofs`**, about every store that callers can build, with any number of concepts and any acyclic list of edges. The inductive
  invariant `IInv` is `Fresh` (the cached adjacency, when it is there, is that of the current edges), `Typed`, `Acyclic` (no edge leads
  back along a chain) and `FullSetsRight`. `Acyclic` is what makes the algorithms right, and `reduce`, `closure` and `dual` have to be shown to keep
  it. The proofs speak of chains as the least relation that has the pairs of equals and goes on along the edges (`Reaches`), and `AllReached`
  shows that the rounds of `UpTo` reach it. `AdjacencyFresh` is `Fresh`. `TopoAlwaysComplete`: at any time the queue holds, once, the
  concepts whose edges all come from concepts taken off it (`Sorting`); when the queue ran dry before the end, a concept left would have a lower
  cover left, for ever, against `Acyclic` (`NoneLeft`). `FullSetsAlwaysRight`: on a pass along a sorted list a concept has been given all it
  is to have when its turn comes (`HandedOn`). `ReduceAlwaysExact` and `ClosureAlwaysExact`: each turn of the search uses up an entry of its stack or the edges
  out of a new concept, so that as many turns as edges and first entries empty it (`Searching`, `SearchRight`); what `reduce` keeps are the
  pairs next to each other in the order (`Covers`, `KeptRight`), whose chains give back the whole order (`HasseChains`) and none of which the
  chains of the others replace (`NoneToSpare`).
  The second part of the module is about a caller. `NativeLatticeRight` (`OrderIsLattice` of `NativeLatticeCbO`): for every context, whichever way
  it was turned, the order that `run()` hands back is the concept lattice of the caller's context; `NativeFullSetsRight` (`FullSetsDelivered`): the full
  sets it asked for are those of that lattice. The hypothesis `ContextsNumbered` is that objects and attributes are numbered from 0, as
  every reader numbers them. The inductive invariant `RunInv` says what the store holds at each step of `run()`: nothing (`Unfilled`), then a numbering of
  the concepts of the working context with the edges between neighbours and the reduced sets (`Holds`, by way of `Stands`), full sets as far as
  the passes have come (`Completed`). `KernelStands` and `ReadFromKernel` (which is `RoundTrip`) bring it about; `MakesLattice` leads from `Stands` to the definition of
  the lattice, with chains from `HasseChains` (`StandsChains`), full sets from the introduced elements below and above (`StandsFull`), and edges that
  no other chain replaces. `StandsTurned` is the turn back: by `ConceptsTurned` the concepts of the transposed context are those of the context
  with extent and intent exchanged, so `dual` gives a numbering of them. What the passes need of the store (`IInv`, from the first part)
  holds because an order of distinct concepts has no cycle.

Only model-checked: liveness (`Termination`, `<>(result # Null)` of the builders), which needs fairness and `ENABLED`; the
`Implements...` refinements of the builders of orders and, but for the steps of `LinCbO`, of bases; `run()` of the parallel Java builder around the enumeration;
the builders of AOC-posets and of the lattice by insertion, what the roaring variant does after the join, the frames and pruning
rules of the engine (`LinCbOPruning`) and the minimal covers of `DBasis`, which uses a `RECURSIVE` operator. `Enumeration` as a whole has a liveness part (all is handed over in the end) that TLC checks through `ImplementsEnumeration`; what is proved is its safety part.
Induction over data is beyond the provers, that over a number is not (lemma `Induction`): it carries the sorted lists, the folds and the sums above.

## 5. Not modelled

- The vendored bitmap library (`croaring/`), about three quarters of the C code: a bitmap is a set.
- The Java versions of AddExtent, Ares, Ceres, Hermes, Pluton, LinCbO and the D-basis, which compute the same with other data
  structures, and the store they write (`ConceptOrder.java`, on a graph library); `Lattice_Iceberg`.
- Of relational concept analysis: the operators with counts and percentages, naming options, iceberg, the import of a family, the
  files written after each step; `RCAManager`, which nothing calls.
- `FastReduction.run`, and clarification of one axis or of a wide context.
- Of `conceptorder.c` the export of the graph as text; of the bases their JSON output.
- GPU builders, the choice between native and Java builders, readers, writers, command lines.
- Failing allocations and failing `pthread_create` in the native code: nothing reacts to them. The one
  failure with an outcome, no memory for the kernel's result, is in `NativeLatticeCbO`.
- `int` overflow in the sizes of the CSR tables and of the flat array: beyond any instance TLC can reach; listed as a hazard.
- A context without objects in Pluton (`pluton.c:456` takes the minimum of an empty set): undefined, listed as a hazard.
- Timing, statistics, profiling, logging.
- `addConcept` after a read of the order store, which breaks its contract and which no caller does.

## 6. Plan

Done: the native kernel in both variants and the queue, cursor and enumeration it rests on; the order store and both Java lattice
builders; the native builders of AOC-posets, of the lattice by insertion and of implication bases; the loop of relational
concept analysis. What is left, most important first:

1. The Java store `ConceptOrder` under removal (`ConceptOrder.java:349`), where an edge taken away puts a concept back among the extrema of an
   order it is about to leave, with AddExtent and Ares of Java on it.
2. The remaining scaling operators in `Rca`, and an iceberg builder, for which an order is not closed under what a step adds.
3. `FastReduction.run`, the other cases of `Clarification`.

Theorems still to prove, in this order: `OrderIsLattice` of the parallel Java builder, which adds clarification and the covers by irreducible attributes to
what `NativeLatticeRight` shows; the phases of `RoaringLattice` after the join, along the lines of
`CoversCorrect`; `FramesConsistent` and `SkipSound` of the engine, from `LinInv` with the frame array in place of the stack.
