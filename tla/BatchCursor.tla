---------------------------- MODULE BatchCursor ----------------------------
(***************************************************************************)
(* How the threads of one parallel pass of the native kernels share the    *)
(* concepts 0 .. total - 1 (the outer loops of digest_thread, cover_thread *)
(* and rex_csr_thread in latticecbo.c).  A cursor is advanced by a batch   *)
(* with an atomic fetch-and-add; the value before the addition is the      *)
(* start of the batch, and a thread that gets a start beyond the end       *)
(* leaves.  No lock is taken and no thread knows of the others.            *)
(*                                                                         *)
(* The cursor is a C int: an addition past IntMax wraps around.            *)
(***************************************************************************)
EXTENDS Integers, FiniteSets

CONSTANTS
  NThreads,     (* detect_nthreads(), at least 1                            *)
  MaxSize,      (* the largest number of concepts considered                *)
  Batch,        (* COVER_BATCH                                              *)
  IntMax        (* INT_MAX                                                  *)

Threads == 1 .. NThreads

ASSUME ThreadsAssumption == NThreads \in Nat \ {0}
ASSUME BatchAssumption   == Batch \in Nat \ {0} /\ IntMax \in Nat
\* The largest pass leaves room for every thread to overshoot the end once.
ASSUME RoomAssumption ==
  /\ MaxSize \in Nat
  /\ MaxSize - 1 + Batch * (NThreads + 1) <= IntMax

VARIABLES
  total,        (* the number of concepts, N or ncpt                        *)
  cursor,       (* the shared cursor, *next_c                               *)
  at, stop,     (* each thread's loop variable c and the end of its batch   *)
  pc,           (* "fetch", "batch", "exit", or "none": not created         *)
  handled       (* handled[t]: the concepts t has handled in this pass      *)

vars == <<total, cursor, at, stop, pc, handled>>

Places == {"fetch", "batch", "exit", "none"}

Wrap(x) == IF x > IntMax THEN x - 2 * (IntMax + 1) ELSE x

TypeOK ==
  /\ total \in 0 .. MaxSize
  /\ cursor \in Int
  /\ at \in [Threads -> 0 .. MaxSize]
  /\ stop \in [Threads -> 0 .. MaxSize]
  /\ pc \in [Threads -> Places]
  /\ handled \in [Threads -> SUBSET Int]

\* The threads the main thread creates: no more than there are concepts.
Created == [t \in Threads |-> IF total > 0 /\ t > total THEN "none" ELSE "fetch"]

Zero == [t \in Threads |-> 0]

\* The cursor starts at 0.
Init ==
  /\ total \in 0 .. MaxSize
  /\ cursor = 0
  /\ at = Zero /\ stop = Zero
  /\ pc = Created
  /\ handled = [t \in Threads |-> {}]

\* Mutant: the batch is one concept too long at the end of a pass.
FetchOneMore(t) ==
  /\ pc[t] = "fetch" /\ cursor < total
  /\ cursor' = Wrap(cursor + Batch)
  /\ at' = [at EXCEPT ![t] = cursor]
  /\ stop' = [stop EXCEPT ![t] = IF cursor + Batch >= total THEN total
                                 ELSE cursor + Batch + 1]
  /\ pc' = [pc EXCEPT ![t] = "batch"]
  /\ UNCHANGED <<total, handled>>

\* The batch that starts at the value fetched, cut at the end.
Fetch(t) ==
  /\ pc[t] = "fetch"
  /\ cursor' = Wrap(cursor + Batch)
  /\ cursor < total
  /\ at' = [at EXCEPT ![t] = cursor]
  /\ stop' = [stop EXCEPT ![t] = IF Wrap(cursor + Batch) > total THEN total
                                 ELSE Wrap(cursor + Batch)]
  /\ pc' = [pc EXCEPT ![t] = "batch"]
  /\ UNCHANGED <<total, handled>>

\* Mutant: the thread tries again.
FetchAgain(t) ==
  /\ pc[t] = "fetch" /\ cursor >= total
  /\ cursor' = Wrap(cursor + Batch)
  /\ UNCHANGED <<total, at, stop, pc, handled>>

\* Nothing left: the cursor has moved all the same.
FetchEnd(t) ==
  /\ pc[t] = "fetch"
  /\ cursor' = Wrap(cursor + Batch)
  /\ cursor >= total
  /\ pc' = [pc EXCEPT ![t] = "exit"]
  /\ UNCHANGED <<total, at, stop, handled>>

\* One concept of the batch; after the last one back to the cursor.
Handle(t) ==
  /\ pc[t] = "batch" /\ at[t] < stop[t]
  /\ handled' = [handled EXCEPT ![t] = @ \cup {at[t]}]
  /\ at' = [at EXCEPT ![t] = @ + 1]
  /\ UNCHANGED <<total, cursor, stop, pc>>

\* Mutant: the last concept of a batch is left out.
BatchDoneEarly(t) ==
  /\ pc[t] = "batch" /\ at[t] >= stop[t] - 1
  /\ pc' = [pc EXCEPT ![t] = "fetch"]
  /\ UNCHANGED <<total, cursor, at, stop, handled>>

BatchDone(t) ==
  /\ pc[t] = "batch" /\ at[t] >= stop[t]
  /\ pc' = [pc EXCEPT ![t] = "fetch"]
  /\ UNCHANGED <<total, cursor, at, stop, handled>>

Joined == \A t \in Threads : pc[t] \in {"exit", "none"}

\* Mutant: the threads of a pass are not waited for.
RestartUnjoined ==
  /\ cursor' = 0
  /\ at' = Zero /\ stop' = Zero
  /\ pc' = Created
  /\ handled' = [t \in Threads |-> {}]
  /\ UNCHANGED total

\* The threads of a pass are joined and those of the next one created.
Restart ==
  /\ Joined
  /\ cursor' = 0
  /\ at' = Zero /\ stop' = Zero
  /\ pc' = Created
  /\ handled' = [t \in Threads |-> {}]
  /\ UNCHANGED total

Step(t) == Fetch(t) \/ FetchEnd(t) \/ Handle(t) \/ BatchDone(t)

Next == (\E t \in Threads : Step(t)) \/ Restart

Spec == Init /\ [][Next]_vars

-----------------------------------------------------------------------------
(***************************************************************************)
(* Properties.                                                             *)
(***************************************************************************)

\* What is left to thread t of its batch.
Rest(t) == IF pc[t] = "batch" THEN at[t] .. stop[t] - 1 ELSE {}

\* A concept is in the hands of one thread only, handled or about to be, and
\* in nobody's while the cursor has not reached it: the writes to all_card[c],
\* hashes[c] and rex_card[c] never meet.
OneThreadEach ==
  \A c \in 0 .. total - 1 :
    /\ c < cursor => \E t \in Threads : c \in handled[t] \cup Rest(t)
    /\ \A t, u \in Threads :
         c \in handled[t] \cup Rest(t) /\ c \in handled[u] \cup Rest(u) => t = u
    /\ \A t \in Threads :
         c \in handled[t] \cup Rest(t) =>
           c < cursor /\ ~(c \in handled[t] /\ c \in Rest(t))

\* Nothing outside 0 .. total - 1 is ever touched.
InRange == \A t \in Threads : handled[t] \cup Rest(t) \subseteq 0 .. total - 1

\* When the threads have been joined every concept has been handled.
AllHandled == Joined => UNION {handled[t] : t \in Threads} = 0 .. total - 1

\* The cursor overshoots the end by at most a batch for each thread that has
\* left and one more: this is the room an int must leave above the number of
\* concepts (RoomAssumption) for the fetch-and-add never to wrap.
CursorBound ==
  /\ 0 <= cursor
  /\ cursor <= total - 1
                + Batch * (1 + Cardinality({t \in Threads : pc[t] = "exit"}))
=============================================================================
