------------------------------- MODULE LinCbO -------------------------------
(***************************************************************************)
(* LinCbO (algo/lincbo.c): Close-by-One over the sets closed under the     *)
(* implications found so far.  A set that the context does not close is    *)
(* the premise of a new implication.  Closures are computed by LinClosure  *)
(* with counters that a call hands down to those it makes.  The calls of   *)
(* lincbo_step that have not returned are a stack, the last one first.     *)
(***************************************************************************)
EXTENDS ImplicationBasis

CONSTANTS Contexts, Null

VARIABLES
  ctx,          (* the context                                              *)
  impls,        (* the implications found, in this order                    *)
  st,           (* the calls                                                *)
  result        (* what is handed over, Null before                         *)

vars == <<ctx, impls, st, result>>

N == Cardinality(Attrs(ctx))

\* The least member, and more than all attributes when there is none (bm_min).
MinOr(S, none) == IF S = {} THEN none ELSE CHOOSE x \in S : \A y \in S : x <= y

\* A call that has not computed its closure yet.
Enter(B, y, Z, prev) == [closed |-> FALSE, set |-> B, y |-> y, fresh |-> Z, count |-> prev, i |-> 0]

Init ==
  /\ ctx \in Contexts
  /\ impls = << >>
  /\ st = <<Enter({}, -1, {}, << >>)>>
  /\ result = Null

DefaultConclusion == UNION {impls[k].conclusion : k \in {j \in DOMAIN impls : impls[j].premise = {}}}

\* Mutant: the counters of the new implications are those of the empty set.
CountsFromEmpty(B, prev) ==
  [k \in DOMAIN impls |->
     IF k \in DOMAIN prev THEN prev[k] ELSE Cardinality(impls[k].premise)]

\* The counters of the call before, and those of the implications since.
Counts(B, prev) ==
  [k \in DOMAIN impls |->
     IF k \in DOMAIN prev THEN prev[k] ELSE Cardinality(impls[k].premise \ B)]

\* One implication whose premise has got a member more.  When it fires and
\* adds something before y, the closure is given up.
Touch(c, k, y) ==
  LET conclusion == impls[k].conclusion
      add == conclusion \ c.D
  IN  IF ~ c.ok THEN c
      ELSE IF c.count[k] # 1 THEN [c EXCEPT !.count[k] = @ - 1]
      ELSE IF \/ MinOr(conclusion, N) < y /\ MinOr(c.D, N) >= y
              \/ MinOr(add, N) < y
           THEN [c EXCEPT !.ok = FALSE]
           ELSE [c EXCEPT !.count[k] = 0, !.D = @ \cup add, !.Z = @ \cup add]

\* The member m of Z is worked off: the implications with it in their premise
\* (list[m]) are touched in their order.
Processed(c, m, y) ==
  LET touched[k \in 0 .. Len(impls)] ==
        IF k = 0 THEN [c EXCEPT !.Z = @ \ {m}]
        ELSE IF m \in impls[k].premise THEN Touch(touched[k - 1], k, y)
        ELSE touched[k - 1]
  IN  touched[Len(impls)]

Start(B, Z, prev) ==
  [ok |-> TRUE, D |-> B \cup DefaultConclusion, Z |-> Z, count |-> Counts(B, prev)]

\* B closed under the implications, Z being what is new in it since prev was
\* counted; ok is false when it was given up (lincbo_lin_closure_rc).
LinClosure(B, y, Z, prev) ==
  LET run[k \in 0 .. N] ==
        IF k = 0 THEN Start(B, Z, prev)
        ELSE LET c == run[k - 1]
             IN  IF c.Z = {} \/ ~ c.ok THEN c ELSE Processed(c, MinOr(c.Z, N), y)
  IN  run[N]

\* The two sets agree up to y.
EqualsUntil(S, T, y) == \A x \in (S \ T) \cup (T \ S) : x > y

-----------------------------------------------------------------------------
Call == Head(st)
Entering == st # << >> /\ ~ Call.closed
Closing == LinClosure(Call.set, Call.y, Call.fresh, Call.count)

Cut ==
  /\ Entering /\ ~ Closing.ok
  /\ st' = Tail(st)
  /\ UNCHANGED <<ctx, impls, result>>

GoOn(Bo, closure, y) == EqualsUntil(Bo, closure, y)

\* The set is not closed: an implication, and perhaps a call for its closure.
AddImplication ==
  /\ Entering
  /\ LET c == Closing
         closure == ClosureOf(ctx, c.D)
     IN  /\ c.ok /\ closure # c.D
         /\ impls' = Append(impls, Implication(ctx, c.D, closure))
         /\ st' = IF GoOn(c.D, closure, Call.y)
                  THEN <<Enter(closure, Call.y, closure \ c.D, c.count)>> \o Tail(st)
                  ELSE Tail(st)
  /\ UNCHANGED <<ctx, result>>

\* The set is closed: it is extended by the attributes after y, from the last.
Branch ==
  /\ Entering
  /\ LET c == Closing
     IN  /\ c.ok /\ ClosureOf(ctx, c.D) = c.D
         /\ st' = <<[closed |-> TRUE, set |-> c.D, y |-> Call.y, fresh |-> {},
                     count |-> c.count, i |-> N]>> \o Tail(st)
  /\ UNCHANGED <<ctx, impls, result>>

\* The next attribute of the loop, from the last down: it is in the set, or
\* there is a call for the set with it.
NextAttribute ==
  /\ st # << >> /\ Call.closed /\ Call.i - 1 > Call.y
  /\ LET i == Call.i - 1
         loop == <<[Call EXCEPT !.i = i]>> \o Tail(st)
     IN  st' = IF i \in Call.set THEN loop
               ELSE <<Enter(Call.set \cup {i}, i, {i}, Call.count)>> \o loop
  /\ UNCHANGED <<ctx, impls, result>>

Return ==
  /\ st # << >> /\ Call.closed /\ Call.i - 1 <= Call.y
  /\ st' = Tail(st)
  /\ UNCHANGED <<ctx, impls, result>>

Deliver ==
  /\ st = << >> /\ result = Null
  /\ result' = impls
  /\ UNCHANGED <<ctx, impls, st>>

Next == Cut \/ AddImplication \/ Branch \/ NextAttribute \/ Return \/ Deliver

Spec == Init /\ [][Next]_vars /\ WF_vars(Next)

-----------------------------------------------------------------------------
\* Every call that is still going through the attributes holds, for each of
\* the implications it knew, the number of the attributes its premise still
\* misses, however many were found since by the calls it made.
CountersExact ==
  \A j \in DOMAIN st : st[j].closed =>
    \A k \in DOMAIN st[j].count : st[j].count[k] = Cardinality(impls[k].premise \ st[j].set)
=============================================================================
