---------------------------- MODULE LinCbOPruning ----------------------------
(***************************************************************************)
(* The iterative engine of LinCbO with pruning (algo/lincbo_pruning.c).    *)
(* The loops over the attributes are a stack of frames.  When a closure is *)
(* given up, the attribute it was given up for is remembered as a rule of  *)
(* the attribute that was added: further down, the same addition is passed *)
(* over as long as the same attribute would make it fail.                  *)
(***************************************************************************)
EXTENDS ImplicationBasis

CONSTANTS Contexts, Null

VARIABLES
  mode,         (* "NONE", "LIFO" or "LCM"                                  *)
  ctx,          (* the context                                              *)
  impls,        (* the implications found: premise and its closure          *)
  st,           (* the local state of run_engine, and the pruning stack     *)
  result        (* what is handed over, Null before                         *)

vars == <<mode, ctx, impls, st, result>>

N == Cardinality(Attrs(ctx))

MinOr(S, none) == IF S = {} THEN none ELSE CHOOSE x \in S : \A y \in S : x <= y

NoRule == -1

\* cur is the set to be closed next; resume what the last child has given back.
Init ==
  /\ mode \in {"NONE", "LIFO", "LCM"}
  /\ ctx \in Contexts
  /\ impls = << >>
  /\ st = [cur |-> [set |-> {}, y |-> -1, fresh |-> {}, count |-> << >>],
           resume |-> Null, frames |-> << >>,
           rules |-> [a \in Attrs(ctx) |-> NoRule], stack |-> << >>]
  /\ result = Null

-----------------------------------------------------------------------------
(* LinClosure (lin_closure_rc).                                            *)

DefaultConclusion == UNION {impls[k].closure : k \in {j \in DOMAIN impls : impls[j].premise = {}}}

List(m) == SelectSeq([k \in DOMAIN impls |-> k], LAMBDA k : m \in impls[k].premise)

\* The counters against the empty set (counts_template).
Template == [k \in DOMAIN impls |-> Cardinality(impls[k].premise)]

Counts(B, prev) ==
  [k \in DOMAIN impls |->
     IF k \in DOMAIN prev THEN prev[k] ELSE Cardinality(impls[k].premise \ B)]

GiveUp(c, a) == [c EXCEPT !.fail = a]

\* One implication whose premise has got a member more.  Without pruning one
\* test more is made.
Touch(c, k, y) ==
  LET closure == impls[k].closure
      add == closure \ c.D
      fired == [c EXCEPT !.count[k] = @ - 1, !.D = @ \cup add, !.Z = @ \cup add]
  IN  IF c.fail # Null THEN c
      ELSE IF c.count[k] # 1 THEN [c EXCEPT !.count[k] = @ - 1]
      ELSE IF mode = "NONE" /\ MinOr(closure, N) < y /\ MinOr(c.D, N) >= y
           THEN GiveUp(c, MinOr(closure, N))
      ELSE IF MinOr(add, N) < y THEN GiveUp(c, MinOr(add, N))
      ELSE fired

\* B closed under the implications.  It is over before Z is empty when all
\* attributes are in; no counters are handed down then.
LinClosure(cur) ==
  LET run[k \in 0 .. N] ==
        IF k = 0
        THEN [fail |-> Null, D |-> cur.set \cup DefaultConclusion, Z |-> cur.fresh,
              count |-> Counts(cur.set, cur.count), full |-> FALSE]
        ELSE LET c == run[k - 1]
                 m == MinOr(c.Z, N)
                 d == FoldLeft(LAMBDA x, j : Touch(x, j, cur.y), [c EXCEPT !.Z = @ \ {m}], List(m))
             IN  IF c.Z = {} \/ c.fail # Null \/ c.full THEN c
                 ELSE IF d.fail = Null /\ d.D = Attrs(ctx)
                      THEN [d EXCEPT !.full = TRUE, !.count = << >>]
                      ELSE d
  IN  run[N]

-----------------------------------------------------------------------------
(* The rules: functions of the local state (the pruning_ functions).       *)

Drop(s, a) == [s EXCEPT !.rules[a] = NoRule]

\* Mutant: the rules taken off the stack stay in force.
UnwindStackOnly(s, n) == [s EXCEPT !.stack = SubSeq(@, 1, n)]

\* The rules from the top of the stack down to size n.
UnwindAll(s, n) ==
  [FoldLeft(Drop, s, SubSeq(s.stack, n + 1, Len(s.stack))) EXCEPT !.stack = SubSeq(@, 1, n)]

\* LCM: those of the top, down to size n, that are of attribute a or after it.
\* The stack is sorted by them.
LcmDel(s, a, n) ==
  LET below == {k \in n + 1 .. Len(s.stack) : s.rules[s.stack[k]] < a}
      kept == IF below = {} THEN n ELSE CHOOSE k \in below : \A j \in below : j <= k
  IN  UnwindAll(s, kept)

LcmSet(s, a, rule, n) ==
  LET upTo == {k \in n + 1 .. Len(s.stack) : s.rules[s.stack[k]] <= rule}
      place == IF upTo = {} THEN n ELSE CHOOSE k \in upTo : \A j \in upTo : j <= k
  IN  [s EXCEPT !.stack = InsertAt(@, place + 1, a), !.rules[a] = rule]

Unwind(s, n) == IF mode = "NONE" THEN s ELSE UnwindAll(s, n)

\* The child for attribute i has given back r, an attribute or -1.
AfterChild(s, i, r, n) ==
  CASE mode = "LIFO" /\ 0 <= r /\ r < i -> [s EXCEPT !.rules[i] = r, !.stack = Append(@, i)]
    [] mode = "LCM" /\ r # -1 -> LcmSet(s, i, r, n)
    [] OTHER -> s

BeforeChild(s, i, n) == IF mode = "LCM" THEN LcmDel(s, i, n) ELSE s

\* Mutant: a rule holds whatever has been added since it was made.
SkipAnyRule(s, i, B) == s.rules[i] # NoRule

Skip(s, i, B) ==
  CASE mode = "LIFO" -> s.rules[i] # NoRule /\ s.rules[i] \notin B
    [] mode = "LCM" -> s.rules[i] # NoRule
    [] OTHER -> FALSE

-----------------------------------------------------------------------------
Entering == st.cur # Null
Closing  == LinClosure(st.cur)

Cut ==
  /\ Entering /\ Closing.fail # Null
  /\ st' = [st EXCEPT !.cur = Null, !.resume = Closing.fail]
  /\ UNCHANGED <<mode, ctx, impls, result>>

\* The set is not closed: an implication, and when nothing up to y was added
\* its closure is the next set, in place.
AddImplication ==
  /\ Entering
  /\ LET c == Closing
         closure == ClosureOf(ctx, c.D)
         y == st.cur.y
     IN  /\ c.fail = Null /\ closure # c.D
         /\ impls' = Append(impls, [premise |-> c.D, closure |-> closure])
         /\ st' = IF MinOr(closure \ c.D, N) > y
                  THEN [st EXCEPT !.cur = [set |-> closure, y |-> y, fresh |-> closure \ c.D,
                                           count |-> c.count]]
                  ELSE [st EXCEPT !.cur = Null, !.resume = -1]
  /\ UNCHANGED <<mode, ctx, result>>

PushFrame ==
  /\ Entering
  /\ LET c == Closing
         frame == [set |-> c.D, y |-> st.cur.y, count |-> c.count, i |-> N,
                   snapshot |-> Len(st.stack)]
     IN  /\ c.fail = Null /\ ClosureOf(ctx, c.D) = c.D
         /\ st' = [st EXCEPT !.cur = Null, !.frames = <<frame>> \o @]
  /\ UNCHANGED <<mode, ctx, impls, result>>

Frame   == Head(st.frames)
Looping == ~ Entering /\ st.frames # << >>

TakeResult ==
  /\ Looping /\ st.resume # Null
  /\ st' = [AfterChild(st, Frame.i, st.resume, Frame.snapshot) EXCEPT !.resume = Null]
  /\ UNCHANGED <<mode, ctx, impls, result>>

\* The next attribute of the loop, from the last down: it is in the set, a
\* rule passes it over, or the set with it is the next to be closed.  With one
\* member the counters are taken against the empty set.
NextAttribute ==
  /\ Looping /\ st.resume = Null /\ Frame.i > Frame.y + 1
  /\ LET i == Frame.i - 1
         B == Frame.set \cup {i}
         loop == [st EXCEPT !.frames[1].i = i]
         s == BeforeChild(loop, i, Frame.snapshot)
     IN  st' = IF i \in Frame.set THEN loop
               ELSE IF Skip(s, i, B) THEN s
               ELSE [s EXCEPT !.cur = [set |-> B, y |-> i, fresh |-> {i},
                                       count |-> IF Cardinality(B) = 1 THEN Template
                                                 ELSE Frame.count]]
  /\ UNCHANGED <<mode, ctx, impls, result>>

PopFrame ==
  /\ Looping /\ st.resume = Null /\ Frame.i <= Frame.y + 1
  /\ st' = [Unwind(st, Frame.snapshot) EXCEPT !.frames = Tail(@), !.resume = -1]
  /\ UNCHANGED <<mode, ctx, impls, result>>

\* What export_implications makes of them.
Exported == [k \in DOMAIN impls |-> Implication(ctx, impls[k].premise, impls[k].closure)]

Deliver ==
  /\ ~ Entering /\ st.frames = << >> /\ result = Null
  /\ result' = Exported
  /\ UNCHANGED <<mode, ctx, impls, st>>

Next == \/ Cut \/ AddImplication \/ PushFrame \/ TakeResult
        \/ NextAttribute \/ PopFrame \/ Deliver

Spec == Init /\ [][Next]_vars /\ WF_vars(Next)

-----------------------------------------------------------------------------
\* Every frame holds the right counters for the implications it knew, whatever
\* was found since, and began below the rules that are on the stack now; the
\* rules in force are among those (lin_closure_rc, pruning_unwind).  A rule may
\* be on the LIFO stack twice: taking the second off puts the first out of
\* force too.
FramesConsistent ==
  /\ \A j \in DOMAIN st.frames :
       /\ st.frames[j].snapshot <= Len(st.stack)
       /\ \A k \in DOMAIN st.frames[j].count :
            st.frames[j].count[k] = Cardinality(impls[k].premise \ st.frames[j].set)
  /\ {a \in DOMAIN st.rules : st.rules[a] # NoRule} \subseteq ToSet(st.stack)
  /\ mode = "LCM" => Cardinality(ToSet(st.stack)) = Len(st.stack)

\* B closed under the implications found so far, by the definition.
ImplClosure(B) ==
  LET run[k \in 0 .. N] ==
        IF k = 0 THEN B
        ELSE LET C == run[k - 1]
             IN  C \cup UNION {impls[j].closure : j \in {x \in DOMAIN impls : impls[x].premise \subseteq C}}
  IN  run[N]

\* When a rule passes over the next attribute, the closure it saves would have
\* been given up: it adds an attribute before the one passed over, although
\* implications and rules have come and gone since the rule was made
\* (pruning_should_skip).
SkipSound ==
  Looping /\ st.resume = Null /\ Frame.i > Frame.y + 1 =>
    LET i == Frame.i - 1
        B == Frame.set \cup {i}
    IN  i \notin Frame.set /\ Skip(BeforeChild(st, i, Frame.snapshot), i, B)
          => \E x \in ImplClosure(B) \ B : x < i
=============================================================================
