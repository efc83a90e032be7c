---------------------------- MODULE OrderBuilder ----------------------------
(***************************************************************************)
(* What every native builder of an order promises its caller: it hands     *)
(* over one order, the one wanted of the context, and it does come to that.*)
(***************************************************************************)
EXTENDS AocPoset

CONSTANT Null

VARIABLES
  wanted,       (* "poset" or "lattice"                                     *)
  ctx,
  result

vars == <<wanted, ctx, result>>

Init ==
  /\ wanted \in {"poset", "lattice"}
  /\ ctx.cols \in [DOMAIN ctx.cols -> SUBSET ctx.objs]
  /\ result = Null

\* The order handed over is the one the program computed: the check is that it
\* is right, not that it is among all the orders one could write down.
HandOver ==
  /\ result = Null /\ result' # Null
  /\ wanted = "poset"   => IsAocPoset(ctx, result')
  /\ wanted = "lattice" => IsConceptLattice(ctx, result')
  /\ UNCHANGED <<wanted, ctx>>

Next == HandOver

Spec == Init /\ [][Next]_vars /\ <>(result # Null)
=============================================================================
