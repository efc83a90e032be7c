---------------------------- MODULE BasisBuilder ----------------------------
(***************************************************************************)
(* What the native builders of an implication basis promise their caller:  *)
(* they hand over one basis, the one wanted of the context, and they do    *)
(* come to that.                                                           *)
(***************************************************************************)
EXTENDS ImplicationBasis

CONSTANT Null

VARIABLES
  wanted,       (* "canonical", in a list, or "direct", in a set            *)
  ctx,
  support,      (* how many objects are to have what a basis speaks of      *)
  result

vars == <<wanted, ctx, support, result>>

Init ==
  /\ wanted \in {"canonical", "direct"}
  /\ result = Null

\* A list of the implications of the canonical basis, each once.
IsCanonicalBasis(list) ==
  /\ Cardinality(ToSet(list)) = Len(list)
  /\ ToSet(list) = CanonicalBasis(ctx)

\* The implications hold, their supports are right, and they give the closure
\* of every set of attributes that enough objects have.
Represents(impls) ==
  /\ \A i \in impls : /\ i.conclusion \subseteq ClosureOf(ctx, i.premise)
                      /\ i.support = Cardinality(ExtentOf(ctx, i.premise))
  /\ \A B \in SUBSET Attrs(ctx) :
       Cardinality(ExtentOf(ctx, B)) >= support
         => ClosedUnder(ctx, impls, B) = ClosureOf(ctx, B)

HandOver ==
  /\ result = Null /\ result' # Null
  /\ wanted = "canonical" => IsCanonicalBasis(result')
  /\ wanted = "direct"    => Represents(result')
  /\ UNCHANGED <<wanted, ctx, support>>

Next == HandOver

Spec == Init /\ [][Next]_vars /\ <>(result # Null)
=============================================================================
