----------------------------- MODULE OwnedStack -----------------------------
(***************************************************************************)
(* What the TPROXY controllers promise about the planned kernel resources  *)
(* (internal/tproxy/plan.go): they form a stack.  Resource i+1 is only     *)
(* created on top of resources 1..i, and only the top one is ever removed, *)
(* so the interception entrance (resource N) never outlives a dependency.  *)
(* A third party that writes the reserved footprint ends the promise: the  *)
(* step that does so raises "disturbed", which is never lowered again.     *)
(***************************************************************************)
EXTENDS Plan

VARIABLES
  res,        \* copies of each planned resource in the kernel
  disturbed   \* has anybody but the owner changed the footprint?

vars == <<res, disturbed>>

Init == /\ res \in [Steps -> 0..1]
        /\ disturbed = (res # Prefix(0))

Push == \E k \in 0..(N - 1) : /\ res = Prefix(k)
                              /\ res' = Prefix(k + 1)
                              /\ UNCHANGED disturbed

Pop == \E k \in 1..N : /\ res = Prefix(k)
                       /\ res' = Prefix(k - 1)
                       /\ UNCHANGED disturbed

Disturb == /\ disturbed' = TRUE
           /\ res' \in Counts

Next == Push \/ Pop \/ Disturb

Spec == Init /\ [][Next]_vars
=============================================================================
