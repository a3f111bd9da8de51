------------------------------- MODULE Plan -------------------------------
(***************************************************************************)
(* The ordered list of planned kernel resources (plan.go, Steps) and the   *)
(* profile an observation is compared with (witness_linux.go,              *)
(* countsMatch).  The repository's plan has N = 8: route, policy rule, PRE *)
(* chain, TPROXY rule, PREROUTING jump, OUT chain, MARK rule and, last,    *)
(* the OUTPUT entrance.  Only the order matters here, so a step is its     *)
(* position 1..N and N is a parameter.                                     *)
(***************************************************************************)
EXTENDS Integers

CONSTANT N                  \* number of planned steps

ASSUME NAssumption == N \in Nat \ {0}

Steps == 1..N

\* countsMatch(counts, k) is counts = Prefix(k): exactly one copy of each of
\* the first k resources and none of the others.
Prefix(k) == [i \in Steps |-> IF i <= k THEN 1 ELSE 0]

\* A planned rule can be present more than once (iptables -A/-I add another
\* copy); two copies stand for "duplicate planned resource".
Counts == [Steps -> 0..2]
=============================================================================
