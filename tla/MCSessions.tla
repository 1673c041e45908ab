----------------------------- MODULE MCSessions -----------------------------
(* Instances of Sessions for TLC. *)
EXTENDS Sessions, TLC

CONSTANTS c1, c2, c3, e1, e2

\* No action tells two calls or two environments apart.
AnyOrder == Permutations(Calls) \cup Permutations(Environments)
=============================================================================
