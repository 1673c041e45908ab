----------------------------- MODULE MCBootstrap -----------------------------
(* Instances of Bootstrap for TLC. *)
EXTENDS Bootstrap, TLC

CONSTANTS first, second, third

SameLogin == [a \in Attempts |-> "admin"]

AnyOrder == Permutations(Attempts)
=============================================================================
