----------------------------- MODULE MCPasswords -----------------------------
(* Instances of Passwords for TLC. *)
EXTENDS Passwords, TLC

CONSTANTS c1, c2, c3, p1, p2, p3

\* No action tells two calls or two passwords apart.
AnyOrder == Permutations(Calls) \cup Permutations(Passwords)
=============================================================================
