-------------------------- MODULE MCRegistration --------------------------
(* Instances of Registration, with its promise, for TLC.                   *)
EXTENDS RegistrationPromise, TLC

CONSTANTS first, second

\* ucode start always registers the same administrator.
SameLogin == [a \in Attempts |-> "admin"]

\* Two people registering through the API choose their own.
OwnLogin == [a \in Attempts |-> a]

AnyOrder == Permutations(Attempts)
=============================================================================
