------------------------ MODULE RegistrationPromise ------------------------
(***************************************************************************)
(* What Register promises its callers, read off its state: a call has been *)
(* told what its phase says once it is settled, an organisation is open    *)
(* when its administrator can sign in, and its withdrawal is in doubt when *)
(* the last answer was lost and neither of the undos that close the door,  *)
(* the membership's and the database's, was seen to succeed.               *)
(***************************************************************************)
EXTENDS Registration

\* A call that died with the auth service is never answered.
AnswerOf(a) == IF pc[a] \in {"registered", "failed"} THEN pc[a] ELSE "none"

InDoubt(a) == {"membership", "projectDatabase", "serviceResource"} \subseteq spoiled[a]

Promise == INSTANCE AtomicRegistration WITH
    answer  <- [a \in Attempts |-> AnswerOf(a)],
    open    <- {a \in Attempts : CanSignIn(a)},
    doubted <- {a \in Attempts : InDoubt(a)}

\* Register keeps the promise: as long as ServiceResource.Update reports the
\* rows it drops, "registered" means open for good, and "failed" closed for
\* good or in doubt.
KeepsPromise == Promise!Spec
=============================================================================
