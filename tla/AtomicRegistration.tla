------------------------ MODULE AtomicRegistration ------------------------
(***************************************************************************)
(* What registering an organisation promises its callers.                  *)
(*                                                                         *)
(* A call is answered at most once.  When it is answered "registered" the  *)
(* organisation is open, its administrator can sign in, and stays open;    *)
(* when it is answered "failed" the organisation is closed and stays       *)
(* closed, unless the withdrawal is in doubt.  Doubt arises before the     *)
(* answer only, and never over an organisation that is then registered.    *)
(* While the call is unanswered the organisation may be open for a moment  *)
(* and be withdrawn again.                                                 *)
(***************************************************************************)
CONSTANT Attempts

VARIABLES
    answer, \* what each call has been told
    open,   \* the organisations whose administrator can sign in
    doubted \* the calls whose withdrawal is in doubt

vars == <<answer, open, doubted>>

Init ==
    /\ answer = [a \in Attempts |-> "none"]
    /\ open = {}
    /\ doubted = {}

Answer(a, what) == answer[a] = "none" /\ answer' = [answer EXCEPT ![a] = what]

Register(a) ==
    /\ a \notin doubted
    /\ Answer(a, "registered")
    /\ open' = open \cup {a}
    /\ UNCHANGED doubted

Refuse(a) ==
    /\ a \in open => a \in doubted
    /\ Answer(a, "failed")
    /\ UNCHANGED <<open, doubted>>

Open(a) ==
    /\ answer[a] = "none"
    /\ open' = open \cup {a}
    /\ UNCHANGED <<answer, doubted>>

\* A withdrawal, in doubt or not.
Withdraw(a) ==
    /\ answer[a] = "none"
    /\ open' \in {open, open \ {a}}
    /\ doubted' \in {doubted, doubted \cup {a}}
    /\ UNCHANGED answer

Next == \E a \in Attempts : Register(a) \/ Refuse(a) \/ Open(a) \/ Withdraw(a)

Spec == Init /\ [][Next]_vars
=============================================================================
