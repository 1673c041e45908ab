---------------------------- MODULE Registration ----------------------------
(***************************************************************************)
(* Registering an organisation.                                            *)
(*                                                                         *)
(* Register in the auth service writes, one remote call after another, a   *)
(* company, a project, an environment, an API key, the administrator, the  *)
(* administrator's membership and the project's own database.  The rows    *)
(* are kept by two services in two databases, a secret store, a Postgres   *)
(* node and object-builder, and no transaction spans them: every write     *)
(* records how it is undone, and a failure replays the undos in reverse.   *)
(*                                                                         *)
(* The creation of the project's database is a request served by another   *)
(* process, the company service, in several writes of its own; it can      *)
(* outlive the caller, so it is a handler with its own steps here.         *)
(***************************************************************************)
EXTENDS Naturals, Sequences, FiniteSets

CONSTANTS
    Attempts,     \* the calls of Register
    LoginOf,      \* the administrator's login each call asks for
    MaxCompanies, \* MAX_COMPANIES, 0 when the installation has no limit
    Faults,       \* the kinds of failure this instance considers
    MaxFailures   \* bound: how many failures one behaviour contains

\* refused      a call fails and has done nothing
\* lost         a call does its work and its answer never arrives
\* undoRefused  one undo fails, wholly or in part
\* rollbackTimeout   the deadline the undos share passes: all that are left fail
\* skipped      ServiceResource.Update drops its rows and reports success
\* hangUp       the caller of Register goes away
\* authCrash, companyCrash   the process dies and is started again
FaultKinds == {"refused", "lost", "undoRefused", "rollbackTimeout", "skipped",
               "hangUp", "authCrash", "companyCrash"}

ASSUME MaxCompaniesAssumption == MaxCompanies \in Nat
ASSUME FaultsAssumption == Faults \subseteq FaultKinds
ASSUME MaxFailuresAssumption == MaxFailures \in Nat

\* What can be undone, by the write that made it.
Undoable == {"company", "project", "environment", "apiKey", "user",
             "membership", "projectDatabase"}

\* The rows, secrets, databases and pools the writes leave in the stores.
ResourceRows == {"role", "database", "secret", "resource", "resourceEnv", "pool"}
Kinds == (Undoable \ {"projectDatabase"}) \cup ResourceRows \cup {"serviceResource"}

Phases == {"idle", "count", "insertCompany", "createProject", "createEnvironment",
           "createApiKey", "createUser", "updateCompany", "addMembership",
           "createResource", "awaitResource", "updateServices", "rollback",
           "registered", "failed", "crashed"}

HandlerPhases == {"none", "createDatabase", "putSecret", "insertResource",
                  "insertResourceEnv", "registerBuilder", "dropDatabase",
                  "succeeded", "failed", "gone"}

VARIABLES
    pc,        \* where each call of Register is
    undos,     \* registerRollback.steps of each call
    rows,      \* what the stores hold on behalf of each call
    handler,   \* where the CreateResource request of each call is
    cause,     \* why a call failed, as its caller is told
    cancelled, \* calls whose caller has gone: their context is done
    spoiled,   \* history: writes whose answer was lost, that stopped halfway
               \* or whose undo failed
    failures   \* history: how many failures have happened

vars == <<pc, undos, rows, handler, cause, cancelled, spoiled, failures>>

\* A call that Register is executing, and one whose outcome is settled.
Forward(a)  == pc[a] \notin {"idle", "rollback", "registered", "failed", "crashed"}
Running(a)  == Forward(a) \/ pc[a] = "rollback"
Finished(a) == pc[a] \in {"registered", "failed", "crashed"}

\* The request for the database has been answered, or will never be.
Quiet(a) == handler[a] \in {"none", "succeeded", "failed", "gone"}

\* company-service counts the companies that are not marked deleted.
Companies == {a \in Attempts : "company" \in rows[a]}
\* Mutant: the limit lets one company too many in.
LimitReachedOffByOne == MaxCompanies > 0 /\ Cardinality(Companies) > MaxCompanies
LimitReached == MaxCompanies > 0 /\ Cardinality(Companies) >= MaxCompanies

\* The auth database holds a user with the login this call asks for.
LoginTaken(a) == \E b \in Attempts : "user" \in rows[b] /\ LoginOf[b] = LoginOf[a]

\* What the login page needs to let the administrator of this call in; it
\* does not look at the deletion marks of the company and the project.
SignInNeeds == {"environment", "user", "membership", "resourceEnv",
                "serviceResource", "pool", "database"}
CanSignIn(a) == SignInNeeds \subseteq rows[a]

Init ==
    /\ pc = [a \in Attempts |-> "idle"]
    /\ undos = [a \in Attempts |-> <<>>]
    /\ rows = [a \in Attempts |-> {}]
    /\ handler = [a \in Attempts |-> "none"]
    /\ cause = [a \in Attempts |-> "none"]
    /\ cancelled = {}
    /\ spoiled = [a \in Attempts |-> {}]
    /\ failures = 0

-----------------------------------------------------------------------------
(* Failures.                                                               *)

Happens(kind) == kind \in Faults /\ failures < MaxFailures /\ failures' = failures + 1

\* A call made for a caller that has gone fails without a failure of its own.
CallFails(a, kind) ==
    IF a \in cancelled THEN UNCHANGED failures ELSE Happens(kind)

\* So does what the company service does for a call nobody waits for.
HandlerFails(a) ==
    IF a \in cancelled \/ pc[a] # "awaitResource"
    THEN UNCHANGED failures ELSE Happens("refused")

-----------------------------------------------------------------------------
(* Register: the forward path.                                             *)

GoTo(a, phase) == pc' = [pc EXCEPT ![a] = phase]

Fail(a, why) == GoTo(a, "rollback") /\ cause' = [cause EXCEPT ![a] = why]

\* One write of Register: it succeeds and is recorded; it fails and has
\* done nothing; or it is done and only its answer is lost.
Write(a, here, what, next) ==
    /\ pc[a] = here
    /\ \/ /\ a \notin cancelled
          /\ rows' = [rows EXCEPT ![a] = @ \cup {what}]
          /\ undos' = [undos EXCEPT ![a] = Append(@, what)]
          /\ GoTo(a, next)
          /\ UNCHANGED <<cause, spoiled, failures>>
       \/ /\ CallFails(a, "refused")
          /\ Fail(a, "error")
          /\ UNCHANGED <<rows, undos, spoiled>>
       \/ /\ CallFails(a, "lost")
          /\ rows' = [rows EXCEPT ![a] = @ \cup {what}]
          /\ spoiled' = [spoiled EXCEPT ![a] = @ \cup {what}]
          /\ Fail(a, "error")
          /\ UNCHANGED undos
    /\ UNCHANGED <<handler, cancelled>>

Start(a) ==
    /\ pc[a] = "idle"
    /\ GoTo(a, "count")
    /\ UNCHANGED <<undos, rows, handler, cause, cancelled, spoiled, failures>>

\* A short login, a weak password or a bad Google token: nothing is recorded
\* yet, so the deferred rollback returns at once.
RejectInput(a) ==
    /\ pc[a] = "idle"
    /\ GoTo(a, "failed")
    /\ cause' = [cause EXCEPT ![a] = "input"]
    /\ UNCHANGED <<undos, rows, handler, cancelled, spoiled, failures>>

\* company-service counts before it inserts; the count is not locked.
CountCompanies(a) ==
    /\ pc[a] = "count"
    /\ \/ /\ LimitReached
          /\ Fail(a, "limit")
          /\ UNCHANGED failures
       \/ /\ ~LimitReached
          /\ GoTo(a, "insertCompany")
          /\ UNCHANGED <<cause, failures>>
       \/ CallFails(a, "refused") /\ Fail(a, "error")
    /\ UNCHANGED <<undos, rows, handler, cancelled, spoiled>>

InsertCompany(a)     == Write(a, "insertCompany", "company", "createProject")
CreateProject(a)     == Write(a, "createProject", "project", "createEnvironment")
CreateEnvironment(a) == Write(a, "createEnvironment", "environment", "createApiKey")
CreateApiKey(a)      == Write(a, "createApiKey", "apiKey", "createUser")

\* The login is unique among the users of the installation.
CreateUser(a) ==
    \/ ~LoginTaken(a) /\ Write(a, "createUser", "user", "updateCompany")
    \/ /\ pc[a] = "createUser" /\ LoginTaken(a)
       /\ Fail(a, "error")
       /\ UNCHANGED <<undos, rows, handler, cancelled, spoiled, failures>>

\* The company is given its owner: nothing to undo, the row goes with it.
UpdateCompany(a) ==
    /\ pc[a] = "updateCompany"
    /\ \/ a \notin cancelled /\ GoTo(a, "addMembership") /\ UNCHANGED <<cause, failures>>
       \/ CallFails(a, "refused") /\ Fail(a, "error")
    /\ UNCHANGED <<undos, rows, handler, cancelled, spoiled>>

\* Mutant: the membership's undo is never recorded.
AddUserUnrecorded(a) ==
    /\ pc[a] = "addMembership" /\ a \notin cancelled
    /\ rows' = [rows EXCEPT ![a] = @ \cup {"membership"}]
    /\ GoTo(a, "createResource")
    /\ UNCHANGED <<undos, handler, cause, cancelled, spoiled, failures>>

AddUserToProject(a) == Write(a, "addMembership", "membership", "createResource")

\* The request leaves for the company service, or does not reach it.
CallCreateResource(a) ==
    /\ pc[a] = "createResource"
    /\ \/ /\ a \notin cancelled
          /\ GoTo(a, "awaitResource")
          /\ handler' = [handler EXCEPT ![a] = "createDatabase"]
          /\ UNCHANGED <<cause, failures>>
       \/ /\ CallFails(a, "refused")
          /\ Fail(a, "error")
          /\ UNCHANGED handler
    /\ UNCHANGED <<undos, rows, cancelled, spoiled>>

\* Mutant: the undo is recorded under the name of the row.
ResourceCreatedMisnamed(a) ==
    /\ pc[a] = "awaitResource" /\ handler[a] = "succeeded" /\ a \notin cancelled
    /\ undos' = [undos EXCEPT ![a] = Append(@, "resource")]
    /\ GoTo(a, "updateServices")
    /\ UNCHANGED <<rows, handler, cause, cancelled, spoiled, failures>>

ResourceCreated(a) ==
    /\ pc[a] = "awaitResource" /\ handler[a] = "succeeded" /\ a \notin cancelled
    /\ undos' = [undos EXCEPT ![a] = Append(@, "projectDatabase")]
    /\ GoTo(a, "updateServices")
    /\ UNCHANGED <<rows, handler, cause, cancelled, spoiled, failures>>

\* The handler answered with an error: whatever it left behind has no undo.
ResourceFailed(a) ==
    /\ pc[a] = "awaitResource" /\ handler[a] = "failed"
    /\ Fail(a, "error")
    /\ UNCHANGED <<undos, rows, handler, cancelled, spoiled, failures>>

\* Mutant: a company service that died is waited for.
ResourceLostWhileServed(a) ==
    /\ pc[a] = "awaitResource" /\ handler[a] # "gone"
    /\ CallFails(a, "lost")
    /\ Fail(a, "error")
    /\ spoiled' = [spoiled EXCEPT ![a] = @ \cup {"projectDatabase"}]
    /\ UNCHANGED <<undos, rows, handler, cancelled>>

\* The answer never arrives, and the handler may still be at work.
ResourceLost(a) ==
    /\ pc[a] = "awaitResource"
    /\ IF handler[a] = "gone" THEN UNCHANGED failures ELSE CallFails(a, "lost")
    /\ Fail(a, "error")
    /\ spoiled' = [spoiled EXCEPT ![a] = @ \cup {"projectDatabase"}]
    /\ UNCHANGED <<undos, rows, handler, cancelled>>

\* Mutant: the error of the last write is not looked at.
UpdateServiceResourceIgnored(a) ==
    /\ pc[a] = "updateServices"
    /\ \/ /\ a \notin cancelled
          /\ rows' = [rows EXCEPT ![a] = @ \cup {"serviceResource"}]
          /\ UNCHANGED failures
       \/ CallFails(a, "refused") /\ UNCHANGED rows
    /\ GoTo(a, "registered")
    /\ undos' = [undos EXCEPT ![a] = <<>>]
    /\ UNCHANGED <<handler, cause, cancelled, spoiled>>

\* The last write.  It has no undo, and inserting a row may fail without
\* the call reporting it.
UpdateServiceResource(a) ==
    /\ pc[a] = "updateServices"
    /\ \/ /\ a \notin cancelled
          /\ \/ rows' = [rows EXCEPT ![a] = @ \cup {"serviceResource"}] /\ UNCHANGED failures
             \/ UNCHANGED rows /\ Happens("skipped")
          /\ GoTo(a, "registered")
          /\ undos' = [undos EXCEPT ![a] = <<>>]
          /\ UNCHANGED <<cause, spoiled>>
       \/ /\ CallFails(a, "refused")
          /\ Fail(a, "error")
          /\ UNCHANGED <<rows, undos, spoiled>>
       \/ /\ CallFails(a, "lost")
          /\ rows' = [rows EXCEPT ![a] = @ \cup {"serviceResource"}]
          /\ spoiled' = [spoiled EXCEPT ![a] = @ \cup {"serviceResource"}]
          /\ Fail(a, "error")
          /\ UNCHANGED undos
    /\ UNCHANGED <<handler, cancelled>>

-----------------------------------------------------------------------------
(* CreateResource in the company service, for a Postgres project.          *)

HandlerStep(a, here) == handler[a] = here /\ UNCHANGED <<pc, undos, cause, cancelled>>
HandlerGoTo(a, phase) == handler' = [handler EXCEPT ![a] = phase]

\* The role, the database, then the isolation of the two.  A failure between
\* them leaves what was made: the deferred drop is not registered yet.
CreateUserAndDatabase(a) ==
    /\ HandlerStep(a, "createDatabase")
    /\ \/ /\ "environment" \in rows[a]
          /\ rows' = [rows EXCEPT ![a] = @ \cup {"role", "database"}]
          /\ HandlerGoTo(a, "putSecret")
          /\ UNCHANGED <<spoiled, failures>>
       \/ /\ "environment" \in rows[a]
          /\ HandlerFails(a)
          /\ \/ UNCHANGED <<rows, spoiled>>
             \/ \E made \in {{"role"}, {"role", "database"}} :
                   /\ rows' = [rows EXCEPT ![a] = @ \cup made]
                   /\ spoiled' = [spoiled EXCEPT ![a] = @ \cup {"database"}]
          /\ HandlerGoTo(a, "failed")
       \/ /\ "environment" \notin rows[a]
          /\ HandlerGoTo(a, "failed")
          /\ UNCHANGED <<rows, spoiled, failures>>

\* One write of AddResource.  A failure, before or after the write took
\* effect, leads to the deferred drop of the database and to nothing else.
AddResourceWrite(a, here, what, next) ==
    /\ HandlerStep(a, here)
    /\ \/ /\ rows' = [rows EXCEPT ![a] = @ \cup {what}]
          /\ HandlerGoTo(a, next)
          /\ UNCHANGED failures
       \/ /\ HandlerFails(a)
          /\ \E made \in {{}, {what}} : rows' = [rows EXCEPT ![a] = @ \cup made]
          /\ HandlerGoTo(a, "dropDatabase")
    /\ UNCHANGED spoiled

PutSecret(a)      == AddResourceWrite(a, "putSecret", "secret", "insertResource")
InsertResource(a) == AddResourceWrite(a, "insertResource", "resource", "insertResourceEnv")

\* resource_environment references the environment row.
InsertResourceEnvironment(a) ==
    \/ /\ "environment" \in rows[a]
       /\ AddResourceWrite(a, "insertResourceEnv", "resourceEnv", "registerBuilder")
    \/ /\ HandlerStep(a, "insertResourceEnv")
       /\ "environment" \notin rows[a]
       /\ HandlerGoTo(a, "dropDatabase")
       /\ UNCHANGED <<rows, spoiled, failures>>

\* object-builder migrates the new database and adds it to its pool.
RegisterBuilder(a) == AddResourceWrite(a, "registerBuilder", "pool", "succeeded")

\* Mutant: a failure is answered without the deferred drop.
DropDatabaseForgotten(a) ==
    /\ HandlerStep(a, "dropDatabase")
    /\ HandlerGoTo(a, "failed")
    /\ UNCHANGED <<rows, spoiled, failures>>

\* The deferred DeleteUserAndDatabase; its error is only logged.  The rows and
\* the secret that AddResource wrote stay.
DropDatabase(a) ==
    /\ HandlerStep(a, "dropDatabase")
    /\ \/ /\ rows' = [rows EXCEPT ![a] = @ \ {"role", "database"}]
          /\ UNCHANGED <<spoiled, failures>>
       \/ /\ Happens("undoRefused")
          /\ \E gone \in {{}, {"database"}} : rows' = [rows EXCEPT ![a] = @ \ gone]
          /\ spoiled' = [spoiled EXCEPT ![a] = @ \cup {"database"}]
    /\ HandlerGoTo(a, "failed")

-----------------------------------------------------------------------------
(* registerRollback.run                                                    *)

\* A foreign key keeps a row while another refers to it.
ReferencedBy(what) ==
    CASE what = "environment" -> {"resourceEnv", "serviceResource"}
      [] what = "user"        -> {"membership"}
      [] what = "resource"    -> {"serviceResource"}
      [] OTHER                -> {}
Blocked(a, what) == ReferencedBy(what) \cap rows[a] # {}

\* What the undo takes away when nothing goes wrong.  RemoveResource drops
\* the database and its rows, but not the secret nor the pool.
Undone(a, what) ==
    {k \in IF what = "projectDatabase"
           THEN {"role", "database", "resourceEnv", "resource"} ELSE {what} :
        ~Blocked(a, k)}

\* How far an undo that fails may have got.  RemoveResource goes on to the
\* rows when the database could not be dropped.
HalfUndone(a, what) ==
    IF what = "projectDatabase"
    THEN {(db \cup rw) \cap Undone(a, what) :
            db \in {{}, {"database"}, {"database", "role"}},
            rw \in {{}, {"resourceEnv"}, {"resourceEnv", "resource"}}}
    ELSE {{}, Undone(a, what)}

\* Mutant: the first undo that fails ends the rollback.
UndoStopsAtFailure(a) ==
    /\ pc[a] = "rollback" /\ undos[a] # <<>>
    /\ LET what == undos[a][Len(undos[a])] IN
       \/ /\ rows' = [rows EXCEPT ![a] = @ \ Undone(a, what)]
          /\ undos' = [undos EXCEPT ![a] = SubSeq(@, 1, Len(@) - 1)]
          /\ UNCHANGED <<spoiled, failures>>
       \/ /\ Happens("undoRefused")
          /\ undos' = [undos EXCEPT ![a] = <<>>]
          /\ spoiled' = [spoiled EXCEPT ![a] = @ \cup {what}]
          /\ UNCHANGED rows
    /\ UNCHANGED <<pc, handler, cause, cancelled>>

\* Mutant: the undos run in the order they were recorded.
UndoInOrder(a) ==
    /\ pc[a] = "rollback" /\ undos[a] # <<>>
    /\ rows' = [rows EXCEPT ![a] = @ \ Undone(a, Head(undos[a]))]
    /\ undos' = [undos EXCEPT ![a] = Tail(@)]
    /\ UNCHANGED <<pc, handler, cause, cancelled, spoiled, failures>>

\* Mutant: the undos run in the context of the caller, who may have gone.
UndoForCaller(a) ==
    /\ pc[a] = "rollback" /\ undos[a] # <<>>
    /\ rows' = IF a \in cancelled THEN rows
               ELSE [rows EXCEPT ![a] = @ \ Undone(a, undos[a][Len(undos[a])])]
    /\ undos' = [undos EXCEPT ![a] = SubSeq(@, 1, Len(@) - 1)]
    /\ UNCHANGED <<pc, handler, cause, cancelled, spoiled, failures>>

\* The most recent undo; its failure is logged and the next one runs.
UndoLast(a) ==
    /\ pc[a] = "rollback" /\ undos[a] # <<>>
    /\ LET what == undos[a][Len(undos[a])] IN
       \/ /\ rows' = [rows EXCEPT ![a] = @ \ Undone(a, what)]
          /\ UNCHANGED <<spoiled, failures>>
       \/ /\ Happens("undoRefused")
          /\ \E gone \in HalfUndone(a, what) : rows' = [rows EXCEPT ![a] = @ \ gone]
          /\ spoiled' = [spoiled EXCEPT ![a] = @ \cup {what}]
    /\ undos' = [undos EXCEPT ![a] = SubSeq(@, 1, Len(@) - 1)]
    /\ UNCHANGED <<pc, handler, cause, cancelled>>

\* One deadline of 30 seconds bounds all the undos.  When it passes, the undo
\* under way may have got anywhere, and those still recorded fail one after
\* the other without being sent.
RollbackTimesOut(a) ==
    /\ pc[a] = "rollback" /\ undos[a] # <<>>
    /\ Happens("rollbackTimeout")
    /\ \E gone \in HalfUndone(a, undos[a][Len(undos[a])]) :
          rows' = [rows EXCEPT ![a] = @ \ gone]
    /\ spoiled' = [spoiled EXCEPT ![a] = @ \cup {undos[a][i] : i \in DOMAIN undos[a]}]
    /\ undos' = [undos EXCEPT ![a] = <<>>]
    /\ UNCHANGED <<pc, handler, cause, cancelled>>

FinishRollback(a) ==
    /\ pc[a] = "rollback" /\ undos[a] = <<>>
    /\ GoTo(a, "failed")
    /\ UNCHANGED <<undos, rows, handler, cause, cancelled, spoiled, failures>>

-----------------------------------------------------------------------------
(* The caller and the processes.                                           *)

\* The HTTP request's context is the context of every forward call.
HangUp(a) ==
    /\ Forward(a) /\ a \notin cancelled
    /\ Happens("hangUp")
    /\ cancelled' = cancelled \cup {a}
    /\ UNCHANGED <<pc, undos, rows, handler, cause, spoiled>>

\* The undos are kept in memory only.
AuthCrash ==
    /\ \E a \in Attempts : Running(a)
    /\ Happens("authCrash")
    /\ pc' = [a \in Attempts |-> IF Running(a) THEN "crashed" ELSE pc[a]]
    /\ undos' = [a \in Attempts |-> <<>>]
    /\ cancelled' = cancelled \cup {a \in Attempts : Running(a)}
    /\ UNCHANGED <<rows, handler, cause, spoiled>>

\* Requests it was serving die with it, their deferred drops too.
CompanyCrash ==
    /\ \E a \in Attempts : pc[a] = "insertCompany" \/ ~Quiet(a)
    /\ Happens("companyCrash")
    /\ handler' = [a \in Attempts |-> IF Quiet(a) THEN handler[a] ELSE "gone"]
    /\ pc' = [a \in Attempts |-> IF pc[a] = "insertCompany" THEN "rollback" ELSE pc[a]]
    /\ cause' = [a \in Attempts |-> IF pc[a] = "insertCompany" THEN "error" ELSE cause[a]]
    /\ UNCHANGED <<undos, rows, cancelled, spoiled>>

-----------------------------------------------------------------------------
RegisterStep(a) ==
    \/ CountCompanies(a) \/ InsertCompany(a) \/ CreateProject(a)
    \/ CreateEnvironment(a) \/ CreateApiKey(a) \/ CreateUser(a)
    \/ UpdateCompany(a) \/ AddUserToProject(a) \/ CallCreateResource(a)
    \/ ResourceCreated(a) \/ ResourceFailed(a) \/ ResourceLost(a)
    \/ UpdateServiceResource(a) \/ UndoLast(a) \/ RollbackTimesOut(a)
    \/ FinishRollback(a)

CreateResourceStep(a) ==
    \/ CreateUserAndDatabase(a) \/ PutSecret(a) \/ InsertResource(a)
    \/ InsertResourceEnvironment(a) \/ RegisterBuilder(a) \/ DropDatabase(a)

Next ==
    \/ \E a \in Attempts :
         \/ Start(a) \/ RejectInput(a) \/ HangUp(a)
         \/ RegisterStep(a) \/ CreateResourceStep(a)
    \/ AuthCrash
    \/ CompanyCrash

Spec == Init /\ [][Next]_vars

-----------------------------------------------------------------------------
(* Properties.                                                             *)

\* The type of every variable.
TypeOK ==
    /\ pc \in [Attempts -> Phases]
    /\ undos \in [Attempts -> Seq(Undoable)]
    /\ rows \in [Attempts -> SUBSET Kinds]
    /\ handler \in [Attempts -> HandlerPhases]
    /\ cause \in [Attempts -> {"none", "input", "limit", "error"}]
    /\ cancelled \subseteq Attempts
    /\ spoiled \in [Attempts -> SUBSET (Undoable \cup {"serviceResource", "database"})]
    /\ failures \in 0 .. MaxFailures

\* The write whose undo takes a row away.
UndoOf(kind) == IF kind \in {"role", "database", "resource", "resourceEnv"}
                THEN "projectDatabase" ELSE kind

\* A row is left for a reason of its own: the answer to its write was lost or
\* its undo failed; the creation of the project's database stopped halfway or
\* its deferred drop failed; or CreateResource failed, with no other failure
\* than that one, after it had written its rows, which nothing takes back.
HasReason(a, kind) ==
    \/ UndoOf(kind) \in spoiled[a]
    \/ kind \in {"role", "database"} /\ "database" \in spoiled[a]
    \/ kind \in {"resource", "resourceEnv"} /\ handler[a] = "failed"

\* It is explained by its own reason or by that of a row that refers to it.
Explained(a, kind) ==
    \E k \in {kind} \cup (ReferencedBy(kind) \cap rows[a]) : HasReason(a, k)

\* A failed registration does not block the next one: its company row is gone,
\* whatever else the rollback had to leave, unless the answer to the row's own
\* creation was lost, its own undo failed or the rollback's deadline passed
\* (register_rollback.go: one undo failing does not stop the rest, and the
\* company row is why this matters).
RetryNotBlocked ==
    \A a \in Attempts :
        pc[a] = "failed" /\ "company" \in rows[a] => "company" \in spoiled[a]

\* Once a registration has failed and its database request has ended, every
\* row left is explained.  In particular a CreateResource that fails and drops
\* the database leaves its resource rows and the environment they refer to, and
\* nothing else (register_rollback.go says the installation is left as it was
\* found).  The secret and the pool are excepted: neither CreateResource nor
\* RemoveResource takes them away.
LeftoversExplained ==
    \A a \in Attempts :
        pc[a] = "failed" /\ Quiet(a) =>
            \A kind \in rows[a] \ {"secret", "pool"} : Explained(a, kind)

\* The row a row belongs to.  Only a few of these are foreign keys: the others
\* cross a database, or the parent is only marked deleted.
Parents ==
    [kind \in Kinds |->
        CASE kind \in {"project", "user"}        -> {"company"}
          [] kind = "environment"                -> {"project"}
          [] kind = "apiKey"                     -> {"project", "environment"}
          [] kind = "membership"                 -> {"project", "environment", "user"}
          [] kind \in {"database", "resource"}   -> {"project", "environment"}
          [] kind = "resourceEnv"                -> {"resource", "environment"}
          [] kind = "serviceResource"            -> {"resource", "environment"}
          [] OTHER                               -> {}]

\* At no moment of a registration, its rollback or a crash in the middle of
\* either is a row there without the rows it belongs to, unless it is
\* explained: the undos run in reverse.
NoOrphans ==
    \A a \in Attempts : \A kind \in rows[a] :
        Parents[kind] \subseteq rows[a] \/ Explained(a, kind)

\* The administrator of a registration that was answered with an error can sign
\* in only if the last answer was lost and both of the undos that would have
\* closed the door, the membership's and the database's, went wrong.
FailedLeavesNoAccess ==
    \A a \in Attempts :
        pc[a] = "failed" /\ CanSignIn(a) =>
            {"membership", "projectDatabase", "serviceResource"} \subseteq spoiled[a]

\* Register answers every caller, and no request for a database goes on for ever.
EveryRegistrationAnswers ==
    \A a \in Attempts :
        (Running(a) \/ ~Quiet(a)) ~> (Finished(a) /\ Quiet(a))

\* README.md, "One organisation, one project": an installation set up with
\* MAX_COMPANIES=1 has one company.
AtMostMaxCompanies ==
    MaxCompanies > 0 => Cardinality(Companies) <= MaxCompanies
=============================================================================
