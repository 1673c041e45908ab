------------------------------- MODULE Passwords -------------------------------
(***************************************************************************)
(* The password of one user.                                               *)
(*                                                                         *)
(* It is kept twice, hashed: in the auth service's user row, which         *)
(* V2Login compares with, and in the login table of the project, a table   *)
(* of another database that object-builder compares with when a sign-in    *)
(* names its strategy.  The user row says which algorithm its hash is of:  *)
(* argon for the oldest users, who are moved to bcrypt by a goroutine when *)
(* they sign in, and bcrypt for the others.                                *)
(*                                                                         *)
(* Saving a row of the login table, changing the password with the old one *)
(* and a reset after "forgot password" write one of the two or both, in    *)
(* an order of their own, and no transaction spans the two databases.  A   *)
(* value of 60 characters is taken for a hash and saved as it was sent, in *)
(* the login table alone.                                                  *)
(***************************************************************************)
EXTENDS FiniteSets

CONSTANTS
    Calls,     \* the calls and goroutines that can be in flight at once
    Passwords, \* the passwords that are tried and set
    Nothing,   \* no password in a request
    NoHash     \* what the login table holds when it is no hash at all

VARIABLES
    auth,       \* the user row of the auth service
    table,      \* the password whose hash the login table holds, or NoHash
    call,       \* the calls in flight
    wanted,     \* history: the password that was last set in the user row
    overtaken,  \* history: it was set while a migration was in flight
    relabelled, \* history: an argon hash was called bcrypt, not replaced since
    apart       \* history: why the two stores may differ

vars == <<auth, table, call, wanted, overtaken, relabelled, apart>>

ASSUME NothingAssumption == Nothing \notin Passwords
ASSUME NoHashAssumption == NoHash \notin Passwords /\ NoHash # Nothing

\* What the password column of the login table may stand for.
Values == Passwords \cup {NoHash}

Algorithms == {"argon", "bcrypt"}
Reasons == {"reset", "refused", "failed", "overlap", "tableOnly"}

\* A hash, the algorithm that made it, and the hash_type of its row.
Users == [password : Passwords, hash : Algorithms, label : Algorithms]

Idle == [op |-> "idle"]
Migrations == [op : {"migrate"}, password : Passwords]
Saves      == [op : {"save"}, password : Values \cup {Nothing}]
Stored     == [op : {"change"}, at : {"stored"}, old : Passwords, new : Passwords,
               before : Values]
Compared   == [op : {"change"}, at : {"compared"}, new : Passwords]
Refused    == [op : {"change"}, at : {"refused"}, before : Values]

Init ==
    /\ wanted \in Passwords
    /\ \E a \in Algorithms : auth = [password |-> wanted, hash |-> a, label |-> a]
    /\ table = wanted
    /\ call = [c \in Calls |-> Idle]
    /\ overtaken = FALSE
    /\ relabelled = FALSE
    /\ apart = {}

Free(c) == call[c] = Idle
Goto(c, state) == call' = [call EXCEPT ![c] = state]

Migrating == {c \in Calls : call[c].op = "migrate"}

\* The calls that have written one of the stores and not yet the other.
Storing == {c \in Calls : \/ call[c] \in Saves /\ call[c].password # Nothing
                          \/ call[c] \in Stored \cup Compared}

\* Mutant: a hash type that HashTypes does not know.
HashedUnknown(p) == [password |-> p, hash |-> "bcrypt", label |-> "BCRYPT"]

\* Every hash that is made is bcrypt's.
Hashed(p) == [password |-> p, hash |-> "bcrypt", label |-> "bcrypt"]

\* The statement that sets the password sets hash_type too.
SetPassword(p) ==
    /\ auth' = Hashed(p)
    /\ wanted' = p
    /\ overtaken' = (Migrating # {})
    /\ relabelled' = FALSE

\* Without a password it sets hash_type alone.
SetLabelOnly ==
    /\ auth' = [auth EXCEPT !.label = "bcrypt"]
    /\ relabelled' = (relabelled \/ auth.hash = "argon")
    /\ UNCHANGED <<wanted, overtaken>>

\* The hash is compared by the algorithm its row names.
Matches(p) == auth.label = auth.hash /\ auth.password = p

-----------------------------------------------------------------------------
(* V2Login, verifyAndMigratePassword and its copies.                       *)

\* A match of an argon hash starts a goroutine.  Everything else that a
\* sign-in does leaves the password alone.
SignIn(c, p) ==
    /\ Free(c)
    /\ auth.label = "argon"
    /\ Matches(p)
    /\ Goto(c, [op |-> "migrate", password |-> p])
    /\ UNCHANGED <<auth, table, wanted, overtaken, relabelled, apart>>

\* UpdatePassword looks at nothing but the user's id.
Migrate(c) ==
    /\ call[c].op = "migrate"
    /\ auth' = Hashed(call[c].password)
    /\ relabelled' = FALSE
    /\ Goto(c, Idle)
    /\ UNCHANGED <<table, wanted, overtaken, apart>>

\* It fails, or its ten seconds are over.
DropMigration(c) ==
    /\ call[c].op = "migrate"
    /\ Goto(c, Idle)
    /\ UNCHANGED <<auth, table, wanted, overtaken, relabelled, apart>>

-----------------------------------------------------------------------------
(* "Forgot password": V2ResetPassword of the session service.              *)

\* Mutant: the statement does not touch hash_type.
ResetKeepsLabel(p) ==
    /\ auth' = [Hashed(p) EXCEPT !.label = auth.label]
    /\ wanted' = p
    /\ overtaken' = (Migrating # {})
    /\ relabelled' = FALSE
    /\ apart' = apart \cup {"reset"}
    /\ UNCHANGED <<table, call>>

\* The user row alone is updated.
Reset(p) ==
    /\ SetPassword(p)
    /\ apart' = apart \cup {"reset"}
    /\ UNCHANGED <<table, call>>

\* The e-mail address is entered on the way, by the same call.
EnterEmail ==
    /\ SetLabelOnly
    /\ UNCHANGED <<table, call, apart>>

-----------------------------------------------------------------------------
(* Saving a row of the login table: items.Update of object-builder.        *)

\* What may hold between the stores begins anew when a call has them alone.
StartStoring ==
    apart' = IF Storing = {} THEN {} ELSE apart \cup {"overlap"}

\* Mutant: the auth service takes the request for one without a password.
SaveAuthWithout(c, p) ==
    /\ Free(c)
    /\ SetLabelOnly
    /\ IF p = Nothing THEN UNCHANGED apart ELSE StartStoring
    /\ Goto(c, [op |-> "save", password |-> p])
    /\ UNCHANGED table

\* In the middle of its transaction it calls SyncUserService.UpdateUser, which
\* commits in the other database.
SaveAuth(c, p) ==
    /\ Free(c)
    /\ IF p = Nothing THEN SetLabelOnly /\ UNCHANGED apart
                      ELSE SetPassword(p) /\ StartStoring
    /\ Goto(c, [op |-> "save", password |-> p])
    /\ UNCHANGED table

\* The row will take what was sent as it is: a value of 60 characters, be it a
\* hash that was read before or a password of that length, or null.  The auth
\* service is asked without a password; or not at all, when the request says
\* that it comes from there, and then an ordinary password is hashed first.
SaveTableOnly(c, value) ==
    /\ Free(c)
    /\ SetLabelOnly \/ UNCHANGED <<auth, wanted, overtaken, relabelled>>
    /\ apart' = apart \cup {"tableOnly"}
    /\ Goto(c, [op |-> "save", password |-> value])
    /\ UNCHANGED table

\* The statement on the row, and the commit.
SaveRow(c) ==
    /\ call[c].op = "save"
    /\ table' = IF call[c].password = Nothing THEN table ELSE call[c].password
    /\ Goto(c, Idle)
    /\ UNCHANGED <<auth, wanted, overtaken, relabelled, apart>>

\* A later statement or the commit fails, and the transaction rolls back.
FailSave(c) ==
    /\ call[c].op = "save"
    /\ apart' = IF call[c].password = Nothing THEN apart ELSE apart \cup {"failed"}
    /\ Goto(c, Idle)
    /\ UNCHANGED <<auth, table, wanted, overtaken, relabelled>>

-----------------------------------------------------------------------------
(* Changing it with the old one: V2ResetPassword of the user service.      *)

\* The login table is written first, before the old password is looked at.
ChangeRow(c, old, new) ==
    /\ Free(c)
    /\ table' = new
    /\ StartStoring
    /\ Goto(c, [op |-> "change", at |-> "stored", old |-> old, new |-> new,
                before |-> table])
    /\ UNCHANGED <<auth, wanted, overtaken, relabelled>>

Compare(c) ==
    /\ call[c] \in Stored
    /\ Matches(call[c].old)
    /\ Goto(c, [op |-> "change", at |-> "compared", new |-> call[c].new])
    /\ UNCHANGED <<auth, table, wanted, overtaken, relabelled, apart>>

\* The old password is wrong, or its comparison is an error.
Refuse(c) ==
    /\ call[c] \in Stored
    /\ ~Matches(call[c].old)
    /\ apart' = apart \cup {"refused"}
    /\ Goto(c, [op |-> "change", at |-> "refused", before |-> call[c].before])
    /\ UNCHANGED <<auth, table, wanted, overtaken, relabelled>>

\* The user row cannot be read or written.
FailChange(c) ==
    /\ call[c] \in Stored \cup Compared
    /\ apart' = apart \cup {"failed"}
    /\ Goto(c, Idle)
    /\ UNCHANGED <<auth, table, wanted, overtaken, relabelled>>

AnswerRefusal(c) ==
    /\ call[c] \in Refused
    /\ Goto(c, Idle)
    /\ UNCHANGED <<auth, table, wanted, overtaken, relabelled, apart>>

\* The user row follows.
ChangeAuth(c) ==
    /\ call[c] \in Compared
    /\ SetPassword(call[c].new)
    /\ Goto(c, Idle)
    /\ UNCHANGED <<table, apart>>

-----------------------------------------------------------------------------
Step(c) ==
    \/ Migrate(c) \/ DropMigration(c)
    \/ SaveRow(c) \/ FailSave(c)
    \/ Compare(c) \/ Refuse(c) \/ AnswerRefusal(c) \/ FailChange(c) \/ ChangeAuth(c)

Next ==
    \/ \E p \in Passwords : Reset(p)
    \/ EnterEmail
    \/ \E c \in Calls : Step(c)
    \/ \E c \in Calls, p \in Passwords : SignIn(c, p)
    \/ \E c \in Calls, p \in Passwords \cup {Nothing} : SaveAuth(c, p)
    \/ \E c \in Calls, value \in Values : SaveTableOnly(c, value)
    \/ \E c \in Calls, old, new \in Passwords : ChangeRow(c, old, new)

Spec == Init /\ [][Next]_vars

-----------------------------------------------------------------------------
(* Properties.                                                             *)

\* The state is well formed.
PasswordsTypeOK ==
    /\ auth \in Users
    /\ table \in Values
    /\ call \in [Calls -> {Idle} \cup Migrations \cup Saves \cup Stored
                          \cup Compared \cup Refused]
    /\ wanted \in Passwords
    /\ overtaken \in BOOLEAN
    /\ relabelled \in BOOLEAN
    /\ apart \subseteq Reasons

\* The password that was last set is the one V2Login accepts, with two
\* exceptions: it was set while the goroutine of an earlier sign-in was still
\* to write the old one, or an argon hash was called bcrypt's by a request
\* that brought no new password.
LastPasswordSignsIn == overtaken \/ relabelled \/ Matches(wanted)

\* When no call is between its two writes the stores hold the same password,
\* unless one of the two was written alone since (the user row by a reset or a
\* late migration, the login table by a save that sent something else than a
\* password to hash, or for the auth service), a change was refused after its
\* first write, a save was rolled back, or two calls wrote at once; and the next
\* save or change that runs alone mends them (items.go, Update).
StoresAgree == apart = {} /\ ~overtaken /\ Storing = {} => table = auth.password

\* A change of password that is refused has changed nothing.
RefusedChangesNothing == \A c \in Calls : call[c] \in Refused => table = call[c].before
=============================================================================
