------------------------------- MODULE Sessions -------------------------------
(***************************************************************************)
(* The sessions of one user under one client type, in the auth service.    *)
(*                                                                         *)
(* A session is a row of Postgres.  HasAccessUser keeps what it answered   *)
(* in Redis, under the session's id, for a minute; the client keeps the    *)
(* tokens and the environment it works in.  A sign-in counts the sessions  *)
(* of its environment, evicts the oldest ones and inserts its own in       *)
(* statements of their own; a refresh and a change of environment read     *)
(* the row, ask other services, and write the row by its id; a sign-out    *)
(* deletes the row and then the cached answer.  Nothing holds a lock       *)
(* across two of these steps, and several calls are in flight at once.     *)
(*                                                                         *)
(* Time is what is left: of a row until its expires_at, of a cached answer *)
(* until Redis drops it.  Tick shortens all of it at once, what a call in  *)
(* flight has read included, so no clock grows without bound.              *)
(***************************************************************************)
EXTENDS Integers, FiniteSets

CONSTANTS
    Calls,        \* the calls that can be in flight at once
    Environments, \* the environments of the project
    SessionLimit, \* the client type's session_limit
    MaxSessions,  \* bound: the sessions that are ever created
    Active,       \* bound: the sessions whose clients call again
    Life,         \* RefreshTokenExpiresInTime, in ticks
    CacheLife,    \* HAS_ACCESS_USER_CACHE_TTL, in ticks
    Nothing       \* what is in the place of a row, an answer or a token

\* Sessions are numbered in the order of their created_at.
Ids == 1 .. MaxSessions

VARIABLES
    rows,   \* the session table
    cache,  \* Redis: what has_access_user:<id> holds
    call,   \* the calls in flight, with what they have read
    made,   \* how many sessions have been created
    shown,  \* the environment the client of each session believes it is in
    gained, \* history: environments that a session was moved into
    raced,  \* history: sessions with two refreshes or switches in flight at once,
            \* or with a switch whose answer was lost
    out     \* history: sessions signed out with no check of them in flight

vars == <<rows, cache, call, made, shown, gained, raced, out>>

ASSUME LimitAssumption == SessionLimit \in Nat \ {0}
ASSUME BoundAssumption == MaxSessions \in Nat \ {0}
ASSUME ActiveAssumption == Active \subseteq 1 .. MaxSessions
ASSUME LivesAssumption == Life \in Nat \ {0} /\ CacheLife \in Nat \ {0}

Rows == [env : Environments, left : 0 .. Life]
Answers == [env : Environments, left : 1 .. CacheLife]
Idle == [op |-> "idle"]

ASSUME NothingAssumption == Nothing \notin Rows \cup Answers \cup Environments

Exists(s) == rows[s] # Nothing
Live == {s \in Ids : Exists(s)}
In(e) == {s \in Live : rows[s].env = e}

\* What the calls in flight can be.
Reading   == [op : {"check"}, at : {"missed"}, s : Ids]
Filling   == [op : {"check"}, at : {"read"}, s : Ids, env : Environments]
Starting  == [op : {"signin"}, at : {"cleared", "evicted"}, env : Environments]
Evicting  == [op : {"signin"}, at : {"counted"}, env : Environments, extra : Nat \ {0}]
Made      == [op : {"signin"}, at : {"made"}, s : Ids]
Updating  == [op : {"refresh", "switch"}, at : {"read"}, s : Ids,
              env : Environments, left : 0 .. Life]
Answering == [op : {"refresh", "switch"}, at : {"written"}, s : Ids, env : Environments]
Clearing  == [op : {"delete"}, at : {"clearing"}, ids : SUBSET Ids]

Init ==
    /\ rows = [s \in Ids |-> Nothing]
    /\ cache = [s \in Ids |-> Nothing]
    /\ call = [c \in Calls |-> Idle]
    /\ made = 0
    /\ shown = [s \in Ids |-> Nothing]
    /\ gained = {}
    /\ raced = {}
    /\ out = {}

Free(c) == call[c] = Idle
At(c, op, at) == call[c].op = op /\ call[c].at = at
Goto(c, state) == call' = [call EXCEPT ![c] = state]

\* A client calls with the tokens of a session that was answered to it.
SignedIn(s) == s \in Active /\ shown[s] # Nothing

Without(table, S) == [s \in Ids |-> IF s \in S THEN Nothing ELSE table[s]]

-----------------------------------------------------------------------------
(* Signing in: SessionAndTokenGenerator and Session().Create.              *)

\* Expired rows are looked for by user_id, which may not be the id they are
\* filed under, so that they all go or none does.
StartSignIn(c, e) ==
    /\ Free(c)
    /\ made < MaxSessions
    /\ \E gone \in {{}, {s \in Live : rows[s].left = 0}} : rows' = Without(rows, gone)
    /\ Goto(c, [op |-> "signin", at |-> "cleared", env |-> e])
    /\ UNCHANGED <<cache, made, shown, gained, raced, out>>

\* Mutant: the session to be inserted is not counted.
SurplusWithoutNew(n) == n - SessionLimit

\* How many of n sessions have to make room for a new one.
Surplus(n) == n - SessionLimit + 1

Count(c) ==
    /\ At(c, "signin", "cleared")
    /\ LET e == call[c].env
           n == Surplus(Cardinality(In(e)))
       IN  Goto(c, IF n > 0
                   THEN [op |-> "signin", at |-> "counted", env |-> e, extra |-> n]
                   ELSE [op |-> "signin", at |-> "evicted", env |-> e])
    /\ UNCHANGED <<rows, cache, made, shown, gained, raced, out>>

\* The n oldest of a set of sessions, or all of them.
Oldest(S, n) == {s \in S : Cardinality({r \in S : r < s}) < n}

Evict(c) ==
    /\ At(c, "signin", "counted")
    /\ rows' = Without(rows, Oldest(In(call[c].env), call[c].extra))
    /\ Goto(c, [op |-> "signin", at |-> "evicted", env |-> call[c].env])
    /\ UNCHANGED <<cache, made, shown, gained, raced, out>>

Insert(c) ==
    /\ At(c, "signin", "evicted")
    /\ made < MaxSessions
    /\ made' = made + 1
    /\ rows' = [rows EXCEPT ![made'] = [env |-> call[c].env, left |-> Life]]
    /\ Goto(c, [op |-> "signin", at |-> "made", s |-> made'])
    /\ UNCHANGED <<cache, shown, gained, raced, out>>

\* The new row is read back before its tokens are answered: a sign-in whose
\* session was evicted meanwhile is an error.
AnswerSignIn(c) ==
    /\ At(c, "signin", "made")
    /\ LET s == call[c].s
       IN  shown' = IF Exists(s) /\ s \in Active THEN [shown EXCEPT ![s] = rows[s].env] ELSE shown
    /\ Goto(c, Idle)
    /\ UNCHANGED <<rows, cache, made, gained, raced, out>>

\* The bound on sessions stops a sign-in that another one overtook.
GiveUp(c) ==
    /\ At(c, "signin", "evicted")
    /\ made = MaxSessions
    /\ Goto(c, Idle)
    /\ UNCHANGED <<rows, cache, made, shown, gained, raced, out>>

-----------------------------------------------------------------------------
(* Refreshing the tokens and changing the environment.                     *)

Moving(s) == {c \in Calls : call[c].op \in {"refresh", "switch"} /\ call[c].s = s}

\* V2RefreshToken reads the row and refuses an expired one.  A request names
\* the environment its client is in, or none and the row's own is kept.
StartRefresh(c, s) ==
    /\ Free(c)
    /\ SignedIn(s)
    /\ Exists(s)
    /\ rows[s].left > 0
    /\ \E e \in {shown[s], rows[s].env} :
        Goto(c, [op |-> "refresh", at |-> "read", s |-> s, env |-> e, left |-> rows[s].left])
    /\ raced' = IF Moving(s) = {} THEN raced ELSE raced \cup {s}
    /\ UNCHANGED <<rows, cache, made, shown, gained, out>>

\* V2RefreshTokenForEnv does not look at the expiry.
StartSwitch(c, s, e) ==
    /\ Free(c)
    /\ SignedIn(s)
    /\ Exists(s)
    /\ Goto(c, [op |-> "switch", at |-> "read", s |-> s, env |-> e, left |-> rows[s].left])
    /\ raced' = IF Moving(s) = {} THEN raced ELSE raced \cup {s}
    /\ UNCHANGED <<rows, cache, made, shown, gained, out>>

\* CHeckUserProject, the project's resource or its login data refuses.
RefuseMove(c) ==
    /\ call[c].op \in {"refresh", "switch"} /\ call[c].at = "read"
    /\ Goto(c, Idle)
    /\ UNCHANGED <<rows, cache, made, shown, gained, raced, out>>

\* Mutant: the update inserts the row when it is not there.
Upserted(s, row) == [rows EXCEPT ![s] = row]

\* Session().Update sets the columns of the row with this id, if it is there.
Updated(s, row) == IF Exists(s) THEN [rows EXCEPT ![s] = row] ELSE rows

\* A refresh starts the row's life anew; a switch writes back the end it read.
WriteMove(c) ==
    /\ call[c].op \in {"refresh", "switch"} /\ call[c].at = "read"
    /\ LET s == call[c].s
           e == call[c].env
           left == IF call[c].op = "refresh" THEN Life ELSE call[c].left
       IN  /\ rows' = Updated(s, [env |-> e, left |-> left])
           /\ gained' = IF Exists(s) /\ rows[s].env # e THEN gained \cup {e} ELSE gained
           /\ Goto(c, [op |-> call[c].op, at |-> "written", s |-> s, env |-> e])
    /\ UNCHANGED <<cache, made, shown, raced, out>>

\* Mutant: the client keeps the environment it was in.
AnswerMoveUnseen(c) ==
    /\ call[c].op \in {"refresh", "switch"} /\ call[c].at = "written"
    /\ Goto(c, Idle)
    /\ UNCHANGED <<rows, cache, made, shown, gained, raced, out>>

\* The client takes up the environment it switched to.
AnswerMove(c) ==
    /\ call[c].op \in {"refresh", "switch"} /\ call[c].at = "written"
    /\ shown' = IF call[c].op = "switch" THEN [shown EXCEPT ![call[c].s] = call[c].env]
                ELSE shown
    /\ Goto(c, Idle)
    /\ UNCHANGED <<rows, cache, made, gained, raced, out>>

\* The answer to a switch is lost, or its tokens cannot be made: the client
\* stays where it was.  So it does after a refresh, answered or not.
LoseSwitch(c) ==
    /\ At(c, "switch", "written")
    /\ raced' = raced \cup {call[c].s}
    /\ Goto(c, Idle)
    /\ UNCHANGED <<rows, cache, made, shown, gained, out>>

-----------------------------------------------------------------------------
(* Asking for access: HasAccessUser.                                       *)

\* A cached answer is given at once and nothing changes.
StartCheck(c, s) ==
    /\ Free(c)
    /\ SignedIn(s)
    /\ cache[s] = Nothing
    /\ Goto(c, [op |-> "check", at |-> "missed", s |-> s])
    /\ UNCHANGED <<rows, cache, made, shown, gained, raced, out>>

\* No row, or an expired one, is refused.
ReadRow(c) ==
    /\ At(c, "check", "missed")
    /\ LET s == call[c].s
       IN  Goto(c, IF Exists(s) /\ rows[s].left > 0
                   THEN [op |-> "check", at |-> "read", s |-> s, env |-> rows[s].env]
                   ELSE Idle)
    /\ UNCHANGED <<rows, cache, made, shown, gained, raced, out>>

\* The user may have lost the project or the environment, and a failure to
\* store the answer is ignored: it is stored or it is not.
Fill(c) ==
    /\ At(c, "check", "read")
    /\ \E stored \in BOOLEAN :
        cache' = IF stored
                 THEN [cache EXCEPT ![call[c].s] = [env |-> call[c].env, left |-> CacheLife]]
                 ELSE cache
    /\ Goto(c, Idle)
    /\ UNCHANGED <<rows, made, shown, gained, raced, out>>

-----------------------------------------------------------------------------
(* Signing out and ending sessions.                                        *)

\* Logout and Delete of one session, and DeleteByParams with or without one to
\* keep.  A logout of a session that is gone is not an error; DeleteByParams
\* has to delete one.
Doomed == {{s} : s \in {r \in Ids : Exists(r) \/ SignedIn(r)}}
          \cup ({Live \ {s} : s \in Ids} \ {{}})
          \cup ({Live} \ {{}})

StartDelete(c, ids) ==
    /\ Free(c)
    /\ rows' = Without(rows, ids)
    /\ Goto(c, [op |-> "delete", at |-> "clearing", ids |-> ids])
    /\ UNCHANGED <<cache, made, shown, gained, raced, out>>

Checking(s) == {c \in Calls : call[c].op = "check" /\ call[c].at = "read" /\ call[c].s = s}

\* One DEL for each session; its failure is ignored.
Clear(c) ==
    /\ At(c, "delete", "clearing")
    /\ \E s \in call[c].ids, cleared \in BOOLEAN :
        /\ cache' = IF cleared THEN [cache EXCEPT ![s] = Nothing] ELSE cache
        /\ out' = IF cleared /\ Checking(s) = {} THEN out \cup {s} ELSE out
        /\ Goto(c, IF call[c].ids = {s} THEN Idle
                   ELSE [call[c] EXCEPT !.ids = @ \ {s}])
    /\ UNCHANGED <<rows, made, shown, gained, raced>>

\* ExpireSessions, DeleteSessionsByDevice and DeleteSessionsExceptCurrent
\* delete rows and leave the cached answers.
DropRows(ids) ==
    /\ rows' = Without(rows, ids)
    /\ UNCHANGED <<cache, call, made, shown, gained, raced, out>>

-----------------------------------------------------------------------------
\* Mutant: time runs on after the end.
LessThanNone(n) == n - 1

Less(n) == IF n > 0 THEN n - 1 ELSE 0

\* What Redis holds a tick later.
Elapsed(answer) ==
    IF answer = Nothing \/ answer.left = 1 THEN Nothing
    ELSE [answer EXCEPT !.left = @ - 1]

Tick ==
    /\ rows' = [s \in Ids |-> IF Exists(s) THEN [rows[s] EXCEPT !.left = Less(@)] ELSE Nothing]
    /\ cache' = [s \in Ids |-> Elapsed(cache[s])]
    /\ call' = [c \in Calls |-> IF call[c] \in Updating
                                THEN [call[c] EXCEPT !.left = Less(@)] ELSE call[c]]
    /\ UNCHANGED <<made, shown, gained, raced, out>>

\* A call in flight goes on.
Step(c) ==
    \/ Count(c) \/ Evict(c) \/ Insert(c) \/ AnswerSignIn(c) \/ GiveUp(c)
    \/ RefuseMove(c) \/ WriteMove(c) \/ AnswerMove(c) \/ LoseSwitch(c)
    \/ ReadRow(c) \/ Fill(c)
    \/ Clear(c)

Start(c) ==
    \/ \E e \in Environments : StartSignIn(c, e)
    \/ \E s \in Ids : StartRefresh(c, s) \/ StartCheck(c, s)
    \/ \E s \in Ids, e \in Environments : StartSwitch(c, s, e)
    \/ \E ids \in Doomed : StartDelete(c, ids)

Next ==
    \/ \E c \in Calls : Start(c) \/ Step(c)
    \/ \E ids \in (SUBSET Live) \ {{}} : DropRows(ids)
    \/ Tick

Spec == Init /\ [][Next]_vars

-----------------------------------------------------------------------------
(* Properties.                                                             *)

\* The state is well formed; a row, an answer or a token is of a session
\* that was created.
SessionsTypeOK ==
    /\ made \in 0 .. MaxSessions
    /\ rows \in [Ids -> Rows \cup {Nothing}]
    /\ cache \in [Ids -> Answers \cup {Nothing}]
    /\ call \in [Calls -> {Idle} \cup Reading \cup Filling \cup Starting \cup Evicting
                          \cup Made \cup Updating \cup Answering \cup Clearing]
    /\ shown \in [Ids -> Environments \cup {Nothing}]
    /\ gained \subseteq Environments
    /\ raced \subseteq Ids
    /\ out \subseteq Ids
    /\ \A s \in Ids : Exists(s) \/ cache[s] # Nothing \/ SignedIn(s) => s <= made

\* The limit of session.go Create is a count that is stale when it is used:
\* sign-ins that overlap exceed it, by no more than the others in flight, as
\* long as no session is moved into the environment by a refresh or a switch,
\* which do not count at all.
LimitUnlessOverlapped ==
    \A e \in Environments \ gained :
        Cardinality(In(e)) <= SessionLimit + Cardinality(Calls) - 1

\* Once Logout, Delete or DeleteByParams has cleared the cached answer of a session,
\* with no check of it between its read and its write, HasAccessUser never
\* answers yes for it again: a check that started later finds no row.
SignedOutStaysOut == \A s \in out : cache[s] = Nothing

\* A session that was deleted never comes back, though refreshes and switches
\* that read it before are still to write it.
NeverRevived == [][\A s \in Ids : Exists(s)' /\ ~Exists(s) => s > made]_vars

\* A client and its row are in the same environment when no refresh or switch
\* of the session is in flight, unless it once had two of them in flight, which
\* write the row in one order and answer in the other, or the last writes what
\* the first has made stale; or unless a switch was made and not answered.
OneEnvironmentUnlessRaced ==
    \A s \in Ids \ raced :
        Exists(s) /\ SignedIn(s) /\ Moving(s) = {} => shown[s] = rows[s].env
=============================================================================
