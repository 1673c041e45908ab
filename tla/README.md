# u-code, modelled and proved

TLA+ models of the parts of u-code whose correctness depends on the order in
which several processes do things, the TLC runs that check them on small
instances, and theorems that TLAPS proves for every value of the constants.

## The system

u-code is a low-code platform: a user designs tables in an admin application
and the services keep a real Postgres database in step with the design.

| part | state | operations | talks to |
|---|---|---|---|
| `cmd/ucode`, the command line tool | the marker `.bootstrapped`, `.env` | start, reset, stop, status, logs | docker, auth over HTTP |
| auth service | users, sessions, API keys, memberships; answers about sessions, in Redis; the undos of a registration, in memory | register an organisation, sign in, refresh, change environment, sign out, reset a password | company and object-builder over gRPC |
| company service | companies, projects, environments, resources (which database a project has), service resources; vault secrets; Postgres roles and databases | create and delete each of them, create a project's database | Postgres, vault, object-builder |
| object-builder | in each project's database: tables, fields, relations, views, layouts, permissions and the users' own tables; a pool of connections by project, in memory | design changes, item reads and writes, project registration | Postgres |
| gateway | an in-memory LRU cache, rate limiters, upload handlers | authorisation, HTTP to gRPC | auth, company, object-builder, MinIO |
| admin application | none the services rely on | | gateway |

Hard behaviours. Registration is nine writes in five stores without a
transaction, with compensation in memory; any call may fail, be done and lose
its answer, or outlive its caller, and either service may die between two
writes. The tool retries over that. Design changes read the catalogue outside
the transaction that changes it, and several administrators edit at once. The
gateway and the auth service answer from caches that goroutines fill. A password is
kept in two databases. Everything in-memory that requests share is read
and written by goroutines, some of it without a lock.

`PROJECT.json` lists every part, modelled or not, and every hazard at its line.

## Modules

| module | models |
|---|---|
| `Registration` | `Register` in the auth service, its rollback, and `CreateResource` in the company service, as two processes for each call |
| `AtomicRegistration` | what registration promises: an answer is given once and stays true |
| `RegistrationPromise` | the refinement mapping from `Registration` to it |
| `Bootstrap` | `ucode start` and `ucode reset` over `Registration` |
| `Fields` | the fields of one table in object-builder: the catalogue, the table in Postgres, the columns of views, and the edits in flight |
| `Sessions` | the sessions of one user: sign-in, refresh, change of environment, `HasAccessUser` and its cache, sign-out |
| `Passwords` | one user's password in its two databases: migration of old hashes, reset, change, saving a row of the login table |
| `TenantPool` | object-builder's map of connection pools: `AutoConnect`, `Register`, `Reconnect`, and edits that take connections |
| `ApiKeyCache` | the gateway's cache of API keys: `AuthMiddleware`, its wait markers and the goroutines that fill the cache |
| `MCRegistration`, `MCBootstrap`, `MCFields`, `MCSessions`, `MCPasswords`, `MCTenantPool`, `MCApiKeyCache` | instances for TLC |
| `LeftoverProofs` | theorems about what a registration leaves behind, and the refinement |
| `RegistrationProofs`, `BootstrapProofs`, `FieldsProofs`, `SessionsProofs`, `PasswordsProofs`, `TenantPoolProofs`, `ApiKeyCacheProofs` | theorems about the module each is named after |

`Bootstrap` extends `Registration` and composes the tool with the two services.
The other modules stand by themselves: what one part sees of another is a
choice of what it may answer, or a part of the state that changes by itself
(`ChangeSource`, `registered`).

### Registration

A call of `Register` is an element of `Attempts`; `pc[a]` is the write it is
about to make, `undos[a]` is `registerRollback.steps`, and `rows[a]` is what the
stores hold because of it: a name for each row, secret, database and pool. What
is in the rows is left out. `handler[a]` is the `CreateResource` request the
call sent, which another process serves and which may go on after the call gave
up on it. `cancelled` holds the calls whose HTTP context is done, and `cause`
what the answer says.

Every remote write is one action with three outcomes: done and recorded; failed;
done with its answer lost. Each failure is counted in `failures` and its kind
must be in `Faults`, so that a run says exactly what goes wrong in it; a call
made in a context that is done fails without being counted. `spoiled` is
history: the writes whose answer was lost, whose undo failed, or, for the
database, that stopped halfway or whose deferred drop failed. No action reads
it.

The undos share one deadline of 30 seconds (`rollbackTimeout`), counted from the
first of them. `UndoLast` is an undo within it, which succeeds or fails by
itself. `RollbackTimesOut` is the deadline: the undo under way may have got
anywhere, and all that are still recorded fail without being sent. It is one
failure, however many undos it takes; an undo whose server goes on after the
deadline has its effect at that moment in the model.

A `CreateResource` that fails takes the database and the role back by its
deferred drop and leaves the rows it had written, since its caller records an
undo only for an answer without an error. That is not in `spoiled`: nothing else
has to go wrong for it. `HasReason` names it as a reason of its own, beside what
is in `spoiled`.

A step of the model is one remote call with the statements around it. That is
as fine as the interleaving gets, since two calls share state only through the
stores. The exception is the count of companies and the insert, one remote
call with a read and a write in it: they are two actions.

The deletion marks the company service puts on companies and projects are
modelled as the row's absence: the count and every lookup by identifier ignore
marked rows. Foreign keys are in `ReferencedBy`.

### AtomicRegistration and the refinement

The abstract specification has an answer per call and the set of organisations
whose administrator can sign in. `RegistrationPromise` maps `pc` and `rows` to them.
A call answered "registered" is open at that step and stays open; one answered
"failed" is closed or was already open before the answer, and does not open
afterwards; unless its withdrawal was in doubt. `doubted` makes the exception
part of the promise: doubt arises before the answer, never after it, and an
organisation that was in doubt is never answered "registered". The mapping reads
the seven rows that sign-in needs (`CanSignIn`), from `UserDefaultProject` and
`V3MultiCompanyLogin`, and calls a withdrawal doubtful (`InDoubt`) when the last
answer was lost and the undos of the membership and of the database both went
wrong. That takes three failures when the undos fail one by one, and two when the
deadline passes over both of them, which `promise` reaches.

### Bootstrap

The tool is a process with a phase `cli`; it extends `Registration` and starts
its calls. `ConnectionLost` and `Interrupt` cancel the call they leave behind,
which goes on in the services.

Every step of the tool may fail, as a failure that is counted. `StartCmd` may end
because the containers do not come up. `VerifySetup` says "unusable" when rows
are missing, and may say it over a usable installation, because it knows only
that `newAPIClient` failed for two minutes. `MarkBootstrapped` may fail before or
after the file is there. `Down` ends what runs and removes what is stored, all at
once: everything is in one volume (`postgres-data`), and what object-builder has
in memory is made again from the rows when it comes up. If `down --volumes`
reports an error, the command ends before the marker, with the data gone, with
the containers stopped and the data there, or with nothing done. `RemoveMarker`
may fail, and the marker stays. `cut` is history: a reset deleted the data and
left the marker, by an interrupt or by one of these two errors.

`abandoned` is history as well: the calls the tool stopped waiting for before
they were answered, because the connection broke while the auth service lived,
or because of a Ctrl-C. A call that died with its service is not one.

Three of its properties are conditioned on `NobodyHungUp` (`abandoned` is
empty), and the condition is needed. A registration whose caller hung up goes
on, or takes itself back, while the tool tries again: it holds the one place for
a company, so that the next one is refused by the limit; it may let
`verifySetup` sign in and roll back afterwards; and it may count before the next
one inserts. Crashes of either service are not excluded.

### Fields

One table. `field[f]` is the catalogue's row of a field, cut down to what the
table depends on: slug, type, unique. `table.columns` and `table.constraints`
are what Postgres has: a column by its name, with the field whose values it
holds (`of`), and a constraint by its name, with the column it is on. The two
names differ after a rename, because a constraint is named once, for the slug
of that moment. `view[v]` is the set of fields a view shows. `session[s]` is an
edit in flight with what it has read; `spent` keeps an identifier from being
used twice, and `stale` is history, the unique fields that were renamed or
retyped. No action reads `stale`.

Postgres runs at its default isolation, READ COMMITTED. A statement reads what
is committed, and the program may use it much later. So each read that a later
statement depends on is an action of its own (`StartUpdate`, `StartDelete`,
`ReadView`, `OpenView`), and the writes, which hold the locks others would need
to write the same thing, are one action with the commit. `Create` reads nothing
without its lock and is one action. A statement that Postgres refuses is a
guard of the commit, and `Abort` is every other way for an edit to end: a
deadlock, a lost connection, a duplicate in the data, a closed window.

`Overlapping` says whether two edits of one field may be in flight at once. The
services do not prevent it; one save of the admin application does, which sends
its requests one after the other (`fields.ts`, 91). With `FALSE` the catalogue and the table agree, checked
and proved; with `TRUE` they do not (`overlap`).

`Delete` takes the field out of the one view the request names (`ReadView`);
other views keep a column without a field, as `fields.ts` and `CONTEXT.md` do
not expect. The model has it, and no property is about it.

Left out: sections, field permissions, counters of INCREMENT_ID fields, fields
that belong to relations, creation and deletion of views, and case: Postgres
folds an unquoted name, so the slugs of the model are names that are already
lower case, as `slug.ts` makes them. `is_system` is not there because it
decides nothing: `GetByID` never reads it (so Update's check is never true),
and Delete wraps a nil error for a system field, which reports success and
changes nothing.

### Sessions

One user under one client type. `rows[s]` is the row of session `s`, by the
order of `created_at`, with the environment it names and what is left until
`expires_at`; `cache[s]` is what Redis holds under `has_access_user:<id>`;
`shown[s]` is the environment the client believes it is in. `call[c]` is a call
in flight with what it has read. `gained`, `raced` and `out` are history.

Each statement that reads or writes a store is an action, and a call that asks
another service in between is in flight meanwhile. A sign-in is `StartSignIn`
(expired rows go), `Count`, `Evict`, `Insert` and `AnswerSignIn`; a refresh or
a switch reads the row, asks, and writes it by its id (`StartRefresh`,
`StartSwitch`, `WriteMove`, `AnswerMove`); a check is `StartCheck`, `ReadRow`,
`Fill`; a sign-out deletes the row and then clears the cached answer, and the
clearing may fail (`StartDelete`, `Clear`). Three calls delete rows and leave
the cache alone (`DropRows`). `LoseSwitch` is a switch whose answer is lost.
`Tick` shortens everything that has an end, so time needs no clock.

The expired rows are searched by `user_id`, while rows are filed under either
of two ids, so the model lets all of them go or none. Left out:
`last_activity_at`, which only a display reads; the tokens themselves, which
carry the session's id; and two forms of the refresh that the admin application
does not call (`RefreshToken`, `V2RefreshTokenSuperAdmin`), which read and
write the row as the modelled one does.

### Passwords

`auth` is the user row: a password, the algorithm of its hash and the row's
`hash_type`; `table` is the password of the login table. A password is a model
value, a hash is the password with the algorithm that made it. `call[c]` is a
migration goroutine, a save or a change in flight. `wanted`, `overtaken`,
`relabelled` and `apart` are history: what was last set, and the reasons why it
may not be what signs in, or not what both databases hold.

`SignIn` starts the goroutine, `Migrate` is its `UpdatePassword`, which looks
at nothing but the user's id. `Reset` writes the user row alone. Saving a row
of the login table commits in the auth service in the middle of its own
transaction (`SaveAuth`, then `SaveRow` or `FailSave`). `SaveTableOnly` is the same save of a
value that the auth service does not get as a password: one of 60 characters is
taken for a hash (`backend-notes.md`, 105-112) and null for none, both are
written as sent, and the user row is relabelled; with `from_auth_service` in the
request the auth service is not asked at all. The login table then holds the hash
of any password, or no hash of one (`NoHash`: null, or a password of 60
characters in plain). Only a request's own flag matters there: the services that
set `from_auth_service` create and delete rows, or update them without a
password. A change with the old
password writes the login table first and compares afterwards (`ChangeRow`,
`Compare` or `Refuse`, `ChangeAuth`). A request without a password sets
`hash_type` alone (`SetLabelOnly`).

Left out: sign-ins that change nothing, users without a password, the copy of
the hash in the person table, which no sign-in reads, and saves that change the login, e-mail, phone or tin (`UpdateSyncUser` may then
move the row to another user).

### TenantPool

`mapped` is `PsqlPool`; `pool[p]` says whose a pool is and whether it is open;
`connect[c]` is a call of `Register` or `Reconnect`, `edit[e]` an edit of a
field with the pools it has looked up. The map has no lock, so `Look`,
`Remove` and `Add` are actions of their own; the Go runtime ends the process
when it notices a write beside another access, which is one cause of `Restart`.
`Close` closes, and `Drained` waits for the connections that are out, as
`pgxpool` does. `FailConnect` leaves its new pool open, as the code does. An
edit is `Update`, which has a connection for its transaction when `GetByID`
looks the pool up again and takes a second one.

`crossed` (two connects of one tenant in flight at once) and `spilled` (pools
made and not added) are history. `Override` has no caller; the queries of other
requests take one connection and give it back, which `EndEdit` includes.

### ApiKeyCache

`source` is what the auth and company services would answer, and changes by
itself; `cache` the two entries of each key, `marker` the two wait markers,
which are shared by all keys. `request[r]` is a request with the question it is
at and the answer it has; `writer[w]` a goroutine that will add an entry.
`Find`, `StopWaiting` and the guard `r \notin gone` are the waiting loop: it
ends on a deadline, and when the client hangs up first the context is
cancelled, which the loop does not look for, so that it polls until an entry
comes. The bearer-token case asks `HasAccessUser` (`Sessions`) and keeps
nothing.

## Runs

| run | instance | shows |
|---|---|---|
| `rollback` | two calls for one login, limit one, three failures of every kind | types; a failed call's company row does not stay without a reason; every row that stays has a reason; no row outlives the row it belongs to; a failed call leaves no way in |
| `promise` | two calls, two logins, no limit, two failures | the refinement of `AtomicRegistration`, doubt included |
| `bootstrap` | three calls, limit one, one failure, hang-ups and services dying, any number of starts and resets, fairness | the marker stands for an installation; "unusable" is said of a finished installation whose sign-in was refused, or of a company row left for a reason; one company; every command and every registration ends |
| `fields` | two fields, three slugs, two types, one view, two edits in flight | types; the catalogue describes the table; a unique field stays unique until it is renamed or retyped itself; an update changes the slug or the type, not both |
| `sessions` | two calls, three sessions, two environments, limit one | types; by how much sign-ins exceed the limit; a session signed out has no cached answer; a deleted session does not come back; client and row agree on the environment |
| `passwords` | three calls, three passwords | types; the password last set signs in; the two databases agree |
| `apikeys` | one key, one value, two requests, one goroutine, entries that live two ticks, fairness | types; a forgotten key stays forgotten; answers catch up with the row; nobody with a client waits for ever |
| `tenants` | one tenant, three pools of two connections, two connects, two edits, fairness | types; a connected tenant is reachable; no open pool is lost; connects and edits end unless a pool is starved |
| `companies` | two calls, no failure | violation: both pass the limit |
| `unique` | three slugs | violation: an update of one field drops the constraint of another one |
| `overlap` | two edits of one field | violation: the catalogue does not describe the table |
| `wrongold` | one call, two passwords | violation: a refused change has changed the login table |

Bounds. Two registrations are enough for the two ways they meet, the count of
companies and the login; a third would repeat either. Three failures are the
longest chain the properties speak of (an answer lost, the membership's undo and
the database's undo, `FailedLeavesNoAccess`); the deadline makes the same of two,
so that `promise` reaches doubt as well. `bootstrap` has three calls
so that the tool can retry twice, with one failure, since a retry needs one.
The runs have 4,117,899 (`rollback`), 684,300 (`promise`), 104,205 (`bootstrap`)
and 2,026,918 (`passwords`) distinct states.
`SYMMETRY` is used in runs without liveness only, and no action tells the calls
(or the fields, slugs, types, edits, environments and passwords) apart.

`fields` has two fields, because every property relates one field to another
one, three slugs so that a name can be freed and taken while both fields have
one, and two types for the one distinction the code makes, whether the type
changes. Two edits in flight and any number of finished ones give every order
of read and commit. A third slug is also what a swap of two names needs.

`sessions` has two calls, because each hazard is a read of one overtaken by
another; three sessions, so that the limit can be exceeded by the overlap and
not only reached; one of them calls again (`Active`), the others are there to
be counted and evicted. Lives of one tick make every expiry reachable. In
`passwords` three calls are a migration or a first write, a second write and a
third that finds both; three passwords are the old, the new and one that was
neither. `apikeys` has one key, because keys meet in the markers only, and a
marker left for one key does to another what a marker whose answer never comes
does to its own; one value, so that a key
has its row or has not, and the change from one row to another is not in the
run (`AnswersCatchUp` then speaks of a key that is deleted, or made); `Life` is longer than `MarkLife`, as 300 seconds are than
280. `tenants` has one tenant, because tenants share no pool and no entry,
and three pools, so that a second reconnect has one to make while the first
replaces another; two edits are what starves a pool of two connections. The theorems hold
for any number of each.

Deadlock is checked where something is always possible: in `sessions`,
`passwords`, `wrongold`, `apikeys` and `tenants`. In the other runs a state in
which nothing happens is an end: the calls are over and nobody has to start
another one, or no edit is open and no identifier is left.

Fairness. `bootstrap` assumes that the tool's process goes on once it runs, that
a registration's goroutine goes on and that the company service goes on with a
request. All three are loops over calls with deadlines (three minutes for the
request, five for the set-up, `rollbackTimeout` for the rollback). No fairness
is assumed of `StartCmd`, `Down`, `Interrupt`, of failures or of crashes.
`apikeys` assumes that a request, a goroutine and time go on; none of arrivals,
evictions, changes of a row or hang-ups. A request that waits has its deadline
among its own steps, so a waiting client needs no entry to get on. `tenants`
assumes that connects and edits go on, and strong fairness of taking a
connection, because `pgxpool` serves those who wait in turn: a connection that
is given back again and again reaches each of them. Nothing is assumed of
restarts, of failures or of callers that give up.

`promise` and `bootstrap` leave "skipped" out: with it
(`ServiceResource.Update` hides a failed insert), a call is answered
"registered" whose administrator cannot sign in. `rollback` has it.

## Findings

1. `companies`: two registrations at once exceed `MAX_COMPANIES`.
2. `unique`: after renames, dropping "unique" from one field silently drops it
   from another; `backend-notes.md` says that nothing happens.
3. `overlap`: Update compares with a row it read outside its transaction, so
   two updates of one field leave a slug or type that the column has not.
4. `wrongold`: a change of password is refused after the new password was
   written into the login table; `profile.ts` reads an error as "not you".

The conditions in the properties that hold are behaviours of the code too:

* A failed registration can leave a Postgres role, a vault secret, resource
  rows or a pool, though the rollback says the installation is left as it was
  found (`register_rollback.go`, 19-21). A `CreateResource` that fails after
  `AddResource` wrote its rows is enough for resource rows, and for the
  environment they refer to. `LeftoversExplained` says what can stay and why.
* One deadline bounds all the undos, so that one that hangs keeps the others from
  running, the company's among them (`RetryNotBlocked`); with a lost last answer
  it leaves an administrator who was told "failed" and can sign in
  (`FailedLeavesNoAccess`).
* `ucode reset` deletes the data before the marker; when it is interrupted in
  between, or `down --volumes` reports an error after the data went, or the
  marker cannot be removed, the next start finds the marker and does nothing
  (`cut` in `MarkerMeansInstalled`).
* The tool advises a reset, which deletes everything, also over a finished
  installation whose sign-in failed for two minutes for another reason
  (`UnusableOnlyForReason`).
* Sign-ins that overlap exceed the session limit, by the number of the others;
  a refresh or a change of environment does not count at all
  (`LimitUnlessOverlapped`).
* A check of access that read a session's row before a sign-out caches its
  answer after it (`out` leaves those sessions aside); `ExpireSessions` and the
  two deletions by device leave cached answers until they expire.
* Two refreshes or switches of one session at once, or a switch whose answer is
  lost, leave the client in one environment and its row in another
  (`OneEnvironmentUnlessRaced`).
* A sign-in with an argon hash can put an old password back after a reset, and
  an update of the user row without a password locks a user with an argon hash
  out (`LastPasswordSignsIn`).
* A reset, a failure between the two writes, or a migration that overtakes one,
  leaves the two databases with different passwords until the next save or
  change; so does a save of a value of 60 characters, which the login table takes
  as it is and the user row not at all (`StoresAgree`).
* A connect that fails, or finds a pool it did not expect, leaves its own pool
  open with nobody to close it (`NoPoolLost`).
* As many edits as a pool has connections can wait for one more each
  (`AllEndUnlessStarved`).
* A request whose client hangs up while it waits polls the cache until an
  entry comes (`NobodyWaitsForEver`).

## Proofs

`RegistrationProofs`, for any set of calls, limit, kinds and number of failures:

* `TypeCorrect`: `Spec => []TypeOK`, one lemma for the forward path, one for the
  handler, one for the undos and one for the crashes. `DropLast` is the fact on
  sequences it rests on.
* `RetryIsNotBlocked`: `Spec => []RetryNotBlocked`. The property says nothing of
  the phases before "failed", so it is not inductive. `CompanyInv` strengthens
  it: while a call runs, its company row is there only if its undo is the first
  of `undos[a]`, or the row is spoiled, and a call that has not reached the
  insert has neither. Then the rollback, which takes the last undo each time,
  cannot end before it has tried the company's.

The assumptions are the three in `Registration` (the limit and the bound are
natural numbers; the faults are known kinds).

`LeftoverProofs`, under the same assumptions. One inductive invariant,
`LeftoverInv`, carries the first three theorems. It says of each call by itself
what the write it is at, the undos it has recorded and the rows that exist have
to do with each other:

* the undos are those of the first writes, in the order of the writes, and going
  forward their number is given by the phase (`InOrder`); what they are to undo
  is there (`Present`) and was not spoiled (`Unspoiled`, `NotBoth`). The deadline
  empties the undos and spoils each of them, which keeps all three;
* the request for the database has not been sent, is awaited, or has ended, unless
  its undo was already given up (`Serving`). Without this the handler, which
  goes on when nobody waits for it, could put a row under an environment that
  the rollback has deleted;
* a request that failed has no role and no database, or one of them is spoiled
  (`Dropped`);
* a row of a failed call is about to be undone or explained (`Kept`), and a row
  has the rows it belongs to or is explained (`Rooted`).

From it:

* `LeftoversAreExplained`: `Spec => []LeftoversExplained`. At the end no undo is
  due, so that `Kept` leaves the explanations only: a row is explained by what
  went wrong with its own write or undo, by a `CreateResource` that failed after
  writing it, or by such a row that refers to it.
* `NoRowIsAnOrphan`: `Spec => []NoOrphans`, which `Rooted` states. The step that
  needs `InOrder` is an undo: whatever belongs to the row it deletes was written
  later, so its undo has run already, or failed, which explains it.
* `FailureLeavesNoAccess`: `Spec => []FailedLeavesNoAccess`. Sign-in needs a row
  of each undo, and each is explained; only itself can explain a membership, a
  database and the last row.
* `RegisterKeepsPromise`: `Spec => KeepsPromise`, the refinement: the initial
  states map to initial states, and each step to one answer, one opening, one
  withdrawal or a stutter. It is proved for any number and kind of failures but
  one: no insert of `ServiceResource.Update` is hidden ("skipped"), with which
  the promise is false. The steps that may put a call in doubt are the loss of
  the last answer and the failed undos, all of them before the answer; and a
  call on its way to "registered" has nothing spoiled that sign-in needs, so
  that it is in no doubt.

`BootstrapProofs`, for any calls, limit and failures, and any number of starts
and resets:

* `BootstrapTypeCorrect`: `BootstrapSpec => []BootstrapTypeOK`.
* `BootstrapInvariant`: the inductive invariant of the next three. It is
  `LeftoverInv` with what the tool's phase says of the registrations: the one it
  waits for is the only one that runs, or the others were abandoned (`Alone`);
  with the marker there it registers nothing (`MarkerAtRest`); and unless a call
  was abandoned (`ToolKnows`), a marker or a successful sign-in has a usable
  and settled registration behind it, which stays so (`SettledStays`), a
  refusal by the limit has a settled company behind it (`ReasonKnown`), and a
  call about to insert its company has room (`RoomForCompany`).
* `MarkerIsInstalled`: `BootstrapSpec => []MarkerMeansInstalled`. A `Down` that
  deletes the rows under the marker ends in `removeMarker` or in `cut`, and
  `removeMarker` ends with the marker gone or in `cut`.
* `UnusableHasReason`: `BootstrapSpec => []UnusableOnlyForReason`, if "skipped" is
  not among the faults: with it the tool meets a registered company whose
  administrator cannot sign in, and rightly calls it unusable.
* `OneToolKeepsToLimit`: `BootstrapSpec => []OneToolOneCompany`. Companies are
  counted with the library's theorems on finite sets; the set of calls itself
  need not be finite.

`FieldsProofs`, for any fields, slugs, types, views and edits in flight:

* `FieldsTypeCorrect`: `Spec => []FieldsTypeOK`, overlapping or not.
* `CatalogueAgrees`: `Spec => []CatalogueMatchesTable` unless `Overlapping`. The
  property does not mention the edits in flight, which will change the table by
  what they read; `AgreeInv` adds that what they read is still so (`ReadsHold`)
  and that each is the only one of its field (`Alone`). A commit then touches
  the column of its own field only, because two fields cannot have one slug
  (`SlugsDiffer`: the column would hold the values of both). `UpdatedColumns`
  says what a commit leaves.
* `OneChangeOnly`: `Spec => OneChangeAtATime`, on the same invariant and
  `OneThing`: a type and a slug that both change are refused.
* `UniqueStays`: `Spec => []UniqueUnlessStale`, inductive with `AgreeInv`. A
  commit adds or drops constraints under the slugs of its own field, which no
  other field has, so it cannot meet a constraint that still has its field's
  name (`KeptConstraint`).

The assumptions are the two in `Fields`: `Overlapping` is a truth value and
`Nothing` is no row, column or slug. The last three theorems also assume
`~Overlapping`, in their statement.

`SessionsProofs`, for any calls, environments, limit, lives and bounds:

* `SessionsTypeCorrect`: `Spec => []SessionsTypeOK`. That nothing is there of a
  session not yet created needs the same of every call in flight
  (`NoneToCome`), since a refresh or a check writes under the id it read.
* `DeletedNeverRevived`: `Spec => NeverRevived`. A row appears in `Insert` only,
  under the next number; every other write is of a row that is there.
* `SignedOutAlwaysOut`: `Spec => []SignedOutStaysOut`. `OutInv` adds that a
  session in `out` has no row and no check that has read one, so that no `Fill`
  is to come, and that the sessions a sign-out is still to clear have no row.
* `OneEnvironmentAlways`: `Spec => []OneEnvironmentUnlessRaced`. `EnvInv` says
  what holds while a refresh or a switch is in flight, for a session that never
  raced: it is the only one (`Together`), and what it has read or written fits
  what the client shows; and a session is answered to one client only
  (`AnsweredOnce`).
* `LimitAlmostKept`: `Spec => []LimitUnlessOverlapped`, if `Calls` is finite. The
  property alone is not inductive: a sign-in that has made room adds a row in
  its next step. `LimitInv` counts those sign-ins (`Ready`) with the sessions.
  One that finds room leaves the sessions under the limit and adds one call at
  most to the others; one that has to evict deletes a session at least, or finds
  none left (`OldestLeave`, from the well-foundedness of the naturals); one that
  inserts turns a call into a session.

`PasswordsProofs`, for any passwords and any number of calls: types,
`LastPasswordAlwaysSignsIn` and `StoresAlwaysAgree`. The first is inductive with
the migrations in flight: each of them carries the password that was last set,
unless it was overtaken (`SignInInv`). The second adds that, until something
named in `apart` happens, one call at most is between its two writes, and that
the database it wrote first has its password (`AgreeInv`); a save of the login
table alone is named there from its start.

`TenantPoolProofs`, for any tenants, pools, connects, edits and limit:

* `PoolsTypeCorrect`: `Spec => []PoolsTypeOK`.
* `TenantsStayReachable`: `Spec => []TenantsReachable`. `MapInv` says that pools
  in the map, and those a connect has made or is to close, are of the tenant
  they are there for, and that a new one is open, in no map entry, and nobody
  else's to add or to close.
  `ReachInv` adds that while the map has a closed pool some connect is about to
  remove it (`ClosedIsReplaced`), and while it has a gap some connect is about
  to fill it (`GapIsFilled`); the last to add leaves neither.
* `PoolsAreNotLost`: `Spec => []NoPoolLost`. For a tenant whose connects never
  crossed, one of them is in flight at most (`OneAtATime`), and what it found is
  what the map still has until it has closed it (`FoundStays`).

`ApiKeyCacheProofs`, for any keys, values, lives, requests and goroutines:
`CacheTypeCorrect`, and `DeletedKeysStayForgotten`: `Spec => DeletedStaysForgotten`,
an action property that the type invariant is enough for: one step for each
action that adds an entry, starts a goroutine or answers a request.

Assumptions of these four: limits, lives and bounds are positive natural
numbers, the clients that call again are among the sessions, and `Nothing` is
none of the things it stands in the place of. But for `LimitAlmostKept`, whose
bound is the number of calls, nothing is assumed to be finite: what the theorems
say is of one session, one pool or one key at a time.

Every safety property and action property of the passing runs is proved, and so
is the refinement. Only model-checked is liveness (`CommandsEnd`,
`EveryRegistrationAnswers`, `AnswersCatchUp`, `NobodyWaitsForEver`,
`AllEndUnlessStarved`), which the prover does not reach: it has no rule for
ENABLED, on which fairness rests. The four violations are TLC's as well.

## Plan

Done, in this order: `Registration`, `AtomicRegistration`, `Bootstrap`;
`Fields`; `Sessions`, `Passwords`; `TenantPool`; `ApiKeyCache`; the theorems of
each.

What would come next:

1. `Fields`: the counter of an INCREMENT_ID field (`incrementseqs` is keyed by
   slug), fields that a relation creates on both sides, field permissions under
   concurrent creation of a role.
2. Theorems: that `Bootstrap` without hang-ups implements a tool that installs
   once, and a sharper `LimitAlmostKept`, that sign-ins which do not overlap
   keep to the limit itself.
3. `Registration` with environments added later to a project.
4. `Passwords` with saves that change the login.

## Not modelled

Listed in `PROJECT.json` with reasons: HTTP handlers that only translate, the
admin application, generated code, storage of layouts and menus, SQL generation
for items, MongoDB and ClickHouse resources, the nightly jobs, uploads (whose
goroutine writes a label nobody reads), and the rate limiter, which nothing
calls. Most of the repository is of these kinds: API documents and protobuf code
that are generated, and storage functions that build one statement and run it.
