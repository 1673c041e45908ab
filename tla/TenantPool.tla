------------------------------ MODULE TenantPool ------------------------------
(***************************************************************************)
(* The connection pools of object-builder, one for each tenant's database. *)
(*                                                                         *)
(* They are values of one Go map.  At start AutoConnect fills it before    *)
(* the server listens; Register adds a new tenant, Reconnect replaces a    *)
(* pool when the company service has changed the tenant's credentials.     *)
(* Each of the three makes its pool first and touches the map at the end,  *)
(* in steps that hold no lock, while requests look pools up.  A pool hands *)
(* out a bounded number of connections, and Close returns when the last of *)
(* them is given back.                                                     *)
(*                                                                         *)
(* A request is an edit of a field: it has a connection for its            *)
(* transaction when it looks the pool up again and takes a second one.     *)
(***************************************************************************)
EXTENDS Integers, FiniteSets

CONSTANTS
    Tenants,   \* the tenants, by the resource environment their pool is kept under
    Pools,     \* bound: the pools that are made from one start to the next
    Connects,  \* the calls of Register and Reconnect that can be in flight
    Edits,     \* the edits that can be in flight
    MaxConns,  \* PostgresMaxConnections
    Nothing    \* what is in the place of a pool

VARIABLES
    pool,       \* the pools that were made: whose they are, and whether they are open
    mapped,     \* PsqlPool
    connect,    \* the calls of Register and Reconnect in flight
    edit,       \* the edits in flight
    serving,    \* has AutoConnect ended?
    registered, \* the tenants the company service has a resource of
    connected,  \* history: tenants whose pool was added since the start
    crossed,    \* history: tenants with two connects in flight at once
    spilled     \* history: pools that a connect made and did not add

vars == <<pool, mapped, connect, edit, serving, registered, connected, crossed, spilled>>
histories == <<connected, crossed, spilled>>

ASSUME ConnsAssumption == MaxConns \in Nat \ {0}
ASSUME NothingAssumption == Nothing \notin Pools /\ Nothing \notin [of : Tenants, open : BOOLEAN]

Idle == [at |-> "idle"]

\* Where a connect is: it has made its pool, found an old one, closed it,
\* waited for its connections, removed it or found none.
Created   == [at : {"created"}, kind : {"register", "reconnect"}, t : Tenants, new : Pools]
Replacing == [at : {"found", "draining"}, t : Tenants, new : Pools, old : Pools]
Changing  == [at : {"removing", "adding"}, t : Tenants, new : Pools]

\* Where an edit is: it has looked up its pool, has a connection of it, has
\* looked the pool up again, has a second connection, has given it back.
OnePool  == [at : {"found", "holding", "writing"}, t : Tenants, p : Pools]
TwoPools == [at : {"again", "both"}, t : Tenants, p : Pools, q : Pools]

Init ==
    /\ pool = [p \in Pools |-> Nothing]
    /\ mapped = [t \in Tenants |-> Nothing]
    /\ connect = [c \in Connects |-> Idle]
    /\ edit = [e \in Edits |-> Idle]
    /\ serving = FALSE
    /\ registered \in SUBSET Tenants
    /\ connected = {}
    /\ crossed = {}
    /\ spilled = {}

Open(p) == pool[p] # Nothing /\ pool[p].open
Unmade == {p \in Pools : pool[p] = Nothing}
OnTenant(t) == {c \in Connects : connect[c] # Idle /\ connect[c].t = t}

\* The connections of a pool that are in use.
Held(p) == Cardinality({e \in Edits : edit[e].at \in {"holding", "again", "both", "writing"}
                                      /\ edit[e].p = p})
         + Cardinality({e \in Edits : edit[e].at = "both" /\ edit[e].q = p})

GotoC(c, state) == connect' = [connect EXCEPT ![c] = state]
GotoE(e, state) == edit' = [edit EXCEPT ![e] = state]

-----------------------------------------------------------------------------
(* Start: AutoConnect goes through the resources one by one and leaves out *)
(* those it cannot connect.                                                *)

AutoConnect ==
    /\ ~serving
    /\ serving' = TRUE
    /\ \E new \in [registered -> Unmade \cup {Nothing}] :
        /\ \A t, u \in registered : new[t] = new[u] => t = u \/ new[t] = Nothing
        /\ mapped' = [t \in Tenants |-> IF t \in registered THEN new[t] ELSE Nothing]
        /\ pool' = [p \in Pools |->
                      IF \E t \in registered : new[t] = p
                      THEN [of |-> CHOOSE t \in registered : new[t] = p, open |-> TRUE]
                      ELSE pool[p]]
        /\ connected' = {t \in registered : new[t] # Nothing}
    /\ UNCHANGED <<connect, edit, registered, crossed, spilled>>

-----------------------------------------------------------------------------
(* Register and Reconnect.                                                 *)

\* Mutant: the error of pgxpool.NewWithConfig is not returned.
StartConnectNil(c, kind, t, p) ==
    /\ serving
    /\ connect[c] = Idle
    /\ p \in Unmade
    /\ kind = "reconnect" => t \in registered
    /\ registered' = registered \cup {t}
    /\ crossed' = IF OnTenant(t) = {} THEN crossed ELSE crossed \cup {t}
    /\ GotoC(c, [at |-> "created", kind |-> kind, t |-> t, new |-> p])
    /\ UNCHANGED <<pool, mapped, edit, serving, connected, spilled>>

StartConnect(c, kind, t, p) ==
    /\ serving
    /\ connect[c] = Idle
    /\ p \in Unmade
    /\ kind = "reconnect" => t \in registered
    /\ pool' = [pool EXCEPT ![p] = [of |-> t, open |-> TRUE]]
    /\ registered' = registered \cup {t}
    /\ crossed' = IF OnTenant(t) = {} THEN crossed ELSE crossed \cup {t}
    /\ GotoC(c, [at |-> "created", kind |-> kind, t |-> t, new |-> p])
    /\ UNCHANGED <<mapped, edit, serving, connected, spilled>>

\* The database does not answer, a migration fails, the resource is not found
\* or its first rows are refused: the new pool is dropped as it is.
FailConnect(c) ==
    /\ connect[c].at = "created"
    /\ spilled' = spilled \cup {connect[c].new}
    /\ GotoC(c, Idle)
    /\ UNCHANGED <<pool, mapped, edit, serving, registered, connected, crossed>>

\* Register adds at once; Reconnect looks for the pool to be replaced.
Look(c) ==
    /\ connect[c].at = "created"
    /\ LET t == connect[c].t
       IN  GotoC(c, IF connect[c].kind = "reconnect" /\ mapped[t] # Nothing
                    THEN [at |-> "found", t |-> t, new |-> connect[c].new, old |-> mapped[t]]
                    ELSE [at |-> "adding", t |-> t, new |-> connect[c].new])
    /\ UNCHANGED <<pool, mapped, edit, serving, registered, histories>>

\* Mutant: the pool that is replaced stays open.
CloseNot(c) ==
    /\ connect[c].at = "found"
    /\ GotoC(c, [connect[c] EXCEPT !.at = "draining"])
    /\ UNCHANGED <<pool, mapped, edit, serving, registered, histories>>

Close(c) ==
    /\ connect[c].at = "found"
    /\ pool' = [pool EXCEPT ![connect[c].old].open = FALSE]
    /\ GotoC(c, [connect[c] EXCEPT !.at = "draining"])
    /\ UNCHANGED <<mapped, edit, serving, registered, histories>>

\* Close blocks until every connection has been given back.
Drained(c) ==
    /\ connect[c].at = "draining"
    /\ Held(connect[c].old) = 0
    /\ GotoC(c, [at |-> "removing", t |-> connect[c].t, new |-> connect[c].new])
    /\ UNCHANGED <<pool, mapped, edit, serving, registered, histories>>

\* Mutant: the old pool is not removed, as if Add replaced it.
RemoveNot(c) ==
    /\ connect[c].at = "removing"
    /\ GotoC(c, [connect[c] EXCEPT !.at = "adding"])
    /\ UNCHANGED <<pool, mapped, edit, serving, registered, histories>>

Remove(c) ==
    /\ connect[c].at = "removing"
    /\ mapped' = [mapped EXCEPT ![connect[c].t] = Nothing]
    /\ GotoC(c, [connect[c] EXCEPT !.at = "adding"])
    /\ UNCHANGED <<pool, edit, serving, registered, histories>>

\* Add leaves a pool alone that is in the map already.
Add(c) ==
    /\ connect[c].at = "adding"
    /\ LET t == connect[c].t
       IN  /\ mapped' = IF mapped[t] = Nothing THEN [mapped EXCEPT ![t] = connect[c].new]
                        ELSE mapped
           /\ spilled' = IF mapped[t] = Nothing THEN spilled
                         ELSE spilled \cup {connect[c].new}
           /\ connected' = connected \cup {t}
    /\ GotoC(c, Idle)
    /\ UNCHANGED <<pool, edit, serving, registered, crossed>>

-----------------------------------------------------------------------------
(* An edit of a field: Update and the GetByID it calls.                    *)

StartEdit(e, t) ==
    /\ serving
    /\ edit[e] = Idle
    /\ mapped[t] # Nothing
    /\ GotoE(e, [at |-> "found", t |-> t, p |-> mapped[t]])
    /\ UNCHANGED <<pool, mapped, connect, serving, registered, histories>>

\* A connection is waited for while all are in use, and refused when the pool
\* turns out to be closed.
TakeFirst(e) ==
    /\ edit[e].at = "found"
    /\ Held(edit[e].p) < MaxConns
    /\ GotoE(e, IF Open(edit[e].p) THEN [edit[e] EXCEPT !.at = "holding"] ELSE Idle)
    /\ UNCHANGED <<pool, mapped, connect, serving, registered, histories>>

LookAgain(e) ==
    /\ edit[e].at = "holding"
    /\ LET t == edit[e].t
       IN  GotoE(e, IF mapped[t] = Nothing THEN Idle
                    ELSE [at |-> "again", t |-> t, p |-> edit[e].p, q |-> mapped[t]])
    /\ UNCHANGED <<pool, mapped, connect, serving, registered, histories>>

\* Mutant: a closed pool lets a request wait.
TakeSecondOpen(e) ==
    /\ edit[e].at = "again"
    /\ Held(edit[e].q) < MaxConns
    /\ Open(edit[e].q)
    /\ GotoE(e, [edit[e] EXCEPT !.at = "both"])
    /\ UNCHANGED <<pool, mapped, connect, serving, registered, histories>>

TakeSecond(e) ==
    /\ edit[e].at = "again"
    /\ Held(edit[e].q) < MaxConns
    /\ GotoE(e, IF Open(edit[e].q) THEN [edit[e] EXCEPT !.at = "both"] ELSE Idle)
    /\ UNCHANGED <<pool, mapped, connect, serving, registered, histories>>

GiveBack(e) ==
    /\ edit[e].at = "both"
    /\ GotoE(e, [at |-> "writing", t |-> edit[e].t, p |-> edit[e].p])
    /\ UNCHANGED <<pool, mapped, connect, serving, registered, histories>>

\* It commits or rolls back.
EndEdit(e) ==
    /\ edit[e].at = "writing"
    /\ GotoE(e, Idle)
    /\ UNCHANGED <<pool, mapped, connect, serving, registered, histories>>

\* The caller goes away, and a wait with it.
GiveUp(e) ==
    /\ edit[e].at \in {"found", "again"}
    /\ GotoE(e, Idle)
    /\ UNCHANGED <<pool, mapped, connect, serving, registered, histories>>

-----------------------------------------------------------------------------
\* The service is stopped, by its operator or by the Go runtime when it notices
\* that the map is written while a request reads it, and starts anew.
Restart ==
    /\ serving
    /\ pool' = [p \in Pools |-> Nothing]
    /\ mapped' = [t \in Tenants |-> Nothing]
    /\ connect' = [c \in Connects |-> Idle]
    /\ edit' = [e \in Edits |-> Idle]
    /\ serving' = FALSE
    /\ connected' = {}
    /\ crossed' = {}
    /\ spilled' = {}
    /\ UNCHANGED registered

ConnectStep(c) ==
    FailConnect(c) \/ Look(c) \/ Close(c) \/ Drained(c) \/ Remove(c) \/ Add(c)

Take(e) == TakeFirst(e) \/ TakeSecond(e)

EditStep(e) == LookAgain(e) \/ GiveBack(e) \/ EndEdit(e)

Next ==
    \/ AutoConnect
    \/ Restart
    \/ \E c \in Connects : ConnectStep(c)
    \/ \E c \in Connects, t \in Tenants, p \in Pools, kind \in {"register", "reconnect"} :
        StartConnect(c, kind, t, p)
    \/ \E e \in Edits : Take(e) \/ EditStep(e) \/ GiveUp(e)
    \/ \E e \in Edits, t \in Tenants : StartEdit(e, t)

Spec == Init /\ [][Next]_vars

\* Goroutines run on, and the pool serves those who wait in turn.
Fairness ==
    /\ \A c \in Connects : WF_vars(ConnectStep(c))
    /\ \A e \in Edits : WF_vars(EditStep(e)) /\ SF_vars(Take(e))

FairSpec == Spec /\ Fairness

-----------------------------------------------------------------------------
(* Properties.                                                             *)

\* The state is well formed, and a pool that is in the map, or on its way
\* there, was made.
PoolsTypeOK ==
    /\ pool \in [Pools -> [of : Tenants, open : BOOLEAN] \cup {Nothing}]
    /\ mapped \in [Tenants -> Pools \cup {Nothing}]
    /\ connect \in [Connects -> {Idle} \cup Created \cup Replacing \cup Changing]
    /\ edit \in [Edits -> {Idle} \cup OnePool \cup TwoPools]
    /\ serving \in BOOLEAN
    /\ registered \subseteq Tenants
    /\ connected \subseteq registered
    /\ crossed \subseteq Tenants
    /\ spilled \subseteq Pools
    /\ \A t \in Tenants : mapped[t] # Nothing => pool[mapped[t]] # Nothing
    /\ \A c \in Connects : connect[c] # Idle => pool[connect[c].new] # Nothing

\* A tenant that was connected has an open pool of its own whenever no
\* Register or Reconnect of it is in flight, however many of them ran at once:
\* they leave no closed pool in the map, no gap and no other tenant's pool.
TenantsReachable ==
    \A t \in connected :
        OnTenant(t) = {} => mapped[t] # Nothing /\ Open(mapped[t]) /\ pool[mapped[t]].of = t

InFlight(p) == \E c \in Connects : connect[c] # Idle /\ connect[c].new = p

\* An open pool, with its connections to the tenant's database, is in the map
\* or about to be, unless its connect failed, came to a map that had one, or
\* crossed another: a Remove between them takes out a pool nobody has closed.
NoPoolLost ==
    \A p \in Pools :
        Open(p) => \/ mapped[pool[p].of] = p
                   \/ InFlight(p)
                   \/ p \in spilled
                   \/ pool[p].of \in crossed

\* Every connection of a pool is held by an edit that waits for another.
Starved(p) ==
    /\ Held(p) >= MaxConns
    /\ \A e \in Edits :
        /\ edit[e].at \in {"holding", "both", "writing"} => edit[e].p # p
        /\ edit[e].at = "again" /\ edit[e].p = p => edit[e].q = p

\* A pool that is closed waits for the edits that hold its connections, and
\* they wait for connections of it or of the next one: all of them end, unless
\* the edits hold every connection of a pool and wait for one more.
AllEndUnlessStarved ==
    /\ \A c \in Connects : connect[c] # Idle ~> connect[c] = Idle \/ \E p \in Pools : Starved(p)
    /\ \A e \in Edits : edit[e] # Idle ~> edit[e] = Idle \/ \E p \in Pools : Starved(p)
=============================================================================
