------------------------------ MODULE ApiKeyCache ------------------------------
(***************************************************************************)
(* What the gateway remembers of an API key.                               *)
(*                                                                         *)
(* A request with an API key is let through by two answers: the key's row, *)
(* from the auth service, and the resource of its environment, from the    *)
(* company service.  Each is kept in one LRU cache of the gateway for five *)
(* minutes, put there by a goroutine that the request does not wait for.   *)
(*                                                                         *)
(* So that many requests do not ask at once, the first of them leaves a    *)
(* wait marker in the cache, one for all keys, and a request that finds it *)
(* polls the cache for a second before it asks itself.  The wait ends on a *)
(* deadline; when the client hangs up the context is cancelled instead,    *)
(* and the loop polls on.                                                  *)
(***************************************************************************)
EXTENDS Integers

CONSTANTS
    Keys,     \* the API keys
    Values,   \* what a row of a key, or a resource, can say
    Requests, \* the requests that can be in flight at once
    Writers,  \* bound: the goroutines that can be in flight at once
    Life,     \* REDIS_TIMEOUT, in ticks
    MarkLife, \* REDIS_KEY_TIMEOUT, in ticks
    Nothing   \* what is in the place of a row or an entry

\* The two answers, in the order they are asked for.
Stages == {"appID", "resource"}

VARIABLES
    source,  \* what the two services would answer now
    cache,   \* the entries of the gateway's cache
    marker,  \* how long the two wait markers are still there
    request, \* the requests in flight
    gone,    \* the requests in flight whose client has hung up
    writer   \* the goroutines in flight

vars == <<source, cache, marker, request, gone, writer>>

ASSUME LivesAssumption == Life \in Nat \ {0} /\ MarkLife \in Nat \ {0}

Idle == [at |-> "idle"]
Entries == [value : Values, left : 1 .. Life]

ASSUME NothingAssumption == Nothing \notin Values \cup Entries

Asking  == [at : {"arrived", "marking", "waiting", "asking"}, stage : Stages, k : Keys,
            got : Values \cup {Nothing}]
Served  == [at : {"served"}, k : Keys, got : Values, resource : Values]
Writing == [at : {"adding"}, stage : Stages, k : Keys, value : Values]

Init ==
    /\ source \in [Stages -> [Keys -> Values \cup {Nothing}]]
    /\ cache = [s \in Stages |-> [k \in Keys |-> Nothing]]
    /\ marker = [s \in Stages |-> 0]
    /\ request = [r \in Requests |-> Idle]
    /\ gone = {}
    /\ writer = [w \in Writers |-> Idle]

Become(r, state) == request' = [request EXCEPT ![r] = state]

\* A request that ends has no client any more.
End(r) == Become(r, Idle) /\ gone' = gone \ {r}

\* What follows an answer: the second question, or the request is let through.
After(r, v) ==
    LET q == request[r]
    IN  IF q.stage = "appID"
        THEN [at |-> "arrived", stage |-> "resource", k |-> q.k, got |-> v]
        ELSE [at |-> "served", k |-> q.k, got |-> q.got, resource |-> v]

-----------------------------------------------------------------------------
(* The services: a row is made, changed or deleted.                        *)

ChangeSource(s, k, v) ==
    /\ source' = [source EXCEPT ![s][k] = v]
    /\ UNCHANGED <<cache, marker, request, gone, writer>>

-----------------------------------------------------------------------------
(* A request.                                                              *)

Arrive(r, k) ==
    /\ request[r] = Idle
    /\ Become(r, [at |-> "arrived", stage |-> "appID", k |-> k, got |-> Nothing])
    /\ UNCHANGED <<source, cache, marker, gone, writer>>

\* The marker decides whether it waits.
LookForMarker(r) ==
    /\ request[r].at = "arrived"
    /\ Become(r, [request[r] EXCEPT !.at =
                    IF marker[request[r].stage] > 0 THEN "waiting" ELSE "marking"])
    /\ UNCHANGED <<source, cache, marker, gone, writer>>

Mark(r) ==
    /\ request[r].at = "marking"
    /\ marker' = [marker EXCEPT ![request[r].stage] = MarkLife]
    /\ Become(r, [request[r] EXCEPT !.at = "asking"])
    /\ UNCHANGED <<source, cache, gone, writer>>

\* Mutant: an entry that is used lives longer.
FindAndRenew(r) ==
    /\ request[r].at = "waiting"
    /\ LET s == request[r].stage
           entry == cache[s][request[r].k]
       IN  /\ entry # Nothing
           /\ Become(r, After(r, entry.value))
           /\ cache' = [cache EXCEPT ![s][request[r].k].left = Life]
    /\ UNCHANGED <<source, marker, gone, writer>>

\* A waiting request goes on with what it finds in the cache.
Find(r) ==
    /\ request[r].at = "waiting"
    /\ LET entry == cache[request[r].stage][request[r].k]
       IN  entry # Nothing /\ Become(r, After(r, entry.value))
    /\ UNCHANGED <<source, cache, marker, gone, writer>>

\* Mutant: the loop leaves on an entry only.
StopWaitingOnEntry(r) ==
    /\ request[r].at = "waiting"
    /\ r \notin gone
    /\ cache[request[r].stage][request[r].k] # Nothing
    /\ Become(r, [request[r] EXCEPT !.at = "asking"])
    /\ UNCHANGED <<source, cache, marker, gone, writer>>

\* The deadline passes before the client hangs up.
StopWaiting(r) ==
    /\ request[r].at = "waiting"
    /\ r \notin gone
    /\ Become(r, [request[r] EXCEPT !.at = "asking"])
    /\ UNCHANGED <<source, cache, marker, gone, writer>>

\* Mutant: that there is no row is not an error, and the answer a default.
AskForDefault(r, w) ==
    /\ request[r].at = "asking"
    /\ writer[w] = Idle
    /\ LET s == request[r].stage
           k == request[r].k
       IN  \E v \in IF source[s][k] = Nothing THEN Values ELSE {source[s][k]} :
            /\ Become(r, After(r, v))
            /\ writer' = [writer EXCEPT ![w] = [at |-> "adding", stage |-> s, k |-> k,
                                                value |-> v]]
    /\ UNCHANGED <<source, cache, marker, gone>>

\* The service answers, and a goroutine will add the answer to the cache.
Ask(r, w) ==
    /\ request[r].at = "asking"
    /\ writer[w] = Idle
    /\ LET s == request[r].stage
           k == request[r].k
           v == source[s][k]
       IN  /\ v # Nothing
           /\ Become(r, After(r, v))
           /\ writer' = [writer EXCEPT ![w] = [at |-> "adding", stage |-> s, k |-> k, value |-> v]]
    /\ UNCHANGED <<source, cache, marker, gone>>

\* It has no such row, does not answer, or the request's context is cancelled.
Refuse(r) ==
    /\ request[r].at = "asking"
    /\ End(r)
    /\ UNCHANGED <<source, cache, marker, writer>>

\* The handler runs and answers.
Serve(r) ==
    /\ request[r].at = "served"
    /\ End(r)
    /\ UNCHANGED <<source, cache, marker, writer>>

HangUp(r) ==
    /\ request[r] # Idle
    /\ gone' = gone \cup {r}
    /\ UNCHANGED <<source, cache, marker, request, writer>>

-----------------------------------------------------------------------------
(* The cache.                                                              *)

Add(w) ==
    /\ writer[w] # Idle
    /\ cache' = [cache EXCEPT ![writer[w].stage][writer[w].k] =
                    [value |-> writer[w].value, left |-> Life]]
    /\ writer' = [writer EXCEPT ![w] = Idle]
    /\ UNCHANGED <<source, marker, request, gone>>

\* The least recently used entry makes room for another.
Evict(s, k) ==
    /\ cache' = [cache EXCEPT ![s][k] = Nothing]
    /\ UNCHANGED <<source, marker, request, gone, writer>>

\* Mutant: the end of an entry is off by one.
ElapsedLate(entry) ==
    IF entry = Nothing \/ entry.left = 0 THEN Nothing
    ELSE [entry EXCEPT !.left = @ - 1]

Elapsed(entry) ==
    IF entry = Nothing \/ entry.left = 1 THEN Nothing
    ELSE [entry EXCEPT !.left = @ - 1]

Tick ==
    /\ cache' = [s \in Stages |-> [k \in Keys |-> Elapsed(cache[s][k])]]
    /\ marker' = [s \in Stages |-> IF marker[s] = 0 THEN 0 ELSE marker[s] - 1]
    /\ UNCHANGED <<source, request, gone, writer>>

\* A request goes on; one whose client has hung up may be waiting for ever.
Step(r) ==
    \/ LookForMarker(r) \/ Mark(r) \/ Find(r) \/ StopWaiting(r)
    \/ \E w \in Writers : Ask(r, w)
    \/ Refuse(r) \/ Serve(r)

Next ==
    \/ \E s \in Stages, k \in Keys : \E v \in Values \cup {Nothing} : ChangeSource(s, k, v)
    \/ \E s \in Stages, k \in Keys : Evict(s, k)
    \/ \E r \in Requests, k \in Keys : Arrive(r, k)
    \/ \E r \in Requests : Step(r) \/ HangUp(r)
    \/ \E w \in Writers : Add(w)
    \/ Tick

Spec == Init /\ [][Next]_vars

\* Handlers and goroutines run on, deadlines pass, and so does time.
Fairness ==
    /\ \A r \in Requests : WF_vars(Step(r))
    /\ \A w \in Writers : WF_vars(Add(w))
    /\ WF_vars(Tick)

FairSpec == Spec /\ Fairness

-----------------------------------------------------------------------------
(* Properties.                                                             *)

\* The state is well formed; a request has the key's answer when it asks for
\* the resource, and only requests in flight have a client to lose.
CacheTypeOK ==
    /\ source \in [Stages -> [Keys -> Values \cup {Nothing}]]
    /\ cache \in [Stages -> [Keys -> Entries \cup {Nothing}]]
    /\ marker \in [Stages -> 0 .. MarkLife]
    /\ request \in [Requests -> {Idle} \cup Asking \cup Served]
    /\ \A r \in Requests : request[r] \in Asking =>
            (request[r].stage = "appID" <=> request[r].got = Nothing)
    /\ gone \subseteq {r \in Requests : request[r] # Idle}
    /\ writer \in [Writers -> {Idle} \cup Writing]

\* No entry, goroutine or request has an answer of this key's row.
Forgotten(k) ==
    /\ cache["appID"][k] = Nothing
    /\ \A w \in Writers :
        writer[w] # Idle => ~(writer[w].stage = "appID" /\ writer[w].k = k)
    /\ \A r \in Requests :
        request[r] # Idle /\ request[r].k = k =>
            request[r].at # "served" /\ request[r].stage = "appID"

\* Once the gateway has forgotten a deleted key, nobody is let through with it
\* however requests, goroutines and the cache's ageing interleave, until the
\* key exists again.
DeletedStaysForgotten ==
    [][\A k \in Keys : Forgotten(k) /\ source["appID"][k] = Nothing => Forgotten(k)']_vars

\* A key's row that stays as it is, deleted or not, is in the end the only one
\* anybody is let through with: the answers from before it was changed, in the
\* cache or on their way there, are not used for ever.
AnswersCatchUp ==
    \A k \in Keys : \A v \in Values \cup {Nothing} :
        <>[](source["appID"][k] = v) =>
        <>[](\A r \in Requests : request[r].at = "served" /\ request[r].k = k
                                    => request[r].got = v)

\* Nobody whose client is still there waits for ever, not even for an answer
\* that is never added: the request that left the marker was refused, or its
\* entry was evicted before the waiting one looked.
NobodyWaitsForEver == \A r \in Requests : []<>(request[r] = Idle \/ r \in gone)
=============================================================================
