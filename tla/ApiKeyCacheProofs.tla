--------------------------- MODULE ApiKeyCacheProofs ---------------------------
(***************************************************************************)
(* Theorems about ApiKeyCache, for any keys, values, requests, writers and *)
(* lives of an entry.                                                      *)
(***************************************************************************)
EXTENDS ApiKeyCache, TLAPS

RequestTypes == {Idle} \cup Asking \cup Served
WriterTypes == {Idle} \cup Writing

\* A request has the key's answer exactly when it asks for the resource.
InOrder(q) == q \in Asking => (q.stage = "appID" <=> q.got = Nothing)

\* What the places a request can be at say of its record.
LEMMA RequestFields ==
    ASSUME NEW q \in RequestTypes
    PROVE  /\ q = Idle => q \notin Asking /\ q \notin Served
           /\ q \in Asking => /\ q.stage \in Stages /\ q.k \in Keys
                              /\ q.got \in Values \cup {Nothing}
                              /\ q # Idle /\ q \notin Served /\ q.at # "served"
           /\ q \in Served => /\ q.k \in Keys /\ q # Idle /\ q \notin Asking
           /\ q.at \in {"arrived", "marking", "waiting", "asking"} <=> q \in Asking
           /\ q.at = "served" <=> q \in Served
<1>1. CASE q = Idle
    BY <1>1 DEF Idle, Asking, Served
<1>2. CASE q \in Asking
    BY <1>2 DEF Idle, Asking, Served
<1>3. CASE q \in Served
    BY <1>3 DEF Idle, Asking, Served
<1>4. QED  BY <1>1, <1>2, <1>3 DEF RequestTypes

\* A request that goes on to another place keeps the rest of its record.
LEMMA MovedRequest ==
    ASSUME NEW q \in Asking, NEW at \in {"marking", "waiting", "asking"}
    PROVE  LET p == [q EXCEPT !.at = at]
           IN  p \in Asking /\ p.stage = q.stage /\ p.k = q.k /\ p.got = q.got
BY DEF Asking

LEMMA MadeRequests ==
    /\ Idle \in RequestTypes
    /\ \A k \in Keys :
         LET p == [at |-> "arrived", stage |-> "appID", k |-> k, got |-> Nothing]
         IN  p \in Asking /\ p.stage = "appID" /\ p.k = k /\ p.got = Nothing
BY DEF RequestTypes, Asking, Stages

\* After an answer a request asks the second question or is served.
LEMMA AfterType ==
    ASSUME NEW r \in Requests, request[r] \in Asking, InOrder(request[r]), NEW v \in Values
    PROVE  /\ After(r, v) \in Asking \cup Served
           /\ InOrder(After(r, v))
           /\ After(r, v).k = request[r].k
           /\ request[r].stage = "appID" => After(r, v).stage = "resource"
<1> DEFINE q == request[r]
<1>0. q.stage \in Stages /\ q.k \in Keys /\ q.got \in Values \cup {Nothing}
    BY RequestFields DEF RequestTypes
<1>1. CASE q.stage = "appID"
  <2> DEFINE p == [at |-> "arrived", stage |-> "resource", k |-> q.k, got |-> v]
  <2>1. p \in Asking /\ p.stage = "resource" /\ p.got = v /\ p.k = q.k
    BY <1>0 DEF Asking, Stages
  <2>2. After(r, v) = p
    BY <1>1 DEF After
  <2>3. v # Nothing
    BY NothingAssumption
  <2> HIDE DEF p
  <2>4. QED  BY <2>1, <2>2, <2>3 DEF InOrder
<1>2. CASE q.stage # "appID"
  <2> DEFINE p == [at |-> "served", k |-> q.k, got |-> q.got, resource |-> v]
  <2>1. q.got \in Values
    BY <1>0, <1>2 DEF InOrder
  <2>2. p \in Served /\ p.k = q.k
    BY <1>0, <2>1 DEF Served
  <2>3. After(r, v) = p
    BY <1>2 DEF After
  <2>4. p \notin Asking
    BY <2>2, RequestFields DEF RequestTypes
  <2> HIDE DEF p
  <2>5. QED  BY <1>2, <2>2, <2>3, <2>4 DEF InOrder
<1>3. QED  BY <1>1, <1>2

\* An answer that is on its way to the cache.
LEMMA WriterFields ==
    ASSUME NEW u \in WriterTypes, u # Idle
    PROVE  u.stage \in Stages /\ u.k \in Keys /\ u.value \in Values
BY DEF WriterTypes, Writing

-----------------------------------------------------------------------------
(* Type correctness.                                                       *)

\* The parts of the type invariant that a request's step disturbs.
RequestsOK ==
    /\ request \in [Requests -> RequestTypes]
    /\ \A r \in Requests : InOrder(request[r])
    /\ gone \subseteq {r \in Requests : request[r] # Idle}

OthersOK ==
    /\ source \in [Stages -> [Keys -> Values \cup {Nothing}]]
    /\ cache \in [Stages -> [Keys -> Entries \cup {Nothing}]]
    /\ marker \in [Stages -> 0 .. MarkLife]
    /\ writer \in [Writers -> WriterTypes]

LEMMA TypeParts == CacheTypeOK <=> RequestsOK /\ OthersOK
BY DEF CacheTypeOK, RequestsOK, OthersOK, RequestTypes, WriterTypes, InOrder

LEMMA TypePartsNext == RequestsOK' /\ OthersOK' => CacheTypeOK'
BY DEF CacheTypeOK, RequestsOK, OthersOK, RequestTypes, WriterTypes, InOrder

\* A request that becomes something well formed leaves all of them so.
LEMMA BecomeType ==
    ASSUME RequestsOK, NEW r \in Requests, NEW q \in RequestTypes, InOrder(q),
           Become(r, q), (q # Idle /\ gone' = gone) \/ gone' = gone \ {r}
    PROVE  RequestsOK'
BY DEF Become, RequestsOK

LEMMA IdleInOrder == Idle \in RequestTypes /\ InOrder(Idle)
BY MadeRequests, RequestFields DEF InOrder

\* What the cache holds a tick later is well formed.
LEMMA ElapsedType ==
    ASSUME NEW entry \in Entries \cup {Nothing}
    PROVE  Elapsed(entry) \in Entries \cup {Nothing}
BY LivesAssumption DEF Elapsed, Entries

\* Every step of a request keeps the types.
LEMMA RequestStepType ==
    ASSUME CacheTypeOK, NEW r \in Requests, Step(r)
    PROVE  CacheTypeOK'
<1>0. RequestsOK /\ OthersOK /\ request[r] \in RequestTypes /\ InOrder(request[r])
    BY TypeParts DEF RequestsOK
<1>1. CASE LookForMarker(r)
  <2>1. request[r] \in Asking
    BY <1>0, <1>1, RequestFields DEF LookForMarker
  <2>2. PICK at \in {"waiting", "marking"} : Become(r, [request[r] EXCEPT !.at = at])
    BY <1>1 DEF LookForMarker
  <2> DEFINE q == [request[r] EXCEPT !.at = at]
  <2>3. q \in Asking /\ InOrder(q)
    BY <1>0, <2>1, MovedRequest DEF InOrder
  <2>4. q \in RequestTypes /\ q # Idle
    BY <2>3, RequestFields DEF RequestTypes
  <2> HIDE DEF q
  <2>5. gone' = gone /\ UNCHANGED <<source, cache, marker, writer>>
    BY <1>1 DEF LookForMarker
  <2>6. RequestsOK'
    BY <1>0, <2>2, <2>3, <2>4, <2>5, BecomeType DEF q
  <2>7. QED  BY <1>0, <2>5, <2>6, TypePartsNext DEF OthersOK
<1>2. CASE Mark(r) \/ StopWaiting(r)
  <2>1. request[r] \in Asking
    BY <1>0, <1>2, RequestFields DEF Mark, StopWaiting
  <2> DEFINE q == [request[r] EXCEPT !.at = "asking"]
  <2>2. q \in Asking /\ InOrder(q)
    BY <1>0, <2>1, MovedRequest DEF InOrder
  <2>3. q \in RequestTypes /\ q # Idle
    BY <2>2, RequestFields DEF RequestTypes
  <2>4. Become(r, q) /\ gone' = gone /\ UNCHANGED <<source, cache, writer>>
    BY <1>2 DEF Mark, StopWaiting
  <2> HIDE DEF q
  <2>5. RequestsOK'
    BY <1>0, <2>2, <2>3, <2>4, BecomeType
  <2>6. marker' \in [Stages -> 0 .. MarkLife]
    BY <1>0, <1>2, LivesAssumption DEF Mark, StopWaiting, OthersOK
  <2>7. QED  BY <1>0, <2>4, <2>5, <2>6, TypePartsNext DEF OthersOK
<1>3. CASE Find(r)
  <2>1. request[r] \in Asking
    BY <1>0, <1>3, RequestFields DEF Find
  <2> DEFINE entry == cache[request[r].stage][request[r].k]
  <2>2. entry \in Entries /\ entry.value \in Values
    BY <1>0, <1>3, <2>1, RequestFields DEF Find, OthersOK, Entries
  <2>3. /\ After(r, entry.value) \in RequestTypes /\ InOrder(After(r, entry.value))
        /\ After(r, entry.value) # Idle
    BY <1>0, <2>1, <2>2, AfterType, RequestFields DEF RequestTypes
  <2>4. Become(r, After(r, entry.value)) /\ gone' = gone /\ UNCHANGED <<source, cache, marker, writer>>
    BY <1>3 DEF Find
  <2>5. RequestsOK'
    BY <1>0, <2>3, <2>4, BecomeType
  <2>6. QED  BY <1>0, <2>4, <2>5, TypePartsNext DEF OthersOK
<1>4. ASSUME NEW w \in Writers, Ask(r, w)
      PROVE  CacheTypeOK'
  <2>1. request[r] \in Asking
    BY <1>0, <1>4, RequestFields DEF Ask
  <2> DEFINE v == source[request[r].stage][request[r].k]
             u == [at |-> "adding", stage |-> request[r].stage, k |-> request[r].k, value |-> v]
  <2>2. v \in Values /\ u \in WriterTypes
    BY <1>0, <1>4, <2>1, RequestFields DEF Ask, OthersOK, WriterTypes, Writing
  <2>3. /\ After(r, v) \in RequestTypes /\ InOrder(After(r, v))
        /\ After(r, v) # Idle
    BY <1>0, <2>1, <2>2, AfterType, RequestFields DEF RequestTypes
  <2>4. Become(r, After(r, v)) /\ gone' = gone /\ UNCHANGED <<source, cache, marker>>
    BY <1>4 DEF Ask
  <2>5. RequestsOK'
    BY <1>0, <2>3, <2>4, BecomeType
  <2>6. writer' = [writer EXCEPT ![w] = u]
    BY <1>4 DEF Ask
  <2> HIDE DEF u
  <2>7. QED  BY <1>0, <2>2, <2>4, <2>5, <2>6, TypePartsNext DEF OthersOK
<1>5. CASE Refuse(r) \/ Serve(r)
  <2>1. End(r) /\ UNCHANGED <<source, cache, marker, writer>>
    BY <1>5 DEF Refuse, Serve
  <2>2. RequestsOK'
    BY <1>0, <2>1, BecomeType, IdleInOrder DEF End
  <2>3. QED  BY <1>0, <2>1, <2>2, TypePartsNext DEF OthersOK
<1>6. QED  BY <1>1, <1>2, <1>3, <1>4, <1>5 DEF Step

\* Every step keeps the types.
LEMMA StepType ==
    ASSUME CacheTypeOK, [Next]_vars
    PROVE  CacheTypeOK'
<1>0. RequestsOK /\ OthersOK
    BY TypeParts
<1>1. ASSUME NEW s \in Stages, NEW k \in Keys, NEW v \in Values \cup {Nothing},
             ChangeSource(s, k, v)
      PROVE  CacheTypeOK'
    BY <1>0, <1>1, TypePartsNext DEF ChangeSource, RequestsOK, OthersOK
<1>2. ASSUME NEW s \in Stages, NEW k \in Keys, Evict(s, k)
      PROVE  CacheTypeOK'
    BY <1>0, <1>2, TypePartsNext DEF Evict, RequestsOK, OthersOK
<1>3. ASSUME NEW r \in Requests, NEW k \in Keys, Arrive(r, k)
      PROVE  CacheTypeOK'
  <2> DEFINE q == [at |-> "arrived", stage |-> "appID", k |-> k, got |-> Nothing]
  <2>1. q \in Asking /\ InOrder(q)
    BY MadeRequests DEF InOrder
  <2>2. q \in RequestTypes /\ q # Idle
    BY <2>1, RequestFields DEF RequestTypes
  <2>3. Become(r, q) /\ gone' = gone /\ UNCHANGED <<source, cache, marker, writer>>
    BY <1>3 DEF Arrive
  <2> HIDE DEF q
  <2>4. RequestsOK'
    BY <1>0, <2>1, <2>2, <2>3, BecomeType
  <2>5. QED  BY <1>0, <2>3, <2>4, TypePartsNext DEF OthersOK
<1>4. ASSUME NEW r \in Requests, HangUp(r)
      PROVE  CacheTypeOK'
    BY <1>0, <1>4, TypePartsNext DEF HangUp, RequestsOK, OthersOK
<1>5. ASSUME NEW w \in Writers, Add(w)
      PROVE  CacheTypeOK'
  <2>1. /\ writer[w].stage \in Stages /\ writer[w].k \in Keys
        /\ writer[w].value \in Values
    BY <1>0, <1>5, WriterFields DEF Add, OthersOK
  <2>2. [value |-> writer[w].value, left |-> Life] \in Entries
    BY <2>1, LivesAssumption DEF Entries
  <2>3. cache' \in [Stages -> [Keys -> Entries \cup {Nothing}]]
    BY <1>0, <1>5, <2>1, <2>2 DEF Add, OthersOK
  <2>4. writer' \in [Writers -> WriterTypes]
    BY <1>0, <1>5 DEF Add, OthersOK, WriterTypes
  <2>5. QED  BY <1>0, <1>5, <2>3, <2>4, TypePartsNext DEF Add, RequestsOK, OthersOK
<1>6. CASE Tick
  <2>1. cache' \in [Stages -> [Keys -> Entries \cup {Nothing}]]
    BY <1>0, <1>6, ElapsedType DEF Tick, OthersOK
  <2>2. marker' \in [Stages -> 0 .. MarkLife]
    <3>1. ASSUME NEW s \in Stages
          PROVE  (IF marker[s] = 0 THEN 0 ELSE marker[s] - 1) \in 0 .. MarkLife
      <4>1. marker[s] \in 0 .. MarkLife
        BY <1>0 DEF OthersOK
      <4>2. QED  BY <4>1, LivesAssumption
    <3>2. marker' = [s \in Stages |-> IF marker[s] = 0 THEN 0 ELSE marker[s] - 1]
      BY <1>6 DEF Tick
    <3>3. QED  BY <3>1, <3>2
  <2>3. QED  BY <1>0, <1>6, <2>1, <2>2, TypePartsNext DEF Tick, RequestsOK, OthersOK
<1>7. CASE UNCHANGED vars
    BY <1>0, <1>7, TypePartsNext DEF vars, RequestsOK, OthersOK
<1>8. QED  BY <1>1, <1>2, <1>3, <1>4, <1>5, <1>6, <1>7, RequestStepType DEF Next

LEMMA InitType == Init => CacheTypeOK
<1> SUFFICES ASSUME Init PROVE CacheTypeOK
    OBVIOUS
<1>1. RequestsOK
    BY IdleInOrder DEF Init, RequestsOK
<1>2. OthersOK
  <2>1. source \in [Stages -> [Keys -> Values \cup {Nothing}]]
    BY DEF Init
  <2>2. cache \in [Stages -> [Keys -> Entries \cup {Nothing}]]
    BY DEF Init
  <2>3. marker \in [Stages -> 0 .. MarkLife]
    BY LivesAssumption DEF Init
  <2>4. writer \in [Writers -> WriterTypes]
    BY DEF Init, WriterTypes
  <2>5. QED  BY <2>1, <2>2, <2>3, <2>4 DEF OthersOK
<1>3. QED  BY <1>1, <1>2, TypeParts

\* The state is well formed: a request asks for the resource only when it has
\* the key's answer, and an entry in the cache never outlives its time.
THEOREM CacheTypeCorrect == Spec => []CacheTypeOK
<1>1. Init => CacheTypeOK
    BY InitType
<1>2. CacheTypeOK /\ [Next]_vars => CacheTypeOK'
    BY StepType
<1>3. QED  BY <1>1, <1>2, PTL DEF Spec

-----------------------------------------------------------------------------
(* A deleted key stays forgotten.                                          *)

\* A request that becomes something that knows nothing of the key.
LEMMA BecomeForgotten ==
    ASSUME CacheTypeOK, NEW k \in Keys, Forgotten(k), NEW r \in Requests,
           NEW q, Become(r, q),
           q # Idle /\ q.k = k => q.at # "served" /\ q.stage = "appID"
    PROVE  \A p \in Requests :
                request'[p] # Idle /\ request'[p].k = k =>
                    request'[p].at # "served" /\ request'[p].stage = "appID"
BY DEF Become, Forgotten, CacheTypeOK

\* No step makes a forgotten key known while it has no row.
LEMMA StepForgotten ==
    ASSUME CacheTypeOK, NEW k \in Keys, Forgotten(k), source["appID"][k] = Nothing,
           [Next]_vars
    PROVE  Forgotten(k)'
<1>0. RequestsOK /\ OthersOK /\ "appID" \in Stages
    BY TypeParts DEF Stages
<1>1. ASSUME NEW r \in Requests, NEW q, Become(r, q), UNCHANGED <<cache, writer>>,
             q # Idle /\ q.k = k => q.at # "served" /\ q.stage = "appID"
      PROVE  Forgotten(k)'
    BY <1>1, BecomeForgotten DEF Forgotten
<1>2. ASSUME NEW r \in Requests, Step(r)
      PROVE  Forgotten(k)'
  <2>0. request[r] \in RequestTypes /\ InOrder(request[r])
    BY <1>0 DEF RequestsOK
  <2>1. CASE LookForMarker(r) \/ Mark(r) \/ StopWaiting(r)
    <3>1. request[r] \in Asking
      BY <2>0, <2>1, RequestFields DEF LookForMarker, Mark, StopWaiting
    <3>2. PICK at \in {"marking", "waiting", "asking"} :
                    Become(r, [request[r] EXCEPT !.at = at])
      BY <2>1 DEF LookForMarker, Mark, StopWaiting
    <3> DEFINE q == [request[r] EXCEPT !.at = at]
    <3>3. q \in Asking /\ q.k = request[r].k /\ q.stage = request[r].stage
      BY <3>1, MovedRequest
    <3>4. UNCHANGED <<cache, writer>> /\ q.at # "served" /\ request[r] # Idle
      BY <2>1, <3>1, <3>3, RequestFields DEF LookForMarker, Mark, StopWaiting, RequestTypes
    <3>5. q.k = k => q.stage = "appID"
      BY <3>3, <3>4 DEF Forgotten
    <3> HIDE DEF q
    <3>6. QED  BY <1>1, <3>2, <3>4, <3>5 DEF q
  <2>2. CASE Find(r)
    <3>1. request[r] \in Asking
      BY <2>0, <2>2, RequestFields DEF Find
    <3> DEFINE entry == cache[request[r].stage][request[r].k]
    <3>2. request[r].k # k
      BY <2>0, <2>2, <3>1, RequestFields DEF Find, Forgotten
    <3>3. entry.value \in Values
      BY <1>0, <2>0, <2>2, <3>1, RequestFields DEF Find, OthersOK, Entries
    <3>4. After(r, entry.value).k # k
      BY <2>0, <3>1, <3>2, <3>3, AfterType
    <3>5. Become(r, After(r, entry.value)) /\ UNCHANGED <<cache, writer>>
      BY <2>2 DEF Find
    <3>6. QED  BY <1>1, <3>4, <3>5
  <2>3. ASSUME NEW w \in Writers, Ask(r, w)
        PROVE  Forgotten(k)'
    <3>1. request[r] \in Asking
      BY <2>0, <2>3, RequestFields DEF Ask
    <3> DEFINE v == source[request[r].stage][request[r].k]
               u == [at |-> "adding", stage |-> request[r].stage, k |-> request[r].k,
                     value |-> v]
    <3>2. request[r].k # k
      BY <2>0, <2>3, <3>1, RequestFields DEF Ask, Forgotten
    <3>3. v \in Values
      BY <1>0, <2>0, <2>3, <3>1, RequestFields DEF Ask, OthersOK
    <3>4. After(r, v).k # k
      BY <2>0, <3>1, <3>2, <3>3, AfterType
    <3>5. Become(r, After(r, v)) /\ writer' = [writer EXCEPT ![w] = u] /\ cache' = cache
      BY <2>3 DEF Ask
    <3>6. u.k # k
      BY <3>2
    <3> HIDE DEF u
    <3>7. \A x \in Writers :
            writer'[x] # Idle => ~(writer'[x].stage = "appID" /\ writer'[x].k = k)
      BY <1>0, <3>5, <3>6 DEF OthersOK, Forgotten
    <3>8. QED  BY <3>4, <3>5, <3>7, BecomeForgotten DEF Forgotten
  <2>4. CASE Refuse(r) \/ Serve(r)
    BY <1>1, <2>4 DEF Refuse, Serve, End
  <2>5. QED  BY <1>2, <2>1, <2>2, <2>3, <2>4 DEF Step
<1>3. ASSUME NEW s \in Stages, NEW j \in Keys, NEW v \in Values \cup {Nothing},
             ChangeSource(s, j, v)
      PROVE  Forgotten(k)'
    BY <1>3 DEF ChangeSource, Forgotten
<1>4. ASSUME NEW s \in Stages, NEW j \in Keys, Evict(s, j)
      PROVE  Forgotten(k)'
    BY <1>0, <1>4 DEF Evict, Forgotten, OthersOK
<1>5. ASSUME NEW r \in Requests, NEW j \in Keys, Arrive(r, j)
      PROVE  Forgotten(k)'
  <2> DEFINE q == [at |-> "arrived", stage |-> "appID", k |-> j, got |-> Nothing]
  <2>1. q.at # "served" /\ q.stage = "appID"
    OBVIOUS
  <2>2. Become(r, q) /\ UNCHANGED <<cache, writer>>
    BY <1>5 DEF Arrive
  <2> HIDE DEF q
  <2>3. QED  BY <1>1, <2>1, <2>2
<1>6. ASSUME NEW r \in Requests, HangUp(r)
      PROVE  Forgotten(k)'
    BY <1>6 DEF HangUp, Forgotten
<1>7. ASSUME NEW w \in Writers, Add(w)
      PROVE  Forgotten(k)'
  <2>1. writer[w].stage \in Stages /\ writer[w].k \in Keys /\ writer[w] # Idle
    BY <1>0, <1>7, WriterFields DEF Add, OthersOK
  <2>2. cache'["appID"][k] = Nothing
    BY <1>0, <1>7, <2>1 DEF Add, OthersOK, Forgotten
  <2>3. \A x \in Writers : writer'[x] = Idle \/ writer'[x] = writer[x]
    BY <1>0, <1>7 DEF Add, OthersOK
  <2>4. QED  BY <1>7, <2>2, <2>3 DEF Add, Forgotten
<1>8. CASE Tick
    BY <1>0, <1>8 DEF Tick, Elapsed, Forgotten
<1>9. CASE UNCHANGED vars
    BY <1>9 DEF vars, Forgotten
<1>10. QED  BY <1>2, <1>3, <1>4, <1>5, <1>6, <1>7, <1>8, <1>9 DEF Next

\* Once the gateway has forgotten a deleted key, no interleaving of requests,
\* the goroutines they leave behind and the cache lets anybody through with it
\* before the key exists again.
THEOREM DeletedKeysStayForgotten == Spec => DeletedStaysForgotten
<1>1. CacheTypeOK /\ [Next]_vars =>
        [\A k \in Keys : Forgotten(k) /\ source["appID"][k] = Nothing => Forgotten(k)']_vars
    BY StepForgotten
<1>2. QED  BY <1>1, CacheTypeCorrect, PTL DEF Spec, DeletedStaysForgotten
=============================================================================
