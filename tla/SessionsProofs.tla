---------------------------- MODULE SessionsProofs ----------------------------
(***************************************************************************)
(* Theorems about Sessions, for any calls, environments, limit, lives and  *)
(* number of sessions.                                                     *)
(***************************************************************************)
EXTENDS Sessions, FiniteSetTheorems, WellFoundedInduction, TLAPS

CallTypes == {Idle} \cup Reading \cup Filling \cup Starting \cup Evicting
             \cup Made \cup Updating \cup Answering \cup Clearing

\* What a call in flight is, by where it is, and what it holds.
LEMMA CallFields ==
    ASSUME NEW k \in CallTypes
    PROVE  /\ k = Idle \/ k.op \in {"signin", "check", "refresh", "switch", "delete"}
           /\ k.op = "check" =>
                /\ k.s \in Ids /\ k.at \in {"missed", "read"}
                /\ k.at = "missed" => k \in Reading
                /\ k.at = "read" => k \in Filling /\ k.env \in Environments
           /\ k.op = "signin" =>
                /\ k.at \in {"cleared", "evicted"} => k \in Starting /\ k.env \in Environments
                /\ k.at = "counted" => /\ k \in Evicting /\ k.env \in Environments
                                       /\ k.extra \in Nat \ {0}
                /\ k.at = "made" => k \in Made /\ k.s \in Ids
                /\ k.at \in {"cleared", "evicted", "counted", "made"}
           /\ k.op \in {"refresh", "switch"} =>
                /\ k.s \in Ids /\ k.env \in Environments /\ k.at \in {"read", "written"}
                /\ k.at = "read" => k \in Updating /\ k.left \in 0 .. Life
                /\ k.at = "written" => k \in Answering
           /\ k.op = "delete" => k \in Clearing /\ k.at = "clearing" /\ k.ids \subseteq Ids
<1>1. CASE k = Idle
    BY <1>1 DEF Idle
<1>2. CASE k \in Reading \cup Filling
    BY <1>2 DEF Idle, Reading, Filling
<1>3. CASE k \in Starting \cup Evicting \cup Made
    BY <1>3 DEF Idle, Starting, Evicting, Made
<1>4. CASE k \in Updating \cup Answering
    BY <1>4 DEF Idle, Updating, Answering
<1>5. CASE k \in Clearing
    BY <1>5 DEF Idle, Clearing
<1>6. QED  BY <1>1, <1>2, <1>3, <1>4, <1>5 DEF CallTypes

LEMMA IdleCall == Idle \in CallTypes /\ Idle.op = "idle"
BY DEF CallTypes, Idle

\* An updating call reads no row that is not there.
LEMMA UpdatingFields ==
    ASSUME NEW k \in Updating
    PROVE  /\ k.op \in {"refresh", "switch"} /\ k.at = "read"
           /\ k.s \in Ids /\ k.env \in Environments /\ k.left \in 0 .. Life
BY DEF Updating

LEMMA GotoType ==
    ASSUME call \in [Calls -> CallTypes], NEW c \in Calls, NEW k \in CallTypes, Goto(c, k)
    PROVE  /\ call' \in [Calls -> CallTypes]
           /\ call'[c] = k
           /\ \A d \in Calls \ {c} : call'[d] = call[d]
BY DEF Goto

\* Tables keep their types when rows are taken out of them.
LEMMA WithoutType ==
    ASSUME rows \in [Ids -> Rows \cup {Nothing}], NEW S
    PROVE  /\ Without(rows, S) \in [Ids -> Rows \cup {Nothing}]
           /\ \A s \in Ids : Without(rows, S)[s] # Nothing =>
                s \notin S /\ Without(rows, S)[s] = rows[s]
BY DEF Without

-----------------------------------------------------------------------------
(* Type correctness.                                                       *)

TablesOK ==
    /\ made \in 0 .. MaxSessions
    /\ rows \in [Ids -> Rows \cup {Nothing}]
    /\ cache \in [Ids -> Answers \cup {Nothing}]
    /\ call \in [Calls -> CallTypes]
    /\ shown \in [Ids -> Environments \cup {Nothing}]
    /\ gained \subseteq Environments
    /\ raced \subseteq Ids
    /\ out \subseteq Ids

\* Nothing is of a session that was not made, not even what a call holds.
NoneToCome ==
    /\ \A s \in Ids : rows[s] # Nothing \/ cache[s] # Nothing \/ shown[s] # Nothing => s <= made
    /\ \A c \in Calls :
        \/ call[c].op = "check"
        \/ call[c].op = "signin" /\ call[c].at = "made"
        \/ call[c].op \in {"refresh", "switch"}
        => call[c].s <= made
    /\ \A c \in Calls : call[c].op = "delete" => \A s \in call[c].ids : s <= made
    /\ \A s \in out : s <= made

TypeInv == TablesOK /\ NoneToCome

LEMMA TypeInvTypes == TypeInv => SessionsTypeOK
BY DEF TypeInv, TablesOK, NoneToCome, SessionsTypeOK, Exists, SignedIn, CallTypes

\* The sessions there are can be counted.
LEMMA LiveFinite ==
    ASSUME TablesOK
    PROVE  \A e \in Environments : IsFiniteSet(In(e)) /\ Cardinality(In(e)) \in Nat
<1>1. IsFiniteSet(Ids)
    BY BoundAssumption, FS_Interval DEF Ids
<1>2. QED  BY <1>1, FS_Subset, FS_CardinalityType DEF In, Live

\* A call that goes on holds nothing that is to come.
LEMMA GotoToCome ==
    ASSUME TypeInv, NEW c \in Calls, NEW k \in CallTypes, Goto(c, k),
           made' \in Nat, made <= made',
           \/ k.op = "check"
           \/ k.op = "signin" /\ k.at = "made"
           \/ k.op \in {"refresh", "switch"}
           => k.s <= made',
           k.op = "delete" => \A s \in k.ids : s <= made'
    PROVE  /\ \A d \in Calls :
                \/ call'[d].op = "check"
                \/ call'[d].op = "signin" /\ call'[d].at = "made"
                \/ call'[d].op \in {"refresh", "switch"}
                => call'[d].s <= made'
           /\ \A d \in Calls : call'[d].op = "delete" => \A s \in call'[d].ids : s <= made'
<1>1. /\ call'[c] = k
      /\ \A d \in Calls \ {c} : call'[d] = call[d]
    BY GotoType DEF TypeInv, TablesOK
<1>2. ASSUME NEW d \in Calls \ {c}
      PROVE  /\ \/ call'[d].op = "check"
                \/ call'[d].op = "signin" /\ call'[d].at = "made"
                \/ call'[d].op \in {"refresh", "switch"}
                => call'[d].s <= made'
             /\ call'[d].op = "delete" => \A s \in call'[d].ids : s <= made'
  <2>1. call[d] \in CallTypes /\ call'[d] = call[d] /\ made \in Nat
    BY <1>1 DEF TypeInv, TablesOK
  <2>2. \A s \in Ids : s <= made => s <= made'
    BY <2>1, BoundAssumption DEF Ids
  <2>3. QED  BY <2>1, <2>2, CallFields DEF TypeInv, NoneToCome
<1>3. QED  BY <1>1, <1>2

\* A step of a call that touches neither the tables nor the client.
LEMMA CallOnlyType ==
    ASSUME TypeInv, NEW c \in Calls, NEW k \in CallTypes, Goto(c, k),
           UNCHANGED <<rows, cache, made, shown, gained, out>>, raced' \subseteq Ids,
           \/ k.op = "check"
           \/ k.op = "signin" /\ k.at = "made"
           \/ k.op \in {"refresh", "switch"}
           => k.s <= made,
           k.op = "delete" => \A s \in k.ids : s <= made
    PROVE  TypeInv'
<1>1. made \in Nat /\ made <= made /\ made' = made
    BY BoundAssumption DEF TypeInv, TablesOK
<1>2. TablesOK'
    BY GotoType DEF TypeInv, TablesOK
<1>3. NoneToCome'
    BY <1>1, GotoToCome DEF TypeInv, NoneToCome
<1>4. QED  BY <1>2, <1>3 DEF TypeInv

\* Deleting rows, and leaving the rest of the tables alone.
LEMMA DroppedType ==
    ASSUME TypeInv, NEW S, rows' = Without(rows, S),
           UNCHANGED <<cache, made, shown, gained, raced, out>>,
           \/ UNCHANGED call
           \/ \E c \in Calls, k \in CallTypes :
                /\ Goto(c, k)
                /\ k.op \in {"signin", "delete"}
                /\ k.op = "signin" => k.at # "made"
                /\ k.op = "delete" => \A s \in k.ids : s <= made
    PROVE  TypeInv'
<1>1. rows' \in [Ids -> Rows \cup {Nothing}]
    BY WithoutType DEF TypeInv, TablesOK
<1>2. \A s \in Ids : rows'[s] # Nothing => rows[s] # Nothing
    BY WithoutType DEF TypeInv, TablesOK
<1>3. CASE UNCHANGED call
    BY <1>1, <1>2, <1>3 DEF TypeInv, TablesOK, NoneToCome
<1>4. ASSUME NEW c \in Calls, NEW k \in CallTypes, Goto(c, k),
             k.op \in {"signin", "delete"},
             k.op = "signin" => k.at # "made",
             k.op = "delete" => \A s \in k.ids : s <= made
      PROVE  TypeInv'
  <2>1. made \in Nat /\ made <= made /\ made' = made
    BY BoundAssumption DEF TypeInv, TablesOK
  <2>2. TablesOK'
    BY <1>1, <1>4, GotoType DEF TypeInv, TablesOK
  <2>3. NoneToCome'
    BY <1>2, <1>4, <2>1, GotoToCome DEF TypeInv, NoneToCome
  <2>4. QED  BY <2>2, <2>3 DEF TypeInv
<1>5. QED  BY <1>3, <1>4

\* Every step of a sign-in keeps the types.
LEMMA SignInType ==
    ASSUME TypeInv, NEW c \in Calls,
           \/ \E e \in Environments : StartSignIn(c, e)
           \/ Count(c) \/ Evict(c) \/ Insert(c) \/ AnswerSignIn(c) \/ GiveUp(c)
    PROVE  TypeInv'
<1>0. /\ call[c] \in CallTypes /\ made \in Nat /\ made <= MaxSessions
      /\ raced \subseteq Ids
    BY BoundAssumption DEF TypeInv, TablesOK
<1>1. ASSUME NEW e \in Environments, StartSignIn(c, e)
      PROVE  TypeInv'
  <2> DEFINE k == [op |-> "signin", at |-> "cleared", env |-> e]
  <2>1. k \in CallTypes
    BY DEF CallTypes, Starting
  <2>2. PICK gone \in {{}, {s \in Live : rows[s].left = 0}} : rows' = Without(rows, gone)
    BY <1>1 DEF StartSignIn
  <2>3. Goto(c, k) /\ UNCHANGED <<cache, made, shown, gained, raced, out>>
    BY <1>1 DEF StartSignIn
  <2>4. k.op = "signin" /\ k.at # "made"
    OBVIOUS
  <2> HIDE DEF k
  <2>5. QED  BY <2>1, <2>2, <2>3, <2>4, DroppedType
<1>2. CASE Count(c)
  <2> DEFINE e == call[c].env
             n == Surplus(Cardinality(In(e)))
             k == IF n > 0
                  THEN [op |-> "signin", at |-> "counted", env |-> e, extra |-> n]
                  ELSE [op |-> "signin", at |-> "evicted", env |-> e]
  <2>1. e \in Environments
    BY <1>0, <1>2, CallFields DEF Count, At
  <2>2. Cardinality(In(e)) \in Nat
    BY <2>1, LiveFinite DEF TypeInv
  <2>3. n \in Int
    BY <2>2, LimitAssumption DEF Surplus
  <2>4. k \in CallTypes /\ k.op = "signin" /\ k.at # "made"
    <3> HIDE DEF n
    <3>1. CASE n > 0
      BY <2>1, <2>3, <3>1 DEF CallTypes, Evicting
    <3>2. CASE ~(n > 0)
      BY <2>1, <3>2 DEF CallTypes, Starting
    <3>3. QED  BY <3>1, <3>2
  <2>5. Goto(c, k) /\ UNCHANGED <<rows, cache, made, shown, gained, raced, out>>
    BY <1>2 DEF Count
  <2> HIDE DEF k
  <2>6. QED  BY <1>0, <2>4, <2>5, CallOnlyType
<1>3. CASE Evict(c)
  <2> DEFINE k == [op |-> "signin", at |-> "evicted", env |-> call[c].env]
  <2>1. call[c].env \in Environments
    BY <1>0, <1>3, CallFields DEF Evict, At
  <2>2. k \in CallTypes /\ k.op = "signin" /\ k.at # "made"
    BY <2>1 DEF CallTypes, Starting
  <2>3. Goto(c, k) /\ UNCHANGED <<cache, made, shown, gained, raced, out>>
    BY <1>3 DEF Evict
  <2>4. \E S : rows' = Without(rows, S)
    BY <1>3 DEF Evict
  <2> HIDE DEF k
  <2>5. QED  BY <2>2, <2>3, <2>4, DroppedType
<1>4. CASE Insert(c)
  <2> DEFINE k == [op |-> "signin", at |-> "made", s |-> made']
             row == [env |-> call[c].env, left |-> Life]
  <2>1. call[c].env \in Environments
    BY <1>0, <1>4, CallFields DEF Insert, At
  <2>2. made' = made + 1 /\ made' \in Ids /\ made' \in 0 .. MaxSessions
    BY <1>0, <1>4, BoundAssumption DEF Insert, Ids
  <2>3. k \in CallTypes /\ k.op = "signin" /\ k.s = made'
    BY <2>2 DEF CallTypes, Made
  <2>4. row \in Rows
    BY <2>1, LivesAssumption DEF Rows
  <2>5. /\ Goto(c, k) /\ rows' = [rows EXCEPT ![made'] = row]
        /\ UNCHANGED <<cache, shown, gained, raced, out>>
    BY <1>4 DEF Insert
  <2> HIDE DEF k, row
  <2>6. TablesOK'
    BY <2>2, <2>3, <2>4, <2>5, GotoType DEF TypeInv, TablesOK
  <2>7. \A s \in Ids : s <= made \/ s = made' => s <= made'
    BY <1>0, <2>2 DEF Ids
  <2>8. \A d \in Calls :
          /\ \/ call'[d].op = "check"
             \/ call'[d].op = "signin" /\ call'[d].at = "made"
             \/ call'[d].op \in {"refresh", "switch"}
             => call'[d].s <= made'
          /\ call'[d].op = "delete" => \A s \in call'[d].ids : s <= made'
    BY <1>0, <2>2, <2>3, <2>5, <2>7, GotoToCome
  <2>9. NoneToCome'
    BY <2>5, <2>7, <2>8 DEF TypeInv, TablesOK, NoneToCome
  <2>10. QED  BY <2>6, <2>9 DEF TypeInv
<1>5. CASE AnswerSignIn(c)
  <2> DEFINE s == call[c].s
  <2>1. s \in Ids /\ s <= made
    BY <1>0, <1>5, CallFields DEF AnswerSignIn, At, TypeInv, NoneToCome
  <2>2. shown' \in [Ids -> Environments \cup {Nothing}]
    <3>1. Exists(s) => rows[s].env \in Environments
      BY <2>1 DEF Exists, TypeInv, TablesOK, Rows
    <3>2. QED  BY <1>5, <2>1, <3>1 DEF AnswerSignIn, TypeInv, TablesOK
  <2>3. /\ Goto(c, Idle) /\ UNCHANGED <<rows, cache, made, gained, raced, out>>
        /\ \A r \in Ids \ {s} : shown'[r] = shown[r]
    BY <1>5 DEF AnswerSignIn, TypeInv, TablesOK
  <2>4. TablesOK'
    BY <2>2, <2>3, GotoType, IdleCall DEF TypeInv, TablesOK
  <2>5. NoneToCome'
    BY <1>0, <2>1, <2>3, GotoToCome, IdleCall DEF TypeInv, NoneToCome
  <2>6. QED  BY <2>4, <2>5 DEF TypeInv
<1>6. CASE GiveUp(c)
    BY <1>0, <1>6, CallOnlyType, IdleCall DEF GiveUp
<1>7. QED  BY <1>1, <1>2, <1>3, <1>4, <1>5, <1>6

\* Every step of a refresh or a change of environment keeps the types.
LEMMA MoveType ==
    ASSUME TypeInv, NEW c \in Calls,
           \/ \E s \in Ids : StartRefresh(c, s)
           \/ \E s \in Ids, e \in Environments : StartSwitch(c, s, e)
           \/ RefuseMove(c) \/ WriteMove(c) \/ AnswerMove(c) \/ LoseSwitch(c)
    PROVE  TypeInv'
<1>0. /\ call[c] \in CallTypes /\ made \in Nat /\ raced \subseteq Ids
      /\ rows \in [Ids -> Rows \cup {Nothing}]
    BY BoundAssumption DEF TypeInv, TablesOK
<1>1. ASSUME NEW s \in Ids, NEW e \in Environments, NEW op \in {"refresh", "switch"},
             SignedIn(s), Exists(s),
             Goto(c, [op |-> op, at |-> "read", s |-> s, env |-> e, left |-> rows[s].left]),
             raced' = IF Moving(s) = {} THEN raced ELSE raced \cup {s},
             UNCHANGED <<rows, cache, made, shown, gained, out>>
      PROVE  TypeInv'
  <2> DEFINE k == [op |-> op, at |-> "read", s |-> s, env |-> e, left |-> rows[s].left]
  <2>1. rows[s].left \in 0 .. Life
    BY <1>0, <1>1 DEF Exists, Rows
  <2>2. k \in CallTypes /\ k.op = op /\ k.s = s
    BY <2>1 DEF CallTypes, Updating
  <2>3. s <= made
    BY <1>1 DEF SignedIn, TypeInv, NoneToCome
  <2>4. raced' \subseteq Ids
    BY <1>0, <1>1
  <2>5. Goto(c, k)
    BY <1>1
  <2> HIDE DEF k
  <2>6. QED  BY <1>1, <2>2, <2>3, <2>4, <2>5, CallOnlyType
<1>2. ASSUME NEW s \in Ids, StartRefresh(c, s)
      PROVE  TypeInv'
  <2>1. shown[s] \in Environments /\ rows[s].env \in Environments
    BY <1>0, <1>2 DEF StartRefresh, SignedIn, Exists, Rows, TypeInv, TablesOK
  <2>2. QED  BY <1>1, <1>2, <2>1 DEF StartRefresh
<1>3. ASSUME NEW s \in Ids, NEW e \in Environments, StartSwitch(c, s, e)
      PROVE  TypeInv'
    BY <1>1, <1>3 DEF StartSwitch
<1>4. CASE RefuseMove(c)
    BY <1>0, <1>4, CallOnlyType, IdleCall DEF RefuseMove
<1>5. CASE WriteMove(c)
  <2> DEFINE s == call[c].s
             e == call[c].env
             left == IF call[c].op = "refresh" THEN Life ELSE call[c].left
             row == [env |-> e, left |-> left]
             k == [op |-> call[c].op, at |-> "written", s |-> s, env |-> e]
  <2>1. /\ s \in Ids /\ e \in Environments /\ left \in 0 .. Life
        /\ call[c].op \in {"refresh", "switch"} /\ s <= made
    BY <1>0, <1>5, CallFields, LivesAssumption DEF WriteMove, TypeInv, NoneToCome
  <2>2. k \in CallTypes /\ k.op \in {"refresh", "switch"} /\ k.s = s
    BY <2>1 DEF CallTypes, Answering
  <2>3. row \in Rows
    BY <2>1 DEF Rows
  <2>4. /\ Goto(c, k) /\ rows' = Updated(s, row)
        /\ gained' \subseteq gained \cup {e}
        /\ UNCHANGED <<cache, made, shown, raced, out>>
    BY <1>5 DEF WriteMove
  <2> HIDE DEF k, row
  <2>5. /\ rows' \in [Ids -> Rows \cup {Nothing}]
        /\ \A r \in Ids : rows'[r] # Nothing => rows[r] # Nothing
    BY <1>0, <2>1, <2>3, <2>4 DEF Updated, Exists
  <2>6. TablesOK'
    BY <2>1, <2>2, <2>4, <2>5, GotoType DEF TypeInv, TablesOK
  <2>7. NoneToCome'
    BY <1>0, <2>1, <2>2, <2>4, <2>5, GotoToCome DEF TypeInv, NoneToCome
  <2>8. QED  BY <2>6, <2>7 DEF TypeInv
<1>6. CASE AnswerMove(c)
  <2>1. call[c].s \in Ids /\ call[c].env \in Environments /\ call[c].s <= made
    BY <1>0, <1>6, CallFields DEF AnswerMove, TypeInv, NoneToCome
  <2>2. /\ shown' \in [Ids -> Environments \cup {Nothing}]
        /\ \A r \in Ids \ {call[c].s} : shown'[r] = shown[r]
    BY <1>6, <2>1 DEF AnswerMove, TypeInv, TablesOK
  <2>3. Goto(c, Idle) /\ UNCHANGED <<rows, cache, made, gained, raced, out>>
    BY <1>6 DEF AnswerMove
  <2>4. TablesOK'
    BY <2>2, <2>3, GotoType, IdleCall DEF TypeInv, TablesOK
  <2>5. NoneToCome'
    BY <1>0, <2>1, <2>2, <2>3, GotoToCome, IdleCall DEF TypeInv, NoneToCome
  <2>6. QED  BY <2>4, <2>5 DEF TypeInv
<1>7. CASE LoseSwitch(c)
  <2>1. call[c].s \in Ids
    BY <1>0, <1>7, CallFields DEF LoseSwitch, At
  <2>2. raced' \subseteq Ids /\ Goto(c, Idle)
        /\ UNCHANGED <<rows, cache, made, shown, gained, out>>
    BY <1>0, <1>7, <2>1 DEF LoseSwitch
  <2>3. QED  BY <2>2, CallOnlyType, IdleCall
<1>8. QED  BY <1>2, <1>3, <1>4, <1>5, <1>6, <1>7

\* Every step of a check keeps the types.
LEMMA CheckType ==
    ASSUME TypeInv, NEW c \in Calls,
           (\E s \in Ids : StartCheck(c, s)) \/ ReadRow(c) \/ Fill(c)
    PROVE  TypeInv'
<1>0. /\ call[c] \in CallTypes /\ made \in Nat /\ raced \subseteq Ids
      /\ rows \in [Ids -> Rows \cup {Nothing}]
    BY BoundAssumption DEF TypeInv, TablesOK
<1>1. ASSUME NEW s \in Ids, StartCheck(c, s)
      PROVE  TypeInv'
  <2> DEFINE k == [op |-> "check", at |-> "missed", s |-> s]
  <2>1. k \in CallTypes /\ k.op = "check" /\ k.s = s
    BY DEF CallTypes, Reading
  <2>2. s <= made
    BY <1>1 DEF StartCheck, SignedIn, TypeInv, NoneToCome
  <2>3. Goto(c, k) /\ UNCHANGED <<rows, cache, made, shown, gained, raced, out>>
    BY <1>1 DEF StartCheck
  <2> HIDE DEF k
  <2>4. QED  BY <1>0, <2>1, <2>2, <2>3, CallOnlyType
<1>2. CASE ReadRow(c)
  <2> DEFINE s == call[c].s
             k == [op |-> "check", at |-> "read", s |-> s, env |-> rows[s].env]
  <2>1. s \in Ids /\ s <= made
    BY <1>0, <1>2, CallFields DEF ReadRow, At, TypeInv, NoneToCome
  <2>2. UNCHANGED <<rows, cache, made, shown, gained, raced, out>>
    BY <1>2 DEF ReadRow
  <2>3. CASE Exists(s) /\ rows[s].left > 0
    <3>1. k \in CallTypes /\ k.op = "check" /\ k.s = s
      BY <1>0, <2>1, <2>3 DEF CallTypes, Filling, Exists, Rows
    <3>2. Goto(c, k)
      BY <1>2, <2>3 DEF ReadRow
    <3> HIDE DEF k
    <3>3. QED  BY <1>0, <2>1, <2>2, <3>1, <3>2, CallOnlyType
  <2>4. CASE ~(Exists(s) /\ rows[s].left > 0)
    <3>1. Goto(c, Idle)
      BY <1>2, <2>4 DEF ReadRow
    <3>2. QED  BY <1>0, <2>2, <3>1, CallOnlyType, IdleCall
  <2>5. QED  BY <2>3, <2>4
<1>3. CASE Fill(c)
  <2> DEFINE answer == [env |-> call[c].env, left |-> CacheLife]
  <2>1. call[c].s \in Ids /\ call[c].env \in Environments /\ call[c].s <= made
    BY <1>0, <1>3, CallFields DEF Fill, At, TypeInv, NoneToCome
  <2>2. answer \in Answers
    BY <2>1, LivesAssumption DEF Answers
  <2>3. /\ Goto(c, Idle) /\ UNCHANGED <<rows, made, shown, gained, raced, out>>
        /\ cache' = cache \/ cache' = [cache EXCEPT ![call[c].s] = answer]
    BY <1>3 DEF Fill
  <2> HIDE DEF answer
  <2>4. TablesOK'
    BY <2>1, <2>2, <2>3, GotoType, IdleCall DEF TypeInv, TablesOK
  <2>5. NoneToCome'
    BY <1>0, <2>1, <2>3, GotoToCome, IdleCall DEF TypeInv, TablesOK, NoneToCome
  <2>6. QED  BY <2>4, <2>5 DEF TypeInv
<1>4. QED  BY <1>1, <1>2, <1>3

\* Only sessions that were made are deleted.
LEMMA DoomedMade ==
    ASSUME TypeInv, NEW ids \in Doomed
    PROVE  ids \subseteq Ids /\ \A s \in ids : s <= made
BY DEF TypeInv, NoneToCome, Doomed, SignedIn, Live, Exists

\* Every step of a sign-out keeps the types.
LEMMA DeleteType ==
    ASSUME TypeInv, NEW c \in Calls,
           (\E ids \in Doomed : StartDelete(c, ids)) \/ Clear(c)
    PROVE  TypeInv'
<1>0. call[c] \in CallTypes /\ made \in Nat
    BY BoundAssumption DEF TypeInv, TablesOK
<1>1. ASSUME NEW ids \in Doomed, StartDelete(c, ids)
      PROVE  TypeInv'
  <2> DEFINE k == [op |-> "delete", at |-> "clearing", ids |-> ids]
  <2>1. k \in CallTypes /\ k.op = "delete" /\ k.ids = ids
    BY DoomedMade DEF CallTypes, Clearing
  <2>2. \A s \in ids : s <= made
    BY DoomedMade
  <2>3. /\ Goto(c, k) /\ rows' = Without(rows, ids)
        /\ UNCHANGED <<cache, made, shown, gained, raced, out>>
    BY <1>1 DEF StartDelete
  <2> HIDE DEF k
  <2>4. QED  BY <2>1, <2>2, <2>3, DroppedType
<1>2. CASE Clear(c)
  <2>1. /\ call[c] \in Clearing /\ call[c].ids \subseteq Ids
        /\ \A s \in call[c].ids : s <= made
    BY <1>0, <1>2, CallFields DEF Clear, At, TypeInv, NoneToCome
  <2>2. PICK s \in call[c].ids, cleared \in BOOLEAN :
          /\ cache' = IF cleared THEN [cache EXCEPT ![s] = Nothing] ELSE cache
          /\ out' = IF cleared /\ Checking(s) = {} THEN out \cup {s} ELSE out
          /\ Goto(c, IF call[c].ids = {s} THEN Idle
                     ELSE [call[c] EXCEPT !.ids = @ \ {s}])
    BY <1>2 DEF Clear
  <2> DEFINE k == IF call[c].ids = {s} THEN Idle ELSE [call[c] EXCEPT !.ids = @ \ {s}]
  <2>3. k \in CallTypes /\ (k = Idle \/ (k.op = "delete" /\ k.ids \subseteq call[c].ids))
    <3> DEFINE j == [call[c] EXCEPT !.ids = @ \ {s}]
    <3>1. j \in Clearing /\ j.ids \subseteq call[c].ids /\ j.op = "delete"
      BY <2>1 DEF Clearing
    <3>2. k = Idle \/ k = j
      OBVIOUS
    <3>3. j \in CallTypes
      BY <3>1 DEF CallTypes
    <3> HIDE DEF j, k
    <3>4. QED  BY <3>1, <3>2, <3>3, IdleCall
  <2>4. Goto(c, k) /\ UNCHANGED <<rows, made, shown, gained, raced>>
    BY <1>2, <2>2 DEF Clear
  <2> HIDE DEF k
  <2>5. /\ cache' \in [Ids -> Answers \cup {Nothing}]
        /\ \A r \in Ids : cache'[r] # Nothing => cache[r] # Nothing
        /\ out' \subseteq out \cup {s} /\ s \in Ids /\ s <= made
    BY <2>1, <2>2 DEF TypeInv, TablesOK
  <2>6. TablesOK'
    BY <2>3, <2>4, <2>5, GotoType DEF TypeInv, TablesOK
  <2>7. NoneToCome'
    BY <1>0, <2>1, <2>3, <2>4, <2>5, GotoToCome, IdleCall DEF TypeInv, NoneToCome
  <2>8. QED  BY <2>6, <2>7 DEF TypeInv
<1>3. QED  BY <1>1, <1>2

LEMMA LessType ==
    ASSUME NEW n \in 0 .. Life
    PROVE  Less(n) \in 0 .. Life
BY LivesAssumption DEF Less

LEMMA ElapsedType ==
    ASSUME NEW answer \in Answers \cup {Nothing}
    PROVE  /\ Elapsed(answer) \in Answers \cup {Nothing}
           /\ Elapsed(answer) # Nothing => answer # Nothing
<1>1. CASE answer = Nothing \/ answer.left = 1
    BY <1>1 DEF Elapsed
<1>2. CASE ~(answer = Nothing \/ answer.left = 1)
  <2>1. answer \in Answers /\ answer.left - 1 \in 1 .. CacheLife
    BY <1>2, LivesAssumption DEF Answers
  <2>2. [answer EXCEPT !.left = @ - 1] \in Answers
    BY <2>1 DEF Answers
  <2>3. QED  BY <1>2, <2>2 DEF Elapsed
<1>3. QED  BY <1>1, <1>2

\* What a call in flight is when time passes: the same, with less left.
LEMMA TickCall ==
    ASSUME TypeInv, Tick, NEW c \in Calls
    PROVE  /\ call'[c] \in CallTypes
           /\ call[c] \notin Updating => call'[c] = call[c]
           /\ call[c] \in Updating =>
                /\ call'[c] \in Updating
                /\ call'[c].op = call[c].op /\ call'[c].s = call[c].s
                /\ call'[c].env = call[c].env
<1>1. call[c] \in CallTypes
    BY DEF TypeInv, TablesOK
<1>2. CASE call[c] \in Updating
  <2> DEFINE k == [call[c] EXCEPT !.left = Less(@)]
  <2>1. Less(call[c].left) \in 0 .. Life
    BY <1>2, UpdatingFields, LessType
  <2>2. k \in Updating /\ k.op = call[c].op /\ k.s = call[c].s /\ k.env = call[c].env
    BY <1>2, <2>1 DEF Updating
  <2>3. call'[c] = k
    BY <1>2 DEF Tick
  <2> HIDE DEF k
  <2>4. QED  BY <1>2, <2>2, <2>3 DEF CallTypes
<1>3. CASE call[c] \notin Updating
    BY <1>1, <1>3 DEF Tick
<1>4. QED  BY <1>2, <1>3

\* What the tables hold when time passes.
LEMMA TickTables ==
    ASSUME TypeInv, Tick
    PROVE  /\ rows' \in [Ids -> Rows \cup {Nothing}]
           /\ \A s \in Ids : rows'[s] # Nothing <=> rows[s] # Nothing
           /\ \A s \in Ids : rows[s] # Nothing => rows'[s].env = rows[s].env
           /\ cache' \in [Ids -> Answers \cup {Nothing}]
           /\ \A s \in Ids : cache'[s] # Nothing => cache[s] # Nothing
<1>1. ASSUME NEW s \in Ids, rows[s] # Nothing
      PROVE  rows'[s] \in Rows /\ rows'[s] # Nothing /\ rows'[s].env = rows[s].env
  <2>1. rows[s] \in Rows
    BY <1>1 DEF TypeInv, TablesOK
  <2>2. Less(rows[s].left) \in 0 .. Life
    BY <2>1, LessType DEF Rows
  <2>3. rows'[s] = [rows[s] EXCEPT !.left = Less(@)]
    BY <1>1 DEF Tick, Exists
  <2>4. QED  BY <2>1, <2>2, <2>3, NothingAssumption DEF Rows
<1>2. ASSUME NEW s \in Ids, rows[s] = Nothing
      PROVE  rows'[s] = Nothing
    BY <1>2 DEF Tick, Exists
<1>3. rows' = [s \in Ids |-> rows'[s]]
    BY DEF Tick
<1>4. cache' \in [Ids -> Answers \cup {Nothing}]
      /\ \A s \in Ids : cache'[s] # Nothing => cache[s] # Nothing
    BY ElapsedType DEF Tick, TypeInv, TablesOK
<1>5. QED  BY <1>1, <1>2, <1>3, <1>4

LEMMA TickType == TypeInv /\ Tick => TypeInv'
<1> SUFFICES ASSUME TypeInv, Tick PROVE TypeInv'
    OBVIOUS
<1>1. UNCHANGED <<made, shown, gained, raced, out>> /\ call' = [c \in Calls |-> call'[c]]
    BY DEF Tick
<1>2. call' \in [Calls -> CallTypes]
    BY <1>1, TickCall
<1>3. TablesOK'
    BY <1>1, <1>2, TickTables DEF TypeInv, TablesOK
<1>4. ASSUME NEW c \in Calls
      PROVE  /\ \/ call'[c].op = "check"
                \/ call'[c].op = "signin" /\ call'[c].at = "made"
                \/ call'[c].op \in {"refresh", "switch"}
                => call'[c].s <= made
             /\ call'[c].op = "delete" => \A s \in call'[c].ids : s <= made
  <2>1. CASE call[c] \in Updating
    <3>1. call'[c].op \in {"refresh", "switch"} /\ call'[c].s = call[c].s
          /\ call[c].op \in {"refresh", "switch"}
      BY <2>1, TickCall, UpdatingFields
    <3>2. QED  BY <3>1 DEF TypeInv, NoneToCome
  <2>2. CASE call[c] \notin Updating
    BY <2>2, TickCall DEF TypeInv, NoneToCome
  <2>3. QED  BY <2>1, <2>2
<1>5. NoneToCome'
    BY <1>1, <1>4, TickTables DEF TypeInv, NoneToCome
<1>6. QED  BY <1>3, <1>5 DEF TypeInv

\* Every step keeps the types.
LEMMA StepType ==
    ASSUME TypeInv, [Next]_vars
    PROVE  TypeInv'
<1>1. ASSUME NEW c \in Calls, Start(c) \/ Step(c)
      PROVE  TypeInv'
    BY <1>1, SignInType, MoveType, CheckType, DeleteType DEF Start, Step
<1>2. ASSUME NEW ids, DropRows(ids)
      PROVE  TypeInv'
    BY <1>2, DroppedType DEF DropRows
<1>3. CASE UNCHANGED vars
    BY <1>3 DEF vars, TypeInv, TablesOK, NoneToCome
<1>4. QED  BY <1>1, <1>2, <1>3, TickType DEF Next

LEMMA InitType == Init => TypeInv
<1> SUFFICES ASSUME Init PROVE TypeInv
    OBVIOUS
<1>1. TablesOK
    BY BoundAssumption, IdleCall DEF Init, TablesOK
<1>2. NoneToCome
    BY IdleCall DEF Init, NoneToCome
<1>3. QED  BY <1>1, <1>2 DEF TypeInv

\* The state is well formed, and a row, an answer or a token is of a session
\* that was made.
THEOREM SessionsTypeCorrect == Spec => []SessionsTypeOK
<1>1. Init => TypeInv
    BY InitType
<1>2. TypeInv /\ [Next]_vars => TypeInv'
    BY StepType
<1>3. TypeInv => SessionsTypeOK
    BY TypeInvTypes
<1>4. QED  BY <1>1, <1>2, <1>3, PTL DEF Spec

-----------------------------------------------------------------------------
(* A session that was deleted never comes back.                            *)

\* The only rows a step makes are of sessions that are made by it.
LEMMA StepRevives ==
    ASSUME TypeInv, [Next]_vars, NEW s \in Ids, Exists(s)', ~Exists(s)
    PROVE  s > made
<1>0. /\ rows \in [Ids -> Rows \cup {Nothing}] /\ made \in Nat
      /\ call \in [Calls -> CallTypes] /\ rows[s] = Nothing /\ rows'[s] # Nothing
    BY BoundAssumption DEF TypeInv, TablesOK, Exists
<1>1. ASSUME NEW S, rows' = Without(rows, S)
      PROVE  FALSE
    BY <1>0, <1>1, WithoutType
<1>2. ASSUME NEW c \in Calls, Insert(c)
      PROVE  s > made
    BY <1>0, <1>2 DEF Insert, Ids
<1>3. ASSUME NEW c \in Calls, WriteMove(c)
      PROVE  FALSE
    BY <1>0, <1>3 DEF WriteMove, Updated, Exists
<1>4. ASSUME rows' = rows
      PROVE  FALSE
    BY <1>0, <1>4
<1>5. ASSUME NEW c \in Calls, Start(c)
      PROVE  FALSE
    BY <1>1, <1>4, <1>5
       DEF Start, StartSignIn, StartRefresh, StartSwitch, StartCheck, StartDelete
<1>6. ASSUME NEW c \in Calls, Step(c)
      PROVE  s > made
    BY <1>1, <1>2, <1>3, <1>4, <1>6
       DEF Step, Count, Evict, AnswerSignIn, GiveUp, RefuseMove, AnswerMove, LoseSwitch, ReadRow, Fill, Clear
<1>7. CASE Tick
    BY <1>0, <1>7, TickTables
<1>8. QED  BY <1>1, <1>4, <1>5, <1>6, <1>7 DEF Next, DropRows, vars

\* No refresh, switch or sign-in that was in flight when a session was deleted
\* brings its row back.
THEOREM DeletedNeverRevived == Spec => NeverRevived
<1>1. TypeInv /\ [Next]_vars =>
        [\A s \in Ids : Exists(s)' /\ ~Exists(s) => s > made]_vars
    BY StepRevives
<1>2. Init => TypeInv
    BY InitType
<1>3. TypeInv /\ [Next]_vars => TypeInv'
    BY StepType
<1>4. QED  BY <1>1, <1>2, <1>3, PTL DEF Spec, NeverRevived

-----------------------------------------------------------------------------
(* A session that was signed out stays out.                                *)

\* The sessions whose cached answers are being cleared have no row, and those
\* that were cleared have no answer, and no check has read their row.
OutInv ==
    /\ \A c \in Calls : call[c].op = "delete" => \A s \in call[c].ids : ~Exists(s)
    /\ \A s \in out : ~Exists(s) /\ cache[s] = Nothing /\ Checking(s) = {}

\* Every step keeps the invariant.
LEMMA StepOut ==
    ASSUME TypeInv, OutInv, [Next]_vars
    PROVE  OutInv'
<1>0. /\ rows \in [Ids -> Rows \cup {Nothing}] /\ made \in Nat
      /\ call \in [Calls -> CallTypes] /\ cache \in [Ids -> Answers \cup {Nothing}]
      /\ out \subseteq Ids
    BY BoundAssumption DEF TypeInv, TablesOK
<1>1. \A s \in Ids : s <= made /\ ~Exists(s) => ~Exists(s)'
    BY <1>0, StepRevives DEF Ids
<1>2. \A c \in Calls : call[c].op = "delete" => \A s \in call[c].ids : s \in Ids /\ ~Exists(s)'
    BY <1>0, <1>1, CallFields DEF OutInv, TypeInv, NoneToCome
<1>3. \A s \in out : ~Exists(s)'
    BY <1>0, <1>1 DEF OutInv, TypeInv, NoneToCome
<1>4. ASSUME NEW c \in Calls, NEW k \in CallTypes, Goto(c, k),
             k.op = "delete" => \A s \in k.ids : ~Exists(s)',
             k.op = "check" /\ k.at = "read" => k.s \notin out,
             out' = out,
             \A s \in out : cache'[s] = Nothing
      PROVE  OutInv'
  <2>1. /\ call'[c] = k
        /\ \A d \in Calls \ {c} : call'[d] = call[d]
    BY <1>0, <1>4, GotoType
  <2>2. \A d \in Calls : call'[d].op = "delete" => \A s \in call'[d].ids : ~Exists(s)'
    BY <1>2, <1>4, <2>1
  <2>3. \A s \in out : Checking(s)' = {}
    BY <1>4, <2>1 DEF OutInv, Checking
  <2>4. QED  BY <1>3, <1>4, <2>2, <2>3 DEF OutInv
<1>q. \A s \in out : cache[s] = Nothing
    BY DEF OutInv
<1>5. ASSUME NEW c \in Calls, Start(c)
      PROVE  OutInv'
  <2>1. ASSUME NEW e \in Environments, StartSignIn(c, e)
        PROVE  OutInv'
    <3> DEFINE k == [op |-> "signin", at |-> "cleared", env |-> e]
    <3>1. k \in CallTypes /\ k.op = "signin"
      BY DEF CallTypes, Starting
    <3>2. Goto(c, k) /\ UNCHANGED <<cache, out>>
      BY <2>1 DEF StartSignIn
    <3> HIDE DEF k
    <3>3. QED  BY <1>4, <1>q, <3>1, <3>2
  <2>2. ASSUME NEW s \in Ids, NEW e \in Environments, NEW op \in {"refresh", "switch"},
               Exists(s), UNCHANGED <<cache, out>>,
               Goto(c, [op |-> op, at |-> "read", s |-> s, env |-> e, left |-> rows[s].left])
        PROVE  OutInv'
    <3> DEFINE k == [op |-> op, at |-> "read", s |-> s, env |-> e, left |-> rows[s].left]
    <3>1. rows[s].left \in 0 .. Life
      BY <1>0, <2>2 DEF Exists, Rows
    <3>2. k \in CallTypes /\ k.op = op /\ Goto(c, k)
      BY <2>2, <3>1 DEF CallTypes, Updating
    <3> HIDE DEF k
    <3>3. QED  BY <1>4, <1>q, <2>2, <3>2
  <2>3. ASSUME NEW s \in Ids, StartRefresh(c, s)
        PROVE  OutInv'
    <3>1. shown[s] \in Environments /\ rows[s].env \in Environments
      BY <1>0, <2>3 DEF StartRefresh, SignedIn, Exists, Rows, TypeInv, TablesOK
    <3>2. QED  BY <2>2, <2>3, <3>1 DEF StartRefresh
  <2>4. ASSUME NEW s \in Ids, NEW e \in Environments, StartSwitch(c, s, e)
        PROVE  OutInv'
    BY <2>2, <2>4 DEF StartSwitch
  <2>5. ASSUME NEW s \in Ids, StartCheck(c, s)
        PROVE  OutInv'
    <3> DEFINE k == [op |-> "check", at |-> "missed", s |-> s]
    <3>1. k \in CallTypes /\ k.op = "check" /\ k.at = "missed"
      BY DEF CallTypes, Reading
    <3>2. Goto(c, k) /\ UNCHANGED <<cache, out>>
      BY <2>5 DEF StartCheck
    <3> HIDE DEF k
    <3>3. QED  BY <1>4, <1>q, <3>1, <3>2
  <2>6. ASSUME NEW ids \in Doomed, StartDelete(c, ids)
        PROVE  OutInv'
    <3> DEFINE k == [op |-> "delete", at |-> "clearing", ids |-> ids]
    <3>1. k \in CallTypes /\ k.op = "delete" /\ k.ids = ids
      BY DoomedMade DEF CallTypes, Clearing
    <3>2. Goto(c, k) /\ UNCHANGED <<cache, out>> /\ rows' = Without(rows, ids)
      BY <2>6 DEF StartDelete
    <3>3. \A s \in ids : ~Exists(s)'
      BY <1>0, <3>2, DoomedMade, WithoutType DEF Exists
    <3> HIDE DEF k
    <3>4. QED  BY <1>4, <1>q, <3>1, <3>2, <3>3
  <2>7. QED  BY <1>5, <2>1, <2>3, <2>4, <2>5, <2>6 DEF Start
<1>6. ASSUME NEW c \in Calls, Step(c)
      PROVE  OutInv'
  <2>0. call[c] \in CallTypes
    BY <1>0
  <2>1. CASE AnswerSignIn(c) \/ GiveUp(c) \/ RefuseMove(c) \/ AnswerMove(c) \/ LoseSwitch(c)
    <3>1. Goto(c, Idle) /\ UNCHANGED <<cache, out>>
      BY <2>1 DEF AnswerSignIn, GiveUp, RefuseMove, AnswerMove, LoseSwitch
    <3>2. QED  BY <1>4, <1>q, <3>1, IdleCall
  <2>2. CASE Count(c) \/ Evict(c) \/ Insert(c)
    <3>1. TypeInv'
      BY <2>2, SignInType
    <3>2. PICK k : Goto(c, k) /\ k.op = "signin"
      BY <2>2 DEF Count, Evict, Insert
    <3>3. k \in CallTypes
      BY <1>0, <3>1, <3>2 DEF Goto, TypeInv, TablesOK
    <3>4. UNCHANGED <<cache, out>>
      BY <2>2 DEF Count, Evict, Insert
    <3>5. QED  BY <1>4, <1>q, <3>2, <3>3, <3>4
  <2>3. CASE WriteMove(c)
    <3>1. TypeInv'
      BY <2>3, MoveType
    <3>2. PICK k : Goto(c, k) /\ k.op \in {"refresh", "switch"}
      BY <2>3 DEF WriteMove
    <3>3. k \in CallTypes
      BY <1>0, <3>1, <3>2 DEF Goto, TypeInv, TablesOK
    <3>4. UNCHANGED <<cache, out>>
      BY <2>3 DEF WriteMove
    <3>5. QED  BY <1>4, <1>q, <3>2, <3>3, <3>4
  <2>4. CASE ReadRow(c)
    <3>1. TypeInv'
      BY <2>4, CheckType
    <3>2. PICK k : Goto(c, k) /\ (k = Idle \/ (k.op = "check" /\ Exists(k.s)))
      <4>1. CASE Exists(call[c].s) /\ rows[call[c].s].left > 0
        <5> DEFINE k == [op |-> "check", at |-> "read", s |-> call[c].s,
                         env |-> rows[call[c].s].env]
        <5>1. Goto(c, k) /\ k.op = "check" /\ k.s = call[c].s
          BY <2>4, <4>1 DEF ReadRow
        <5> HIDE DEF k
        <5>2. QED  BY <4>1, <5>1
      <4>2. CASE ~(Exists(call[c].s) /\ rows[call[c].s].left > 0)
        BY <2>4, <4>2 DEF ReadRow
      <4>3. QED  BY <4>1, <4>2
    <3>3. k \in CallTypes
      BY <1>0, <3>1, <3>2 DEF Goto, TypeInv, TablesOK
    <3>4. UNCHANGED <<cache, out>>
      BY <2>4 DEF ReadRow
    <3>5. k.op # "delete" /\ (k.op = "check" => k.s \notin out)
      BY <3>2, IdleCall DEF OutInv
    <3>6. QED  BY <1>4, <1>q, <3>2, <3>3, <3>4, <3>5
  <2>5. CASE Fill(c)
    <3>1. Goto(c, Idle) /\ out' = out
      BY <2>5 DEF Fill
    <3>2. call[c].s \in Ids /\ call[c].s \notin out
      BY <2>0, <2>5, CallFields DEF Fill, At, OutInv, Checking
    <3>3. \A s \in out : cache'[s] = cache[s]
      BY <1>0, <2>5, <3>2 DEF Fill
    <3>4. QED  BY <1>4, <1>q, <3>1, <3>3, IdleCall
  <2>6. CASE Clear(c)
    <3>1. call[c] \in Clearing /\ call[c].op = "delete"
      BY <2>0, <2>6, CallFields DEF Clear, At
    <3>2. PICK s \in call[c].ids, cleared \in BOOLEAN :
            /\ cache' = IF cleared THEN [cache EXCEPT ![s] = Nothing] ELSE cache
            /\ out' = IF cleared /\ Checking(s) = {} THEN out \cup {s} ELSE out
            /\ Goto(c, IF call[c].ids = {s} THEN Idle
                       ELSE [call[c] EXCEPT !.ids = @ \ {s}])
      BY <2>6 DEF Clear
    <3>3. s \in Ids /\ ~Exists(s)'
      BY <1>2, <3>1
    <3>4. /\ \A r \in Ids : cache'[r] # Nothing => cache[r] # Nothing
          /\ s \in out' => s \in out \/ (cache'[s] = Nothing /\ Checking(s) = {})
          /\ out' \subseteq out \cup {s}
      BY <1>0, <3>2, <3>3
    <3> DEFINE j == [call[c] EXCEPT !.ids = @ \ {s}]
    <3>5. j.op = "delete" /\ j.ids \subseteq call[c].ids
      BY <3>1 DEF Clearing
    <3>6. PICK k : Goto(c, k) /\ (k = Idle \/ k = j)
      BY <3>2
    <3> HIDE DEF j
    <3>7. /\ call'[c] = k
          /\ \A d \in Calls \ {c} : call'[d] = call[d]
      BY <1>0, <3>6 DEF Goto
    <3>8. \A d \in Calls : call'[d].op = "delete" => \A r \in call'[d].ids : ~Exists(r)'
      BY <1>2, <3>1, <3>5, <3>6, <3>7, IdleCall
    <3>9. k.op # "check"
      BY <3>5, <3>6, IdleCall
    <3>10. \A r \in Ids : Checking(r) = {} => Checking(r)' = {}
      BY <3>7, <3>9 DEF Checking
    <3>11. \A r \in out' : cache'[r] = Nothing /\ Checking(r)' = {} /\ ~Exists(r)'
      BY <1>0, <1>3, <3>3, <3>4, <3>10 DEF OutInv
    <3>12. QED  BY <3>8, <3>11 DEF OutInv
  <2>7. QED  BY <1>6, <2>1, <2>2, <2>3, <2>4, <2>5, <2>6 DEF Step
<1>7. CASE (\E ids : DropRows(ids)) \/ UNCHANGED vars
  <2>1. UNCHANGED <<call, cache, out>>
    BY <1>7 DEF DropRows, vars
  <2>2. QED  BY <1>2, <1>3, <2>1 DEF OutInv, Checking
<1>8. CASE Tick
  <2>1. \A c \in Calls : call'[c] = call[c] \/ call'[c].op \notin {"check", "delete"}
    BY <1>8, TickCall, UpdatingFields
  <2>2. out' = out /\ \A s \in out : cache'[s] = Nothing
    BY <1>0, <1>8, TickTables DEF Tick, OutInv
  <2>3. \A s \in out : Checking(s)' = {}
    BY <2>1 DEF OutInv, Checking
  <2>4. \A c \in Calls : call'[c].op = "delete" => \A s \in call'[c].ids : ~Exists(s)'
    BY <1>2, <2>1
  <2>5. QED  BY <1>3, <2>2, <2>3, <2>4 DEF OutInv
<1>9. QED  BY <1>5, <1>6, <1>7, <1>8 DEF Next

\* Once the cached answer of a session that was signed out is cleared, with no
\* check of it that had read its row, nobody gets access with it again.
THEOREM SignedOutAlwaysOut == Spec => []SignedOutStaysOut
<1>1. Init => TypeInv /\ OutInv
    BY InitType, IdleCall DEF Init, OutInv
<1>2. TypeInv /\ OutInv /\ [Next]_vars => TypeInv' /\ OutInv'
    BY StepType, StepOut
<1>3. OutInv => SignedOutStaysOut
    BY DEF OutInv, SignedOutStaysOut
<1>4. QED  BY <1>1, <1>2, <1>3, PTL DEF Spec

-----------------------------------------------------------------------------
(* A client and its session are in one environment.                        *)

Moves(k) == k.op \in {"refresh", "switch"}
Makes(k) == k.op = "signin" /\ k.at = "made"

\* A session is answered once, by the sign-in that made it, and before that
\* nobody moves it.
AnsweredOnce ==
    /\ \A c \in Calls : Makes(call[c]) => shown[call[c].s] = Nothing
    /\ \A c, d \in Calls : Makes(call[c]) /\ Makes(call[d]) /\ call[c].s = call[d].s => c = d
    /\ \A c \in Calls : Moves(call[c]) => shown[call[c].s] # Nothing

\* One call at most moves the session.  Until it writes the row nothing has
\* changed, then the row is where the call wants it, and a refresh wants it
\* where the client is.
Together(s) ==
    /\ \A c, d \in Moving(s) : c = d
    /\ Exists(s) /\ shown[s] # Nothing =>
         /\ (\A c \in Moving(s) : call[c].at = "read") => shown[s] = rows[s].env
         /\ \A c \in Moving(s) : call[c].at = "written" => rows[s].env = call[c].env
         /\ \A c \in Moving(s) : call[c].op = "refresh" => call[c].env = shown[s]

EnvInv == AnsweredOnce /\ \A s \in Ids \ raced : Together(s)

\* The call goes on moving or making its session, or it begins and ends
\* neither, though it may have been told that its session is gone.
Unmoved(c) ==
    \/ /\ ~Moves(call[c]) /\ ~Moves(call'[c])
       /\ ~Makes(call'[c])
    \/ /\ call'[c].op = call[c].op /\ call'[c].at = call[c].at
       /\ call'[c].s = call[c].s /\ call'[c].env = call[c].env

\* A step that moves no session keeps the invariant.
LEMMA EnvKept ==
    ASSUME TypeInv, EnvInv, UNCHANGED <<shown, raced>>,
           \A s \in Ids : rows'[s] # Nothing => rows[s] # Nothing /\ rows'[s].env = rows[s].env,
           \A c \in Calls : Unmoved(c)
    PROVE  EnvInv'
<1>1. AnsweredOnce'
    BY DEF EnvInv, AnsweredOnce, Unmoved, Moves, Makes
<1>2. ASSUME NEW s \in Ids \ raced
      PROVE  Together(s)'
  <2>1. Together(s)
    BY DEF EnvInv
  <2>2. Moving(s)' = Moving(s)
    BY DEF Moving, Unmoved, Moves
  <2>3. \A c \in Moving(s) : /\ call'[c].op = call[c].op /\ call'[c].at = call[c].at
                             /\ call'[c].env = call[c].env
    BY DEF Moving, Unmoved, Moves
  <2>4. Exists(s)' => Exists(s) /\ rows'[s].env = rows[s].env
    BY DEF Exists
  <2>5. QED  BY <2>1, <2>2, <2>3, <2>4 DEF Together
<1>3. QED  BY <1>1, <1>2 DEF EnvInv

\* A step of one call that does not move or make a session.
LEMMA GotoUnmoved ==
    ASSUME TypeInv, NEW c \in Calls, NEW k, Goto(c, k), ~Moves(k), ~Makes(k), ~Moves(call[c])
    PROVE  \A d \in Calls : Unmoved(d)
BY DEF Goto, Unmoved, TypeInv, TablesOK

\* Making a session and answering it.
LEMMA SignInEnv ==
    ASSUME TypeInv, EnvInv, NEW c \in Calls, Insert(c) \/ AnswerSignIn(c)
    PROVE  EnvInv'
<1>0. /\ rows \in [Ids -> Rows \cup {Nothing}] /\ made \in Nat /\ made <= MaxSessions
      /\ call \in [Calls -> CallTypes] /\ shown \in [Ids -> Environments \cup {Nothing}]
      /\ raced \subseteq Ids /\ call[c] \in CallTypes
    BY BoundAssumption DEF TypeInv, TablesOK
<1>1. CASE Insert(c)
  <2> DEFINE k == [op |-> "signin", at |-> "made", s |-> made']
  <2>1. Makes(k) /\ ~Moves(k) /\ k.s = made'
    BY DEF Makes, Moves
  <2>2. call'[c] = k /\ \A d \in Calls \ {c} : call'[d] = call[d]
    BY <1>0, <1>1 DEF Insert, Goto
  <2>3. made' \in Ids /\ ~(made' <= made)
    BY <1>0, <1>1, BoundAssumption DEF Insert, Ids
  <2> HIDE DEF k
  <2>4. /\ shown[made'] = Nothing
        /\ \A d \in Calls : Moves(call[d]) \/ Makes(call[d]) => call[d].s # made'
    BY <2>3 DEF TypeInv, NoneToCome, Moves, Makes
  <2>5. shown' = shown /\ raced' = raced
        /\ \A s \in Ids \ {made'} : rows'[s] = rows[s]
    BY <1>0, <1>1 DEF Insert
  <2>6. ~Moves(call[c])
    BY <1>1 DEF Insert, At, Moves
  <2>7. AnsweredOnce'
    BY <2>1, <2>2, <2>4, <2>5 DEF EnvInv, AnsweredOnce
  <2>8. ASSUME NEW s \in Ids \ raced
        PROVE  Together(s)'
    <3>1. Together(s)
      BY DEF EnvInv
    <3>2. Moving(s)' = Moving(s) /\ c \notin Moving(s)
      BY <2>1, <2>2, <2>6 DEF Moving, Moves
    <3>3. \A d \in Moving(s) : call'[d] = call[d]
      BY <2>2, <3>2 DEF Moving
    <3>4. CASE s = made'
      BY <2>4, <2>5, <3>1, <3>2, <3>4 DEF Together
    <3>5. CASE s # made'
      BY <2>5, <3>1, <3>2, <3>3, <3>5 DEF Together, Exists
    <3>6. QED  BY <3>4, <3>5
  <2>9. QED  BY <2>5, <2>7, <2>8 DEF EnvInv
<1>2. CASE AnswerSignIn(c)
  <2> DEFINE s == call[c].s
  <2>1. Makes(call[c]) /\ ~Moves(call[c]) /\ s \in Ids /\ shown[s] = Nothing
    BY <1>0, <1>2, CallFields DEF AnswerSignIn, At, Makes, Moves, EnvInv, AnsweredOnce
  <2>2. call'[c] = Idle /\ \A d \in Calls \ {c} : call'[d] = call[d]
    BY <1>0, <1>2 DEF AnswerSignIn, Goto
  <2>3. ~Moves(call'[c]) /\ ~Makes(call'[c])
    BY <2>2, IdleCall DEF Moves, Makes
  <2>4. /\ rows' = rows /\ raced' = raced
        /\ shown' = shown \/ (Exists(s) /\ shown' = [shown EXCEPT ![s] = rows[s].env])
    BY <1>2 DEF AnswerSignIn
  <2>5. \A r \in Ids \ {s} : shown'[r] = shown[r]
    BY <1>0, <2>4
  <2>6. \A d \in Calls : Moves(call[d]) => call[d].s # s /\ call[d].s \in Ids
    BY <1>0, <2>1, CallFields DEF EnvInv, AnsweredOnce, Moves
  <2>7. \A d \in Calls \ {c} : Makes(call[d]) => call[d].s # s /\ call[d].s \in Ids
    BY <1>0, <2>1, CallFields DEF EnvInv, AnsweredOnce, Makes
  <2>8. AnsweredOnce'
    BY <2>2, <2>3, <2>5, <2>6, <2>7 DEF EnvInv, AnsweredOnce
  <2>9. ASSUME NEW r \in Ids \ raced
        PROVE  Together(r)'
    <3>1. Together(r)
      BY DEF EnvInv
    <3>2. Moving(r)' = Moving(r) /\ c \notin Moving(r)
      BY <2>1, <2>2, <2>3 DEF Moving, Moves
    <3>3. \A d \in Moving(r) : call'[d] = call[d]
      BY <2>2, <3>2 DEF Moving
    <3>4. CASE r = s
      <4>1. Moving(r) = {}
        BY <2>6, <3>4 DEF Moving, Moves
      <4>2. shown'[r] # Nothing => shown'[r] = rows[r].env
        BY <1>0, <2>1, <2>4, <3>4
      <4>3. QED  BY <2>4, <3>2, <4>1, <4>2 DEF Together, Exists
    <3>5. CASE r # s
      BY <2>4, <2>5, <3>1, <3>2, <3>3, <3>5 DEF Together, Exists
    <3>6. QED  BY <3>4, <3>5
  <2>10. QED  BY <2>4, <2>8, <2>9 DEF EnvInv
<1>3. QED  BY <1>1, <1>2

\* Beginning to move a session.
LEMMA StartMoveEnv ==
    ASSUME TypeInv, EnvInv, NEW c \in Calls, NEW s \in Ids,
           NEW e \in Environments, NEW op \in {"refresh", "switch"}, NEW left,
           Free(c), SignedIn(s), Exists(s),
           Goto(c, [op |-> op, at |-> "read", s |-> s, env |-> e, left |-> left]),
           op = "refresh" => e \in {shown[s], rows[s].env},
           raced' = IF Moving(s) = {} THEN raced ELSE raced \cup {s},
           UNCHANGED <<rows, shown>>
    PROVE  EnvInv'
<1> DEFINE k == [op |-> op, at |-> "read", s |-> s, env |-> e, left |-> left]
<1>0. call \in [Calls -> CallTypes] /\ raced \subseteq Ids /\ call[c] = Idle
    BY DEF TypeInv, TablesOK, Free
<1>1. Moves(k) /\ ~Makes(k) /\ k.s = s /\ k.op = op /\ k.at = "read" /\ k.env = e
    BY DEF Moves, Makes
<1>2. call'[c] = k /\ \A d \in Calls \ {c} : call'[d] = call[d]
    BY <1>0 DEF Goto
<1> HIDE DEF k
<1>3. ~Moves(call[c]) /\ ~Makes(call[c])
    BY <1>0, IdleCall DEF Moves, Makes
<1>4. shown[s] # Nothing
    BY DEF SignedIn
<1>5. AnsweredOnce'
    BY <1>1, <1>2, <1>3, <1>4 DEF EnvInv, AnsweredOnce
<1>6. ASSUME NEW r \in Ids \ raced'
      PROVE  Together(r)'
  <2>1. r \notin raced /\ Together(r)
    BY DEF EnvInv
  <2>2. CASE r # s
    <3>1. Moving(r)' = Moving(r) /\ c \notin Moving(r)
      BY <1>1, <1>2, <1>3, <2>2 DEF Moving, Moves
    <3>2. \A d \in Moving(r) : call'[d] = call[d]
      BY <1>2, <3>1 DEF Moving
    <3>3. QED  BY <2>1, <3>1, <3>2 DEF Together, Exists
  <2>3. CASE r = s
    <3>1. Moving(r) = {}
      BY <2>3
    <3>2. Moving(r)' = {c}
      BY <1>1, <1>2, <2>3, <3>1 DEF Moving, Moves
    <3>3. shown[r] = rows[r].env
      BY <1>4, <2>1, <2>3, <3>1 DEF Together
    <3>4. QED  BY <1>1, <1>2, <2>3, <3>2, <3>3 DEF Together
  <2>4. QED  BY <2>2, <2>3
<1>7. QED  BY <1>5, <1>6 DEF EnvInv

\* Going on and ending to move a session.
LEMMA MoveEnv ==
    ASSUME TypeInv, EnvInv, NEW c \in Calls,
           RefuseMove(c) \/ WriteMove(c) \/ AnswerMove(c)
    PROVE  EnvInv'
<1> DEFINE s == call[c].s
           e == call[c].env
<1>0. /\ call \in [Calls -> CallTypes] /\ call[c] \in CallTypes /\ raced \subseteq Ids
      /\ rows \in [Ids -> Rows \cup {Nothing}]
      /\ shown \in [Ids -> Environments \cup {Nothing}]
    BY DEF TypeInv, TablesOK
<1>1. Moves(call[c]) /\ ~Makes(call[c]) /\ raced' = raced
    BY DEF RefuseMove, WriteMove, AnswerMove, Moves, Makes
<1>2. s \in Ids /\ e \in Environments /\ e # Nothing /\ shown[s] # Nothing
    BY <1>0, <1>1, CallFields, NothingAssumption DEF Moves, EnvInv, AnsweredOnce
<1>3. PICK k : Goto(c, k) /\ (k = Idle \/ (WriteMove(c) /\ k.op = call[c].op
                                           /\ k.at = "written" /\ k.s = s /\ k.env = e))
    BY DEF RefuseMove, WriteMove, AnswerMove
<1>4. call'[c] = k /\ \A d \in Calls \ {c} : call'[d] = call[d]
    BY <1>0, <1>3 DEF Goto
<1>5. ~Makes(k) /\ (Moves(k) => k.s = s)
    BY <1>1, <1>3, IdleCall DEF Makes, Moves
<1>6. /\ \A r \in Ids : shown'[r] = shown[r] \/ (r = s /\ shown'[r] = e)
      /\ \A r \in Ids \ {s} : shown'[r] = shown[r] /\ rows'[r] = rows[r]
    BY <1>0, <1>2 DEF RefuseMove, WriteMove, AnswerMove, Updated
<1>7. AnsweredOnce'
  <2>1. \A d \in Calls : Makes(call[d]) => call[d].s # s /\ call[d].s \in Ids
    BY <1>0, <1>2, CallFields DEF EnvInv, AnsweredOnce, Makes
  <2>2. \A d \in Calls : Moves(call[d]) => call[d].s \in Ids /\ shown[call[d].s] # Nothing
    BY <1>0, CallFields DEF EnvInv, AnsweredOnce, Moves
  <2>3. \A d \in Calls : Makes(call'[d]) => d # c
    BY <1>4, <1>5
  <2>4. \A d \in Calls : Makes(call'[d]) => shown'[call'[d].s] = Nothing
    BY <1>4, <1>6, <2>1, <2>3 DEF EnvInv, AnsweredOnce
  <2>5. \A d \in Calls : Moves(call'[d]) => shown'[call'[d].s] # Nothing
    BY <1>2, <1>4, <1>5, <1>6, <2>2
  <2>6. \A d, b \in Calls : Makes(call'[d]) /\ Makes(call'[b]) /\ call'[d].s = call'[b].s
                              => d = b
    BY <1>4, <2>3 DEF EnvInv, AnsweredOnce
  <2>7. QED  BY <2>4, <2>5, <2>6 DEF AnsweredOnce
<1>8. ASSUME NEW r \in Ids \ raced
      PROVE  Together(r)'
  <2>1. Together(r)
    BY DEF EnvInv
  <2>2. CASE r # s
    <3>1. Moving(r)' = Moving(r) /\ c \notin Moving(r)
      BY <1>4, <1>5, <2>2 DEF Moving, Moves
    <3>2. \A d \in Moving(r) : call'[d] = call[d]
      BY <1>4, <3>1 DEF Moving
    <3>3. QED  BY <1>6, <2>1, <2>2, <3>1, <3>2 DEF Together, Exists
  <2>3. CASE r = s
    <3>1. Moving(r) = {c}
      BY <1>1, <2>1, <2>3 DEF Together, Moving, Moves
    <3>2. CASE WriteMove(c)
      <4>1. k # Idle /\ k.op = call[c].op /\ k.at = "written" /\ k.s = s /\ k.env = e
        <5>1. PICK j : Goto(c, j) /\ j.op = call[c].op /\ j.at = "written"
                       /\ j.s = s /\ j.env = e
          BY <3>2 DEF WriteMove
        <5>2. j = k
          BY <1>0, <1>4, <5>1 DEF Goto
        <5>3. QED  BY <1>1, <5>1, <5>2, IdleCall DEF Moves
      <4>2. Moving(r)' = {c}
        BY <1>1, <1>4, <2>3, <3>1, <4>1 DEF Moving, Moves
      <4>3. shown' = shown /\ (Exists(r)' => Exists(r) /\ rows'[r].env = e)
        <5> DEFINE row == [env |-> e,
                           left |-> IF call[c].op = "refresh" THEN Life ELSE call[c].left]
        <5>1. shown' = shown /\ rows' = Updated(s, row)
          BY <3>2 DEF WriteMove
        <5>2. row.env = e
          OBVIOUS
        <5> HIDE DEF row
        <5>3. QED  BY <1>0, <1>2, <2>3, <5>1, <5>2 DEF Updated, Exists
      <4>4. Exists(r) /\ call[c].op = "refresh" => e = shown[r]
        BY <1>2, <2>1, <2>3, <3>1 DEF Together
      <4>5. QED  BY <1>4, <4>1, <4>2, <4>3, <4>4 DEF Together
    <3>3. CASE ~WriteMove(c)
      <4>1. k = Idle /\ Moving(r)' = {} /\ rows' = rows
        <5>1. k = Idle
          BY <1>3, <3>3
        <5>2. Moving(r)' = {}
          BY <1>4, <3>1, <5>1, IdleCall DEF Moving
        <5>3. QED  BY <3>3, <5>1, <5>2 DEF RefuseMove, AnswerMove
      <4>2. Exists(r) => shown'[r] = rows[r].env
        <5>1. CASE RefuseMove(c)
          BY <1>2, <2>1, <2>3, <3>1, <5>1 DEF RefuseMove, Together
        <5>2. CASE AnswerMove(c)
          <6>1. Exists(r) => rows[r].env = e /\ (call[c].op = "refresh" => e = shown[r])
            BY <1>2, <2>1, <2>3, <3>1, <5>2 DEF AnswerMove, Together
          <6>2. shown'[s] = IF call[c].op = "switch" THEN e ELSE shown[s]
            BY <1>0, <1>2, <5>2 DEF AnswerMove
          <6>3. QED  BY <1>1, <2>3, <6>1, <6>2 DEF Moves
        <5>3. QED  BY <3>3, <5>1, <5>2
      <4>3. QED  BY <4>1, <4>2 DEF Together, Exists
    <3>4. QED  BY <3>2, <3>3
  <2>4. QED  BY <2>2, <2>3
<1>9. QED  BY <1>1, <1>7, <1>8 DEF EnvInv

\* Losing the answer of a switch.
LEMMA LostEnv ==
    ASSUME TypeInv, EnvInv, NEW c \in Calls, LoseSwitch(c)
    PROVE  EnvInv'
<1> DEFINE s == call[c].s
<1>0. call \in [Calls -> CallTypes] /\ raced \subseteq Ids
    BY DEF TypeInv, TablesOK
<1>1. call'[c] = Idle /\ \A d \in Calls \ {c} : call'[d] = call[d]
    BY <1>0 DEF LoseSwitch, Goto
<1>2. raced' = raced \cup {s} /\ UNCHANGED <<rows, shown>>
    BY DEF LoseSwitch
<1>3. ~Moves(Idle) /\ ~Makes(Idle)
    BY IdleCall DEF Moves, Makes
<1>4. AnsweredOnce'
    BY <1>1, <1>2, <1>3 DEF EnvInv, AnsweredOnce
<1>5. ASSUME NEW r \in Ids \ raced'
      PROVE  Together(r)'
  <2>1. Together(r) /\ r # s
    BY <1>2, <1>5 DEF EnvInv
  <2>2. Moving(r)' = Moving(r) /\ c \notin Moving(r)
    BY <1>1, <1>3, <2>1 DEF Moving, Moves
  <2>3. \A d \in Moving(r) : call'[d] = call[d]
    BY <1>1, <2>2 DEF Moving
  <2>4. QED  BY <1>2, <2>1, <2>2, <2>3 DEF Together, Exists
<1>6. QED  BY <1>4, <1>5 DEF EnvInv

\* Every step keeps the invariant.
LEMMA StepEnv ==
    ASSUME TypeInv, EnvInv, [Next]_vars
    PROVE  EnvInv'
<1>0. /\ rows \in [Ids -> Rows \cup {Nothing}] /\ call \in [Calls -> CallTypes]
      /\ shown \in [Ids -> Environments \cup {Nothing}]
    BY DEF TypeInv, TablesOK
<1>i. ~Moves(Idle) /\ ~Makes(Idle)
    BY IdleCall DEF Moves, Makes
<1>w. ASSUME NEW S, rows' = Without(rows, S), NEW s \in Ids, rows'[s] # Nothing
      PROVE  rows[s] # Nothing /\ rows'[s].env = rows[s].env
    BY <1>0, <1>w, WithoutType
<1>1. ASSUME NEW c \in Calls, Start(c)
      PROVE  EnvInv'
  <2>0. \A d \in Calls : call[c] = Idle => ~Moves(call[c])
    BY <1>i
  <2>1. ASSUME NEW e \in Environments, StartSignIn(c, e)
        PROVE  EnvInv'
    <3> DEFINE k == [op |-> "signin", at |-> "cleared", env |-> e]
    <3>1. ~Moves(k) /\ ~Makes(k) /\ Goto(c, k) /\ ~Moves(call[c])
      BY <1>i, <2>1 DEF StartSignIn, Free, Moves, Makes
    <3> HIDE DEF k
    <3>2. (\E S : rows' = Without(rows, S)) /\ UNCHANGED <<shown, raced>>
      BY <2>1 DEF StartSignIn
    <3>3. QED  BY <1>w, <3>1, <3>2, GotoUnmoved, EnvKept
  <2>2. ASSUME NEW s \in Ids, StartRefresh(c, s)
        PROVE  EnvInv'
    <3>1. shown[s] \in Environments /\ rows[s].env \in Environments
      BY <1>0, <2>2 DEF StartRefresh, SignedIn, Exists, Rows
    <3>2. QED  BY <2>2, <3>1, StartMoveEnv DEF StartRefresh
  <2>3. ASSUME NEW s \in Ids, NEW e \in Environments, StartSwitch(c, s, e)
        PROVE  EnvInv'
    BY <2>3, StartMoveEnv DEF StartSwitch
  <2>4. ASSUME NEW s \in Ids, StartCheck(c, s)
        PROVE  EnvInv'
    <3> DEFINE k == [op |-> "check", at |-> "missed", s |-> s]
    <3>1. ~Moves(k) /\ ~Makes(k) /\ Goto(c, k) /\ ~Moves(call[c])
      BY <1>i, <2>4 DEF StartCheck, Free, Moves, Makes
    <3> HIDE DEF k
    <3>2. UNCHANGED <<rows, shown, raced>>
      BY <2>4 DEF StartCheck
    <3>3. QED  BY <3>1, <3>2, GotoUnmoved, EnvKept
  <2>5. ASSUME NEW ids \in Doomed, StartDelete(c, ids)
        PROVE  EnvInv'
    <3> DEFINE k == [op |-> "delete", at |-> "clearing", ids |-> ids]
    <3>1. ~Moves(k) /\ ~Makes(k) /\ Goto(c, k) /\ ~Moves(call[c])
      BY <1>i, <2>5 DEF StartDelete, Free, Moves, Makes
    <3> HIDE DEF k
    <3>2. rows' = Without(rows, ids) /\ UNCHANGED <<shown, raced>>
      BY <2>5 DEF StartDelete
    <3>3. QED  BY <1>w, <3>1, <3>2, GotoUnmoved, EnvKept
  <2>6. QED  BY <1>1, <2>1, <2>2, <2>3, <2>4, <2>5 DEF Start
<1>2. ASSUME NEW c \in Calls, Step(c)
      PROVE  EnvInv'
  <2>1. CASE Count(c) \/ GiveUp(c)
    <3>1. PICK k : Goto(c, k) /\ ~Moves(k) /\ ~Makes(k)
      BY <1>i, <2>1 DEF Count, GiveUp, Moves, Makes
    <3>2. ~Moves(call[c]) /\ UNCHANGED <<rows, shown, raced>>
      BY <2>1 DEF Count, GiveUp, At, Moves
    <3>3. QED  BY <3>1, <3>2, GotoUnmoved, EnvKept
  <2>2. CASE Evict(c)
    <3>1. PICK k : Goto(c, k) /\ ~Moves(k) /\ ~Makes(k)
      BY <2>2 DEF Evict, Moves, Makes
    <3>2. /\ ~Moves(call[c]) /\ UNCHANGED <<shown, raced>>
          /\ \E S : rows' = Without(rows, S)
      BY <2>2 DEF Evict, At, Moves
    <3>3. QED  BY <1>w, <3>1, <3>2, GotoUnmoved, EnvKept
  <2>3. CASE ReadRow(c) \/ Fill(c)
    <3>1. PICK k : Goto(c, k) /\ ~Moves(k) /\ ~Makes(k)
      BY <1>i, <2>3 DEF ReadRow, Fill, Moves, Makes
    <3>2. ~Moves(call[c]) /\ UNCHANGED <<rows, shown, raced>>
      BY <2>3 DEF ReadRow, Fill, At, Moves
    <3>3. QED  BY <3>1, <3>2, GotoUnmoved, EnvKept
  <2>4. CASE Clear(c)
    <3>0. call[c] \in Clearing /\ call[c].op = "delete"
      BY <1>0, <2>4, CallFields DEF Clear, At
    <3>1. PICK s : Goto(c, IF call[c].ids = {s} THEN Idle ELSE [call[c] EXCEPT !.ids = @ \ {s}])
      BY <2>4 DEF Clear
    <3> DEFINE j == [call[c] EXCEPT !.ids = @ \ {s}]
    <3>2. j.op = "delete"
      BY <3>0 DEF Clearing
    <3>3. ~Moves(j) /\ ~Makes(j) /\ ~Moves(call[c])
      BY <3>0, <3>2 DEF Moves, Makes
    <3>4. PICK k : Goto(c, k) /\ (k = Idle \/ k = j)
      BY <3>1
    <3> HIDE DEF j
    <3>5. UNCHANGED <<rows, shown, raced>>
      BY <2>4 DEF Clear
    <3>6. QED  BY <1>i, <3>3, <3>4, <3>5, GotoUnmoved, EnvKept
  <2>5. QED  BY <1>2, <2>1, <2>2, <2>3, <2>4, SignInEnv, MoveEnv, LostEnv DEF Step
<1>3. CASE \E ids : DropRows(ids)
  <2>1. \A c \in Calls : Unmoved(c)
    BY <1>3 DEF DropRows, Unmoved
  <2>2. QED  BY <1>3, <1>w, <2>1, EnvKept DEF DropRows
<1>4. CASE UNCHANGED vars
  <2>1. \A c \in Calls : Unmoved(c)
    BY <1>4 DEF vars, Unmoved
  <2>2. QED  BY <1>4, <2>1, EnvKept DEF vars
<1>5. CASE Tick
  <2>1. ASSUME NEW c \in Calls
        PROVE  Unmoved(c)
    <3>1. CASE call[c] \in Updating
      <4>1. call'[c] \in Updating
        BY <1>5, <3>1, TickCall
      <4>2. call'[c].at = call[c].at
        BY <3>1, <4>1, UpdatingFields
      <4>3. QED  BY <1>5, <3>1, <4>2, TickCall DEF Unmoved
    <3>2. CASE call[c] \notin Updating
      BY <1>5, <3>2, TickCall DEF Unmoved
    <3>3. QED  BY <3>1, <3>2
  <2>2. UNCHANGED <<shown, raced>>
    BY <1>5 DEF Tick
  <2>3. QED  BY <1>5, <2>1, <2>2, TickTables, EnvKept
<1>6. QED  BY <1>1, <1>2, <1>3, <1>4, <1>5 DEF Next

LEMMA InitEnv == Init => EnvInv
BY IdleCall DEF Init, EnvInv, AnsweredOnce, Together, Moves, Makes, Moving, Exists

\* A client and its row are in the same environment whenever nothing is moving
\* the session, if no two refreshes or switches of it were ever in flight and
\* none of its switches lost its answer.
THEOREM OneEnvironmentAlways == Spec => []OneEnvironmentUnlessRaced
<1>1. Init => TypeInv /\ EnvInv
    BY InitType, InitEnv
<1>2. TypeInv /\ EnvInv /\ [Next]_vars => TypeInv' /\ EnvInv'
    BY StepType, StepEnv
<1>3. EnvInv => OneEnvironmentUnlessRaced
    BY DEF EnvInv, Together, OneEnvironmentUnlessRaced, SignedIn
<1>4. QED  BY <1>1, <1>2, <1>3, PTL DEF Spec

-----------------------------------------------------------------------------
(* The limit is exceeded by no more than the other calls in flight.        *)

\* The sign-ins that have made room in an environment and are to insert.
Ready(e) == {c \in Calls : At(c, "signin", "evicted") /\ call[c].env = e}

\* The sessions of an environment and the sign-ins about to add to them.
Bounded(e) ==
    Cardinality(In(e)) + Cardinality(Ready(e)) <= SessionLimit + Cardinality(Calls) - 1

LimitInv == \A e \in Environments \ gained : Bounded(e)

\* A set of session ids that is not empty has a smallest one.
LEMMA SmallestId ==
    ASSUME NEW S, S \subseteq Ids, S # {}
    PROVE  \E s \in S : \A r \in S : ~(r < s)
<1> DEFINE below == OpToRel(<, Nat)
<1>1. IsWellFoundedOn(below, Nat)
    BY NatLessThanWellFounded
<1>2. S \subseteq Nat
    BY BoundAssumption DEF Ids
<1>3. \A r, s \in Nat : r < s => <<r, s>> \in below
    BY DEF OpToRel
<1> HIDE DEF below
<1>4. \E s \in S : \A r \in S : ~(<<r, s>> \in below)
    BY <1>1, <1>2, WFMin
<1>5. QED  BY <1>2, <1>3, <1>4

\* Evicting the oldest of some sessions leaves fewer of them, or none.
LEMMA OldestLeave ==
    ASSUME NEW S, S \subseteq Ids, NEW n \in Nat \ {0}
    PROVE  S = {} \/ S \ Oldest(S, n) # S
<1> SUFFICES ASSUME S # {} PROVE S \ Oldest(S, n) # S
    OBVIOUS
<1>1. PICK s \in S : \A r \in S : ~(r < s)
    BY SmallestId
<1>2. {r \in S : r < s} = {}
    BY <1>1
<1>3. Cardinality({r \in S : r < s}) < n
    BY <1>2, FS_EmptySet
<1>4. s \in Oldest(S, n)
    BY <1>3 DEF Oldest
<1>5. QED  BY <1>1, <1>4

\* A set that grows by one element at most.
LEMMA OneMore ==
    ASSUME NEW S, IsFiniteSet(S), NEW x, NEW T, T \subseteq S \cup {x}
    PROVE  Cardinality(T) <= Cardinality(S) + 1
<1>1. Cardinality(S) \in Nat
    BY FS_CardinalityType
<1>2. IsFiniteSet(S \cup {x}) /\ Cardinality(S \cup {x}) <= Cardinality(S) + 1
    BY <1>1, FS_AddElement
<1>3. /\ Cardinality(T) <= Cardinality(S \cup {x})
      /\ Cardinality(T) \in Nat /\ Cardinality(S \cup {x}) \in Nat
    BY <1>2, FS_Subset, FS_CardinalityType
<1>4. QED  BY <1>1, <1>2, <1>3

\* The sets that Bounded counts can be counted, before a step and after it.
LEMMA ReadyFinite ==
    ASSUME IsFiniteSet(Calls), NEW e
    PROVE  /\ IsFiniteSet(Ready(e)) /\ IsFiniteSet(Ready(e)')
           /\ Cardinality(Ready(e)) \in Nat /\ Cardinality(Ready(e)') \in Nat
           /\ Cardinality(Calls) \in Nat
           /\ Cardinality(Ready(e)) <= Cardinality(Calls)
           /\ Cardinality(Ready(e)') <= Cardinality(Calls)
<1>1. Ready(e) \subseteq Calls /\ Ready(e)' \subseteq Calls
    BY DEF Ready
<1>2. QED  BY <1>1, FS_Subset, FS_CardinalityType

LEMMA InFinite ==
    ASSUME NEW e
    PROVE  /\ IsFiniteSet(In(e)) /\ IsFiniteSet(In(e)')
           /\ Cardinality(In(e)) \in Nat /\ Cardinality(In(e)') \in Nat
<1>1. In(e) \subseteq Ids /\ In(e)' \subseteq Ids
    BY DEF In, Live, Exists
<1>2. IsFiniteSet(Ids)
    BY BoundAssumption, FS_Interval DEF Ids
<1>3. QED  BY <1>1, <1>2, FS_Subset, FS_CardinalityType

\* A step that adds no session to an environment, and no sign-in about to.
LEMMA FewerBounded ==
    ASSUME IsFiniteSet(Calls), NEW e, Bounded(e),
           In(e)' \subseteq In(e), Ready(e)' \subseteq Ready(e)
    PROVE  Bounded(e)'
<1>1. /\ Cardinality(In(e)') <= Cardinality(In(e))
      /\ Cardinality(Ready(e)') <= Cardinality(Ready(e))
    BY InFinite, ReadyFinite, FS_Subset
<1>2. QED  BY <1>1, InFinite, ReadyFinite, LimitAssumption DEF Bounded

\* A call that goes on anywhere but to the insertion is not about to insert.
LEMMA GotoReady ==
    ASSUME TypeInv, NEW c \in Calls, NEW k \in CallTypes, Goto(c, k), NEW e,
           ~(k.op = "signin" /\ k.at = "evicted" /\ k.env = e)
    PROVE  Ready(e)' \subseteq Ready(e)
<1>1. call'[c] = k /\ \A d \in Calls \ {c} : call'[d] = call[d]
    BY GotoType DEF TypeInv, TablesOK
<1>2. QED  BY <1>1 DEF Ready, At

\* Deleting rows adds no session to an environment.
LEMMA WithoutIn ==
    ASSUME TypeInv, NEW S, rows' = Without(rows, S), NEW e
    PROVE  In(e)' = In(e) \ S
<1>1. \A s \in Ids : rows'[s] = IF s \in S THEN Nothing ELSE rows[s]
    BY DEF Without
<1>2. QED  BY <1>1 DEF In, Live, Exists

\* The steps of a sign-in: those that count, evict and insert.
LEMMA SignInLimit ==
    ASSUME IsFiniteSet(Calls), TypeInv, LimitInv, NEW c \in Calls,
           Count(c) \/ Evict(c) \/ Insert(c),
           NEW e \in Environments \ gained
    PROVE  Bounded(e)'
<1>0. /\ call[c] \in CallTypes /\ call \in [Calls -> CallTypes] /\ Bounded(e)
      /\ rows \in [Ids -> Rows \cup {Nothing}] /\ made \in Nat
    BY BoundAssumption DEF TypeInv, TablesOK, LimitInv
<1> DEFINE evicted == [op |-> "signin", at |-> "evicted", env |-> call[c].env]
<1>1. CASE Count(c)
  <2> DEFINE n == Surplus(Cardinality(In(call[c].env)))
             counted == [op |-> "signin", at |-> "counted", env |-> call[c].env, extra |-> n]
  <2>1. /\ Goto(c, IF n > 0 THEN counted ELSE evicted)
        /\ In(e)' = In(e) /\ call[c].env \in Environments
    BY <1>0, <1>1, CallFields DEF Count, At, In, Live, Exists
  <2>2. n \in Int
    BY InFinite, LimitAssumption DEF Surplus
  <2>3. CASE n > 0
    <3>1. counted \in CallTypes /\ counted.at = "counted"
      BY <2>1, <2>2, <2>3 DEF CallTypes, Evicting
    <3>2. Goto(c, counted)
      BY <2>1, <2>3
    <3> HIDE DEF counted
    <3>3. QED  BY <1>0, <2>1, <3>1, <3>2, GotoReady, FewerBounded
  <2>4. CASE ~(n > 0) /\ call[c].env = e
    <3>1. Cardinality(In(e)') <= SessionLimit - 1
      BY <2>1, <2>4, InFinite, LimitAssumption DEF Surplus
    <3>2. QED  BY <3>1, InFinite, ReadyFinite, LimitAssumption DEF Bounded
  <2>5. CASE ~(n > 0) /\ call[c].env # e
    <3>1. evicted \in CallTypes /\ evicted.env # e
      BY <2>1, <2>5 DEF CallTypes, Starting
    <3>2. Goto(c, evicted)
      BY <2>1, <2>5
    <3> HIDE DEF evicted
    <3>3. QED  BY <1>0, <2>1, <3>1, <3>2, GotoReady, FewerBounded
  <2>6. QED  BY <2>3, <2>4, <2>5
<1>2. CASE Evict(c)
  <2> DEFINE gone == Oldest(In(call[c].env), call[c].extra)
  <2>1. /\ Goto(c, evicted) /\ rows' = Without(rows, gone)
        /\ call[c].env \in Environments /\ call[c].extra \in Nat \ {0}
    BY <1>0, <1>2, CallFields DEF Evict, At
  <2>2. evicted \in CallTypes /\ call'[c] = evicted
    BY <1>0, <2>1, GotoType DEF CallTypes, Starting
  <2>3. In(e)' = In(e) \ gone
    BY <2>1, WithoutIn
  <2>4. CASE call[c].env = e
    <3>1. In(e) = {} \/ In(e)' # In(e)
      BY <2>1, <2>3, <2>4, OldestLeave DEF In, Live
    <3>2. Ready(e)' \subseteq Ready(e) \cup {c}
      BY <1>0, <2>1, <2>2, GotoType DEF Ready, At
    <3>3. Cardinality(Ready(e)') <= Cardinality(Ready(e)) + 1
      BY <3>2, ReadyFinite, OneMore
    <3>4. CASE In(e) = {}
      <4>1. Cardinality(In(e)') = 0
        BY <2>3, <3>4, FS_EmptySet
      <4>2. QED  BY <4>1, ReadyFinite, LimitAssumption DEF Bounded
    <3>5. CASE In(e)' # In(e)
      <4>1. Cardinality(In(e)') <= Cardinality(In(e)) /\ Cardinality(In(e)') # Cardinality(In(e))
        BY <2>3, <3>5, InFinite, FS_Subset
      <4>2. QED  BY <1>0, <3>3, <4>1, InFinite, ReadyFinite, LimitAssumption DEF Bounded
    <3>6. QED  BY <3>1, <3>4, <3>5
  <2>5. CASE call[c].env # e
    <3>1. evicted.env # e
      BY <2>5
    <3>2. Ready(e)' \subseteq Ready(e)
      BY <2>1, <2>2, <3>1, GotoReady
    <3>3. QED  BY <1>0, <2>3, <3>2, FewerBounded
  <2>6. QED  BY <2>4, <2>5
<1>3. CASE Insert(c)
  <2> DEFINE k == [op |-> "signin", at |-> "made", s |-> made']
             row == [env |-> call[c].env, left |-> Life]
  <2>1. /\ Goto(c, k) /\ rows' = [rows EXCEPT ![made'] = row]
        /\ At(c, "signin", "evicted") /\ made' \in Ids
    BY <1>0, <1>3, BoundAssumption DEF Insert, Ids
  <2>2. k \in CallTypes /\ k.at = "made" /\ row.env = call[c].env
    BY <2>1 DEF CallTypes, Made
  <2> HIDE DEF k, row
  <2>3. Ready(e)' \subseteq Ready(e) \ {c}
    BY <1>0, <2>1, <2>2, GotoType DEF Ready, At
  <2>4. CASE call[c].env = e
    <3>1. In(e)' \subseteq In(e) \cup {made'}
      BY <1>0, <2>1 DEF In, Live, Exists
    <3>2. Cardinality(In(e)') <= Cardinality(In(e)) + 1
      BY <3>1, InFinite, OneMore
    <3>3. c \in Ready(e)
      BY <2>1, <2>4 DEF Ready
    <3>4. /\ IsFiniteSet(Ready(e) \ {c})
          /\ Cardinality(Ready(e) \ {c}) = Cardinality(Ready(e)) - 1
      BY <3>3, ReadyFinite, FS_RemoveElement
    <3>5. Cardinality(Ready(e)') <= Cardinality(Ready(e)) - 1
      BY <2>3, <3>4, FS_Subset
    <3>6. QED  BY <1>0, <3>2, <3>5, InFinite, ReadyFinite, LimitAssumption DEF Bounded
  <2>5. CASE call[c].env # e
    <3>1. In(e)' \subseteq In(e)
      BY <1>0, <2>1, <2>2, <2>5 DEF In, Live, Exists
    <3>2. QED  BY <1>0, <2>3, <3>1, FewerBounded
  <2>6. QED  BY <2>4, <2>5
<1>4. QED  BY <1>1, <1>2, <1>3

\* A refresh or a switch adds a session to an environment only by moving it
\* there, which is remembered.
LEMMA MoveLimit ==
    ASSUME TypeInv, NEW c \in Calls, WriteMove(c), NEW e \in Environments \ gained'
    PROVE  In(e)' \subseteq In(e) /\ Ready(e)' \subseteq Ready(e) /\ gained \subseteq gained'
<1>0. /\ call[c] \in CallTypes /\ call \in [Calls -> CallTypes]
      /\ rows \in [Ids -> Rows \cup {Nothing}]
    BY DEF TypeInv, TablesOK
<1> DEFINE s == call[c].s
           f == call[c].env
           left == IF call[c].op = "refresh" THEN Life ELSE call[c].left
           row == [env |-> f, left |-> left]
           k == [op |-> call[c].op, at |-> "written", s |-> s, env |-> f]
<1>1. /\ s \in Ids /\ f \in Environments /\ call[c].op \in {"refresh", "switch"}
      /\ rows' = Updated(s, row) /\ Goto(c, k)
      /\ gained' = IF Exists(s) /\ rows[s].env # f THEN gained \cup {f} ELSE gained
    BY <1>0, CallFields DEF WriteMove
<1>2. k \in CallTypes /\ k.at = "written" /\ row.env = f
    BY <1>1 DEF CallTypes, Answering
<1> HIDE DEF k, row
<1>3. Ready(e)' \subseteq Ready(e)
    BY <1>1, <1>2, GotoReady
<1>4. gained \subseteq gained'
    BY <1>1
<1>5. In(e)' \subseteq In(e)
  <2>1. CASE Exists(s)
    <3>1. rows' = [rows EXCEPT ![s] = row]
      BY <1>1, <2>1 DEF Updated
    <3>2. f = e => rows[s].env = e
      BY <1>1, <2>1
    <3>3. QED  BY <1>0, <1>1, <1>2, <2>1, <3>1, <3>2 DEF In, Live, Exists
  <2>2. CASE ~Exists(s)
    BY <1>1, <2>2 DEF Updated, In, Live, Exists
  <2>3. QED  BY <2>1, <2>2
<1>6. QED  BY <1>3, <1>4, <1>5

\* Every other step adds nothing to an environment.
Adding(e) == ~(In(e)' \subseteq In(e) /\ Ready(e)' \subseteq Ready(e) /\ gained' = gained)

\* A call goes on, but not to an insertion, and rows are at most deleted.
LEMMA NothingAdded ==
    ASSUME TypeInv, NEW c \in Calls, NEW k \in CallTypes, Goto(c, k),
           k.op = "signin" => k.at # "evicted",
           gained' = gained,
           rows' = rows \/ (\E S : rows' = Without(rows, S)),
           NEW e
    PROVE  ~Adding(e)
<1>1. Ready(e)' \subseteq Ready(e)
    BY GotoReady
<1>2. CASE rows' = rows
    BY <1>1, <1>2 DEF Adding, In, Live, Exists
<1>3. CASE \E S : rows' = Without(rows, S)
    BY <1>1, <1>3, WithoutIn DEF Adding
<1>4. QED  BY <1>2, <1>3

LEMMA StartLimit ==
    ASSUME TypeInv, NEW c \in Calls, Start(c), NEW e
    PROVE  ~Adding(e)
<1>0. rows \in [Ids -> Rows \cup {Nothing}]
    BY DEF TypeInv, TablesOK
<1>1. ASSUME NEW f \in Environments, StartSignIn(c, f)
      PROVE  ~Adding(e)
  <2> DEFINE k == [op |-> "signin", at |-> "cleared", env |-> f]
  <2>1. k \in CallTypes /\ k.at = "cleared"
    BY DEF CallTypes, Starting
  <2>2. Goto(c, k) /\ (\E S : rows' = Without(rows, S)) /\ gained' = gained
    BY <1>1 DEF StartSignIn
  <2> HIDE DEF k
  <2>3. QED  BY <2>1, <2>2, NothingAdded
<1>2. ASSUME NEW s \in Ids, NEW f \in Environments, NEW op \in {"refresh", "switch"},
             Exists(s), UNCHANGED <<rows, gained>>,
             Goto(c, [op |-> op, at |-> "read", s |-> s, env |-> f, left |-> rows[s].left])
      PROVE  ~Adding(e)
  <2> DEFINE k == [op |-> op, at |-> "read", s |-> s, env |-> f, left |-> rows[s].left]
  <2>1. rows[s].left \in 0 .. Life
    BY <1>0, <1>2 DEF Exists, Rows
  <2>2. k \in CallTypes /\ k.at = "read"
    BY <2>1 DEF CallTypes, Updating
  <2>3. Goto(c, k)
    BY <1>2
  <2> HIDE DEF k
  <2>4. QED  BY <1>2, <2>2, <2>3, NothingAdded
<1>3. ASSUME NEW s \in Ids, StartRefresh(c, s)
      PROVE  ~Adding(e)
  <2>1. shown[s] \in Environments /\ rows[s].env \in Environments
    BY <1>0, <1>3 DEF StartRefresh, SignedIn, Exists, Rows, TypeInv, TablesOK
  <2>2. QED  BY <1>2, <1>3, <2>1 DEF StartRefresh
<1>4. ASSUME NEW s \in Ids, NEW f \in Environments, StartSwitch(c, s, f)
      PROVE  ~Adding(e)
    BY <1>2, <1>4 DEF StartSwitch
<1>5. ASSUME NEW s \in Ids, StartCheck(c, s)
      PROVE  ~Adding(e)
  <2> DEFINE k == [op |-> "check", at |-> "missed", s |-> s]
  <2>1. k \in CallTypes /\ k.at = "missed"
    BY DEF CallTypes, Reading
  <2>2. Goto(c, k) /\ UNCHANGED <<rows, gained>>
    BY <1>5 DEF StartCheck
  <2> HIDE DEF k
  <2>3. QED  BY <2>1, <2>2, NothingAdded
<1>6. ASSUME NEW ids \in Doomed, StartDelete(c, ids)
      PROVE  ~Adding(e)
  <2> DEFINE k == [op |-> "delete", at |-> "clearing", ids |-> ids]
  <2>1. k \in CallTypes /\ k.op = "delete"
    BY DoomedMade DEF CallTypes, Clearing
  <2>2. Goto(c, k) /\ rows' = Without(rows, ids) /\ gained' = gained
    BY <1>6 DEF StartDelete
  <2> HIDE DEF k
  <2>3. QED  BY <2>1, <2>2, NothingAdded
<1>7. QED  BY <1>1, <1>3, <1>4, <1>5, <1>6 DEF Start

\* The steps of a call that leave the sessions as they are.
LEMMA IdleStepLimit ==
    ASSUME TypeInv, NEW c \in Calls, NEW e,
           \/ AnswerSignIn(c) \/ GiveUp(c) \/ RefuseMove(c) \/ AnswerMove(c) \/ LoseSwitch(c)
           \/ ReadRow(c) \/ Fill(c) \/ Clear(c)
    PROVE  ~Adding(e)
<1>0. call[c] \in CallTypes /\ rows \in [Ids -> Rows \cup {Nothing}]
    BY DEF TypeInv, TablesOK
<1>i. Idle \in CallTypes /\ ~(Idle.op = "signin")
    BY IdleCall
<1>1. CASE Goto(c, Idle) /\ UNCHANGED <<rows, gained>>
    BY <1>1, <1>i, NothingAdded
<1>2. CASE ReadRow(c)
  <2> DEFINE s == call[c].s
             k == [op |-> "check", at |-> "read", s |-> s, env |-> rows[s].env]
  <2>1. s \in Ids /\ UNCHANGED <<rows, gained>>
    BY <1>0, <1>2, CallFields DEF ReadRow, At
  <2>2. CASE Exists(s) /\ rows[s].left > 0
    <3>1. k \in CallTypes /\ k.op = "check"
      BY <1>0, <2>1, <2>2 DEF CallTypes, Filling, Exists, Rows
    <3>2. Goto(c, k)
      BY <1>2, <2>2 DEF ReadRow
    <3> HIDE DEF k
    <3>3. QED  BY <2>1, <3>1, <3>2, NothingAdded
  <2>3. CASE ~(Exists(s) /\ rows[s].left > 0)
    BY <1>1, <1>2, <2>1, <2>3 DEF ReadRow
  <2>4. QED  BY <2>2, <2>3
<1>3. CASE Clear(c)
  <2>1. call[c] \in Clearing /\ UNCHANGED <<rows, gained>>
    BY <1>0, <1>3, CallFields DEF Clear, At
  <2>2. PICK s : Goto(c, IF call[c].ids = {s} THEN Idle ELSE [call[c] EXCEPT !.ids = @ \ {s}])
    BY <1>3 DEF Clear
  <2> DEFINE j == [call[c] EXCEPT !.ids = @ \ {s}]
  <2>3. j \in CallTypes /\ j.op = "delete"
    BY <2>1 DEF CallTypes, Clearing
  <2>4. Goto(c, Idle) \/ Goto(c, j)
    BY <2>2
  <2> HIDE DEF j
  <2>5. QED  BY <1>1, <2>1, <2>3, <2>4, NothingAdded
<1>4. QED  BY <1>1, <1>2, <1>3
         DEF AnswerSignIn, GiveUp, RefuseMove, AnswerMove, LoseSwitch, Fill

\* Time passes in every environment alike.
LEMMA TickLimit ==
    ASSUME TypeInv, Tick, NEW e
    PROVE  ~Adding(e)
<1>1. In(e)' \subseteq In(e)
    BY TickTables DEF In, Live, Exists
<1>2. ASSUME NEW c \in Calls, c \in Ready(e)'
      PROVE  c \in Ready(e)
  <2>1. call[c] \notin Updating
    BY <1>2, TickCall, UpdatingFields DEF Ready, At
  <2>2. QED  BY <1>2, <2>1, TickCall DEF Ready, At
<1>3. Ready(e)' \subseteq Ready(e)
    BY <1>2 DEF Ready
<1>4. QED  BY <1>1, <1>3 DEF Adding, Tick

\* Every step keeps the bound.
LEMMA StepLimit ==
    ASSUME IsFiniteSet(Calls), TypeInv, LimitInv, [Next]_vars
    PROVE  LimitInv'
<1> SUFFICES ASSUME NEW e \in Environments \ gained' PROVE Bounded(e)'
    BY DEF LimitInv
<1>1. CASE ~Adding(e)
    BY <1>1, FewerBounded DEF Adding, LimitInv
<1>2. ASSUME NEW c \in Calls, Count(c) \/ Evict(c) \/ Insert(c)
      PROVE  Bounded(e)'
  <2>1. gained' = gained
    BY <1>2 DEF Count, Evict, Insert
  <2>2. QED  BY <1>2, <2>1, SignInLimit
<1>3. ASSUME NEW c \in Calls, WriteMove(c)
      PROVE  Bounded(e)'
    BY <1>3, MoveLimit, FewerBounded DEF LimitInv
<1>4. ASSUME NEW c \in Calls, Start(c) \/ Step(c)
      PROVE  Bounded(e)'
    BY <1>1, <1>2, <1>3, <1>4, StartLimit, IdleStepLimit DEF Step
<1>5. ASSUME NEW ids, DropRows(ids)
      PROVE  Bounded(e)'
    BY <1>1, <1>5, WithoutIn DEF DropRows, Adding, Ready, At
<1>6. CASE UNCHANGED vars
    BY <1>1, <1>6 DEF vars, Adding, In, Live, Exists, Ready, At
<1>7. QED  BY <1>1, <1>4, <1>5, <1>6, TickLimit DEF Next

LEMMA InitLimit == IsFiniteSet(Calls) /\ Init => LimitInv
<1> SUFFICES ASSUME IsFiniteSet(Calls), Init, NEW e \in Environments PROVE Bounded(e)
    BY DEF LimitInv
<1>1. In(e) = {} /\ Ready(e) = {}
    BY IdleCall DEF Init, In, Live, Exists, Ready, At
<1>2. QED  BY <1>1, FS_EmptySet, FS_CardinalityType, LimitAssumption DEF Bounded

\* However the sign-ins of an environment overlap, its sessions exceed the
\* limit by fewer than the calls that can be in flight, unless a refresh or a
\* change of environment moved a session into it.
THEOREM LimitAlmostKept ==
    ASSUME IsFiniteSet(Calls)
    PROVE  Spec => []LimitUnlessOverlapped
<1>1. Init => TypeInv /\ LimitInv
    BY InitType, InitLimit
<1>2. TypeInv /\ LimitInv /\ [Next]_vars => TypeInv' /\ LimitInv'
    BY StepType, StepLimit
<1>3. LimitInv => LimitUnlessOverlapped
    BY InFinite, ReadyFinite, LimitAssumption DEF LimitInv, Bounded, LimitUnlessOverlapped
<1>4. QED  BY <1>1, <1>2, <1>3, PTL DEF Spec

=============================================================================
