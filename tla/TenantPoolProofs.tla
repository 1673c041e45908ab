---------------------------- MODULE TenantPoolProofs ----------------------------
(***************************************************************************)
(* Theorems about TenantPool, for any tenants, pools, calls in flight and  *)
(* size of a pool.                                                         *)
(***************************************************************************)
EXTENDS TenantPool, TLAPS

ConnectTypes == {Idle} \cup Created \cup Replacing \cup Changing
EditTypes == {Idle} \cup OnePool \cup TwoPools

Has(c) == connect[c] # Idle
Old(c) == connect[c].at \in {"found", "draining"}

\* Nothing runs before AutoConnect has ended, and no pool is made.
QuietBefore ==
    ~serving => /\ pool = [p \in Pools |-> Nothing]
                /\ mapped = [t \in Tenants |-> Nothing]
                /\ connect = [c \in Connects |-> Idle]
                /\ edit = [e \in Edits |-> Idle]

\* A pool on its way to the map is an open one of its tenant that nobody else
\* has: it is not in the map, not another connect's, and not to be closed.
NewPoolsFresh ==
    \A c \in Connects : Has(c) =>
        /\ pool[connect[c].new] = [of |-> connect[c].t, open |-> TRUE]
        /\ \A t \in Tenants : mapped[t] # connect[c].new
        /\ \A d \in Connects : Has(d) =>
            /\ connect[d].new = connect[c].new => d = c
            /\ Old(d) => connect[d].old # connect[c].new

OldPoolsOwn ==
    \A c \in Connects : Old(c) =>
        pool[connect[c].old] # Nothing /\ pool[connect[c].old].of = connect[c].t

MappedOwn ==
    \A t \in Tenants : mapped[t] # Nothing =>
        pool[mapped[t]] # Nothing /\ pool[mapped[t]].of = t

\* A closed pool in the map has a Reconnect that will take it out.
ClosedIsReplaced ==
    \A t \in Tenants : mapped[t] # Nothing /\ ~Open(mapped[t]) =>
        \E c \in OnTenant(t) : connect[c].at \in {"draining", "removing"}

\* A gap in the map has a connect that will fill it.
GapIsFilled ==
    \A t \in connected : mapped[t] = Nothing =>
        \E c \in OnTenant(t) : connect[c].at = "adding"

TypeInv ==
    /\ pool \in [Pools -> [of : Tenants, open : BOOLEAN] \cup {Nothing}]
    /\ mapped \in [Tenants -> Pools \cup {Nothing}]
    /\ connect \in [Connects -> ConnectTypes]
    /\ edit \in [Edits -> EditTypes]
    /\ serving \in BOOLEAN
    /\ registered \subseteq Tenants
    /\ connected \subseteq registered
    /\ crossed \subseteq Tenants
    /\ spilled \subseteq Pools
    /\ QuietBefore
    /\ \A c \in Connects : Has(c) => connect[c].t \in registered

MapInv ==
    /\ TypeInv
    /\ NewPoolsFresh
    /\ OldPoolsOwn
    /\ MappedOwn

ReachInv == ClosedIsReplaced /\ GapIsFilled

\* A tenant whose connects never met has one in flight at most, and that one
\* finds in the map what it left there.
OneAtATime ==
    \A c, d \in Connects :
        Has(c) /\ Has(d) /\ connect[c].t = connect[d].t /\ connect[c].t \notin crossed => c = d

FoundStays ==
    \A c \in Connects : Has(c) /\ connect[c].t \notin crossed =>
        /\ connect[c].at = "found" => mapped[connect[c].t] = connect[c].old
        /\ connect[c].at \in {"draining", "removing"} =>
             mapped[connect[c].t] = Nothing \/ ~Open(mapped[connect[c].t])

LostInv == OneAtATime /\ FoundStays /\ NoPoolLost

-----------------------------------------------------------------------------
(* Records.                                                                *)

\* What the places a connect can be at say of its record.
LEMMA ConnectFields ==
    ASSUME NEW q \in ConnectTypes
    PROVE  /\ q # Idle => q.t \in Tenants /\ q.new \in Pools
           /\ q = Idle <=> q.at = "idle"
           /\ q.at = "created" => q.kind \in {"register", "reconnect"}
           /\ q.at \in {"found", "draining"} =>
                /\ q.old \in Pools
                /\ LET s == [q EXCEPT !.at = "draining"]
                   IN  /\ s \in ConnectTypes
                       /\ s.at = "draining" /\ s.t = q.t /\ s.new = q.new /\ s.old = q.old
           /\ q.at \in {"removing", "adding"} =>
                LET s == [q EXCEPT !.at = "adding"]
                IN  /\ s \in ConnectTypes
                    /\ s.at = "adding" /\ s.t = q.t /\ s.new = q.new
<1>1. CASE q = Idle
    BY <1>1 DEF Idle
<1>2. CASE q \in Created
    BY <1>2 DEF Idle, Created
<1>3. CASE q \in Replacing
  <2>1. q.at \in {"found", "draining"} /\ q.t \in Tenants /\ q.new \in Pools /\ q.old \in Pools
    BY <1>3 DEF Replacing
  <2> DEFINE s == [q EXCEPT !.at = "draining"]
  <2>2. s \in Replacing /\ s.at = "draining" /\ s.t = q.t /\ s.new = q.new /\ s.old = q.old
    BY <1>3 DEF Replacing
  <2>3. q # Idle
    BY <2>1 DEF Idle
  <2> HIDE DEF s
  <2>4. QED  BY <2>1, <2>2, <2>3 DEF ConnectTypes, s
<1>4. CASE q \in Changing
  <2>1. q.at \in {"removing", "adding"} /\ q.t \in Tenants /\ q.new \in Pools
    BY <1>4 DEF Changing
  <2> DEFINE s == [q EXCEPT !.at = "adding"]
  <2>2. s \in Changing /\ s.at = "adding" /\ s.t = q.t /\ s.new = q.new
    BY <1>4 DEF Changing
  <2>3. q # Idle
    BY <2>1 DEF Idle
  <2> HIDE DEF s
  <2>4. QED  BY <2>1, <2>2, <2>3 DEF ConnectTypes, s
<1>5. QED  BY <1>1, <1>2, <1>3, <1>4 DEF ConnectTypes

\* The records a connect makes.
LEMMA MadeConnects ==
    ASSUME NEW t \in Tenants, NEW p \in Pools, NEW q \in Pools
    PROVE  /\ Idle \in ConnectTypes /\ Idle.at = "idle"
           /\ \A kind \in {"register", "reconnect"} :
                [at |-> "created", kind |-> kind, t |-> t, new |-> p] \in ConnectTypes
           /\ [at |-> "found", t |-> t, new |-> p, old |-> q] \in ConnectTypes
           /\ [at |-> "removing", t |-> t, new |-> p] \in ConnectTypes
           /\ [at |-> "adding", t |-> t, new |-> p] \in ConnectTypes
BY DEF ConnectTypes, Idle, Created, Replacing, Changing

\* The records of an edit, and those its steps make.
LEMMA EditFields ==
    ASSUME NEW q \in EditTypes
    PROVE  /\ q # Idle => q.t \in Tenants /\ q.p \in Pools
           /\ q = Idle <=> q.at = "idle"
           /\ q.at \in {"again", "both"} => q.q \in Pools
           /\ q.at = "found" => [q EXCEPT !.at = "holding"] \in EditTypes
           /\ q.at = "again" => [q EXCEPT !.at = "both"] \in EditTypes
BY DEF EditTypes, Idle, OnePool, TwoPools

LEMMA MadeEdits ==
    ASSUME NEW t \in Tenants, NEW p \in Pools, NEW q \in Pools
    PROVE  /\ Idle \in EditTypes
           /\ [at |-> "found", t |-> t, p |-> p] \in EditTypes
           /\ [at |-> "writing", t |-> t, p |-> p] \in EditTypes
           /\ [at |-> "again", t |-> t, p |-> p, q |-> q] \in EditTypes
BY DEF EditTypes, Idle, OnePool, TwoPools

\* Somebody is in flight only while the service runs.
LEMMA Running ==
    ASSUME TypeInv
    PROVE  /\ \A c \in Connects : connect[c].at # "idle" => serving
           /\ \A e \in Edits : edit[e].at # "idle" => serving
BY DEF TypeInv, QuietBefore, Idle

-----------------------------------------------------------------------------
(* The edits do not touch the map.                                         *)

EditNext ==
    \/ \E e \in Edits : Take(e) \/ EditStep(e) \/ GiveUp(e)
    \/ \E e \in Edits, t \in Tenants : StartEdit(e, t)

LEMMA EditTyped ==
    ASSUME TypeInv, EditNext
    PROVE  /\ edit' \in [Edits -> EditTypes]
           /\ serving
           /\ UNCHANGED <<pool, mapped, connect, serving, registered, histories>>
<1>1. ASSUME NEW e \in Edits, Take(e) \/ EditStep(e) \/ GiveUp(e)
      PROVE  /\ edit' \in [Edits -> EditTypes]
             /\ serving
             /\ UNCHANGED <<pool, mapped, connect, serving, registered, histories>>
  <2> DEFINE q == edit[e]
  <2>1. q \in EditTypes /\ (q.at # "idle" => serving)
    BY Running DEF TypeInv
  <2>2. UNCHANGED <<pool, mapped, connect, serving, registered, histories>>
    BY <1>1 DEF Take, TakeFirst, TakeSecond, EditStep, LookAgain, GiveBack, EndEdit, GiveUp
  <2>3. q.at # "idle"
    BY <1>1 DEF Take, TakeFirst, TakeSecond, EditStep, LookAgain, GiveBack, EndEdit, GiveUp
  <2>4. q.t \in Tenants /\ q.p \in Pools
    BY <2>1, <2>3, EditFields
  <2>5. \E s \in EditTypes : GotoE(e, s)
    <3>1. CASE Take(e) \/ EndEdit(e) \/ GiveUp(e)
        BY <2>1, <2>4, <3>1, EditFields, MadeEdits DEF Take, TakeFirst, TakeSecond, EndEdit, GiveUp
    <3>2. CASE LookAgain(e)
        BY <2>4, <3>2, MadeEdits DEF LookAgain, TypeInv
    <3>3. CASE GiveBack(e)
        BY <2>4, <3>3, MadeEdits DEF GiveBack
    <3>4. QED  BY <1>1, <3>1, <3>2, <3>3 DEF EditStep
  <2>6. QED  BY <2>1, <2>2, <2>3, <2>5 DEF GotoE, TypeInv
<1>2. ASSUME NEW e \in Edits, NEW t \in Tenants, StartEdit(e, t)
      PROVE  /\ edit' \in [Edits -> EditTypes]
             /\ serving
             /\ UNCHANGED <<pool, mapped, connect, serving, registered, histories>>
    BY <1>2, MadeEdits DEF StartEdit, GotoE, TypeInv
<1>3. QED  BY <1>1, <1>2 DEF EditNext

-----------------------------------------------------------------------------
(* Types, and whose the pools are.                                         *)

\* A pool that was made is not Nothing, and keeps its tenant when it is closed.
LEMMA MadePools ==
    /\ \A t \in Tenants :
         LET p == [of |-> t, open |-> TRUE]
         IN  p \in [of : Tenants, open : BOOLEAN] /\ p # Nothing /\ p.of = t /\ p.open
    /\ \A p \in [of : Tenants, open : BOOLEAN] :
         LET q == [p EXCEPT !.open = FALSE]
         IN  /\ q \in [of : Tenants, open : BOOLEAN] /\ q # Nothing /\ q.of = p.of /\ ~q.open
             /\ p # Nothing
<1>1. \A t \in Tenants :
        LET p == [of |-> t, open |-> TRUE]
        IN  p \in [of : Tenants, open : BOOLEAN] /\ p.of = t /\ p.open
  OBVIOUS
<1>2. \A p \in [of : Tenants, open : BOOLEAN] :
        LET q == [p EXCEPT !.open = FALSE]
        IN  q \in [of : Tenants, open : BOOLEAN] /\ q.of = p.of /\ ~q.open
  OBVIOUS
<1>3. \A p \in [of : Tenants, open : BOOLEAN] : p # Nothing
  BY NothingAssumption, Zenon
<1>4. QED  BY <1>1, <1>2, <1>3

LEMMA MapInit == Init => MapInv /\ ReachInv /\ LostInv
<1>1. Init => TypeInv
  <2> SUFFICES ASSUME Init PROVE TypeInv
    OBVIOUS
  <2>1. Idle \in ConnectTypes /\ Idle \in EditTypes
    BY DEF ConnectTypes, EditTypes
  <2>2. QED  BY <2>1 DEF Init, TypeInv, QuietBefore, Has
<1>2. Init => NewPoolsFresh /\ OldPoolsOwn /\ OneAtATime /\ FoundStays
  BY DEF Init, NewPoolsFresh, OldPoolsOwn, OneAtATime, FoundStays, Has, Old, Idle
<1>3. Init => MappedOwn /\ ClosedIsReplaced /\ GapIsFilled
  BY DEF Init, MappedOwn, ClosedIsReplaced, GapIsFilled
<1>4. Init => NoPoolLost
  BY DEF Init, NoPoolLost, Open
<1>5. QED  BY <1>1, <1>2, <1>3, <1>4 DEF MapInv, ReachInv, LostInv

\* What a step that moves one connect does to the others.
LEMMA Moves ==
    ASSUME TypeInv, NEW c \in Connects, NEW s, GotoC(c, s)
    PROVE  /\ connect'[c] = s
           /\ \A d \in Connects : d # c => connect'[d] = connect[d]
           /\ s \in ConnectTypes => connect' \in [Connects -> ConnectTypes]
BY DEF TypeInv, GotoC

\* Mapped and open pools while nothing but a connect's place changes.
LEMMA SamePools ==
    ASSUME UNCHANGED <<pool, mapped>>
    PROVE  /\ MappedOwn => MappedOwn'
           /\ \A p : Open(p) <=> Open(p)'
BY DEF MappedOwn, Open

LEMMA AutoConnectMap ==
    ASSUME MapInv, AutoConnect
    PROVE  /\ MapInv'
           /\ connect = [c \in Connects |-> Idle]
           /\ \A t \in Tenants : mapped'[t] # Nothing =>
                pool'[mapped'[t]] = [of |-> t, open |-> TRUE]
           /\ \A t \in connected' : mapped'[t] # Nothing
           /\ \A p \in Pools : pool'[p] # Nothing => mapped'[pool'[p].of] = p
<1> USE DEF MapInv, TypeInv
<1>1. PICK new \in [registered -> Unmade \cup {Nothing}] :
        /\ \A t, u \in registered : new[t] = new[u] => t = u \/ new[t] = Nothing
        /\ mapped' = [t \in Tenants |-> IF t \in registered THEN new[t] ELSE Nothing]
        /\ pool' = [p \in Pools |->
                      IF \E t \in registered : new[t] = p
                      THEN [of |-> CHOOSE t \in registered : new[t] = p, open |-> TRUE]
                      ELSE pool[p]]
        /\ connected' = {t \in registered : new[t] # Nothing}
  BY DEF AutoConnect
<1>2. /\ serving' = TRUE
      /\ UNCHANGED <<connect, edit, registered, crossed, spilled>>
      /\ pool = [p \in Pools |-> Nothing]
      /\ connect = [c \in Connects |-> Idle]
  BY DEF AutoConnect, QuietBefore
<1>3. \A t \in registered : new[t] \in Pools \cup {Nothing}
  BY DEF Unmade
<1>4. \A t \in registered : new[t] # Nothing =>
        new[t] \in Pools /\ pool'[new[t]] = [of |-> t, open |-> TRUE]
  <2> TAKE t \in registered
  <2> HAVE new[t] # Nothing
  <2>1. new[t] \in Pools
    BY <1>3
  <2>2. (CHOOSE u \in registered : new[u] = new[t]) = t
    BY <1>1
  <2>3. QED  BY <1>1, <2>1, <2>2
<1>5. \A t \in Tenants : mapped'[t] # Nothing =>
        t \in registered /\ mapped'[t] = new[t] /\ new[t] # Nothing
  BY <1>1
<1>6. \A t \in Tenants : mapped'[t] # Nothing => pool'[mapped'[t]] = [of |-> t, open |-> TRUE]
  BY <1>4, <1>5
<1>7. \A p \in Pools : pool'[p] # Nothing => mapped'[pool'[p].of] = p
  <2> TAKE p \in Pools
  <2> HAVE pool'[p] # Nothing
  <2>1. PICK t \in registered : new[t] = p
    BY <1>1, <1>2
  <2>2. pool'[p] = [of |-> t, open |-> TRUE]
    BY <1>4, <2>1, NothingAssumption
  <2>3. QED  BY <1>1, <2>1, <2>2
<1>8. TypeInv'
  <2>1. mapped' \in [Tenants -> Pools \cup {Nothing}]
    BY <1>1, <1>3
  <2>2. pool' \in [Pools -> [of : Tenants, open : BOOLEAN] \cup {Nothing}]
    <3>1. \A p \in Pools : pool'[p] \in [of : Tenants, open : BOOLEAN] \cup {Nothing}
      <4> TAKE p \in Pools
      <4>1. CASE \E t \in registered : new[t] = p
        <5>1. PICK t \in registered : new[t] = p
          BY <4>1
        <5>2. pool'[p] = [of |-> t, open |-> TRUE] /\ t \in Tenants
          BY <1>4, <5>1, NothingAssumption
        <5>3. QED  BY <5>2, MadePools
      <4>2. CASE ~\E t \in registered : new[t] = p
        BY <1>1, <1>2, <4>2
      <4>3. QED  BY <4>1, <4>2
    <3>2. QED  BY <1>1, <3>1
  <2>3. QED  BY <1>1, <1>2, <2>1, <2>2 DEF QuietBefore, Has
<1>9. NewPoolsFresh' /\ OldPoolsOwn'
  BY <1>2 DEF NewPoolsFresh, OldPoolsOwn, Has, Old, Idle
<1>10. MappedOwn'
  <2> SUFFICES ASSUME NEW t \in Tenants, mapped'[t] # Nothing
               PROVE  pool'[mapped'[t]] # Nothing /\ pool'[mapped'[t]].of = t
    BY DEF MappedOwn
  <2>1. pool'[mapped'[t]] = [of |-> t, open |-> TRUE]
    BY <1>6
  <2>2. QED  BY <2>1, MadePools
<1>11. \A t \in connected' : mapped'[t] # Nothing
  BY <1>1
<1>12. QED  BY <1>2, <1>6, <1>7, <1>8, <1>9, <1>10, <1>11

LEMMA RestartMap ==
    ASSUME MapInv, Restart
    PROVE  MapInv' /\ ReachInv' /\ LostInv'
<1>1. TypeInv'
  <2>1. Idle \in ConnectTypes /\ Idle \in EditTypes
    BY DEF ConnectTypes, EditTypes
  <2>2. QED  BY <2>1 DEF Restart, MapInv, TypeInv, QuietBefore, Has
<1>2. NewPoolsFresh' /\ OldPoolsOwn' /\ OneAtATime' /\ FoundStays'
  BY DEF Restart, NewPoolsFresh, OldPoolsOwn, OneAtATime, FoundStays, Has, Old, Idle
<1>3. MappedOwn' /\ ClosedIsReplaced' /\ GapIsFilled'
  BY DEF Restart, MappedOwn, ClosedIsReplaced, GapIsFilled
<1>4. NoPoolLost'
  BY DEF Restart, NoPoolLost, Open
<1>5. QED  BY <1>1, <1>2, <1>3, <1>4 DEF MapInv, ReachInv, LostInv

LEMMA StartConnectMap ==
    ASSUME MapInv, NEW c \in Connects, NEW t \in Tenants, NEW p \in Pools,
           NEW kind \in {"register", "reconnect"}, StartConnect(c, kind, t, p)
    PROVE  /\ MapInv'
           /\ connect[c] = Idle /\ pool[p] = Nothing
           /\ connect'[c].at = "created" /\ connect'[c].t = t /\ connect'[c].new = p
           /\ \A d \in Connects : d # c => connect'[d] = connect[d]
           /\ pool'[p] = [of |-> t, open |-> TRUE]
           /\ \A q \in Pools : q # p => pool'[q] = pool[q]
<1> USE DEF MapInv
<1> DEFINE s == [at |-> "created", kind |-> kind, t |-> t, new |-> p]
<1>1. /\ serving /\ connect[c] = Idle /\ pool[p] = Nothing
      /\ pool' = [pool EXCEPT ![p] = [of |-> t, open |-> TRUE]]
      /\ registered' = registered \cup {t}
      /\ crossed' \in {crossed, crossed \cup {t}}
      /\ GotoC(c, s)
      /\ UNCHANGED <<mapped, edit, serving, connected, spilled>>
  BY DEF StartConnect, Unmade
<1>2. /\ s \in ConnectTypes /\ s.at = "created" /\ s.t = t /\ s.new = p /\ s # Idle
  BY MadeConnects DEF Idle
<1> HIDE DEF s
<1>3. /\ connect'[c] = s
      /\ \A d \in Connects : d # c => connect'[d] = connect[d]
      /\ connect' \in [Connects -> ConnectTypes]
  BY <1>1, <1>2, Moves
<1>4. /\ pool'[p] = [of |-> t, open |-> TRUE]
      /\ \A q \in Pools : q # p => pool'[q] = pool[q]
      /\ pool' \in [Pools -> [of : Tenants, open : BOOLEAN] \cup {Nothing}]
  BY <1>1 DEF TypeInv
<1>5. TypeInv'
  BY <1>1, <1>2, <1>3, <1>4 DEF TypeInv, QuietBefore, Has
<1>6. \A d \in Connects : Has(d) => connect[d].new \in Pools /\ connect[d].new # p
  <2> SUFFICES ASSUME NEW d \in Connects, Has(d) PROVE connect[d].new \in Pools /\ connect[d].new # p
    OBVIOUS
  <2>1. connect[d].new \in Pools /\ connect[d].t \in Tenants
    <3>1. connect[d] \in ConnectTypes
      BY DEF TypeInv
    <3>2. QED  BY <3>1, ConnectFields DEF Has
  <2>2. pool[connect[d].new] # Nothing
    <3>1. pool[connect[d].new] = [of |-> connect[d].t, open |-> TRUE]
      BY DEF NewPoolsFresh
    <3>2. QED  BY <2>1, <3>1, MadePools
  <2>3. QED  BY <1>1, <2>1, <2>2
<1>7. \A d \in Connects : Old(d) => Has(d) /\ connect[d].old \in Pools /\ connect[d].old # p
  <2> SUFFICES ASSUME NEW d \in Connects, Old(d)
               PROVE  Has(d) /\ connect[d].old \in Pools /\ connect[d].old # p
    OBVIOUS
  <2>1. connect[d] \in ConnectTypes /\ connect[d].at \in {"found", "draining"}
    BY DEF TypeInv, Old
  <2>2. connect[d].old \in Pools /\ connect[d] # Idle
    BY <2>1, ConnectFields
  <2>3. QED  BY <1>1, <2>2 DEF Has, OldPoolsOwn
<1>8. \A u \in Tenants : mapped[u] # p
  BY <1>1, NothingAssumption DEF MappedOwn
<1>9. NewPoolsFresh'
  <2> SUFFICES ASSUME NEW d \in Connects, Has(d)'
               PROVE  /\ pool'[connect'[d].new] = [of |-> connect'[d].t, open |-> TRUE]
                      /\ \A u \in Tenants : mapped'[u] # connect'[d].new
                      /\ \A e \in Connects : Has(e)' =>
                          /\ connect'[e].new = connect'[d].new => e = d
                          /\ Old(e)' => connect'[e].old # connect'[d].new
    BY DEF NewPoolsFresh
  <2>1. CASE d = c
    <3>1. \A e \in Connects : e # c /\ Has(e)' => Has(e) /\ connect'[e].new # p
      BY <1>3, <1>6 DEF Has
    <3>2. \A e \in Connects : Old(e)' => e # c /\ Old(e) /\ connect'[e].old # p
      BY <1>2, <1>3, <1>7 DEF Old
    <3>3. QED  BY <1>1, <1>2, <1>3, <1>4, <1>8, <2>1, <3>1, <3>2
  <2>2. CASE d # c
    <3>1. connect'[d] = connect[d] /\ Has(d)
      BY <1>3, <2>2 DEF Has
    <3>2. \A e \in Connects : e # c /\ Has(e)' => Has(e) /\ connect'[e] = connect[e]
      BY <1>3 DEF Has
    <3>3. \A e \in Connects : Old(e)' => e # c /\ Old(e)
      BY <1>2, <1>3 DEF Old
    <3>4. connect[d].new \in Pools /\ connect[d].new # p
      BY <1>6, <3>1
    <3>5. QED  BY <1>1, <1>2, <1>3, <1>4, <3>1, <3>2, <3>3, <3>4 DEF NewPoolsFresh
  <2>3. QED  BY <2>1, <2>2
<1>10. OldPoolsOwn'
  BY <1>2, <1>3, <1>4, <1>7 DEF Old, OldPoolsOwn
<1>11. MappedOwn'
  BY <1>1, <1>4, <1>8 DEF MappedOwn, TypeInv
<1>12. QED  BY <1>1, <1>2, <1>3, <1>4, <1>5, <1>9, <1>10, <1>11

\* What the steps of a connect in flight have in common.
LEMMA StepTyped ==
    ASSUME TypeInv, NEW c \in Connects, ConnectStep(c)
    PROVE  /\ serving /\ Has(c)
           /\ connect[c].t \in Tenants /\ connect[c].new \in Pools
           /\ \A d \in Connects : d # c => connect'[d] = connect[d]
           /\ UNCHANGED <<edit, serving, registered, crossed>>
           /\ connect[c].at # "adding" => UNCHANGED connected
<1>1. connect[c] \in ConnectTypes /\ connect[c].at # "idle"
  BY DEF TypeInv, ConnectStep, FailConnect, Look, Close, Drained, Remove, Add
<1>2. /\ UNCHANGED <<edit, serving, registered, crossed>>
      /\ connect[c].at # "adding" => UNCHANGED connected
  BY DEF ConnectStep, FailConnect, Look, Close, Drained, Remove, Add, histories
<1>3. \E s : GotoC(c, s)
  BY DEF ConnectStep, FailConnect, Look, Close, Drained, Remove, Add
<1>4. serving
  BY <1>1, Running
<1>5. \A d \in Connects : d # c => connect'[d] = connect[d]
  BY <1>3, Moves
<1>6. Has(c) /\ connect[c].t \in Tenants /\ connect[c].new \in Pools
  BY <1>1, ConnectFields DEF Has
<1>7. QED  BY <1>2, <1>4, <1>5, <1>6

\* A connect in flight keeps its tenant and its pool until it ends; what it
\* finds was in the map, what it closes is nobody's new pool, and all it adds to
\* the map is its own pool when it ends.
KeepsItsOwn(c) ==
    /\ connect' \in [Connects -> ConnectTypes]
    /\ Has(c)' => connect'[c].t = connect[c].t /\ connect'[c].new = connect[c].new
    /\ Old(c)' => \/ Old(c) /\ connect'[c].old = connect[c].old
                  \/ mapped[connect[c].t] = connect'[c].old
    /\ pool' \in [Pools -> [of : Tenants, open : BOOLEAN] \cup {Nothing}]
    /\ \A p \in Pools : \/ pool'[p] = pool[p]
                        \/ /\ pool[p] # Nothing /\ pool'[p] # Nothing
                           /\ pool'[p].of = pool[p].of
                           /\ Old(c) /\ connect[c].old = p
    /\ mapped' \in [Tenants -> Pools \cup {Nothing}]
    /\ \A u \in Tenants : \/ mapped'[u] = mapped[u]
                          \/ mapped'[u] = Nothing
                          \/ u = connect[c].t /\ mapped'[u] = connect[c].new /\ ~Has(c)'
    /\ connected' \subseteq connected \cup {connect[c].t}
    /\ spilled' \subseteq Pools

LEMMA KeepsMap ==
    ASSUME MapInv, NEW c \in Connects, ConnectStep(c), KeepsItsOwn(c)
    PROVE  MapInv'
<1> USE DEF MapInv
<1>1. /\ serving /\ Has(c)
      /\ connect[c].t \in Tenants /\ connect[c].new \in Pools
      /\ \A d \in Connects : d # c => connect'[d] = connect[d]
      /\ UNCHANGED <<edit, serving, registered, crossed>>
  BY StepTyped
<1>2. TypeInv'
  BY <1>1 DEF TypeInv, QuietBefore, KeepsItsOwn, Has
<1>3. \A d \in Connects : Has(d) =>
        /\ connect[d].new \in Pools /\ connect[d].t \in Tenants
        /\ pool[connect[d].new] = [of |-> connect[d].t, open |-> TRUE]
        /\ pool[connect[d].new] # Nothing
        /\ pool[connect[d].new].of = connect[d].t
  <2> SUFFICES ASSUME NEW d \in Connects, Has(d)
               PROVE  /\ connect[d].new \in Pools /\ connect[d].t \in Tenants
                      /\ pool[connect[d].new] = [of |-> connect[d].t, open |-> TRUE]
                      /\ pool[connect[d].new] # Nothing
                      /\ pool[connect[d].new].of = connect[d].t
    OBVIOUS
  <2>1. connect[d].new \in Pools /\ connect[d].t \in Tenants
    <3>1. connect[d] \in ConnectTypes
      BY DEF TypeInv
    <3>2. QED  BY <3>1, ConnectFields DEF Has
  <2>2. pool[connect[d].new] = [of |-> connect[d].t, open |-> TRUE]
    BY DEF NewPoolsFresh
  <2>3. QED  BY <2>1, <2>2, MadePools
<1>4. \A d \in Connects : Old(d) =>
        Has(d) /\ connect[d].old \in Pools /\ connect[d].t \in Tenants
  <2> SUFFICES ASSUME NEW d \in Connects, Old(d)
               PROVE  Has(d) /\ connect[d].old \in Pools /\ connect[d].t \in Tenants
    OBVIOUS
  <2>1. connect[d] \in ConnectTypes /\ connect[d].at \in {"found", "draining"}
    BY DEF TypeInv, Old
  <2>2. connect[d].old \in Pools /\ connect[d] # Idle
    BY <2>1, ConnectFields
  <2>3. QED  BY <2>1, <2>2, ConnectFields DEF Has
<1>5. \A d \in Connects : Has(d)' =>
        Has(d) /\ connect'[d].t = connect[d].t /\ connect'[d].new = connect[d].new
  BY <1>1 DEF Has, KeepsItsOwn
<1>6. \A d \in Connects : Old(d)' =>
        /\ Has(d)'
        /\ \/ Old(d) /\ connect'[d].old = connect[d].old
           \/ mapped[connect[d].t] = connect'[d].old /\ connect'[d].old \in Pools
  <2> SUFFICES ASSUME NEW d \in Connects, Old(d)'
               PROVE  /\ Has(d)'
                      /\ \/ Old(d) /\ connect'[d].old = connect[d].old
                         \/ mapped[connect[d].t] = connect'[d].old /\ connect'[d].old \in Pools
    OBVIOUS
  <2>1. connect'[d] \in ConnectTypes /\ connect'[d].at \in {"found", "draining"}
    BY DEF KeepsItsOwn, Old
  <2>2. connect'[d].old \in Pools /\ connect'[d] # Idle
    BY <2>1, ConnectFields
  <2>3. QED  BY <1>1, <2>2 DEF Has, KeepsItsOwn, Old
<1>7. NewPoolsFresh'
  <2> SUFFICES ASSUME NEW d \in Connects, Has(d)'
               PROVE  /\ pool'[connect'[d].new] = [of |-> connect'[d].t, open |-> TRUE]
                      /\ \A u \in Tenants : mapped'[u] # connect'[d].new
                      /\ \A e \in Connects : Has(e)' =>
                          /\ connect'[e].new = connect'[d].new => e = d
                          /\ Old(e)' => connect'[e].old # connect'[d].new
    BY DEF NewPoolsFresh
  <2>1. Has(d) /\ connect'[d].t = connect[d].t /\ connect'[d].new = connect[d].new
    BY <1>5
  <2>2. \A e \in Connects : Old(e) => connect[e].old # connect[d].new
    BY <1>4, <2>1 DEF NewPoolsFresh
  <2>3. pool'[connect[d].new] = [of |-> connect[d].t, open |-> TRUE]
    BY <1>3, <2>1, <2>2 DEF KeepsItsOwn
  <2>4. \A u \in Tenants : mapped'[u] # connect[d].new
    <3> TAKE u \in Tenants
    <3>1. mapped[u] # connect[d].new
      BY <2>1 DEF NewPoolsFresh
    <3>2. Nothing # connect[d].new
      BY <1>3, <2>1, NothingAssumption
    <3>3. ~Has(c)' => connect[c].new # connect[d].new
      BY <1>1, <2>1 DEF NewPoolsFresh
    <3>4. QED  BY <3>1, <3>2, <3>3 DEF KeepsItsOwn
  <2>5. \A e \in Connects : Has(e)' =>
          /\ connect'[e].new = connect'[d].new => e = d
          /\ Old(e)' => connect'[e].old # connect'[d].new
    <3> SUFFICES ASSUME NEW e \in Connects, Has(e)'
                 PROVE  /\ connect'[e].new = connect'[d].new => e = d
                        /\ Old(e)' => connect'[e].old # connect'[d].new
      OBVIOUS
    <3>1. Has(e) /\ connect'[e].new = connect[e].new
      BY <1>5
    <3>2. connect[e].new = connect[d].new => e = d
      BY <2>1, <3>1 DEF NewPoolsFresh
    <3>3. mapped[connect[e].t] # connect[d].new
      BY <1>3, <2>1, <3>1 DEF NewPoolsFresh
    <3>4. QED  BY <1>6, <2>1, <2>2, <3>1, <3>2, <3>3
  <2>6. QED  BY <2>1, <2>3, <2>4, <2>5
<1>8. \A p \in Pools : pool[p] # Nothing => pool'[p] # Nothing /\ pool'[p].of = pool[p].of
  BY DEF KeepsItsOwn
<1>9. OldPoolsOwn'
  <2> SUFFICES ASSUME NEW d \in Connects, Old(d)'
               PROVE  /\ pool'[connect'[d].old] # Nothing
                      /\ pool'[connect'[d].old].of = connect'[d].t
    BY DEF OldPoolsOwn
  <2>1. Has(d) /\ connect'[d].t = connect[d].t /\ connect[d].t \in Tenants
    BY <1>3, <1>5, <1>6
  <2>2. CASE Old(d) /\ connect'[d].old = connect[d].old
    BY <1>4, <1>8, <2>1, <2>2 DEF OldPoolsOwn
  <2>3. CASE mapped[connect[d].t] = connect'[d].old /\ connect'[d].old \in Pools
    BY <1>8, <2>1, <2>3, NothingAssumption DEF MappedOwn
  <2>4. QED  BY <1>6, <2>2, <2>3
<1>10. MappedOwn'
  <2> SUFFICES ASSUME NEW u \in Tenants, mapped'[u] # Nothing
               PROVE  pool'[mapped'[u]] # Nothing /\ pool'[mapped'[u]].of = u
    BY DEF MappedOwn
  <2>1. CASE mapped'[u] = mapped[u]
    BY <1>8, <2>1 DEF MappedOwn, TypeInv
  <2>2. CASE u = connect[c].t /\ mapped'[u] = connect[c].new
    BY <1>1, <1>3, <1>8, <2>2
  <2>3. QED  BY <2>1, <2>2 DEF KeepsItsOwn
<1>11. QED  BY <1>2, <1>7, <1>9, <1>10

\* Each step of a connect keeps its own.
LEMMA StepKeepsItsOwn ==
    ASSUME MapInv, NEW c \in Connects, ConnectStep(c)
    PROVE  KeepsItsOwn(c)
<1> USE DEF MapInv
<1> DEFINE q == connect[c]
<1>1. /\ q \in ConnectTypes /\ q.t \in Tenants /\ q.new \in Pools /\ Has(c)
      /\ connect \in [Connects -> ConnectTypes]
  BY StepTyped DEF TypeInv
<1>2. /\ pool \in [Pools -> [of : Tenants, open : BOOLEAN] \cup {Nothing}]
      /\ mapped \in [Tenants -> Pools \cup {Nothing}]
      /\ spilled \subseteq Pools
  BY DEF TypeInv
<1>3. CASE FailConnect(c)
  <2>1. connect'[c] = Idle /\ connect' \in [Connects -> ConnectTypes]
    BY <1>1, <1>3, Moves, MadeConnects DEF FailConnect
  <2>2. UNCHANGED <<pool, mapped, connected>> /\ spilled' = spilled \cup {q.new}
    BY <1>3 DEF FailConnect
  <2>3. Idle.at = "idle"
    BY DEF Idle
  <2>4. QED  BY <1>1, <1>2, <2>1, <2>2, <2>3 DEF KeepsItsOwn, Has, Old
<1>4. CASE Look(c)
  <2> DEFINE s == IF q.kind = "reconnect" /\ mapped[q.t] # Nothing
                  THEN [at |-> "found", t |-> q.t, new |-> q.new, old |-> mapped[q.t]]
                  ELSE [at |-> "adding", t |-> q.t, new |-> q.new]
  <2>1. s \in ConnectTypes
    BY <1>1, <1>2, MadeConnects
  <2>2. s.t = q.t /\ s.new = q.new /\ (s.at \in {"found", "draining"} => s.old = mapped[q.t])
    OBVIOUS
  <2>3. GotoC(c, s) /\ UNCHANGED <<pool, mapped, connected, spilled>>
    BY <1>4 DEF Look, histories
  <2> HIDE DEF s
  <2>4. connect'[c] = s /\ connect' \in [Connects -> ConnectTypes]
    BY <2>1, <2>3, Moves
  <2>5. QED  BY <1>1, <1>2, <2>2, <2>3, <2>4 DEF KeepsItsOwn, Has, Old
<1>5. CASE Close(c)
  <2> DEFINE s == [q EXCEPT !.at = "draining"]
  <2>1. /\ q.old \in Pools /\ Old(c)
        /\ s \in ConnectTypes /\ s.t = q.t /\ s.new = q.new /\ s.old = q.old
    BY <1>1, <1>5, ConnectFields DEF Close, Old
  <2>2. /\ GotoC(c, s) /\ UNCHANGED <<mapped, connected, spilled>>
        /\ pool' = [pool EXCEPT ![q.old].open = FALSE]
    BY <1>5 DEF Close, histories
  <2> HIDE DEF s
  <2>3. connect'[c] = s /\ connect' \in [Connects -> ConnectTypes]
    BY <2>1, <2>2, Moves
  <2>4. pool[q.old] # Nothing
    BY <2>1 DEF OldPoolsOwn
  <2>5. /\ pool'[q.old] \in [of : Tenants, open : BOOLEAN] /\ pool'[q.old] # Nothing
        /\ pool'[q.old].of = pool[q.old].of
    BY <1>2, <2>1, <2>2, <2>4, MadePools
  <2>6. \A p \in Pools : p # q.old => pool'[p] = pool[p]
    BY <1>2, <2>2
  <2>7. pool' \in [Pools -> [of : Tenants, open : BOOLEAN] \cup {Nothing}]
    BY <1>2, <2>1, <2>2, <2>5
  <2>8. QED  BY <1>1, <1>2, <2>1, <2>2, <2>3, <2>4, <2>5, <2>6, <2>7 DEF KeepsItsOwn, Has, Old
<1>6. CASE Drained(c)
  <2> DEFINE s == [at |-> "removing", t |-> q.t, new |-> q.new]
  <2>1. s \in ConnectTypes
    BY <1>1, MadeConnects
  <2>2. s.t = q.t /\ s.new = q.new /\ s.at = "removing"
    OBVIOUS
  <2>3. GotoC(c, s) /\ UNCHANGED <<pool, mapped, connected, spilled>>
    BY <1>6 DEF Drained, histories
  <2> HIDE DEF s
  <2>4. connect'[c] = s /\ connect' \in [Connects -> ConnectTypes]
    BY <2>1, <2>3, Moves
  <2>5. QED  BY <1>1, <1>2, <2>2, <2>3, <2>4 DEF KeepsItsOwn, Has, Old
<1>7. CASE Remove(c)
  <2> DEFINE s == [q EXCEPT !.at = "adding"]
  <2>1. s \in ConnectTypes /\ s.at = "adding" /\ s.t = q.t /\ s.new = q.new
    BY <1>1, <1>7, ConnectFields DEF Remove
  <2>2. /\ GotoC(c, s) /\ UNCHANGED <<pool, connected, spilled>>
        /\ mapped' = [mapped EXCEPT ![q.t] = Nothing]
    BY <1>7 DEF Remove, histories
  <2> HIDE DEF s
  <2>3. connect'[c] = s /\ connect' \in [Connects -> ConnectTypes]
    BY <2>1, <2>2, Moves
  <2>4. QED  BY <1>1, <1>2, <2>1, <2>2, <2>3 DEF KeepsItsOwn, Has, Old
<1>8. CASE Add(c)
  <2>1. connect'[c] = Idle /\ connect' \in [Connects -> ConnectTypes] /\ Idle.at = "idle"
    BY <1>1, <1>8, Moves, MadeConnects DEF Add
  <2>2. /\ pool' = pool
        /\ mapped' \in {mapped, [mapped EXCEPT ![q.t] = q.new]}
        /\ spilled' \in {spilled, spilled \cup {q.new}}
        /\ connected' = connected \cup {q.t}
    BY <1>8 DEF Add
  <2>3. QED  BY <1>1, <1>2, <2>1, <2>2 DEF KeepsItsOwn, Has, Old
<1>9. QED  BY <1>3, <1>4, <1>5, <1>6, <1>7, <1>8 DEF ConnectStep

\* An edit's step leaves all of them alone.
LEMMA EditKeeps ==
    ASSUME MapInv, EditNext \/ UNCHANGED vars
    PROVE  MapInv' /\ (ReachInv => ReachInv') /\ (LostInv => LostInv')
<1>1. /\ edit' \in [Edits -> EditTypes]
      /\ edit' = edit \/ serving
      /\ UNCHANGED <<pool, mapped, connect, serving, registered, connected, crossed, spilled>>
  BY EditTyped DEF MapInv, vars, histories, TypeInv
<1>2. TypeInv'
  BY <1>1 DEF MapInv, TypeInv, QuietBefore, Has
<1>3. NewPoolsFresh' /\ OldPoolsOwn' /\ MappedOwn'
  BY <1>1 DEF MapInv, NewPoolsFresh, OldPoolsOwn, MappedOwn, Has, Old
<1>4. ReachInv => ReachInv'
  BY <1>1 DEF ReachInv, ClosedIsReplaced, GapIsFilled, OnTenant, Open
<1>5. OneAtATime /\ FoundStays => OneAtATime' /\ FoundStays'
  BY <1>1 DEF OneAtATime, FoundStays, Has, Open
<1>6. NoPoolLost => NoPoolLost'
  BY <1>1 DEF NoPoolLost, InFlight, Open
<1>7. QED  BY <1>2, <1>3, <1>4, <1>5, <1>6 DEF MapInv, LostInv

\* The state is well formed, each pool on its way to the map is one of its
\* tenant that nobody else has, and the map holds tenants' own pools: every
\* handler of pool.go and builder_project.go keeps it so.
LEMMA MapInvariant == Spec => []MapInv
<1>1. MapInv /\ [Next]_vars => MapInv'
  <2> SUFFICES ASSUME MapInv, [Next]_vars PROVE MapInv'
    OBVIOUS
  <2>1. CASE AutoConnect
    BY <2>1, AutoConnectMap
  <2>2. CASE Restart
    BY <2>2, RestartMap
  <2>3. CASE \E c \in Connects : ConnectStep(c)
    BY <2>3, StepKeepsItsOwn, KeepsMap
  <2>4. CASE \E c \in Connects, t \in Tenants, p \in Pools, kind \in {"register", "reconnect"} :
               StartConnect(c, kind, t, p)
    BY <2>4, StartConnectMap
  <2>5. CASE EditNext \/ UNCHANGED vars
    BY <2>5, EditKeeps
  <2>6. QED  BY <2>1, <2>2, <2>3, <2>4, <2>5 DEF Next, EditNext
<1>2. QED  BY MapInit, <1>1, PTL DEF Spec

\* The pools, the map and what is in flight are well formed, and a pool in the
\* map or on its way there was made (pool.go, builder_project.go).
THEOREM PoolsTypeCorrect == Spec => []PoolsTypeOK
<1>1. MapInv => PoolsTypeOK
  <2> SUFFICES ASSUME MapInv PROVE PoolsTypeOK
    OBVIOUS
  <2>1. TypeInv /\ NewPoolsFresh /\ MappedOwn
    BY DEF MapInv
  <2>2. \A c \in Connects : connect[c] # Idle => pool[connect[c].new] # Nothing
    <3> SUFFICES ASSUME NEW c \in Connects, connect[c] # Idle
                 PROVE  pool[connect[c].new] # Nothing
      OBVIOUS
    <3>1. connect[c].t \in Tenants /\ pool[connect[c].new] = [of |-> connect[c].t, open |-> TRUE]
      BY <2>1, ConnectFields DEF TypeInv, NewPoolsFresh, Has
    <3>2. QED  BY <3>1, MadePools
  <2>3. QED  BY <2>1, <2>2 DEF PoolsTypeOK, TypeInv, MappedOwn, ConnectTypes, EditTypes
<1>2. QED  BY MapInvariant, <1>1, PTL

-----------------------------------------------------------------------------
(* Tenants stay reachable.                                                 *)

LEMMA StartReach ==
    ASSUME MapInv, ReachInv, NEW c \in Connects, NEW t \in Tenants, NEW p \in Pools,
           NEW kind \in {"register", "reconnect"}, StartConnect(c, kind, t, p)
    PROVE  ReachInv'
<1>1. /\ connect[c] = Idle /\ pool[p] = Nothing
      /\ \A d \in Connects : d # c => connect'[d] = connect[d]
      /\ \A q \in Pools : q # p => pool'[q] = pool[q]
  BY DEF StartConnect, GotoC, Unmade, MapInv, TypeInv
<1>2. mapped' = mapped /\ connected' = connected /\ mapped \in [Tenants -> Pools \cup {Nothing}]
  BY DEF StartConnect, MapInv, TypeInv
<1>3. \A u \in Tenants : \A d \in OnTenant(u) : d \in OnTenant(u)' /\ connect'[d].at = connect[d].at
  BY <1>1 DEF OnTenant
<1>4. ClosedIsReplaced'
  <2> SUFFICES ASSUME NEW u \in Tenants, mapped'[u] # Nothing, ~Open(mapped[u])'
               PROVE  \E d \in OnTenant(u)' : connect'[d].at \in {"draining", "removing"}
    BY DEF ClosedIsReplaced, Open
  <2>1. mapped[u] \in Pools /\ mapped[u] # p
    BY <1>1, <1>2 DEF MapInv, MappedOwn
  <2>2. ~Open(mapped[u])
    BY <1>1, <1>2, <2>1 DEF Open
  <2>3. QED  BY <1>2, <1>3, <2>2 DEF ReachInv, ClosedIsReplaced
<1>5. GapIsFilled'
  BY <1>2, <1>3 DEF ReachInv, GapIsFilled, MapInv, TypeInv
<1>6. QED  BY <1>4, <1>5 DEF ReachInv

\* A connect that is not at any of the four places where others rely on it, or
\* stays at one of them, leaves reachability to the others.
LEMMA StepReach ==
    ASSUME MapInv, ReachInv, NEW c \in Connects, ConnectStep(c)
    PROVE  ReachInv'
<1> USE DEF MapInv
<1> DEFINE q == connect[c]
<1>1. /\ q \in ConnectTypes /\ q.t \in Tenants /\ q.new \in Pools /\ q # Idle
      /\ \A d \in Connects : d # c => connect'[d] = connect[d]
  BY StepTyped DEF TypeInv, Has
<1>2. /\ pool \in [Pools -> [of : Tenants, open : BOOLEAN] \cup {Nothing}]
      /\ mapped \in [Tenants -> Pools \cup {Nothing}]
      /\ connected \subseteq Tenants
      /\ pool[q.new] = [of |-> q.t, open |-> TRUE]
  BY <1>1 DEF TypeInv, NewPoolsFresh, Has
<1>3. \A u \in Tenants : \A d \in OnTenant(u) : d # c => d \in OnTenant(u)' /\ connect'[d].at = connect[d].at
  BY <1>1 DEF OnTenant
<1>4. KeepsItsOwn(c)
  BY StepKeepsItsOwn
<1>5. connect'[c] # Idle => \A u \in Tenants : c \in OnTenant(u) => c \in OnTenant(u)'
  BY <1>4 DEF OnTenant, KeepsItsOwn, Has
<1>6. CASE FailConnect(c) \/ Look(c)
  <2>1. q.at = "created" /\ UNCHANGED <<pool, mapped, connected>>
    BY <1>6 DEF FailConnect, Look, histories
  <2>2. ClosedIsReplaced' /\ GapIsFilled'
    BY <1>2, <1>3, <2>1 DEF ReachInv, ClosedIsReplaced, GapIsFilled, Open
  <2>3. QED  BY <2>2 DEF ReachInv
<1>7. CASE Close(c) \/ Drained(c)
  <2>1. /\ q.at \in {"found", "draining"} /\ q.old \in Pools
        /\ UNCHANGED <<mapped, connected>>
        /\ \A p \in Pools : p # q.old => pool'[p] = pool[p]
    <3>1. CASE Close(c)
      <4>1. q.at = "found" /\ pool' = [pool EXCEPT ![q.old].open = FALSE] /\ UNCHANGED <<mapped, connected>>
        BY <3>1 DEF Close, histories
      <4>2. q.old \in Pools
        BY <1>1, <4>1, ConnectFields
      <4>3. QED  BY <1>2, <4>1, <4>2
    <3>2. CASE Drained(c)
      BY <1>1, <1>2, <3>2, ConnectFields DEF Drained, histories
    <3>3. QED  BY <1>7, <3>1, <3>2
  <2>2. connect'[c].at \in {"draining", "removing"}
    <3>1. CASE Close(c)
      BY <1>1, <3>1, ConnectFields DEF Close, GotoC, TypeInv
    <3>2. CASE Drained(c)
      BY <3>2 DEF Drained, GotoC, TypeInv
    <3>3. QED  BY <1>7, <3>1, <3>2
  <2>3. \A u \in Tenants : u = q.t => c \in OnTenant(u)'
    BY <1>1, <1>5, <2>2 DEF OnTenant, Idle
  <2>4. ClosedIsReplaced'
    <3> SUFFICES ASSUME NEW u \in Tenants, mapped'[u] # Nothing, ~Open(mapped[u])'
                 PROVE  \E d \in OnTenant(u)' : connect'[d].at \in {"draining", "removing"}
      BY DEF ClosedIsReplaced, Open
    <3>1. CASE mapped[u] = q.old
      <4>1. u = q.t
        <5>1. pool[q.old].of = q.t
          BY <2>1 DEF OldPoolsOwn, Old
        <5>2. pool[mapped[u]].of = u
          BY <2>1, <3>1, NothingAssumption DEF MappedOwn
        <5>3. QED  BY <3>1, <5>1, <5>2
      <4>2. QED  BY <2>2, <2>3, <4>1
    <3>2. CASE mapped[u] # q.old
      <4>1. ~Open(mapped[u]) /\ mapped[u] # Nothing
        BY <1>2, <2>1, <3>2 DEF Open
      <4>2. PICK d \in OnTenant(u) : connect[d].at \in {"draining", "removing"}
        BY <4>1 DEF ReachInv, ClosedIsReplaced
      <4>3. CASE d = c
        <5>1. u = q.t
          BY <4>2, <4>3 DEF OnTenant
        <5>2. QED  BY <2>2, <2>3, <5>1
      <4>4. CASE d # c
        BY <1>3, <4>2, <4>4
      <4>5. QED  BY <4>3, <4>4
    <3>3. QED  BY <3>1, <3>2
  <2>5. GapIsFilled'
    BY <1>2, <1>3, <2>1 DEF ReachInv, GapIsFilled
  <2>6. QED  BY <2>4, <2>5 DEF ReachInv
<1>8. CASE Remove(c)
  <2>1. /\ q.at = "removing" /\ UNCHANGED <<pool, connected>>
        /\ mapped'[q.t] = Nothing
        /\ \A u \in Tenants : u # q.t => mapped'[u] = mapped[u]
    BY <1>1, <1>2, <1>8 DEF Remove, histories
  <2>2. connect'[c].at = "adding"
    BY <1>1, <1>8, ConnectFields DEF Remove, GotoC, TypeInv
  <2>3. \A u \in Tenants : u = q.t => c \in OnTenant(u)'
    BY <1>1, <1>5, <2>2 DEF OnTenant, Idle
  <2>4. \A u \in Tenants : u # q.t => c \notin OnTenant(u)
    BY DEF OnTenant
  <2>5. ClosedIsReplaced'
    <3> SUFFICES ASSUME NEW u \in Tenants, mapped'[u] # Nothing, ~Open(mapped[u])'
                 PROVE  \E d \in OnTenant(u)' : connect'[d].at \in {"draining", "removing"}
      BY DEF ClosedIsReplaced
    <3>1. u # q.t /\ mapped[u] # Nothing /\ ~Open(mapped[u])
      BY <2>1 DEF Open
    <3>2. PICK d \in OnTenant(u) : connect[d].at \in {"draining", "removing"}
      BY <3>1 DEF ReachInv, ClosedIsReplaced
    <3>3. d # c
      BY <2>4, <3>1, <3>2
    <3>4. QED  BY <1>3, <3>2, <3>3
  <2>6. GapIsFilled'
    BY <1>2, <1>3, <2>1, <2>2, <2>3, <2>4 DEF ReachInv, GapIsFilled
  <2>7. QED  BY <2>5, <2>6 DEF ReachInv
<1>9. CASE Add(c)
  <2>1. /\ q.at = "adding" /\ pool' = pool
        /\ connected' = connected \cup {q.t}
        /\ mapped'[q.t] # Nothing
        /\ mapped[q.t] # Nothing => mapped'[q.t] = mapped[q.t]
        /\ mapped[q.t] = Nothing => mapped'[q.t] = q.new
        /\ \A u \in Tenants : u # q.t => mapped'[u] = mapped[u]
    BY <1>1, <1>2, <1>9, NothingAssumption DEF Add
  <2>2. pool'[q.new].open /\ pool'[q.new] # Nothing
    BY <1>1, <1>2, <2>1, MadePools
  <2>3. \A u \in Tenants : u # q.t => c \notin OnTenant(u)
    BY DEF OnTenant
  <2>4. ClosedIsReplaced'
    <3> SUFFICES ASSUME NEW u \in Tenants, mapped'[u] # Nothing, ~Open(mapped[u])'
                 PROVE  \E d \in OnTenant(u)' : connect'[d].at \in {"draining", "removing"}
      BY DEF ClosedIsReplaced, Open
    <3>1. mapped'[u] = mapped[u] /\ ~Open(mapped[u]) /\ mapped[u] # Nothing
      BY <2>1, <2>2 DEF Open
    <3>2. PICK d \in OnTenant(u) : connect[d].at \in {"draining", "removing"}
      BY <3>1 DEF ReachInv, ClosedIsReplaced
    <3>3. d # c
      BY <2>1, <3>2
    <3>4. QED  BY <1>3, <3>2, <3>3
  <2>5. GapIsFilled'
    BY <1>2, <1>3, <2>1, <2>3 DEF ReachInv, GapIsFilled
  <2>6. QED  BY <2>4, <2>5 DEF ReachInv
<1>10. QED  BY <1>6, <1>7, <1>8, <1>9 DEF ConnectStep

\* Whatever Register and Reconnect run at once, a tenant that was connected is
\* left with an open pool of its own when the last of them has ended.
THEOREM TenantsStayReachable == Spec => []TenantsReachable
<1>1. MapInv /\ ReachInv /\ [Next]_vars => ReachInv'
  <2> SUFFICES ASSUME MapInv, ReachInv, [Next]_vars PROVE ReachInv'
    OBVIOUS
  <2>1. CASE AutoConnect
    <3>1. /\ \A t \in Tenants : mapped'[t] # Nothing =>
               pool'[mapped'[t]] = [of |-> t, open |-> TRUE]
          /\ \A t \in connected' : mapped'[t] # Nothing
      BY <2>1, AutoConnectMap
    <3>2. \A t \in Tenants : mapped'[t] # Nothing => Open(mapped[t])'
      BY <3>1, MadePools DEF Open
    <3>3. QED  BY <3>1, <3>2 DEF ReachInv, ClosedIsReplaced, GapIsFilled, Open
  <2>2. CASE Restart
    BY <2>2, RestartMap
  <2>3. CASE \E c \in Connects : ConnectStep(c)
    BY <2>3, StepReach
  <2>4. CASE \E c \in Connects, t \in Tenants, p \in Pools, kind \in {"register", "reconnect"} :
               StartConnect(c, kind, t, p)
    BY <2>4, StartReach
  <2>5. CASE EditNext \/ UNCHANGED vars
    BY <2>5, EditKeeps
  <2>6. QED  BY <2>1, <2>2, <2>3, <2>4, <2>5 DEF Next, EditNext
<1>2. MapInv /\ ReachInv => TenantsReachable
  <2> SUFFICES ASSUME MapInv, ReachInv, NEW t \in connected, OnTenant(t) = {}
               PROVE  mapped[t] # Nothing /\ Open(mapped[t]) /\ pool[mapped[t]].of = t
    BY DEF TenantsReachable
  <2>1. t \in Tenants
    BY DEF MapInv, TypeInv
  <2>2. mapped[t] # Nothing
    BY DEF ReachInv, GapIsFilled
  <2>3. Open(mapped[t])
    BY <2>1, <2>2 DEF ReachInv, ClosedIsReplaced
  <2>4. QED  BY <2>1, <2>2, <2>3 DEF MapInv, MappedOwn
<1>3. QED  BY MapInit, MapInvariant, <1>1, <1>2, PTL DEF Spec

-----------------------------------------------------------------------------
(* No open pool is lost.                                                   *)

LEMMA StartLost ==
    ASSUME MapInv, LostInv, NEW c \in Connects, NEW t \in Tenants, NEW p \in Pools,
           NEW kind \in {"register", "reconnect"}, StartConnect(c, kind, t, p)
    PROVE  LostInv'
<1> USE DEF MapInv, LostInv
<1>1. /\ connect[c] = Idle /\ pool[p] = Nothing
      /\ \A d \in Connects : d # c => connect'[d] = connect[d]
      /\ \A q \in Pools : q # p => pool'[q] = pool[q]
      /\ connect'[c] = [at |-> "created", kind |-> kind, t |-> t, new |-> p]
      /\ crossed' = IF OnTenant(t) = {} THEN crossed ELSE crossed \cup {t}
      /\ UNCHANGED <<mapped, spilled>>
      /\ mapped \in [Tenants -> Pools \cup {Nothing}]
      /\ pool'[p] = [of |-> t, open |-> TRUE]
  BY DEF StartConnect, GotoC, Unmade, TypeInv
<1>2. connect'[c].at = "created" /\ connect'[c].t = t /\ connect'[c].new = p /\ connect'[c] # Idle
  BY <1>1 DEF Idle
<1>3. \A d \in Connects : d # c /\ Has(d)' => Has(d) /\ connect'[d] = connect[d]
  BY <1>1 DEF Has
<1>4. \A d \in Connects : Has(d) => d \in OnTenant(connect[d].t) /\ connect[d].t \in Tenants
  BY ConnectFields DEF OnTenant, Has, TypeInv
<1>5. OneAtATime'
  <2> SUFFICES ASSUME NEW d \in Connects, NEW e \in Connects, Has(d)', Has(e)',
                      connect'[d].t = connect'[e].t, connect'[d].t \notin crossed', d # e
               PROVE  FALSE
    BY DEF OneAtATime
  <2>1. CASE d # c /\ e # c
    BY <1>1, <1>3, <2>1 DEF OneAtATime
  <2>2. CASE d = c \/ e = c
    <3>1. \E b \in Connects : b # c /\ Has(b)' /\ connect'[b].t = t
      BY <1>2, <2>2
    <3>2. \E b \in Connects : b \in OnTenant(t)
      BY <1>3, <1>4, <3>1
    <3>3. t \in crossed'
      BY <1>1, <3>2
    <3>4. QED  BY <1>2, <2>2, <3>3
  <2>3. QED  BY <2>1, <2>2
<1>6. \A u \in Tenants : mapped[u] # Nothing => mapped[u] \in Pools /\ mapped[u] # p
  BY <1>1 DEF MappedOwn
<1>7. FoundStays'
  <2> SUFFICES ASSUME NEW d \in Connects, Has(d)', connect'[d].t \notin crossed'
               PROVE  /\ connect'[d].at = "found" => mapped'[connect'[d].t] = connect'[d].old
                      /\ connect'[d].at \in {"draining", "removing"} =>
                           mapped'[connect'[d].t] = Nothing \/ ~Open(mapped[connect[d].t])'
    BY DEF FoundStays
  <2>1. CASE d = c
    BY <1>2, <2>1
  <2>2. CASE d # c
    <3>1. Has(d) /\ connect'[d] = connect[d] /\ connect[d].t \notin crossed /\ connect[d].t \in Tenants
      BY <1>1, <1>3, <1>4, <2>2
    <3>2. mapped[connect[d].t] = Nothing \/ ~Open(mapped[connect[d].t])
            => mapped'[connect'[d].t] = Nothing \/ ~Open(mapped[connect[d].t])'
      BY <1>1, <1>6, <3>1 DEF Open
    <3>3. QED  BY <1>1, <3>1, <3>2 DEF FoundStays
  <2>3. QED  BY <2>1, <2>2
<1>8. NoPoolLost'
  <2> SUFFICES ASSUME NEW r \in Pools, Open(r)'
               PROVE  \/ mapped'[pool'[r].of] = r
                      \/ InFlight(r)'
                      \/ r \in spilled'
                      \/ pool'[r].of \in crossed'
    BY DEF NoPoolLost
  <2>1. CASE r = p
    BY <1>2, <2>1 DEF InFlight
  <2>2. CASE r # p
    <3>1. pool'[r] = pool[r] /\ Open(r)
      BY <1>1, <2>2 DEF Open
    <3>2. InFlight(r) => InFlight(r)'
      BY <1>1 DEF InFlight
    <3>3. QED  BY <1>1, <3>1, <3>2 DEF NoPoolLost
  <2>3. QED  BY <2>1, <2>2
<1>9. QED  BY <1>5, <1>7, <1>8

LEMMA StepLost ==
    ASSUME MapInv, LostInv, NEW c \in Connects, ConnectStep(c)
    PROVE  LostInv'
<1> USE DEF MapInv, LostInv
<1> DEFINE q == connect[c]
<1>1. /\ q \in ConnectTypes /\ q.t \in Tenants /\ q.new \in Pools /\ Has(c)
      /\ \A d \in Connects : d # c => connect'[d] = connect[d]
      /\ crossed' = crossed
  BY StepTyped DEF TypeInv
<1>2. /\ pool \in [Pools -> [of : Tenants, open : BOOLEAN] \cup {Nothing}]
      /\ mapped \in [Tenants -> Pools \cup {Nothing}]
      /\ connect \in [Connects -> ConnectTypes]
  BY DEF TypeInv
<1>3. KeepsItsOwn(c)
  BY StepKeepsItsOwn
<1>4. \A d \in Connects : Has(d)' =>
        Has(d) /\ connect'[d].t = connect[d].t /\ connect'[d].new = connect[d].new
  BY <1>1, <1>3 DEF Has, KeepsItsOwn
<1>5. OneAtATime'
  BY <1>1, <1>4 DEF OneAtATime
\* Another connect's tenant is another one, unless the two met.
<1>6. \A d \in Connects : d # c /\ Has(d) /\ connect[d].t \notin crossed =>
        connect[d].t # q.t /\ connect[d].t \in Tenants
  <2> SUFFICES ASSUME NEW d \in Connects, d # c, Has(d), connect[d].t \notin crossed
               PROVE  connect[d].t # q.t /\ connect[d].t \in Tenants
    OBVIOUS
  <2>1. connect[d] \in ConnectTypes
    BY <1>2
  <2>2. connect[d].t \in Tenants
    BY <2>1, ConnectFields DEF Has
  <2>3. QED  BY <1>1, <2>2 DEF OneAtATime
<1>7. \A p \in Pools : Open(p)' => Open(p) /\ pool'[p] = pool[p]
  <2> SUFFICES ASSUME NEW p \in Pools, Open(p)' PROVE Open(p) /\ pool'[p] = pool[p]
    OBVIOUS
  <2>1. CASE Close(c)
    <3>1. q.old \in Pools /\ pool' = [pool EXCEPT ![q.old].open = FALSE]
      BY <1>1, <2>1, ConnectFields DEF Close
    <3>2. pool[q.old] # Nothing
      BY <2>1 DEF OldPoolsOwn, Old, Close
    <3>3. ~pool'[q.old].open
      BY <1>2, <3>1, <3>2, MadePools
    <3>4. QED  BY <1>2, <3>1, <3>3 DEF Open
  <2>2. CASE ~Close(c)
    BY <2>2 DEF ConnectStep, FailConnect, Look, Drained, Remove, Add, Open
  <2>3. QED  BY <2>1, <2>2
<1>8. \A u \in Tenants : mapped'[u] # mapped[u] =>
        /\ u = q.t
        /\ \/ q.at = "removing" /\ mapped'[u] = Nothing
           \/ q.at = "adding" /\ mapped[u] = Nothing
  <2> SUFFICES ASSUME NEW u \in Tenants, mapped'[u] # mapped[u]
               PROVE  /\ u = q.t
                      /\ \/ q.at = "removing" /\ mapped'[u] = Nothing
                         \/ q.at = "adding" /\ mapped[u] = Nothing
    OBVIOUS
  <2>1. CASE FailConnect(c) \/ Look(c) \/ Close(c) \/ Drained(c)
    BY <2>1 DEF FailConnect, Look, Close, Drained
  <2>2. CASE Remove(c)
    BY <1>1, <1>2, <2>2 DEF Remove
  <2>3. CASE Add(c)
    BY <1>1, <1>2, <2>3 DEF Add
  <2>4. QED  BY <2>1, <2>2, <2>3 DEF ConnectStep
<1>9. FoundStays'
  <2> SUFFICES ASSUME NEW d \in Connects, Has(d)', connect'[d].t \notin crossed'
               PROVE  /\ connect'[d].at = "found" => mapped'[connect'[d].t] = connect'[d].old
                      /\ connect'[d].at \in {"draining", "removing"} =>
                           mapped'[connect'[d].t] = Nothing \/ ~Open(mapped[connect[d].t])'
    BY DEF FoundStays
  <2>1. Has(d) /\ connect'[d].t = connect[d].t /\ connect[d].t \notin crossed
    BY <1>1, <1>4
  <2>2. CASE d # c
    <3>1. connect[d].t \in Tenants /\ connect'[d] = connect[d] /\ mapped'[connect[d].t] = mapped[connect[d].t]
      BY <1>1, <1>6, <1>8, <2>1, <2>2
    <3>2. ~Open(mapped[connect[d].t]) /\ mapped[connect[d].t] # Nothing => ~Open(mapped[connect[d].t])'
      BY <1>2, <1>7, <3>1 DEF Open
    <3>3. QED  BY <2>1, <3>1, <3>2 DEF FoundStays
  <2>3. CASE d = c
    <3>1. CASE Look(c)
      BY <1>1, <1>2, <2>1, <2>3, <3>1 DEF Look, GotoC
    <3>2. CASE Close(c)
      <4>1. q.at = "found" /\ mapped[q.t] = q.old /\ mapped' = mapped
        BY <2>1, <2>3, <3>2 DEF Close, FoundStays
      <4>2. connect'[c].at = "draining" /\ connect'[c].t = q.t
        BY <1>1, <1>2, <2>1, <2>3, <3>2, ConnectFields DEF Close, GotoC
      <4>3. q.old \in Pools /\ pool[q.old] # Nothing
        BY <1>1, <4>1, ConnectFields DEF OldPoolsOwn, Old
      <4>4. ~pool'[q.old].open
        BY <1>2, <3>2, <4>3, MadePools DEF Close
      <4>5. QED  BY <2>1, <2>3, <4>1, <4>2, <4>4 DEF Open
    <3>3. CASE Drained(c)
      <4>1. q.at = "draining" /\ connect'[c].at = "removing" /\ UNCHANGED <<pool, mapped>>
        BY <1>2, <3>3 DEF Drained, GotoC
      <4>2. QED  BY <1>1, <2>1, <2>3, <4>1 DEF FoundStays, Open
    <3>4. CASE FailConnect(c) \/ Remove(c) \/ Add(c)
      <4>1. connect'[c].at \in {"idle", "adding"}
        <5>1. CASE FailConnect(c) \/ Add(c)
          BY <1>2, <5>1 DEF FailConnect, Add, GotoC, Idle
        <5>2. CASE Remove(c)
          BY <1>1, <1>2, <5>2, ConnectFields DEF Remove, GotoC
        <5>3. QED  BY <3>4, <5>1, <5>2
      <4>2. QED  BY <2>3, <4>1
    <3>5. QED  BY <3>1, <3>2, <3>3, <3>4 DEF ConnectStep
  <2>4. QED  BY <2>2, <2>3
<1>10. \A p \in Pools : InFlight(p) =>
         \/ InFlight(p)'
         \/ p = q.new /\ (p \in spilled' \/ mapped'[q.t] = p)
  <2> SUFFICES ASSUME NEW p \in Pools, InFlight(p)
               PROVE  \/ InFlight(p)'
                      \/ p = q.new /\ (p \in spilled' \/ mapped'[q.t] = p)
    OBVIOUS
  <2>1. p = q.new => InFlight(p)' \/ p \in spilled' \/ mapped'[q.t] = p
    <3>1. CASE Has(c)'
      BY <1>4, <3>1 DEF InFlight, Has
    <3>2. CASE FailConnect(c)
      BY <3>2 DEF FailConnect
    <3>3. CASE Add(c)
      BY <1>1, <1>2, <3>3 DEF Add
    <3>4. CASE ~Has(c)' /\ (Look(c) \/ Close(c) \/ Drained(c) \/ Remove(c))
      <4>1. connect'[c].at # "idle"
        <5>1. CASE Look(c)
          BY <1>2, <5>1 DEF Look, GotoC
        <5>2. CASE Close(c)
          BY <1>1, <1>2, <5>2, ConnectFields DEF Close, GotoC
        <5>3. CASE Drained(c)
          BY <1>2, <5>3 DEF Drained, GotoC
        <5>4. CASE Remove(c)
          BY <1>1, <1>2, <5>4, ConnectFields DEF Remove, GotoC
        <5>5. QED  BY <3>4, <5>1, <5>2, <5>3, <5>4
      <4>2. QED  BY <3>4, <4>1 DEF Has, Idle
    <3>5. QED  BY <3>1, <3>2, <3>3, <3>4 DEF ConnectStep
  <2>2. p # q.new => InFlight(p)'
    BY <1>1 DEF InFlight
  <2>3. QED  BY <2>1, <2>2
<1>11. NoPoolLost'
  <2> SUFFICES ASSUME NEW p \in Pools, Open(p)'
               PROVE  \/ mapped'[pool'[p].of] = p
                      \/ InFlight(p)'
                      \/ p \in spilled'
                      \/ pool'[p].of \in crossed'
    BY DEF NoPoolLost
  <2>1. Open(p) /\ pool'[p] = pool[p]
    BY <1>7
  <2>2. CASE pool[p].of \in crossed
    BY <1>1, <2>1, <2>2
  <2>3. CASE p \in spilled
    <3>1. spilled \subseteq spilled'
      BY DEF ConnectStep, FailConnect, Look, Close, Drained, Remove, Add, histories
    <3>2. QED  BY <2>3, <3>1
  <2>4. CASE InFlight(p)
    <3>1. pool[q.new] = [of |-> q.t, open |-> TRUE]
      BY <1>1 DEF NewPoolsFresh
    <3>2. QED  BY <1>10, <2>1, <2>4, <3>1
  <2>5. CASE mapped[pool[p].of] = p /\ pool[p].of \notin crossed
    <3>1. pool[p].of \in Tenants
      BY <1>2, <2>1 DEF Open
    <3>2. q.at = "removing" /\ q.t = pool[p].of => FALSE
      BY <1>1, <2>1, <2>5, NothingAssumption DEF FoundStays
    <3>3. mapped'[pool[p].of] = mapped[pool[p].of]
      BY <1>8, <2>5, <3>1, <3>2, NothingAssumption
    <3>4. QED  BY <2>1, <2>5, <3>3
  <2>6. QED  BY <2>1, <2>2, <2>3, <2>4, <2>5 DEF NoPoolLost
<1>12. QED  BY <1>5, <1>9, <1>11

\* An open pool is the map's, a connect's that is on its way there, one that was
\* dropped by a failed connect or at a map that had one, or its tenant's
\* connects met: pool.go's Add and Remove lose no other.
THEOREM PoolsAreNotLost == Spec => []NoPoolLost
<1>1. MapInv /\ LostInv /\ [Next]_vars => LostInv'
  <2> SUFFICES ASSUME MapInv, LostInv, [Next]_vars PROVE LostInv'
    OBVIOUS
  <2>1. CASE AutoConnect
    <3>1. /\ connect = [c \in Connects |-> Idle]
          /\ \A p \in Pools : pool'[p] # Nothing => mapped'[pool'[p].of] = p
      BY <2>1, AutoConnectMap
    <3>2. connect' = connect
      BY <2>1 DEF AutoConnect
    <3>3. OneAtATime' /\ FoundStays'
      BY <3>1, <3>2 DEF OneAtATime, FoundStays, Has
    <3>4. NoPoolLost'
      BY <3>1 DEF NoPoolLost, Open
    <3>5. QED  BY <3>3, <3>4 DEF LostInv
  <2>2. CASE Restart
    BY <2>2, RestartMap
  <2>3. CASE \E c \in Connects : ConnectStep(c)
    BY <2>3, StepLost
  <2>4. CASE \E c \in Connects, t \in Tenants, p \in Pools, kind \in {"register", "reconnect"} :
               StartConnect(c, kind, t, p)
    BY <2>4, StartLost
  <2>5. CASE EditNext \/ UNCHANGED vars
    BY <2>5, EditKeeps
  <2>6. QED  BY <2>1, <2>2, <2>3, <2>4, <2>5 DEF Next, EditNext
<1>2. LostInv => NoPoolLost
  BY DEF LostInv
<1>3. QED  BY MapInit, MapInvariant, <1>1, <1>2, PTL DEF Spec
=============================================================================
