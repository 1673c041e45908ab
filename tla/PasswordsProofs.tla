---------------------------- MODULE PasswordsProofs ----------------------------
(***************************************************************************)
(* Theorems about Passwords, for any passwords and number of calls.        *)
(***************************************************************************)
EXTENDS Passwords, TLAPS

CallTypes == {Idle} \cup Migrations \cup Saves \cup Stored \cup Compared \cup Refused

\* What kind of call a record is, and what it holds.
LEMMA CallFields ==
    ASSUME NEW k \in CallTypes
    PROVE  /\ k.op = "migrate" <=> k \in Migrations
           /\ k.op = "save" <=> k \in Saves
           /\ k \in Migrations => k.password \in Passwords
           /\ k \in Saves => k.password \in Values \cup {Nothing}
           /\ k \in Stored => k.old \in Passwords /\ k.new \in Passwords /\ k.before \in Values
           /\ k \in Compared => k.new \in Passwords
           /\ k \in Refused => k.before \in Values
           /\ k = Idle => k \notin Migrations \cup Saves \cup Stored \cup Compared \cup Refused
           /\ k \in Saves => k \notin Migrations \cup Stored \cup Compared \cup Refused
           /\ k \in Stored => k \notin Migrations \cup Saves \cup Compared \cup Refused
           /\ k \in Compared => k \notin Migrations \cup Saves \cup Stored \cup Refused
           /\ k \in Refused => k \notin Migrations \cup Saves \cup Stored \cup Compared
<1>1. CASE k = Idle
    BY <1>1 DEF Idle, Migrations, Saves, Stored, Compared, Refused
<1>2. CASE k \in Migrations
    BY <1>2 DEF Idle, Migrations, Saves, Stored, Compared, Refused
<1>3. CASE k \in Saves
    BY <1>3 DEF Idle, Migrations, Saves, Stored, Compared, Refused
<1>4. CASE k \in Stored
    BY <1>4 DEF Idle, Migrations, Saves, Stored, Compared, Refused
<1>5. CASE k \in Compared
    BY <1>5 DEF Idle, Migrations, Saves, Stored, Compared, Refused
<1>6. CASE k \in Refused
    BY <1>6 DEF Idle, Migrations, Saves, Stored, Compared, Refused
<1>7. QED  BY <1>1, <1>2, <1>3, <1>4, <1>5, <1>6 DEF CallTypes

\* The records the actions make.
LEMMA MadeCalls ==
    /\ Idle \in CallTypes
    /\ \A p \in Passwords : [op |-> "migrate", password |-> p] \in Migrations
    /\ \A p \in Values \cup {Nothing} : [op |-> "save", password |-> p] \in Saves
    /\ \A old, new \in Passwords, before \in Values :
         [op |-> "change", at |-> "stored", old |-> old, new |-> new, before |-> before] \in Stored
    /\ \A new \in Passwords : [op |-> "change", at |-> "compared", new |-> new] \in Compared
    /\ \A before \in Values :
         [op |-> "change", at |-> "refused", before |-> before] \in Refused
BY DEF CallTypes, Migrations, Saves, Stored, Compared, Refused

\* A password is one of the values of the column.
LEMMA PasswordIsValue == Passwords \subseteq Values /\ NoHash \in Values
BY DEF Values

LEMMA HashedType == \A p \in Passwords :
    Hashed(p) \in Users /\ Hashed(p).password = p /\ Hashed(p).label = Hashed(p).hash
BY DEF Hashed, Users, Algorithms

-----------------------------------------------------------------------------
(* Type correctness.                                                       *)

\* The two statements that touch the user row keep its type.
LEMMA RowType ==
    ASSUME PasswordsTypeOK, SetLabelOnly \/ \E p \in Passwords : SetPassword(p)
    PROVE  /\ auth' \in Users /\ wanted' \in Passwords
           /\ overtaken' \in BOOLEAN /\ relabelled' \in BOOLEAN
<1>1. CASE SetLabelOnly
    BY <1>1 DEF SetLabelOnly, PasswordsTypeOK, Users, Algorithms
<1>2. ASSUME NEW p \in Passwords, SetPassword(p)
      PROVE  /\ auth' \in Users /\ wanted' \in Passwords
             /\ overtaken' \in BOOLEAN /\ relabelled' \in BOOLEAN
    BY <1>2, HashedType DEF SetPassword
<1>3. QED  BY <1>1, <1>2

LEMMA GotoType ==
    ASSUME PasswordsTypeOK, NEW c \in Calls, NEW k \in CallTypes, Goto(c, k)
    PROVE  /\ call' \in [Calls -> CallTypes]
           /\ call'[c] = k
           /\ \A d \in Calls \ {c} : call'[d] = call[d]
BY DEF Goto, PasswordsTypeOK, CallTypes

\* Every step keeps the types.
LEMMA StepType ==
    ASSUME PasswordsTypeOK, [Next]_vars
    PROVE  PasswordsTypeOK'
<1> USE DEF CallTypes
<1>0. call \in [Calls -> CallTypes] /\ table \in Values /\ auth \in Users
      /\ wanted \in Passwords /\ overtaken \in BOOLEAN /\ relabelled \in BOOLEAN
      /\ apart \in SUBSET Reasons
    BY DEF PasswordsTypeOK
<1>1. ASSUME NEW p \in Passwords, Reset(p)
      PROVE  PasswordsTypeOK'
    BY <1>0, <1>1, RowType DEF Reset, PasswordsTypeOK, Reasons
<1>2. CASE EnterEmail
    BY <1>0, <1>2, RowType DEF EnterEmail, PasswordsTypeOK
<1>3. ASSUME NEW c \in Calls, NEW p \in Passwords, SignIn(c, p)
      PROVE  PasswordsTypeOK'
    BY <1>0, <1>3, MadeCalls, GotoType DEF SignIn, PasswordsTypeOK
<1>4. ASSUME NEW c \in Calls, NEW p \in Passwords \cup {Nothing}, SaveAuth(c, p)
      PROVE  PasswordsTypeOK'
  <2>1. call' \in [Calls -> CallTypes]
    BY <1>4, MadeCalls, PasswordIsValue, GotoType DEF SaveAuth
  <2>2. auth' \in Users /\ wanted' \in Passwords
        /\ overtaken' \in BOOLEAN /\ relabelled' \in BOOLEAN
    BY <1>4, RowType DEF SaveAuth
  <2>3. apart' \subseteq Reasons
    BY <1>0, <1>4 DEF SaveAuth, StartStoring, Reasons
  <2>4. QED  BY <1>0, <1>4, <2>1, <2>2, <2>3 DEF SaveAuth, PasswordsTypeOK
<1>9. ASSUME NEW c \in Calls, NEW value \in Values, SaveTableOnly(c, value)
      PROVE  PasswordsTypeOK'
  <2>1. call' \in [Calls -> CallTypes]
    BY <1>9, MadeCalls, GotoType DEF SaveTableOnly
  <2>2. auth' \in Users /\ wanted' \in Passwords
        /\ overtaken' \in BOOLEAN /\ relabelled' \in BOOLEAN
    BY <1>0, <1>9, RowType DEF SaveTableOnly
  <2>3. QED  BY <1>0, <1>9, <2>1, <2>2 DEF SaveTableOnly, PasswordsTypeOK, Reasons
<1>5. ASSUME NEW c \in Calls, NEW old \in Passwords, NEW new \in Passwords,
             ChangeRow(c, old, new)
      PROVE  PasswordsTypeOK'
  <2>1. call' \in [Calls -> CallTypes]
    BY <1>0, <1>5, MadeCalls, GotoType DEF ChangeRow
  <2>2. apart' \subseteq Reasons
    BY <1>0, <1>5 DEF ChangeRow, StartStoring, Reasons
  <2>3. QED  BY <1>0, <1>5, <2>1, <2>2, PasswordIsValue DEF ChangeRow, PasswordsTypeOK
<1>6. ASSUME NEW c \in Calls, Step(c)
      PROVE  PasswordsTypeOK'
  <2>0. call[c] \in CallTypes
    BY <1>0
  <2>1. CASE Migrate(c)
    BY <1>0, <2>0, <2>1, CallFields, MadeCalls, GotoType, HashedType DEF Migrate, PasswordsTypeOK
  <2>2. CASE DropMigration(c) \/ AnswerRefusal(c)
    BY <1>0, <2>2, MadeCalls, GotoType DEF DropMigration, AnswerRefusal, PasswordsTypeOK
  <2>3. CASE SaveRow(c)
    BY <1>0, <2>0, <2>3, CallFields, MadeCalls, GotoType DEF SaveRow, PasswordsTypeOK, Values
  <2>4. CASE FailSave(c) \/ FailChange(c)
    BY <1>0, <2>4, MadeCalls, GotoType DEF FailSave, FailChange, PasswordsTypeOK, Reasons
  <2>5. CASE Compare(c)
    BY <1>0, <2>0, <2>5, CallFields, MadeCalls, GotoType DEF Compare, PasswordsTypeOK
  <2>6. CASE Refuse(c)
    BY <1>0, <2>0, <2>6, CallFields, MadeCalls, GotoType DEF Refuse, PasswordsTypeOK, Reasons
  <2>7. CASE ChangeAuth(c)
    <3>1. call' \in [Calls -> CallTypes]
      BY <2>7, MadeCalls, GotoType DEF ChangeAuth
    <3>2. call[c].new \in Passwords
      BY <2>0, <2>7, CallFields DEF ChangeAuth
    <3>3. QED  BY <1>0, <2>7, <3>1, <3>2, RowType DEF ChangeAuth, PasswordsTypeOK
  <2>8. QED  BY <1>6, <2>1, <2>2, <2>3, <2>4, <2>5, <2>6, <2>7 DEF Step
<1>7. CASE UNCHANGED vars
    BY <1>0, <1>7 DEF vars, PasswordsTypeOK
<1>8. QED  BY <1>1, <1>2, <1>3, <1>4, <1>5, <1>6, <1>7, <1>9 DEF Next

LEMMA InitType == Init => PasswordsTypeOK
<1> SUFFICES ASSUME Init PROVE PasswordsTypeOK
    OBVIOUS
<1>1. PICK a \in Algorithms : auth = [password |-> wanted, hash |-> a, label |-> a]
    BY DEF Init
<1>2. auth \in Users
    BY <1>1 DEF Init, Users
<1>3. QED  BY <1>2, PasswordIsValue DEF Init, PasswordsTypeOK

\* The state is well formed, whatever the calls do.
THEOREM PasswordsTypeCorrect == Spec => []PasswordsTypeOK
<1>1. Init => PasswordsTypeOK
    BY InitType
<1>2. PasswordsTypeOK /\ [Next]_vars => PasswordsTypeOK'
    BY StepType
<1>3. QED  BY <1>1, <1>2, PTL DEF Spec

-----------------------------------------------------------------------------
(* The password that was last set signs in.                                *)

\* As long as no migration was overtaken, every migration in flight writes the
\* password that is there already.
SignInInv ==
    ~overtaken => /\ auth.password = wanted
                  /\ relabelled \/ auth.label = auth.hash
                  /\ \A c \in Migrating : call[c].password = wanted

\* Setting the password starts afresh.
LEMMA SetPasswordSignsIn ==
    ASSUME NEW p \in Passwords, SetPassword(p),
           Migrating' \subseteq Migrating
    PROVE  SignInInv'
<1>1. auth'.password = p /\ wanted' = p /\ auth'.label = auth'.hash
    BY HashedType DEF SetPassword
<1>2. ~overtaken' => Migrating' = {}
    BY DEF SetPassword
<1>3. QED  BY <1>1, <1>2 DEF SignInInv

\* Every step keeps the invariant.
LEMMA StepSignIn ==
    ASSUME PasswordsTypeOK, SignInInv, [Next]_vars
    PROVE  SignInInv'
<1>0. call \in [Calls -> CallTypes] /\ auth \in Users
    BY DEF PasswordsTypeOK, CallTypes
<1>g. ASSUME NEW c \in Calls, NEW k \in CallTypes, Goto(c, k), k.op # "migrate"
      PROVE  /\ Migrating' \subseteq Migrating
             /\ \A d \in Migrating' : call'[d] = call[d]
    BY <1>g, GotoType DEF Migrating
<1>i. Idle \in CallTypes /\ Idle.op # "migrate"
    BY DEF Idle, CallTypes
<1>1. ASSUME NEW p \in Passwords, Reset(p)
      PROVE  SignInInv'
    BY <1>1, SetPasswordSignsIn DEF Reset, Migrating
<1>2. ASSUME SetLabelOnly, Migrating' \subseteq Migrating,
             \A d \in Migrating' : call'[d] = call[d]
      PROVE  SignInInv'
    BY <1>0, <1>2 DEF SetLabelOnly, SignInInv, Users, Algorithms
<1>3. CASE EnterEmail
    BY <1>2, <1>3 DEF EnterEmail, Migrating
<1>4. ASSUME NEW c \in Calls, NEW p \in Passwords, SignIn(c, p)
      PROVE  SignInInv'
  <2> DEFINE k == [op |-> "migrate", password |-> p]
  <2>1. call'[c] = k /\ \A d \in Calls \ {c} : call'[d] = call[d]
    BY <1>4, MadeCalls, GotoType DEF SignIn, CallTypes
  <2>2. k.password = p
    OBVIOUS
  <2>3. QED  BY <1>4, <2>1, <2>2 DEF SignIn, Matches, SignInInv, Migrating
<1>5. ASSUME NEW c \in Calls, NEW p \in Passwords \cup {Nothing}, SaveAuth(c, p)
      PROVE  SignInInv'
  <2> DEFINE k == [op |-> "save", password |-> p]
  <2>1. k \in CallTypes /\ k.op # "migrate" /\ Goto(c, k)
    BY <1>5, MadeCalls, PasswordIsValue DEF SaveAuth, CallTypes
  <2> HIDE DEF k
  <2>2. Migrating' \subseteq Migrating /\ \A d \in Migrating' : call'[d] = call[d]
    BY <2>1, <1>g
  <2>3. QED  BY <1>2, <1>5, <2>2, SetPasswordSignsIn DEF SaveAuth
<1>6. ASSUME Migrating' \subseteq Migrating,
             \A d \in Migrating' : call'[d] = call[d],
             UNCHANGED <<auth, wanted, overtaken, relabelled>>
      PROVE  SignInInv'
    BY <1>6 DEF SignInInv
<1>7. ASSUME NEW c \in Calls, NEW old \in Passwords, NEW new \in Passwords,
             ChangeRow(c, old, new)
      PROVE  SignInInv'
  <2> DEFINE k == [op |-> "change", at |-> "stored", old |-> old, new |-> new,
                   before |-> table]
  <2>1. k \in CallTypes /\ k.op # "migrate" /\ Goto(c, k)
    BY <1>7, MadeCalls DEF ChangeRow, CallTypes, PasswordsTypeOK
  <2> HIDE DEF k
  <2>2. QED  BY <1>6, <1>7, <1>g, <2>1 DEF ChangeRow
<1>11. ASSUME NEW c \in Calls, NEW value \in Values, SaveTableOnly(c, value)
       PROVE  SignInInv'
  <2> DEFINE k == [op |-> "save", password |-> value]
  <2>1. k \in CallTypes /\ k.op # "migrate" /\ Goto(c, k)
    BY <1>11, MadeCalls DEF SaveTableOnly, CallTypes
  <2> HIDE DEF k
  <2>2. Migrating' \subseteq Migrating /\ \A d \in Migrating' : call'[d] = call[d]
    BY <2>1, <1>g
  <2>3. QED  BY <1>2, <1>6, <1>11, <2>2 DEF SaveTableOnly
<1>8. ASSUME NEW c \in Calls, Step(c)
      PROVE  SignInInv'
  <2>0. call[c] \in CallTypes
    BY <1>0
  <2>1. CASE Migrate(c)
    <3>1. Migrating' \subseteq Migrating /\ \A d \in Migrating' : call'[d] = call[d]
      BY <2>1, <1>g, <1>i DEF Migrate
    <3>2. call[c].password \in Passwords /\ c \in Migrating
      BY <2>0, <2>1, CallFields DEF Migrate, Migrating
    <3>3. QED  BY <2>1, <3>1, <3>2, HashedType DEF Migrate, SignInInv
  <2>2. CASE DropMigration(c) \/ SaveRow(c) \/ FailSave(c) \/ FailChange(c) \/ AnswerRefusal(c)
    <3>1. Goto(c, Idle) /\ UNCHANGED <<auth, wanted, overtaken, relabelled>>
      BY <2>2 DEF DropMigration, SaveRow, FailSave, FailChange, AnswerRefusal
    <3>2. QED  BY <3>1, <1>6, <1>g, <1>i
  <2>3. CASE Compare(c)
    <3> DEFINE k == [op |-> "change", at |-> "compared", new |-> call[c].new]
    <3>1. k \in CallTypes /\ k.op # "migrate" /\ Goto(c, k)
      BY <2>0, <2>3, MadeCalls, CallFields DEF Compare, CallTypes
    <3> HIDE DEF k
    <3>2. QED  BY <1>6, <2>3, <1>g, <3>1 DEF Compare
  <2>4. CASE Refuse(c)
    <3> DEFINE k == [op |-> "change", at |-> "refused", before |-> call[c].before]
    <3>1. k \in CallTypes /\ k.op # "migrate" /\ Goto(c, k)
      BY <2>0, <2>4, MadeCalls, CallFields DEF Refuse, CallTypes
    <3> HIDE DEF k
    <3>2. QED  BY <1>6, <2>4, <1>g, <3>1 DEF Refuse
  <2>5. CASE ChangeAuth(c)
    <3>1. call[c].new \in Passwords
      BY <2>0, <2>5, CallFields DEF ChangeAuth
    <3>2. Migrating' \subseteq Migrating
      BY <2>5, <1>g, <1>i DEF ChangeAuth
    <3>3. QED  BY <2>5, <3>1, <3>2, SetPasswordSignsIn DEF ChangeAuth
  <2>6. QED  BY <1>8, <2>1, <2>2, <2>3, <2>4, <2>5 DEF Step
<1>9. CASE UNCHANGED vars
    BY <1>9, <1>6 DEF vars, Migrating
<1>10. QED  BY <1>1, <1>3, <1>4, <1>5, <1>7, <1>8, <1>9, <1>11 DEF Next

LEMMA InitSignIn == Init => SignInInv
<1> SUFFICES ASSUME Init PROVE SignInInv
    OBVIOUS
<1>1. PICK a \in Algorithms : auth = [password |-> wanted, hash |-> a, label |-> a]
    BY DEF Init
<1>2. Migrating = {}
    BY DEF Init, Migrating, Idle
<1>3. QED  BY <1>1, <1>2 DEF SignInInv

\* The password that was last set signs in, however migrations, resets, saves
\* and changes interleave, unless a migration was overtaken or an argon hash
\* relabelled.
THEOREM LastPasswordAlwaysSignsIn == Spec => []LastPasswordSignsIn
<1>1. Init => PasswordsTypeOK /\ SignInInv
    BY InitType, InitSignIn
<1>2. PasswordsTypeOK /\ SignInInv /\ [Next]_vars => PasswordsTypeOK' /\ SignInInv'
    BY StepType, StepSignIn
<1>3. SignInInv => LastPasswordSignsIn
    BY DEF SignInInv, LastPasswordSignsIn, Matches
<1>4. QED  BY <1>1, <1>2, <1>3, PTL DEF Spec

-----------------------------------------------------------------------------
(* The two stores agree.                                                   *)

\* The call between its two writes has written what it will write.
Halfway(c) ==
    /\ call[c] \in Stored \cup Compared => table = call[c].new
    /\ ~overtaken /\ call[c] \in Saves => auth.password = call[c].password

\* As long as nothing came between them, one call at most writes the stores.
AgreeInv ==
    apart = {} => /\ \A c, d \in Storing : c = d
                  /\ \A c \in Storing : Halfway(c)
                  /\ ~overtaken /\ Storing = {} => table = auth.password

\* A step of a call changes nothing about who is storing but for the call.
LEMMA GotoStoring ==
    ASSUME PasswordsTypeOK, NEW c \in Calls, NEW k \in CallTypes, Goto(c, k)
    PROVE  /\ Storing' \ {c} = Storing \ {c}
           /\ \A d \in Storing' \ {c} : call'[d] = call[d]
           /\ call'[c] = k
           /\ c \in Storing' <=> \/ k \in Saves /\ k.password # Nothing
                               \/ k \in Stored \cup Compared
BY GotoType DEF Storing

\* A call that holds what it held is as far as it was.
Kept(c) ==
    \/ call'[c] = call[c]
    \/ /\ call[c] \in Stored \cup Compared
       /\ call'[c] \in Stored \cup Compared
       /\ call'[c] \notin Saves
       /\ call'[c].new = call[c].new

LEMMA HalfwayKept ==
    ASSUME NEW c \in Calls, Halfway(c), Kept(c),
           table' = table, auth'.password = auth.password, overtaken' = overtaken
    PROVE  Halfway(c)'
BY DEF Halfway, Kept

\* A step that leaves both stores alone, and lets nobody begin to write them,
\* keeps the invariant.
LEMMA AgreeKept ==
    ASSUME AgreeInv, apart' = apart, table' = table, auth'.password = auth.password,
           overtaken' = overtaken, Storing' = Storing, \A d \in Storing : Kept(d)
    PROVE  AgreeInv'
<1> SUFFICES ASSUME apart = {}
             PROVE  /\ \A c, d \in Storing : c = d
                    /\ \A c \in Storing : Halfway(c)'
                    /\ ~overtaken /\ Storing = {} => table = auth.password
    BY DEF AgreeInv
<1>1. ASSUME NEW c \in Storing
      PROVE  Halfway(c)'
  <2>1. c \in Calls
    BY DEF Storing
  <2>2. QED  BY <1>1, <2>1, HalfwayKept DEF AgreeInv
<1>2. QED  BY <1>1 DEF AgreeInv

\* Every step keeps the invariant.
LEMMA StepAgree ==
    ASSUME PasswordsTypeOK, SignInInv, AgreeInv, [Next]_vars
    PROVE  AgreeInv'
<1>0. call \in [Calls -> CallTypes] /\ auth \in Users /\ table \in Values
    BY DEF PasswordsTypeOK, CallTypes
<1>i. /\ Idle \in CallTypes
      /\ Idle \notin Migrations \cup Saves \cup Stored \cup Compared \cup Refused
    BY CallFields DEF CallTypes
<1>1. ASSUME apart' # {}
      PROVE  AgreeInv'
    BY <1>1 DEF AgreeInv
<1>2. ASSUME NEW p \in Passwords, Reset(p)
      PROVE  AgreeInv'
    BY <1>1, <1>2 DEF Reset
<1>3. CASE EnterEmail
  <2>1. auth'.password = auth.password /\ overtaken' = overtaken
    BY <1>0, <1>3 DEF EnterEmail, SetLabelOnly, Users
  <2>2. Storing' = Storing /\ \A d \in Storing : Kept(d)
    BY <1>3 DEF EnterEmail, Storing, Kept
  <2>3. QED  BY <1>3, <2>1, <2>2, AgreeKept DEF EnterEmail
<1>4. ASSUME NEW c \in Calls, NEW k \in CallTypes, Goto(c, k),
             call[c] \notin Saves \cup Stored \cup Compared,
             k \in Saves => k.password = Nothing,
             k \notin Stored \cup Compared,
             apart' = apart, table' = table, auth'.password = auth.password,
             overtaken' = overtaken
      PROVE  AgreeInv'
  <2>1. c \notin Storing /\ c \notin Storing'
    BY <1>4, GotoStoring DEF Storing
  <2>2. Storing' = Storing /\ \A d \in Storing : Kept(d)
    BY <1>4, <2>1, GotoStoring DEF Kept
  <2>3. QED  BY <1>4, <2>2, AgreeKept
<1>5. ASSUME NEW c \in Calls, NEW p \in Passwords, SignIn(c, p)
      PROVE  AgreeInv'
  <2> DEFINE k == [op |-> "migrate", password |-> p]
  <2>1. k \in Migrations /\ k \in CallTypes
    BY MadeCalls DEF CallTypes
  <2>2. Goto(c, k) /\ call[c] = Idle
    BY <1>5 DEF SignIn, Free
  <2> HIDE DEF k
  <2>3. k \notin Saves \cup Stored \cup Compared
    BY <2>1, CallFields
  <2>4. QED  BY <1>4, <1>5, <1>i, <2>1, <2>2, <2>3 DEF SignIn
<1>6. ASSUME NEW c \in Calls, SaveAuth(c, Nothing)
      PROVE  AgreeInv'
  <2> DEFINE k == [op |-> "save", password |-> Nothing]
  <2>1. k \in Saves /\ k \in CallTypes /\ k.password = Nothing
    BY MadeCalls DEF CallTypes
  <2>2. Goto(c, k) /\ call[c] = Idle
    BY <1>6 DEF SaveAuth, Free
  <2> HIDE DEF k
  <2>3. k \notin Stored \cup Compared
    BY <2>1, CallFields
  <2>4. auth'.password = auth.password /\ overtaken' = overtaken
    BY <1>0, <1>6 DEF SaveAuth, SetLabelOnly, Users
  <2>5. QED  BY <1>4, <1>6, <1>i, <2>1, <2>2, <2>3, <2>4 DEF SaveAuth
<1>7. ASSUME NEW c \in Calls, NEW k \in CallTypes, Goto(c, k), StartStoring,
             call[c] = Idle,
             (k \in Saves /\ k.password # Nothing) \/ k \in Stored,
             k \in Stored => table' = k.new,
             k \in Saves => auth'.password = k.password
      PROVE  AgreeInv'
  <2>1. c \in Storing'
    BY <1>7, GotoStoring
  <2>2. CASE Storing # {}
    BY <1>1, <1>7, <2>2 DEF StartStoring
  <2>3. CASE Storing = {}
    <3>1. Storing' = {c} /\ call'[c] = k
      BY <1>7, <2>1, <2>3, GotoStoring
    <3>2. k \notin Compared /\ (k \in Saves => k \notin Stored)
      BY <1>7, CallFields
    <3>3. QED  BY <1>7, <3>1, <3>2 DEF AgreeInv, Halfway
  <2>4. QED  BY <2>2, <2>3
<1>8. ASSUME NEW c \in Calls, NEW p \in Passwords, SaveAuth(c, p)
      PROVE  AgreeInv'
  <2> DEFINE k == [op |-> "save", password |-> p]
  <2>1. k \in Saves /\ k \in CallTypes /\ k.password = p /\ p # Nothing
    BY MadeCalls, PasswordIsValue, NothingAssumption DEF CallTypes
  <2>2. Goto(c, k) /\ call[c] = Idle
    BY <1>8 DEF SaveAuth, Free
  <2> HIDE DEF k
  <2>3. k \notin Stored
    BY <2>1, CallFields
  <2>4. auth'.password = p /\ StartStoring
    BY <1>8, <2>1, HashedType DEF SaveAuth, SetPassword
  <2>5. QED  BY <1>7, <2>1, <2>2, <2>3, <2>4
<1>9. ASSUME NEW c \in Calls, NEW old \in Passwords, NEW new \in Passwords,
             ChangeRow(c, old, new)
      PROVE  AgreeInv'
  <2> DEFINE k == [op |-> "change", at |-> "stored", old |-> old, new |-> new,
                   before |-> table]
  <2>1. k \in Stored /\ k \in CallTypes /\ k.new = new
    BY <1>0, MadeCalls DEF CallTypes
  <2>2. Goto(c, k) /\ call[c] = Idle /\ StartStoring /\ table' = new
    BY <1>9 DEF ChangeRow, Free
  <2> HIDE DEF k
  <2>3. k \notin Saves
    BY <2>1, CallFields
  <2>4. QED  BY <1>7, <2>1, <2>2, <2>3
<1>10. ASSUME NEW c \in Calls, Step(c)
       PROVE  AgreeInv'
  <2>0. call[c] \in CallTypes
    BY <1>0
  <2>1. CASE Migrate(c)
    <3>1. call[c] \in Migrations /\ call[c] \notin Saves \cup Stored \cup Compared
      BY <2>0, <2>1, CallFields DEF Migrate
    <3>2. Goto(c, Idle) /\ apart' = apart /\ table' = table /\ overtaken' = overtaken
      BY <2>1 DEF Migrate
    <3>3. CASE overtaken
      <4>1. c \notin Storing /\ c \notin Storing'
        BY <1>i, <3>1, <3>2, GotoStoring DEF Storing
      <4>2. Storing' = Storing /\ \A d \in Storing : call'[d] = call[d]
        BY <1>i, <3>2, <4>1, GotoStoring
      <4>3. QED  BY <3>2, <3>3, <4>2 DEF AgreeInv, Halfway
    <3>4. CASE ~overtaken
      <4>1. auth'.password = auth.password
        BY <2>0, <2>1, <3>1, <3>4, CallFields, HashedType DEF Migrate, SignInInv, Migrating
      <4>2. QED  BY <1>4, <1>i, <3>1, <3>2, <4>1
    <3>5. QED  BY <3>3, <3>4
  <2>2. CASE DropMigration(c) \/ AnswerRefusal(c)
    <3>1. call[c] \notin Saves \cup Stored \cup Compared
      BY <2>0, <2>2, CallFields DEF DropMigration, AnswerRefusal
    <3>2. QED  BY <1>4, <1>i, <2>2, <3>1 DEF DropMigration, AnswerRefusal
  <2>3. CASE SaveRow(c) \/ FailSave(c)
    <3>1. call[c] \in Saves /\ call[c] \notin Stored \cup Compared
      BY <2>0, <2>3, CallFields DEF SaveRow, FailSave
    <3>2. Goto(c, Idle) /\ auth' = auth /\ overtaken' = overtaken
      BY <2>3 DEF SaveRow, FailSave
    <3>3. c \notin Storing'
      BY <1>i, <3>2, GotoStoring
    <3>4. CASE call[c].password = Nothing
      <4>1. c \notin Storing /\ apart' = apart /\ table' = table
        BY <2>3, <3>1, <3>4 DEF Storing, SaveRow, FailSave
      <4>2. Storing' = Storing /\ \A d \in Storing : Kept(d)
        BY <1>i, <3>2, <3>3, <4>1, GotoStoring DEF Kept
      <4>3. QED  BY <3>2, <4>1, <4>2, AgreeKept
    <3>5. CASE call[c].password # Nothing /\ FailSave(c)
      BY <1>1, <3>5 DEF FailSave
    <3>6. CASE call[c].password # Nothing /\ SaveRow(c)
      <4>1. c \in Storing /\ table' = call[c].password /\ apart' = apart
        BY <3>1, <3>6 DEF Storing, SaveRow
      <4>2. apart = {} => Storing' = {}
        BY <1>i, <3>2, <3>3, <4>1, GotoStoring DEF AgreeInv
      <4>3. apart = {} /\ ~overtaken => auth.password = call[c].password
        BY <3>1, <4>1 DEF AgreeInv, Halfway
      <4>4. QED  BY <3>2, <4>1, <4>2, <4>3 DEF AgreeInv
    <3>7. QED  BY <2>3, <3>4, <3>5, <3>6
  <2>4. CASE Compare(c)
    <3> DEFINE k == [op |-> "change", at |-> "compared", new |-> call[c].new]
    <3>1. call[c] \in Stored /\ call[c].new \in Passwords
      BY <2>0, <2>4, CallFields DEF Compare
    <3>2. k \in Compared /\ k \in CallTypes /\ k.new = call[c].new
      BY <3>1, MadeCalls DEF CallTypes
    <3>3. Goto(c, k) /\ UNCHANGED <<auth, table, overtaken, apart>>
      BY <2>4 DEF Compare
    <3> HIDE DEF k
    <3>4. k \notin Saves
      BY <3>2, CallFields
    <3>5. c \in Storing /\ c \in Storing' /\ call'[c] = k
      BY <3>1, <3>2, <3>3, GotoStoring DEF Storing
    <3>6. Storing' = Storing /\ \A d \in Storing \ {c} : call'[d] = call[d]
      BY <3>2, <3>3, <3>5, GotoStoring
    <3>7. \A d \in Storing : Kept(d)
      BY <3>1, <3>2, <3>4, <3>5, <3>6 DEF Kept
    <3>8. QED  BY <3>3, <3>6, <3>7, AgreeKept
  <2>5. CASE Refuse(c) \/ FailChange(c)
    BY <1>1, <2>5 DEF Refuse, FailChange
  <2>6. CASE ChangeAuth(c)
    <3>1. call[c] \in Compared /\ call[c].new \in Passwords
      BY <2>0, <2>6, CallFields DEF ChangeAuth
    <3>2. /\ Goto(c, Idle) /\ auth'.password = call[c].new
          /\ table' = table /\ apart' = apart
      BY <2>6, <3>1, HashedType DEF ChangeAuth, SetPassword
    <3>3. c \in Storing /\ c \notin Storing'
      BY <1>i, <3>1, <3>2, GotoStoring DEF Storing
    <3>4. apart = {} => Storing' = {} /\ table = call[c].new
      BY <1>i, <3>1, <3>2, <3>3, GotoStoring DEF AgreeInv, Halfway
    <3>5. QED  BY <3>2, <3>4 DEF AgreeInv
  <2>7. QED  BY <1>10, <2>1, <2>2, <2>3, <2>4, <2>5, <2>6 DEF Step
<1>11. CASE UNCHANGED vars
  <2>1. Storing' = Storing /\ \A d \in Storing : Kept(d)
    BY <1>11 DEF vars, Storing, Kept
  <2>2. QED  BY <1>11, <2>1, AgreeKept DEF vars
<1>12. ASSUME NEW c \in Calls, NEW value \in Values, SaveTableOnly(c, value)
       PROVE  AgreeInv'
    BY <1>1, <1>12 DEF SaveTableOnly
<1>13. QED  BY <1>2, <1>3, <1>5, <1>6, <1>8, <1>9, <1>10, <1>11, <1>12 DEF Next

LEMMA InitAgree == Init => AgreeInv
<1> SUFFICES ASSUME Init PROVE AgreeInv
    OBVIOUS
<1>1. PICK a \in Algorithms : auth = [password |-> wanted, hash |-> a, label |-> a]
    BY DEF Init
<1>2. Storing = {}
    BY CallFields DEF Init, Storing, CallTypes
<1>3. QED  BY <1>1, <1>2 DEF Init, AgreeInv

\* The stores agree whenever nobody is between the two writes, but for the
\* reasons the model lists: a second write that failed, a refusal after the
\* first, a reset, a save of the login table alone (a value of 60 characters,
\* null, or a request for the auth service), two calls at once, an overtaken
\* migration.
THEOREM StoresAlwaysAgree == Spec => []StoresAgree
<1>1. Init => PasswordsTypeOK /\ SignInInv /\ AgreeInv
    BY InitType, InitSignIn, InitAgree
<1>2. PasswordsTypeOK /\ SignInInv /\ AgreeInv /\ [Next]_vars
        => PasswordsTypeOK' /\ SignInInv' /\ AgreeInv'
    BY StepType, StepSignIn, StepAgree
<1>3. AgreeInv => StoresAgree
    BY DEF AgreeInv, StoresAgree
<1>4. QED  BY <1>1, <1>2, <1>3, PTL DEF Spec
=============================================================================
