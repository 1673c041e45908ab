------------------------- MODULE RegistrationProofs -------------------------
(***************************************************************************)
(* Theorems about Registration, for any set of calls, any limit on the     *)
(* companies, any kinds and any number of failures.                        *)
(***************************************************************************)
EXTENDS Registration, SequenceTheorems, TLAPS

-----------------------------------------------------------------------------
(* Type correctness.                                                       *)

\* A failure keeps the number of failures within its bound.
LEMMA HappensType ==
    ASSUME failures \in 0 .. MaxFailures, NEW kind, Happens(kind)
    PROVE  failures' \in 0 .. MaxFailures
BY MaxFailuresAssumption DEF Happens

\* So does a call that fails for a caller who has gone.
LEMMA CallFailsType ==
    ASSUME failures \in 0 .. MaxFailures, NEW a, NEW kind, CallFails(a, kind)
    PROVE  failures' \in 0 .. MaxFailures
BY HappensType DEF CallFails

\* And a step of the company service that fails.
LEMMA HandlerFailsType ==
    ASSUME failures \in 0 .. MaxFailures, NEW a, HandlerFails(a)
    PROVE  failures' \in 0 .. MaxFailures
BY HappensType DEF HandlerFails

\* Taking the last undo away leaves the others in their places.
LEMMA DropLast ==
    ASSUME NEW s \in Seq(Undoable), s # <<>>
    PROVE  /\ SubSeq(s, 1, Len(s) - 1) \in Seq(Undoable)
           /\ s[Len(s)] \in Undoable
           /\ Len(s) > 1 => /\ SubSeq(s, 1, Len(s) - 1) # <<>>
                            /\ SubSeq(s, 1, Len(s) - 1)[1] = s[1]
<1>1. Len(s) \in Nat \ {0} /\ \A i \in 1 .. Len(s) : s[i] \in Undoable
    BY EmptySeq, LenProperties, ElementOfSeq
<1>2. \A i \in 1 .. Len(s) - 1 : s[i] \in Undoable
    BY <1>1
<1> DEFINE t == SubSeq(s, 1, Len(s) - 1)
<1>3. /\ t \in Seq(Undoable)
      /\ Len(t) = IF 1 <= Len(s) - 1 THEN Len(s) - 1 ELSE 0
      /\ \A i \in 1 .. Len(s) - 1 : t[i] = s[i]
  <2>1. /\ t \in Seq(Undoable)
        /\ Len(t) = IF 1 <= Len(s) - 1 THEN (Len(s) - 1) - 1 + 1 ELSE 0
        /\ \A i \in 1 .. (Len(s) - 1) - 1 + 1 : t[i] = s[1 + i - 1]
      BY <1>1, <1>2, SubSeqProperties, 1 \in Int, Len(s) - 1 \in Int
  <2>2. QED  BY <1>1, <2>1
<1>4. Len(s) > 1 => t # <<>> /\ t[1] = s[1]
  <2>1. SUFFICES ASSUME Len(s) > 1 PROVE t # <<>> /\ t[1] = s[1]
      OBVIOUS
  <2>2. Len(t) = Len(s) - 1 /\ Len(t) # 0
      BY <1>1, <1>3, <2>1
  <2>3. Len(<<>>) = 0
      BY EmptySeq
  <2>4. QED  BY <1>1, <1>3, <2>1, <2>2, <2>3
<1>5. QED  BY <1>1, <1>3, <1>4

\* One write of the forward path.
LEMMA WriteType ==
    ASSUME TypeOK, NEW a \in Attempts, NEW here, NEW what \in Undoable \cap Kinds,
           NEW next \in Phases, Write(a, here, what, next)
    PROVE  TypeOK'
<1>1. failures' \in 0 .. MaxFailures
    BY CallFailsType DEF TypeOK, Write
<1>2. pc' \in [Attempts -> Phases]
    BY DEF TypeOK, Write, GoTo, Fail, Phases
<1>3. undos' \in [Attempts -> Seq(Undoable)]
  <2>1. undos[a] \in Seq(Undoable) /\ what \in Undoable
      BY DEF TypeOK
  <2>2. Append(undos[a], what) \in Seq(Undoable)
      BY <2>1, AppendProperties
  <2>3. QED  BY <2>2 DEF TypeOK, Write
<1>4. rows' \in [Attempts -> SUBSET Kinds]
    BY DEF TypeOK, Write
<1>5. cause' \in [Attempts -> {"none", "input", "limit", "error"}]
    BY DEF TypeOK, Write, Fail
<1>6. spoiled' \in [Attempts -> SUBSET (Undoable \cup {"serviceResource", "database"})]
  <2>1. spoiled[a] \cup {what} \in SUBSET (Undoable \cup {"serviceResource", "database"})
      BY DEF TypeOK
  <2>2. QED  BY <2>1 DEF TypeOK, Write
<1>7. QED  BY <1>1, <1>2, <1>3, <1>4, <1>5, <1>6 DEF TypeOK, Write

\* The other steps of Register that go forward.
LEMMA ForwardType ==
    ASSUME TypeOK, NEW a \in Attempts,
           \/ Start(a) \/ RejectInput(a) \/ CountCompanies(a) \/ CreateUser(a)
           \/ UpdateCompany(a) \/ CallCreateResource(a) \/ ResourceFailed(a)
           \/ ResourceLost(a) \/ ResourceCreated(a) \/ UpdateServiceResource(a)
    PROVE  TypeOK'
<1>1. CASE Start(a) \/ RejectInput(a)
    BY <1>1 DEF TypeOK, Start, RejectInput, GoTo, Phases
<1>2. CASE CountCompanies(a)
    BY <1>2, CallFailsType DEF TypeOK, CountCompanies, GoTo, Fail, Phases
<1>3. CASE CreateUser(a)
  <2>1. CASE Write(a, "createUser", "user", "updateCompany")
      BY <2>1, WriteType DEF Undoable, Kinds, Phases
  <2>2. CASE Fail(a, "error") /\ UNCHANGED <<undos, rows, handler, cancelled, spoiled, failures>>
      BY <2>2 DEF TypeOK, Fail, GoTo, Phases
  <2>3. QED  BY <1>3, <2>1, <2>2 DEF CreateUser
<1>4. CASE UpdateCompany(a)
    BY <1>4, CallFailsType DEF TypeOK, UpdateCompany, GoTo, Fail, Phases
<1>5. CASE CallCreateResource(a)
    BY <1>5, CallFailsType
    DEF TypeOK, CallCreateResource, GoTo, Fail, Phases, HandlerPhases
<1>6. CASE ResourceFailed(a)
    BY <1>6 DEF TypeOK, ResourceFailed, GoTo, Fail, Phases, Undoable
<1>7. CASE ResourceLost(a)
  <2>1. failures' \in 0 .. MaxFailures
      BY <1>7, CallFailsType DEF TypeOK, ResourceLost
  <2>2. QED  BY <1>7, <2>1 DEF TypeOK, ResourceLost, GoTo, Fail, Phases, Undoable
<1>8. CASE ResourceCreated(a)
  <2>1. undos' \in [Attempts -> Seq(Undoable)]
      BY <1>8, AppendProperties DEF TypeOK, ResourceCreated, Undoable
  <2>2. QED  BY <1>8, <2>1 DEF TypeOK, ResourceCreated, GoTo, Phases
<1>9. CASE UpdateServiceResource(a)
  <2>1. failures' \in 0 .. MaxFailures
      BY <1>9, CallFailsType, HappensType DEF TypeOK, UpdateServiceResource
  <2>2. undos' \in [Attempts -> Seq(Undoable)]
      BY <1>9, EmptySeq DEF TypeOK, UpdateServiceResource
  <2>3. rows' \in [Attempts -> SUBSET Kinds]
      BY <1>9 DEF TypeOK, UpdateServiceResource, Kinds
  <2>4. pc' \in [Attempts -> Phases]
      BY <1>9 DEF TypeOK, UpdateServiceResource, GoTo, Fail, Phases
  <2>5. spoiled' \in [Attempts -> SUBSET (Undoable \cup {"serviceResource", "database"})]
    <3>1. spoiled[a] \cup {"serviceResource"} \in SUBSET (Undoable \cup {"serviceResource", "database"})
        BY DEF TypeOK
    <3>2. QED  BY <1>9, <3>1 DEF TypeOK, UpdateServiceResource
  <2>6. cause' \in [Attempts -> {"none", "input", "limit", "error"}]
      BY <1>9 DEF TypeOK, UpdateServiceResource, Fail
  <2>7. QED  BY <1>9, <2>1, <2>2, <2>3, <2>4, <2>5, <2>6 DEF TypeOK, UpdateServiceResource
<1>10. QED  BY <1>1, <1>2, <1>3, <1>4, <1>5, <1>6, <1>7, <1>8, <1>9

\* A database that was left is recorded as spoiled.
LEMMA SpoiledDatabase ==
    ASSUME TypeOK, NEW a \in Attempts,
           \/ spoiled' = spoiled
           \/ spoiled' = [spoiled EXCEPT ![a] = @ \cup {"database"}]
    PROVE  spoiled' \in [Attempts -> SUBSET (Undoable \cup {"serviceResource", "database"})]
<1>1. spoiled[a] \cup {"database"} \in SUBSET (Undoable \cup {"serviceResource", "database"})
    BY DEF TypeOK
<1>2. QED  BY <1>1 DEF TypeOK

\* The undos a call has recorded, and the first of them.
LEMMA RecordedUndos ==
    ASSUME NEW s \in Seq(Undoable), s # <<>>
    PROVE  {s[i] : i \in DOMAIN s} \subseteq Undoable /\ 1 \in DOMAIN s
<1>1. Len(s) \in Nat /\ Len(s) # 0 /\ DOMAIN s = 1 .. Len(s)
    BY EmptySeq, LenProperties
<1>2. \A i \in 1 .. Len(s) : s[i] \in Undoable
    BY ElementOfSeq
<1>3. QED  BY <1>1, <1>2

\* The steps of the company service.
LEMMA HandlerType ==
    ASSUME TypeOK, NEW a \in Attempts, CreateResourceStep(a)
    PROVE  TypeOK'
<1>1. ASSUME NEW here, NEW what \in Kinds, NEW next \in HandlerPhases,
             AddResourceWrite(a, here, what, next)
      PROVE  TypeOK'
  <2>1. failures' \in 0 .. MaxFailures
      BY <1>1, HandlerFailsType DEF TypeOK, AddResourceWrite
  <2>2. rows' \in [Attempts -> SUBSET Kinds]
    <3>1. \A made \in {{}, {what}} : rows[a] \cup made \in SUBSET Kinds
        BY <1>1 DEF TypeOK
    <3>2. PICK made \in {{}, {what}} : rows' = [rows EXCEPT ![a] = @ \cup made]
        BY <1>1 DEF AddResourceWrite
    <3>3. QED  BY <3>1, <3>2 DEF TypeOK
  <2>3. UNCHANGED <<pc, undos, cause, cancelled, spoiled>>
      BY <1>1 DEF AddResourceWrite, HandlerStep
  <2>4. handler' \in [Attempts -> HandlerPhases]
      BY <1>1 DEF TypeOK, AddResourceWrite, HandlerGoTo, HandlerPhases
  <2>5. QED  BY <2>1, <2>2, <2>3, <2>4 DEF TypeOK
<1>2. CASE CreateUserAndDatabase(a)
  <2>1. failures' \in 0 .. MaxFailures
      BY <1>2, HandlerFailsType DEF TypeOK, CreateUserAndDatabase
  <2>2. rows' \in [Attempts -> SUBSET Kinds]
    <3>1. \A made \in {{"role"}, {"role", "database"}} :
            rows[a] \cup made \in SUBSET Kinds
        BY DEF TypeOK, Kinds, ResourceRows
    <3>2. rows[a] \cup {"role", "database"} \in SUBSET Kinds
        BY DEF TypeOK, Kinds, ResourceRows
    <3>3. QED  BY <1>2, <3>1, <3>2 DEF TypeOK, CreateUserAndDatabase
  <2>3. spoiled' \in [Attempts -> SUBSET (Undoable \cup {"serviceResource", "database"})]
    <3>1. \/ spoiled' = spoiled
          \/ spoiled' = [spoiled EXCEPT ![a] = @ \cup {"database"}]
        BY <1>2 DEF CreateUserAndDatabase
    <3>2. QED  BY <3>1, SpoiledDatabase
  <2>4. QED  BY <1>2, <2>1, <2>2, <2>3
             DEF TypeOK, CreateUserAndDatabase, HandlerStep, HandlerGoTo, HandlerPhases
<1>3. CASE PutSecret(a) \/ InsertResource(a) \/ RegisterBuilder(a)
    BY <1>1, <1>3 DEF PutSecret, InsertResource, RegisterBuilder, Kinds, ResourceRows,
                      HandlerPhases
<1>4. CASE InsertResourceEnvironment(a)
  <2>1. CASE AddResourceWrite(a, "insertResourceEnv", "resourceEnv", "registerBuilder")
      BY <1>1, <2>1 DEF Kinds, ResourceRows, HandlerPhases
  <2>2. CASE /\ HandlerStep(a, "insertResourceEnv")
             /\ HandlerGoTo(a, "dropDatabase") /\ UNCHANGED <<rows, spoiled, failures>>
      BY <2>2 DEF TypeOK, HandlerStep, HandlerGoTo, HandlerPhases
  <2>3. QED  BY <1>4, <2>1, <2>2 DEF InsertResourceEnvironment
<1>5. CASE DropDatabase(a)
  <2>1. failures' \in 0 .. MaxFailures
      BY <1>5, HappensType DEF TypeOK, DropDatabase
  <2>2. spoiled' \in [Attempts -> SUBSET (Undoable \cup {"serviceResource", "database"})]
    <3>1. \/ spoiled' = spoiled
          \/ spoiled' = [spoiled EXCEPT ![a] = @ \cup {"database"}]
        BY <1>5 DEF DropDatabase
    <3>2. QED  BY <3>1, SpoiledDatabase
  <2>3. rows' \in [Attempts -> SUBSET Kinds]
      BY <1>5 DEF TypeOK, DropDatabase
  <2>4. handler' \in [Attempts -> HandlerPhases]
      BY <1>5 DEF TypeOK, DropDatabase, HandlerGoTo, HandlerPhases
  <2>5. UNCHANGED <<pc, undos, cause, cancelled>>
      BY <1>5 DEF DropDatabase, HandlerStep
  <2>6. QED  BY <2>1, <2>2, <2>3, <2>4, <2>5 DEF TypeOK
<1>6. QED  BY <1>2, <1>3, <1>4, <1>5 DEF CreateResourceStep

\* The rollback, and what happens to the caller and the processes.
LEMMA RollbackType ==
    ASSUME TypeOK, NEW a \in Attempts,
           \/ UndoLast(a) \/ RollbackTimesOut(a) \/ FinishRollback(a)
           \/ HangUp(a) \/ AuthCrash \/ CompanyCrash
    PROVE  TypeOK'
<1>1. CASE UndoLast(a)
  <2>1. undos[a] \in Seq(Undoable) /\ undos[a] # <<>>
      BY <1>1 DEF TypeOK, UndoLast
  <2>2. SubSeq(undos[a], 1, Len(undos[a]) - 1) \in Seq(Undoable)
        /\ undos[a][Len(undos[a])] \in Undoable
      BY <2>1, DropLast
  <2>3. failures' \in 0 .. MaxFailures
      BY <1>1, HappensType DEF TypeOK, UndoLast
  <2>4. rows' \in [Attempts -> SUBSET Kinds]
    <3>1. PICK gone : rows' = [rows EXCEPT ![a] = @ \ gone]
        BY <1>1 DEF UndoLast
    <3>2. QED  BY <3>1 DEF TypeOK
  <2>5. spoiled' \in [Attempts -> SUBSET (Undoable \cup {"serviceResource", "database"})]
    <3>1. spoiled[a] \cup {undos[a][Len(undos[a])]}
              \in SUBSET (Undoable \cup {"serviceResource", "database"})
        BY <2>2 DEF TypeOK
    <3>2. QED  BY <1>1, <3>1 DEF TypeOK, UndoLast
  <2>6. undos' \in [Attempts -> Seq(Undoable)]
      BY <1>1, <2>2 DEF TypeOK, UndoLast
  <2>7. QED  BY <1>1, <2>3, <2>4, <2>5, <2>6 DEF TypeOK, UndoLast
<1>2. CASE FinishRollback(a)
    BY <1>2 DEF TypeOK, FinishRollback, GoTo, Phases
<1>3. CASE HangUp(a)
    BY <1>3, HappensType DEF TypeOK, HangUp
<1>4. CASE AuthCrash
    BY <1>4, HappensType, EmptySeq DEF TypeOK, AuthCrash, Phases
<1>5. CASE CompanyCrash
    BY <1>5, HappensType DEF TypeOK, CompanyCrash, Phases, HandlerPhases
<1>6. CASE RollbackTimesOut(a)
  <2>1. {undos[a][i] : i \in DOMAIN undos[a]} \subseteq Undoable
      BY <1>6, RecordedUndos DEF TypeOK, RollbackTimesOut
  <2>2. spoiled' \in [Attempts -> SUBSET (Undoable \cup {"serviceResource", "database"})]
    <3>1. spoiled[a] \cup {undos[a][i] : i \in DOMAIN undos[a]}
              \in SUBSET (Undoable \cup {"serviceResource", "database"})
        BY <2>1 DEF TypeOK
    <3>2. QED  BY <1>6, <3>1 DEF TypeOK, RollbackTimesOut
  <2>3. rows' \in [Attempts -> SUBSET Kinds]
      BY <1>6 DEF TypeOK, RollbackTimesOut
  <2>4. undos' \in [Attempts -> Seq(Undoable)]
      BY <1>6, EmptySeq DEF TypeOK, RollbackTimesOut
  <2>5. failures' \in 0 .. MaxFailures
      BY <1>6, HappensType DEF TypeOK, RollbackTimesOut
  <2>6. QED  BY <1>6, <2>2, <2>3, <2>4, <2>5 DEF TypeOK, RollbackTimesOut
<1>7. QED  BY <1>1, <1>2, <1>3, <1>4, <1>5, <1>6

\* Every step keeps the types.
LEMMA TypeStep ==
    ASSUME TypeOK, [Next]_vars
    PROVE  TypeOK'
<1>1. CASE UNCHANGED vars
    BY <1>1 DEF TypeOK, vars
<1>2. ASSUME NEW a \in Attempts,
             \/ InsertCompany(a) \/ CreateProject(a) \/ CreateEnvironment(a)
             \/ CreateApiKey(a) \/ AddUserToProject(a)
      PROVE  TypeOK'
    BY <1>2, WriteType
    DEF InsertCompany, CreateProject, CreateEnvironment, CreateApiKey,
        AddUserToProject, Undoable, Kinds, Phases
<1>3. ASSUME NEW a \in Attempts,
             Start(a) \/ RejectInput(a) \/ HangUp(a) \/ RegisterStep(a)
             \/ CreateResourceStep(a)
      PROVE  TypeOK'
    BY <1>2, <1>3, ForwardType, HandlerType, RollbackType DEF RegisterStep
<1>4. CASE AuthCrash \/ CompanyCrash
  <2>1. PICK a \in Attempts : TRUE
      BY <1>4 DEF AuthCrash, CompanyCrash
  <2>2. QED  BY <1>4, <2>1, RollbackType
<1>5. QED  BY <1>1, <1>3, <1>4 DEF Next

\* Every variable keeps its type.
THEOREM TypeCorrect == Spec => []TypeOK
<1>1. Init => TypeOK
    BY EmptySeq, MaxFailuresAssumption DEF Init, TypeOK, Phases, HandlerPhases
<1>2. TypeOK /\ [Next]_vars => TypeOK'
    BY TypeStep
<1>3. QED  BY <1>1, <1>2, PTL DEF Spec

-----------------------------------------------------------------------------
(* A failed registration does not block the next one.                      *)

\* Before the company is inserted a call has written and recorded nothing.
NothingYet(a) ==
    pc[a] \in {"idle", "count", "insertCompany"} =>
        undos[a] = <<>> /\ "company" \notin rows[a]

\* A call that failed has no undo left to run.
NoUndoLeft(a) == pc[a] = "failed" => undos[a] = <<>>

\* The company of a call that is neither settled otherwise nor spoiled will be
\* undone, and last of all.
CompanyUndoneLast(a) ==
    "company" \in rows[a] \ spoiled[a] =>
        \/ pc[a] \in {"registered", "crashed"}
        \/ undos[a] # <<>> /\ undos[a][1] = "company"

CompanyInv == \A a \in Attempts : NothingYet(a) /\ NoUndoLeft(a) /\ CompanyUndoneLast(a)

\* What one step of call a may do to the others: nothing CompanyInv sees.
Elsewhere(a) ==
    \A b \in Attempts \ {a} :
        /\ pc'[b] = pc[b] /\ undos'[b] = undos[b]
        /\ rows'[b] = rows[b] /\ spoiled'[b] = spoiled[b]

\* It is enough to look at the call that takes the step.
LEMMA OneCall ==
    ASSUME CompanyInv, NEW a \in Attempts, Elsewhere(a),
           NothingYet(a)', NoUndoLeft(a)', CompanyUndoneLast(a)'
    PROVE  CompanyInv'
<1> SUFFICES ASSUME NEW b \in Attempts, b # a
             PROVE  NothingYet(b)' /\ NoUndoLeft(b)' /\ CompanyUndoneLast(b)'
    BY DEF CompanyInv
<1>1. NothingYet(b) /\ NoUndoLeft(b) /\ CompanyUndoneLast(b)
    BY DEF CompanyInv
<1>2. QED  BY <1>1 DEF Elsewhere, NothingYet, NoUndoLeft, CompanyUndoneLast

\* Recording one more undo keeps the first one first.
LEMMA AppendKeepsFirst ==
    ASSUME NEW s \in Seq(Undoable), NEW e \in Undoable
    PROVE  /\ Append(s, e) # <<>>
           /\ s # <<>> => Append(s, e)[1] = s[1]
           /\ s = <<>> => Append(s, e)[1] = e
<1>1. /\ Append(s, e) # <<>>
      /\ \A i \in 1 .. Len(s) : Append(s, e)[i] = s[i]
      /\ Append(s, e)[Len(s) + 1] = e
    BY AppendProperties
<1>2. s # <<>> => Len(s) \in Nat \ {0}
    BY EmptySeq
<1>3. s = <<>> => Len(s) = 0
    BY EmptySeq
<1>4. QED  BY <1>1, <1>2, <1>3

\* A write of the forward path.
LEMMA WriteKeepsCompany ==
    ASSUME TypeOK, CompanyInv, NEW a \in Attempts, NEW here \in Phases,
           NEW what \in Undoable \cap Kinds, NEW next \in Phases,
           Write(a, here, what, next),
           here \notin {"registered", "crashed"},
           next \notin {"idle", "count", "insertCompany", "failed"},
           (what = "company") <=> (here = "insertCompany")
    PROVE  CompanyInv'
<1>1. NothingYet(a) /\ NoUndoLeft(a) /\ CompanyUndoneLast(a)
    BY DEF CompanyInv
<1>2. undos[a] \in Seq(Undoable) /\ what \in Undoable
    BY DEF TypeOK
<1>3. /\ Append(undos[a], what) # <<>>
      /\ undos[a] # <<>> => Append(undos[a], what)[1] = undos[a][1]
      /\ undos[a] = <<>> => Append(undos[a], what)[1] = what
    BY <1>2, AppendKeepsFirst
<1>4. Elsewhere(a)
    BY DEF TypeOK, Write, GoTo, Fail, Elsewhere
<1>5. /\ pc'[a] \in {next, "rollback"}
      /\ rows'[a] \subseteq rows[a] \cup {what}
      /\ \/ undos'[a] = Append(undos[a], what) /\ spoiled'[a] = spoiled[a]
         \/ undos'[a] = undos[a] /\ spoiled'[a] = spoiled[a] /\ rows'[a] = rows[a]
         \/ undos'[a] = undos[a] /\ spoiled'[a] = spoiled[a] \cup {what}
    BY DEF TypeOK, Write, GoTo, Fail
<1>6. pc[a] = here
    BY DEF Write
<1>7. NothingYet(a)' /\ NoUndoLeft(a)'
    BY <1>5 DEF NothingYet, NoUndoLeft
<1>8. CASE here = "insertCompany"
  <2>1. what = "company" /\ undos[a] = <<>> /\ "company" \notin rows[a]
      BY <1>1, <1>6, <1>8 DEF NothingYet
  <2>2. CompanyUndoneLast(a)'
      BY <1>3, <1>5, <2>1 DEF CompanyUndoneLast
  <2>3. QED  BY <1>4, <1>7, <2>2, OneCall
<1>9. CASE here # "insertCompany"
  <2>1. "company" \in rows'[a] \ spoiled'[a] => "company" \in rows[a] \ spoiled[a]
      BY <1>5, <1>9
  <2>2. "company" \in rows[a] \ spoiled[a] => undos[a] # <<>> /\ undos[a][1] = "company"
      BY <1>1, <1>6 DEF CompanyUndoneLast
  <2>3. CompanyUndoneLast(a)'
      BY <1>3, <1>5, <2>1, <2>2 DEF CompanyUndoneLast
  <2>4. QED  BY <1>4, <1>7, <2>3, OneCall
<1>10. QED  BY <1>8, <1>9

\* A step that records nothing, brings no company and moves forward.
LEMMA QuietStepKeepsCompany ==
    ASSUME CompanyInv, NEW a \in Attempts, Elsewhere(a),
           undos'[a] = undos[a], spoiled[a] \subseteq spoiled'[a],
           "company" \in rows'[a] => "company" \in rows[a],
           pc[a] \in {"registered", "crashed"} => pc'[a] = pc[a],
           pc'[a] \in {"idle", "count", "insertCompany"} =>
               pc[a] \in {"idle", "count", "insertCompany"},
           pc'[a] = "failed" => undos[a] = <<>>
    PROVE  CompanyInv'
<1>1. NothingYet(a) /\ CompanyUndoneLast(a)
    BY DEF CompanyInv
<1>2. NothingYet(a)' /\ NoUndoLeft(a)'
    BY <1>1 DEF NothingYet, NoUndoLeft
<1>3. CompanyUndoneLast(a)'
    BY <1>1 DEF CompanyUndoneLast
<1>4. QED  BY <1>2, <1>3, OneCall

\* The steps of Register that only read, ask or give up.
LEMMA ForwardKeepsCompany ==
    ASSUME TypeOK, CompanyInv, NEW a \in Attempts,
           \/ Start(a) \/ RejectInput(a) \/ CountCompanies(a) \/ UpdateCompany(a)
           \/ CallCreateResource(a) \/ ResourceFailed(a) \/ ResourceLost(a)
           \/ FinishRollback(a) \/ HangUp(a)
    PROVE  CompanyInv'
<1>1. NothingYet(a) /\ NoUndoLeft(a)
    BY DEF CompanyInv
<1>2. Elsewhere(a)
    BY DEF TypeOK, Elsewhere, Start, RejectInput, CountCompanies, UpdateCompany,
           CallCreateResource, ResourceFailed, ResourceLost, FinishRollback, HangUp,
           GoTo, Fail
<1>3. undos' = undos /\ rows' = rows /\ spoiled[a] \subseteq spoiled'[a]
    BY DEF TypeOK, Start, RejectInput, CountCompanies, UpdateCompany,
           CallCreateResource, ResourceFailed, ResourceLost, FinishRollback, HangUp
<1>4. /\ pc[a] \in {"registered", "crashed"} => pc'[a] = pc[a]
      /\ pc'[a] \in {"idle", "count", "insertCompany"} =>
             pc[a] \in {"idle", "count", "insertCompany"}
    BY DEF TypeOK, Start, RejectInput, CountCompanies, UpdateCompany,
           CallCreateResource, ResourceFailed, ResourceLost, FinishRollback, HangUp,
           GoTo, Fail
<1>5. pc'[a] = "failed" => undos[a] = <<>>
    BY <1>1 DEF NothingYet, NoUndoLeft,
           TypeOK, Start, RejectInput, CountCompanies, UpdateCompany,
           CallCreateResource, ResourceFailed, ResourceLost, FinishRollback, HangUp,
           GoTo, Fail
<1>6. QED  BY <1>2, <1>3, <1>4, <1>5, QuietStepKeepsCompany

\* The administrator's creation, which the login may prevent.
LEMMA CreateUserKeepsCompany ==
    ASSUME TypeOK, CompanyInv, NEW a \in Attempts, CreateUser(a)
    PROVE  CompanyInv'
<1>1. CASE Write(a, "createUser", "user", "updateCompany")
    BY <1>1, WriteKeepsCompany DEF Undoable, Kinds, Phases
<1>2. CASE /\ pc[a] = "createUser" /\ Fail(a, "error")
           /\ UNCHANGED <<undos, rows, handler, cancelled, spoiled, failures>>
  <2>1. Elsewhere(a) /\ pc'[a] = "rollback"
      BY <1>2 DEF TypeOK, Elsewhere, Fail, GoTo
  <2>2. QED  BY <1>2, <2>1, QuietStepKeepsCompany
<1>3. QED  BY <1>1, <1>2 DEF CreateUser

\* Recording the undo of the project's database.
LEMMA ResourceCreatedKeepsCompany ==
    ASSUME TypeOK, CompanyInv, NEW a \in Attempts, ResourceCreated(a)
    PROVE  CompanyInv'
<1>1. CompanyUndoneLast(a)
    BY DEF CompanyInv
<1>2. /\ Append(undos[a], "projectDatabase") # <<>>
      /\ undos[a] # <<>> => Append(undos[a], "projectDatabase")[1] = undos[a][1]
    BY AppendKeepsFirst DEF TypeOK, Undoable
<1>3. /\ Elsewhere(a) /\ pc[a] = "awaitResource" /\ pc'[a] = "updateServices"
      /\ undos'[a] = Append(undos[a], "projectDatabase")
      /\ rows' = rows /\ spoiled' = spoiled
    BY DEF TypeOK, ResourceCreated, Elsewhere, GoTo
<1>4. NothingYet(a)' /\ NoUndoLeft(a)' /\ CompanyUndoneLast(a)'
    BY <1>1, <1>2, <1>3 DEF NothingYet, NoUndoLeft, CompanyUndoneLast
<1>5. QED  BY <1>3, <1>4, OneCall

\* The last write, after which the call is registered or rolls back.
LEMMA UpdateServiceResourceKeepsCompany ==
    ASSUME TypeOK, CompanyInv, NEW a \in Attempts, UpdateServiceResource(a)
    PROVE  CompanyInv'
<1>1. /\ Elsewhere(a) /\ pc[a] = "updateServices"
      /\ spoiled[a] \subseteq spoiled'[a]
      /\ "company" \in rows'[a] => "company" \in rows[a]
    BY DEF TypeOK, UpdateServiceResource, Elsewhere, GoTo, Fail
<1>2. CASE pc'[a] = "registered"
  <2>1. NothingYet(a)' /\ NoUndoLeft(a)' /\ CompanyUndoneLast(a)'
      BY <1>2 DEF NothingYet, NoUndoLeft, CompanyUndoneLast
  <2>2. QED  BY <1>1, <2>1, OneCall
<1>3. CASE pc'[a] = "rollback" /\ undos' = undos
    BY <1>1, <1>3, QuietStepKeepsCompany
<1>4. QED  BY <1>2, <1>3 DEF TypeOK, UpdateServiceResource, GoTo, Fail

\* The company service never touches a company row here.
LEMMA HandlerKeepsCompany ==
    ASSUME TypeOK, CompanyInv, NEW a \in Attempts, CreateResourceStep(a)
    PROVE  CompanyInv'
<1>1. /\ UNCHANGED <<pc, undos>>
      /\ \A b \in Attempts \ {a} : spoiled'[b] = spoiled[b]
      /\ spoiled[a] \subseteq spoiled'[a]
    BY DEF TypeOK, CreateResourceStep, CreateUserAndDatabase, PutSecret, InsertResource,
           InsertResourceEnvironment, RegisterBuilder, DropDatabase,
           AddResourceWrite, HandlerStep
<1>2. /\ \A b \in Attempts \ {a} : rows'[b] = rows[b]
      /\ "company" \in rows'[a] => "company" \in rows[a]
  <2>1. ASSUME NEW here, NEW what, NEW next, what # "company",
               AddResourceWrite(a, here, what, next)
        PROVE  <1>2!1 /\ <1>2!2
      BY <2>1 DEF TypeOK, AddResourceWrite
  <2>2. CASE CreateUserAndDatabase(a)
      BY <2>2 DEF TypeOK, CreateUserAndDatabase
  <2>3. CASE DropDatabase(a)
      BY <2>3 DEF TypeOK, DropDatabase
  <2>4. CASE PutSecret(a) \/ InsertResource(a) \/ RegisterBuilder(a)
      BY <2>1, <2>4 DEF PutSecret, InsertResource, RegisterBuilder
  <2>5. CASE InsertResourceEnvironment(a)
    <3>1. CASE AddResourceWrite(a, "insertResourceEnv", "resourceEnv", "registerBuilder")
        BY <2>1, <3>1
    <3>2. CASE rows' = rows
        BY <3>2
    <3>3. QED  BY <2>5, <3>1, <3>2 DEF InsertResourceEnvironment
  <2>6. QED  BY <2>2, <2>3, <2>4, <2>5 DEF CreateResourceStep
<1>3. Elsewhere(a)
    BY <1>1, <1>2 DEF Elsewhere
<1>4. NothingYet(a) /\ NoUndoLeft(a)
    BY DEF CompanyInv
<1>5. pc'[a] = "failed" => undos[a] = <<>>
    BY <1>1, <1>4 DEF NoUndoLeft
<1>6. QED  BY <1>1, <1>2, <1>3, <1>5, QuietStepKeepsCompany

\* One undo: the company's takes its row away or fails, any other keeps the
\* company's first.
LEMMA UndoKeepsCompany ==
    ASSUME TypeOK, CompanyInv, NEW a \in Attempts, UndoLast(a)
    PROVE  CompanyInv'
<1> DEFINE what == undos[a][Len(undos[a])]
           rest == SubSeq(undos[a], 1, Len(undos[a]) - 1)
<1>1. /\ pc[a] = "rollback" /\ pc' = pc
      /\ undos[a] \in Seq(Undoable) /\ undos[a] # <<>>
      /\ undos'[a] = rest
    BY DEF TypeOK, UndoLast
<1>2. /\ Elsewhere(a)
      /\ rows'[a] \subseteq rows[a] /\ spoiled[a] \subseteq spoiled'[a]
    BY DEF TypeOK, UndoLast, Elsewhere
<1>3. Len(undos[a]) > 1 => rest # <<>> /\ rest[1] = undos[a][1]
    BY <1>1, DropLast
<1>4. CompanyUndoneLast(a)
    BY DEF CompanyInv
<1>5. CompanyUndoneLast(a)'
  <2>1. CASE "company" \notin rows[a] \ spoiled[a]
      BY <1>2, <2>1 DEF CompanyUndoneLast
  <2>2. CASE "company" \in rows[a] \ spoiled[a] /\ Len(undos[a]) > 1
      BY <1>1, <1>3, <1>4, <2>2 DEF CompanyUndoneLast
  <2>3. CASE "company" \in rows[a] \ spoiled[a] /\ Len(undos[a]) = 1
    <3>1. what = "company"
        BY <1>1, <1>4, <2>3 DEF CompanyUndoneLast
    <3>2. "company" \in Undone(a, "company")
        BY DEF Undone, Blocked, ReferencedBy
    <3>3. "company" \notin rows'[a] \/ "company" \in spoiled'[a]
        BY <3>1, <3>2 DEF TypeOK, UndoLast
    <3>4. QED  BY <3>3 DEF CompanyUndoneLast
  <2>4. Len(undos[a]) > 1 \/ Len(undos[a]) = 1
    <3> DEFINE n == Len(undos[a])
    <3>1. n \in Nat /\ n # 0
        BY <1>1, EmptySeq
    <3> HIDE DEF n
    <3>2. n > 1 \/ n = 1
        BY <3>1
    <3>3. QED  BY <3>2 DEF n
  <2>5. QED  BY <2>1, <2>2, <2>3, <2>4
<1>6. NothingYet(a)' /\ NoUndoLeft(a)'
    BY <1>1 DEF NothingYet, NoUndoLeft
<1>7. QED  BY <1>2, <1>5, <1>6, OneCall

\* The deadline: whatever is left of the company is recorded as spoiled.
LEMMA DeadlineKeepsCompany ==
    ASSUME TypeOK, CompanyInv, NEW a \in Attempts, RollbackTimesOut(a)
    PROVE  CompanyInv'
<1>1. /\ pc[a] = "rollback" /\ pc' = pc
      /\ undos[a] \in Seq(Undoable) /\ undos[a] # <<>>
      /\ undos'[a] = <<>>
    BY DEF TypeOK, RollbackTimesOut
<1>2. /\ Elsewhere(a)
      /\ rows'[a] \subseteq rows[a] /\ spoiled[a] \subseteq spoiled'[a]
    BY DEF TypeOK, RollbackTimesOut, Elsewhere
<1>3. "company" \in rows[a] \ spoiled[a] => "company" \in spoiled'[a]
  <2> SUFFICES ASSUME "company" \in rows[a] \ spoiled[a]
               PROVE  "company" \in spoiled'[a]
      OBVIOUS
  <2>1. undos[a][1] = "company"
    <3>1. CompanyUndoneLast(a)
        BY DEF CompanyInv
    <3>2. QED  BY <1>1, <3>1 DEF CompanyUndoneLast
  <2>2. 1 \in DOMAIN undos[a]
      BY <1>1, RecordedUndos
  <2>3. "company" \in {undos[a][i] : i \in DOMAIN undos[a]}
      BY <2>1, <2>2
  <2>4. QED  BY <2>3 DEF TypeOK, RollbackTimesOut
<1>4. CompanyUndoneLast(a)'
    BY <1>2, <1>3 DEF CompanyUndoneLast
<1>5. NothingYet(a)' /\ NoUndoLeft(a)'
    BY <1>1 DEF NothingYet, NoUndoLeft
<1>6. QED  BY <1>2, <1>4, <1>5, OneCall

\* A crash of either service, which concerns every call at once.
LEMMA CrashKeepsCompany ==
    ASSUME TypeOK, CompanyInv, AuthCrash \/ CompanyCrash
    PROVE  CompanyInv'
<1> SUFFICES ASSUME NEW a \in Attempts
             PROVE  NothingYet(a)' /\ NoUndoLeft(a)' /\ CompanyUndoneLast(a)'
    BY DEF CompanyInv
<1>1. NothingYet(a) /\ NoUndoLeft(a) /\ CompanyUndoneLast(a)
    BY DEF CompanyInv
<1>2. CASE AuthCrash
    BY <1>1, <1>2 DEF AuthCrash, Running, Forward, NothingYet, NoUndoLeft, CompanyUndoneLast
<1>3. CASE CompanyCrash
    BY <1>1, <1>3 DEF CompanyCrash, NothingYet, NoUndoLeft, CompanyUndoneLast
<1>4. QED  BY <1>2, <1>3

\* The company row of a call that was answered with an error is gone, unless
\* the answer to its creation was lost, its own undo failed or the deadline of
\* the rollback passed before it.  Nothing else that goes wrong in the rollback
\* keeps it: CompanyInv says that its undo is recorded first, so it is reached
\* last, and by every rollback that is in time.
THEOREM RetryIsNotBlocked == Spec => []RetryNotBlocked
<1>1. Init => CompanyInv
    BY DEF Init, CompanyInv, NothingYet, NoUndoLeft, CompanyUndoneLast
<1>2. TypeOK /\ CompanyInv /\ [Next]_vars => CompanyInv'
  <2> SUFFICES ASSUME TypeOK, CompanyInv, [Next]_vars PROVE CompanyInv'
      OBVIOUS
  <2>1. CASE UNCHANGED vars
      BY <2>1 DEF vars, CompanyInv, NothingYet, NoUndoLeft, CompanyUndoneLast
  <2>2. ASSUME NEW a \in Attempts,
               \/ InsertCompany(a) \/ CreateProject(a) \/ CreateEnvironment(a)
               \/ CreateApiKey(a) \/ AddUserToProject(a)
        PROVE  CompanyInv'
      BY <2>2, WriteKeepsCompany
      DEF InsertCompany, CreateProject, CreateEnvironment, CreateApiKey,
          AddUserToProject, Undoable, Kinds, Phases
  <2>3. ASSUME NEW a \in Attempts,
               Start(a) \/ RejectInput(a) \/ HangUp(a) \/ RegisterStep(a)
        PROVE  CompanyInv'
      BY <2>2, <2>3, ForwardKeepsCompany, CreateUserKeepsCompany,
         ResourceCreatedKeepsCompany, UpdateServiceResourceKeepsCompany,
         UndoKeepsCompany, DeadlineKeepsCompany
      DEF RegisterStep
  <2>4. QED  BY <2>1, <2>3, HandlerKeepsCompany, CrashKeepsCompany DEF Next
<1>3. CompanyInv => RetryNotBlocked
    BY DEF CompanyInv, NoUndoLeft, CompanyUndoneLast, RetryNotBlocked
<1>4. QED  BY <1>1, <1>2, <1>3, TypeCorrect, PTL DEF Spec
=============================================================================
