--------------------------- MODULE BootstrapProofs ---------------------------
(***************************************************************************)
(* Theorems about Bootstrap: what the command line tool may conclude from  *)
(* the answers it gets, for any number of registrations, any limit on the  *)
(* companies, any kinds and any number of failures, over any sequence of   *)
(* starts, resets and interrupts.                                          *)
(***************************************************************************)
EXTENDS Bootstrap, LeftoverProofs, FiniteSetTheorems

-----------------------------------------------------------------------------
(* The steps, and the variables of the services they leave alone.          *)

\* What the services do, as steps of Registration.
LEMMA ServicesStepIsNext ==
    ASSUME ServicesStep
    PROVE  [Next]_vars /\ UNCHANGED cliVars
BY DEF ServicesStep, Next

\* The steps of the tool that touch none of the services.
ToolOnly ==
    \/ StartCmd \/ BootstrapTimeout \/ Answered \/ VerifySetup \/ RemoveMarker

LEMMA ToolOnlyLeavesServices ==
    ASSUME ToolOnly
    PROVE  UNCHANGED <<pc, undos, rows, handler, cause, cancelled, spoiled, abandoned>>
BY DEF ToolOnly, StartCmd, BootstrapTimeout, Answered, VerifySetup, RemoveMarker, vars

\* The marker's write and Ctrl-C concern the caller and the failures only.
LEMMA MarkOrInterrupt ==
    ASSUME MarkBootstrapped \/ Interrupt
    PROVE  UNCHANGED <<pc, undos, rows, handler, cause, spoiled>>
BY DEF MarkBootstrapped, Interrupt

\* Every step is one of these.
LEMMA BootstrapSteps ==
    ASSUME [BootstrapNext]_allVars
    PROVE  \/ ToolOnly \/ MarkBootstrapped \/ Interrupt \/ Down
           \/ (\E a \in Attempts : Post(a)) \/ ConnectionLost
           \/ ServicesStep \/ UNCHANGED allVars
BY DEF BootstrapNext, CliStep, ToolOnly

-----------------------------------------------------------------------------
(* Type correctness.                                                       *)

\* While the tool waits there is a call it waits for.
PostingHasCall == cli = "posting" => call \in Attempts

\* Calls and requests die with their services, whether or not the data goes.
LEMMA DownType ==
    ASSUME TypeOK, Down
    PROVE  TypeOK'
<1>1. pc' \in [Attempts -> Phases] /\ handler' \in [Attempts -> HandlerPhases]
  <2>1. CASE ContainersStop
      BY <2>1 DEF TypeOK, ContainersStop, Phases, HandlerPhases
  <2>2. CASE UNCHANGED <<pc, handler>>
      BY <2>2 DEF TypeOK
  <2>3. QED  BY <2>1, <2>2 DEF Down
<1>2. undos' \in [Attempts -> Seq(Undoable)]
  <2>1. CASE undos' = [a \in Attempts |-> <<>>]
      BY <2>1, EmptySeq
  <2>2. CASE undos' = undos
      BY <2>2 DEF TypeOK
  <2>3. QED  BY <2>1, <2>2 DEF Down, ContainersStop
<1>3. rows' \in [Attempts -> SUBSET Kinds]
    BY DEF TypeOK, Down
<1>4. failures' \in 0 .. MaxFailures
    BY HappensType DEF TypeOK, Down
<1>5. QED  BY <1>1, <1>2, <1>3, <1>4 DEF TypeOK, Down

\* Every variable of the tool and of the services keeps its type.
LEMMA BootstrapTypeStep ==
    ASSUME BootstrapTypeOK, PostingHasCall, [BootstrapNext]_allVars
    PROVE  BootstrapTypeOK' /\ PostingHasCall'
<1>1. TypeOK
    BY DEF BootstrapTypeOK
<1>2. CASE UNCHANGED allVars
    BY <1>2 DEF allVars, vars, cliVars, BootstrapTypeOK, PostingHasCall, TypeOK
<1>3. CASE ServicesStep
  <2>1. TypeOK'
      BY <1>1, <1>3, ServicesStepIsNext, TypeStep
  <2>2. QED  BY <1>3, <2>1, ServicesStepIsNext DEF cliVars, BootstrapTypeOK, PostingHasCall
<1>4. CASE ToolOnly
  <2>1. failures' \in 0 .. MaxFailures
      BY <1>1, <1>4, HappensType
      DEF TypeOK, ToolOnly, StartCmd, BootstrapTimeout, Answered, VerifySetup,
          RemoveMarker, vars
  <2>2. TypeOK'
      BY <1>1, <1>4, <2>1, ToolOnlyLeavesServices DEF TypeOK
  <2>3. QED  BY <1>4, <2>2
             DEF ToolOnly, StartCmd, BootstrapTimeout, Answered, VerifySetup,
                 RemoveMarker, BootstrapTypeOK, PostingHasCall, CliPhases, AtRest
<1>5. CASE MarkBootstrapped
  <2>1. failures' \in 0 .. MaxFailures
      BY <1>1, <1>5, HappensType DEF TypeOK, MarkBootstrapped
  <2>2. TypeOK'
      BY <1>1, <1>5, <2>1 DEF TypeOK, MarkBootstrapped
  <2>3. QED  BY <1>5, <2>2
             DEF MarkBootstrapped, BootstrapTypeOK, PostingHasCall, CliPhases
<1>6. CASE Interrupt
  <2>1. failures' \in 0 .. MaxFailures
      BY <1>1, <1>6, HappensType DEF TypeOK, Interrupt
  <2>2. cancelled' \subseteq Attempts /\ abandoned' \subseteq Attempts
      BY <1>6 DEF Interrupt, BootstrapTypeOK, TypeOK, PostingHasCall
  <2>3. TypeOK'
      BY <1>1, <1>6, <2>1, <2>2 DEF TypeOK, Interrupt
  <2>4. cut' \in BOOLEAN
      BY <1>6 DEF Interrupt, BootstrapTypeOK
  <2>5. cli' = "idle" /\ call' = NoCall /\ marker' = marker
      BY <1>6 DEF Interrupt
  <2>6. QED  BY <2>2, <2>3, <2>4, <2>5 DEF BootstrapTypeOK, PostingHasCall, CliPhases
<1>7. CASE Down
  <2>1. TypeOK'
      BY <1>1, <1>7, DownType
  <2>2. QED  BY <1>7, <2>1 DEF Down, BootstrapTypeOK, PostingHasCall, CliPhases
<1>8. ASSUME NEW a \in Attempts, Post(a)
      PROVE  BootstrapTypeOK' /\ PostingHasCall'
  <2>1. TypeOK'
      BY <1>1, <1>8, ForwardType DEF Post
  <2>2. QED  BY <1>8, <2>1 DEF Post, BootstrapTypeOK, PostingHasCall, CliPhases
<1>9. CASE ConnectionLost
  <2>1. call \in Attempts
      BY <1>9 DEF ConnectionLost, PostingHasCall
  <2>2. TypeOK'
      BY <1>1, <1>9, <2>1, RollbackType DEF ConnectionLost
  <2>3. abandoned' \subseteq Attempts
      BY <1>9, <2>1 DEF ConnectionLost, BootstrapTypeOK
  <2>4. QED  BY <1>9, <2>2, <2>3
             DEF ConnectionLost, BootstrapTypeOK, PostingHasCall, CliPhases
<1>10. QED  BY <1>2, <1>3, <1>4, <1>5, <1>6, <1>7, <1>8, <1>9, BootstrapSteps

\* Every variable keeps its type, over any sequence of starts and resets.
THEOREM BootstrapTypeCorrect == BootstrapSpec => []BootstrapTypeOK
<1>1. BootstrapInit => BootstrapTypeOK /\ PostingHasCall
  <2> SUFFICES ASSUME BootstrapInit PROVE BootstrapTypeOK /\ PostingHasCall
      OBVIOUS
  <2>1. TypeOK
      BY EmptySeq, MaxFailuresAssumption
      DEF BootstrapInit, Init, TypeOK, Phases, HandlerPhases
  <2>2. QED  BY <2>1 DEF BootstrapInit, BootstrapTypeOK, PostingHasCall, CliPhases
<1>2. BootstrapTypeOK /\ PostingHasCall /\ [BootstrapNext]_allVars
          => BootstrapTypeOK' /\ PostingHasCall'
    BY BootstrapTypeStep
<1>3. QED  BY <1>1, <1>2, PTL DEF BootstrapSpec

-----------------------------------------------------------------------------
(* What is known of the registrations holds under the tool too.            *)

\* Without the services there is no call, no request and no undo.
LEMMA StoppedCall ==
    ASSUME TypeOK, LeftoverInv, NEW a \in Attempts, ContainersStop,
           spoiled' = spoiled
    PROVE  /\ pc'[a] \in {"idle", "registered", "failed", "crashed"}
           /\ Len(undos'[a]) = 0 /\ Due(a)' = {} /\ Quiet(a)'
           /\ InOrder(a)' /\ NotBoth(a)' /\ Present(a)' /\ Unspoiled(a)'
<1>1. CallInv(a)
    BY DEF LeftoverInv
<1>2. /\ pc'[a] = (IF Running(a) THEN "crashed" ELSE pc[a]) /\ undos'[a] = <<>>
      /\ handler'[a] = (IF Quiet(a) THEN handler[a] ELSE "gone")
    BY DEF ContainersStop
<1>3. Len(undos'[a]) = 0
    BY <1>2, EmptySeq
<1>4. Due(a)' = {}
    BY <1>3, RankType DEF Due
<1>5. pc'[a] \in {"idle", "registered", "failed", "crashed"} /\ ~Forward(a)'
    BY <1>2 DEF TypeOK, Running, Forward, Phases
<1>6. InOrder(a)' /\ NotBoth(a)' /\ Present(a)'
    BY <1>3, <1>4, <1>5 DEF InOrder, NotBoth, Present, Recorded
<1>7. Unspoiled(a)'
    BY <1>1, <1>2, <1>5 DEF CallInv, Unspoiled, Quiet
<1>8. QED  BY <1>2, <1>3, <1>4, <1>5, <1>6, <1>7 DEF Quiet

\* Deleting everything leaves nothing to explain.
LEMMA DeletedKeepsLeft ==
    ASSUME TypeOK, LeftoverInv, ContainersStop, spoiled' = spoiled,
           rows' = [a \in Attempts |-> {}]
    PROVE  LeftoverInv'
<1> SUFFICES ASSUME NEW a \in Attempts PROVE CallInv(a)'
    BY DEF LeftoverInv
<1>1. CallInv(a)
    BY DEF LeftoverInv
<1>2. /\ rows'[a] = {} /\ pc'[a] = (IF Running(a) THEN "crashed" ELSE pc[a])
      /\ handler'[a] = (IF Quiet(a) THEN handler[a] ELSE "gone")
    BY DEF ContainersStop
<1>3. /\ pc'[a] \in {"idle", "registered", "failed", "crashed"}
      /\ Due(a)' = {} /\ Quiet(a)'
      /\ InOrder(a)' /\ NotBoth(a)' /\ Present(a)' /\ Unspoiled(a)'
    BY StoppedCall
<1>4. Serving(a)'
  <2>1. MadeBy(handler'[a]) = {}
      BY <1>3 DEF Quiet, MadeBy
  <2>2. Unsent(a)' => handler'[a] = "none"
      BY <1>1, <1>2, <1>3 DEF CallInv, Serving, Unsent, Forward, Quiet
  <2>3. ~Delivered(a)'
      BY <1>2, <1>3 DEF Delivered
  <2>4. QED  BY <1>3, <2>1, <2>2, <2>3 DEF Serving
<1>5. Dropped(a)' /\ Kept(a)' /\ Rooted(a)' /\ Opened(a)'
    BY <1>2 DEF Dropped, Kept, Rooted, Opened
<1>6. QED  BY <1>3, <1>4, <1>5 DEF CallInv

\* With the data still there, every row is left as it was, and whoever was to
\* take it back has died.
LEMMA StoppedKeepsLeft ==
    ASSUME TypeOK, LeftoverInv, ContainersStop, spoiled' = spoiled, rows' = rows
    PROVE  LeftoverInv'
<1> SUFFICES ASSUME NEW a \in Attempts PROVE CallInv(a)'
    BY DEF LeftoverInv
<1>1. CallInv(a)
    BY DEF LeftoverInv
<1>2. /\ pc'[a] = (IF Running(a) THEN "crashed" ELSE pc[a])
      /\ handler'[a] = (IF Quiet(a) THEN handler[a] ELSE "gone")
    BY DEF ContainersStop
<1>3. /\ pc'[a] \in {"idle", "registered", "failed", "crashed"}
      /\ Due(a)' = {} /\ Quiet(a)'
      /\ InOrder(a)' /\ NotBoth(a)' /\ Present(a)' /\ Unspoiled(a)'
    BY StoppedCall
<1>4. \A kind : Explained(a, kind)' <=> Explained(a, kind)
    BY <1>2 DEF Explained, HasReason, Quiet
<1>5. Dropped(a)' /\ Rooted(a)'
    BY <1>1, <1>2, <1>4 DEF CallInv, Dropped, Rooted, Quiet
<1>6. MadeBy(handler'[a]) \subseteq rows'[a]
    BY <1>3 DEF MadeBy, Quiet
<1>7. "serviceResource" \in rows[a] => handler'[a] = "succeeded"
    BY <1>1, <1>2 DEF CallInv, Serving, Delivered, Quiet
<1>8. Delivered(a)' => handler'[a] = "succeeded"
    BY <1>3, <1>7 DEF Delivered
<1>9. CASE Running(a)
  <2>1. Kept(a)' /\ Opened(a)'
      BY <1>2, <1>9 DEF Kept, Opened
  <2>2. ~Unsent(a)' /\ pc'[a] = "crashed"
      BY <1>2, <1>9 DEF Unsent, Forward
  <2>3. Serving(a)'
      BY <1>3, <1>6, <1>8, <2>2 DEF Serving
  <2>4. QED  BY <1>3, <1>5, <2>1, <2>3 DEF CallInv
<1>10. CASE ~Running(a)
  <2>1. pc'[a] = pc[a] /\ Len(undos[a]) = 0
      BY <1>1, <1>2, <1>3, <1>10 DEF CallInv, InOrder, Recorded
  <2>2. Due(a) = {}
      BY <2>1, NothingDue
  <2>3. Kept(a)' /\ Opened(a)'
      BY <1>1, <1>3, <1>4, <2>1, <2>2 DEF CallInv, Kept, Accounted, Opened, CanSignIn
  <2>4. Unsent(a)' => handler'[a] = "none"
      BY <1>1, <1>2, <2>1 DEF CallInv, Serving, Unsent, Forward, Quiet
  <2>5. Serving(a)'
      BY <1>3, <1>6, <1>8, <2>4 DEF Serving
  <2>6. QED  BY <1>3, <1>5, <2>3, <2>5 DEF CallInv
<1>11. QED  BY <1>9, <1>10

\* However far ucode reset comes.
LEMMA DownKeepsLeft ==
    ASSUME TypeOK, LeftoverInv, Down
    PROVE  LeftoverInv'
<1>1. CASE ContainersStop /\ rows' = [a \in Attempts |-> {}]
    BY <1>1, DeletedKeepsLeft DEF Down
<1>2. CASE ContainersStop /\ rows' = rows
    BY <1>2, StoppedKeepsLeft DEF Down
<1>3. CASE UNCHANGED <<pc, undos, handler, rows>>
  <2>1. \A a \in Attempts : Untouched(a)
      BY <1>3 DEF Down, Untouched
  <2>2. QED  BY <2>1, UntouchedKeeps DEF LeftoverInv
<1>4. QED  BY <1>1, <1>2, <1>3 DEF Down

\* Every step keeps what is known of the registrations.
LEMMA LeftoverUnderTool ==
    ASSUME BootstrapTypeOK, PostingHasCall, LeftoverInv, [BootstrapNext]_allVars
    PROVE  LeftoverInv'
<1>1. TypeOK
    BY DEF BootstrapTypeOK
<1>2. CASE ServicesStep
    BY <1>1, <1>2, ServicesStepIsNext, LeftoverStep
<1>3. CASE ToolOnly \/ MarkBootstrapped \/ Interrupt \/ UNCHANGED allVars
  <2>1. \A a \in Attempts : Untouched(a)
      BY <1>3, ToolOnlyLeavesServices, MarkOrInterrupt DEF Untouched, allVars, vars
  <2>2. QED  BY <2>1, UntouchedKeeps DEF LeftoverInv
<1>5. CASE Down
    BY <1>1, <1>5, DownKeepsLeft
<1>6. ASSUME NEW a \in Attempts, Post(a)
      PROVE  LeftoverInv'
    BY <1>1, <1>6, PlainKeepsLeft DEF Post
<1>7. CASE ConnectionLost
  <2>1. call \in Attempts /\ HangUp(call)
      BY <1>7 DEF ConnectionLost, PostingHasCall
  <2>2. QED  BY <1>1, <2>1, PlainKeepsLeft
<1>8. QED  BY <1>2, <1>3, <1>5, <1>6, <1>7, BootstrapSteps

-----------------------------------------------------------------------------
(* One registration at a time.                                             *)

\* A registration that runs is the one the tool waits for, or one it left.
Alone ==
    \A a \in Attempts : Running(a) => a \in abandoned \/ (cli = "posting" /\ call = a)

\* With the marker there, the tool registers nothing.
MarkerAtRest == marker => cli \in AtRest \cup {"removeMarker"}

\* The services start no registration: only the tool does.
LEMMA ServicesStartNothing ==
    ASSUME TypeOK, LeftoverInv, ServicesStep
    PROVE  \A a \in Attempts : Running(a)' => Running(a)
<1> SUFFICES ASSUME NEW b \in Attempts, Running(b)' PROVE Running(b)
    OBVIOUS
<1>1. CASE AuthCrash \/ CompanyCrash
    BY <1>1 DEF AuthCrash, CompanyCrash, Running, Forward
<1>2. ASSUME NEW a \in Attempts, RegisterStep(a) \/ CreateResourceStep(a)
      PROVE  Running(b)
  <2>1. Local(a)
      BY <1>2, CallIsLocal DEF LeftoverInv
  <2>2. CASE b # a
      BY <2>1, <2>2 DEF Local, Running, Forward
  <2>3. CASE b = a /\ RegisterStep(a)
      BY <2>3
      DEF RegisterStep, CountCompanies, InsertCompany, CreateProject, CreateEnvironment,
          CreateApiKey, CreateUser, UpdateCompany, AddUserToProject, CallCreateResource,
          ResourceCreated, ResourceFailed, ResourceLost, UpdateServiceResource,
          UndoLast, RollbackTimesOut, FinishRollback, Write, Running, Forward
  <2>4. CASE b = a /\ CreateResourceStep(a)
    <3>1. pc' = pc
        BY <2>4
        DEF CreateResourceStep, CreateUserAndDatabase, PutSecret, InsertResource,
            InsertResourceEnvironment, RegisterBuilder, DropDatabase,
            AddResourceWrite, HandlerStep
    <3>2. QED  BY <3>1 DEF Running, Forward
  <2>5. QED  BY <1>2, <2>2, <2>3, <2>4
<1>3. QED  BY <1>1, <1>2 DEF ServicesStep

\* Every step keeps to one registration at a time, and none with the marker.
LEMMA AloneStep ==
    ASSUME BootstrapTypeOK, PostingHasCall, LeftoverInv, Alone, MarkerAtRest,
           [BootstrapNext]_allVars
    PROVE  Alone' /\ MarkerAtRest'
<1>1. TypeOK
    BY DEF BootstrapTypeOK
<1>2. CASE ServicesStep
    BY <1>1, <1>2, ServicesStepIsNext, ServicesStartNothing
    DEF Alone, MarkerAtRest, cliVars
<1>3. CASE UNCHANGED allVars
    BY <1>3 DEF allVars, vars, cliVars, Alone, MarkerAtRest, Running, Forward
<1>4. CASE ToolOnly
  <2>1. UNCHANGED <<pc, abandoned>>
      BY <1>4, ToolOnlyLeavesServices DEF vars
  <2>2. \A a \in Attempts : Running(a) => a \in abandoned
                              \/ (cli = "posting" /\ ~Answered /\ call = a)
      BY DEF Alone, Answered, Finished, Running, Forward
  <2>3. Alone'
      BY <1>4, <2>1, <2>2
      DEF ToolOnly, StartCmd, BootstrapTimeout, VerifySetup, RemoveMarker,
          Alone, Running, Forward, AtRest
  <2>4. MarkerAtRest'
      BY <1>4
      DEF ToolOnly, StartCmd, BootstrapTimeout, Answered, VerifySetup, RemoveMarker,
          MarkerAtRest, AtRest
  <2>5. QED  BY <2>3, <2>4
<1>5. CASE MarkBootstrapped
    BY <1>5 DEF MarkBootstrapped, Alone, MarkerAtRest, Running, Forward, AtRest
<1>6. CASE Interrupt
    BY <1>6 DEF Interrupt, Alone, MarkerAtRest, Running, Forward, AtRest
<1>7. CASE Down
  <2>1. \A a \in Attempts : Running(a)' => Running(a)
      BY <1>7 DEF Down, ContainersStop, Running, Forward
  <2>2. /\ cli \in AtRest /\ cli' \in {"failed", "removeMarker"}
        /\ UNCHANGED <<abandoned, marker>>
      BY <1>7 DEF Down
  <2>3. QED  BY <2>1, <2>2 DEF Alone, MarkerAtRest, AtRest
<1>8. ASSUME NEW a \in Attempts, Post(a)
      PROVE  Alone' /\ MarkerAtRest'
  <2>1. /\ cli = "bootstrap" /\ cli' = "posting" /\ call' = a
        /\ UNCHANGED <<marker, abandoned>> /\ \A b \in Attempts \ {a} : pc'[b] = pc[b]
      BY <1>1, <1>8 DEF Post, Start, GoTo, TypeOK
  <2>2. QED  BY <2>1 DEF Alone, MarkerAtRest, Running, Forward, AtRest
<1>9. CASE ConnectionLost
    BY <1>9 DEF ConnectionLost, HangUp, Alone, MarkerAtRest, Running, Forward, AtRest
<1>10. QED  BY <1>2, <1>3, <1>4, <1>5, <1>6, <1>7, <1>8, <1>9, BootstrapSteps

-----------------------------------------------------------------------------
(* What the services may do to a registration that has settled.            *)

\* Only a registration that runs is worked on by the auth service.
LEMMA RegisterStepRuns ==
    ASSUME TypeOK, NEW a \in Attempts, RegisterStep(a)
    PROVE  Running(a)
BY DEF RegisterStep, CountCompanies, InsertCompany, CreateProject, CreateEnvironment,
       CreateApiKey, CreateUser, UpdateCompany, AddUserToProject, CallCreateResource,
       ResourceCreated, ResourceFailed, ResourceLost, UpdateServiceResource,
       UndoLast, RollbackTimesOut, FinishRollback, Write, Running, Forward

\* A database request touches no company, and no phase.
LEMMA HandlerLeavesCompany ==
    ASSUME TypeOK, NEW a \in Attempts, CreateResourceStep(a)
    PROVE  /\ UNCHANGED <<pc, cause>> /\ ~Quiet(a)
           /\ spoiled[a] \subseteq spoiled'[a]
           /\ "company" \in rows'[a] <=> "company" \in rows[a]
<1>1. UNCHANGED <<pc, cause>> /\ ~Quiet(a) /\ spoiled[a] \subseteq spoiled'[a]
  <2>1. UNCHANGED <<pc, cause>> /\ ~Quiet(a)
    BY DEF CreateResourceStep, CreateUserAndDatabase, PutSecret, InsertResource,
           InsertResourceEnvironment, RegisterBuilder, DropDatabase,
           AddResourceWrite, HandlerStep, Quiet
  <2>2. spoiled[a] \subseteq spoiled'[a]
      BY HandlerIsLocal DEF Local
  <2>3. QED  BY <2>1, <2>2
<1>2. "company" \in rows'[a] <=> "company" \in rows[a]
  <2>1. ASSUME NEW here, NEW what \in ResourceRows, NEW next,
               AddResourceWrite(a, here, what, next)
        PROVE  "company" \in rows'[a] <=> "company" \in rows[a]
    <3>1. what # "company"
        BY DEF ResourceRows
    <3>2. QED  BY <2>1, <3>1 DEF TypeOK, AddResourceWrite
  <2>2. CASE CreateUserAndDatabase(a) \/ DropDatabase(a)
    <3>1. CASE CreateUserAndDatabase(a)
      <4>1. rows[a] \subseteq rows'[a] /\ rows'[a] \subseteq rows[a] \cup {"role", "database"}
          BY <3>1 DEF TypeOK, CreateUserAndDatabase
      <4>2. QED  BY <4>1
    <3>2. CASE DropDatabase(a)
      <4>1. rows'[a] \subseteq rows[a] /\ rows[a] \ rows'[a] \subseteq {"role", "database"}
          BY <3>2 DEF TypeOK, DropDatabase
      <4>2. QED  BY <4>1
    <3>3. QED  BY <2>2, <3>1, <3>2
  <2>3. CASE PutSecret(a) \/ InsertResource(a) \/ RegisterBuilder(a)
    <3>1. {"secret", "resource", "pool"} \subseteq ResourceRows
        BY DEF ResourceRows
    <3>2. QED  BY <2>1, <2>3, <3>1 DEF PutSecret, InsertResource, RegisterBuilder
  <2>4. CASE InsertResourceEnvironment(a)
    <3>1. CASE AddResourceWrite(a, "insertResourceEnv", "resourceEnv", "registerBuilder")
        BY <2>1, <3>1 DEF ResourceRows
    <3>2. CASE rows' = rows
        BY <3>2
    <3>3. QED  BY <2>4, <3>1, <3>2 DEF InsertResourceEnvironment
  <2>5. QED  BY <2>2, <2>3, <2>4 DEF CreateResourceStep
<1>3. QED  BY <1>1, <1>2

\* A settled registration someone can sign in to, and one that keeps its
\* company for a reason.
Usable(a) == ~Running(a) /\ CanSignIn(a)
Stuck(a) ==
    /\ ~Running(a) /\ "company" \in rows[a]
    /\ "company" \in spoiled[a] \/ pc[a] = "crashed"

\* Whatever the services do, it stays usable, or stuck.
LEMMA SettledStays ==
    ASSUME TypeOK, LeftoverInv, ServicesStep, NEW b \in Attempts, ~Running(b)
    PROVE  /\ ~Running(b)' /\ pc'[b] = pc[b]
           /\ Usable(b) => Usable(b)'
           /\ Stuck(b) => Stuck(b)'
<1>1. ~Running(b)'
    BY ServicesStartNothing
<1>2. CASE AuthCrash \/ CompanyCrash
  <2>1. pc'[b] = pc[b] /\ UNCHANGED <<rows, spoiled>>
      BY <1>2 DEF AuthCrash, CompanyCrash, Running, Forward
  <2>2. QED  BY <1>1, <2>1 DEF Usable, Stuck, CanSignIn
<1>3. ASSUME NEW a \in Attempts \ {b}, RegisterStep(a) \/ CreateResourceStep(a)
      PROVE  pc'[b] = pc[b] /\ rows'[b] = rows[b] /\ spoiled'[b] = spoiled[b]
    BY <1>3, CallIsLocal DEF Local, LeftoverInv
<1>4. CASE \E a \in Attempts \ {b} : RegisterStep(a) \/ CreateResourceStep(a)
    BY <1>1, <1>3, <1>4 DEF Usable, Stuck, CanSignIn
<1>5. CASE CreateResourceStep(b)
  <2>1. /\ pc' = pc /\ ~Quiet(b) /\ spoiled[b] \subseteq spoiled'[b]
        /\ "company" \in rows'[b] <=> "company" \in rows[b]
      BY <1>5, HandlerLeavesCompany
  <2>2. ~CanSignIn(b)
      BY <2>1 DEF LeftoverInv, CallInv, Serving, Delivered, Quiet, CanSignIn, SignInNeeds
  <2>3. QED  BY <1>1, <2>1, <2>2 DEF Usable, Stuck
<1>6. QED  BY <1>2, <1>4, <1>5, RegisterStepRuns DEF ServicesStep

\* A company row comes only with InsertCompany, after which the call is no
\* longer about to insert one, and a call comes to insert one only when it has
\* counted fewer than the limit.
LEMMA CompaniesOfStep ==
    ASSUME TypeOK, NEW a \in Attempts, RegisterStep(a) \/ CreateResourceStep(a)
    PROVE  /\ "company" \in rows'[a] =>
                  "company" \in rows[a] \/ (pc[a] = "insertCompany" /\ pc'[a] # "insertCompany")
           /\ pc'[a] = "insertCompany" =>
                  pc[a] = "insertCompany" \/ (~LimitReached /\ rows' = rows)
<1>1. ASSUME NEW here \in Phases, NEW what \in Undoable,
             NEW next \in Phases \ {"insertCompany"}, Write(a, here, what, next)
      PROVE  /\ pc[a] = here /\ pc'[a] # "insertCompany"
             /\ "company" \in rows'[a] => "company" \in rows[a] \/ what = "company"
    BY <1>1 DEF TypeOK, Write, GoTo, Fail
<1>2. CASE InsertCompany(a)
    BY <1>1, <1>2 DEF InsertCompany, Phases, Undoable
<1>3. CASE CreateProject(a) \/ CreateEnvironment(a) \/ CreateApiKey(a) \/ AddUserToProject(a)
    BY <1>1, <1>3
    DEF CreateProject, CreateEnvironment, CreateApiKey, AddUserToProject, Phases, Undoable
<1>4. CASE CreateUser(a)
  <2>1. CASE Write(a, "createUser", "user", "updateCompany")
      BY <1>1, <2>1 DEF Phases, Undoable
  <2>2. CASE Fail(a, "error") /\ rows' = rows
      BY <2>2 DEF TypeOK, Fail, GoTo
  <2>3. QED  BY <1>4, <2>1, <2>2 DEF CreateUser
<1>5. CASE \/ CountCompanies(a) \/ UpdateCompany(a) \/ CallCreateResource(a)
           \/ ResourceCreated(a) \/ ResourceFailed(a) \/ ResourceLost(a)
           \/ UpdateServiceResource(a) \/ UndoLast(a) \/ RollbackTimesOut(a)
           \/ FinishRollback(a)
  <2>1. /\ "company" \in rows'[a] => "company" \in rows[a]
        /\ pc'[a] = "insertCompany" => ~LimitReached /\ rows' = rows
      BY <1>5
      DEF TypeOK, CountCompanies, UpdateCompany, CallCreateResource, ResourceCreated,
          ResourceFailed, ResourceLost, UpdateServiceResource, UndoLast,
          RollbackTimesOut, FinishRollback, GoTo, Fail
  <2>2. QED  BY <2>1
<1>6. CASE CreateResourceStep(a)
  <2>1. pc' = pc /\ ("company" \in rows'[a] <=> "company" \in rows[a])
      BY <1>6, HandlerLeavesCompany
  <2>2. QED  BY <2>1
<1>7. QED  BY <1>2, <1>3, <1>4, <1>5, <1>6 DEF RegisterStep

-----------------------------------------------------------------------------
(* The number of companies.                                                *)

\* A call about to insert its company has room for it.
RoomForCompany ==
    MaxCompanies > 0 =>
        /\ IsFiniteSet(Companies) /\ Cardinality(Companies) <= MaxCompanies
        /\ (\E a \in Attempts : pc[a] = "insertCompany") =>
               Cardinality(Companies) < MaxCompanies

\* It stays so while no company comes and nobody comes to insert one.
LEMMA NoMoreCompanies ==
    ASSUME RoomForCompany, Companies' \subseteq Companies,
           (\E a \in Attempts : pc'[a] = "insertCompany") =>
               (\E a \in Attempts : pc[a] = "insertCompany")
    PROVE  RoomForCompany'
<1> SUFFICES ASSUME MaxCompanies > 0
             PROVE  /\ IsFiniteSet(Companies') /\ Cardinality(Companies') <= MaxCompanies
                    /\ (\E a \in Attempts : pc'[a] = "insertCompany") =>
                           Cardinality(Companies') < MaxCompanies
    BY DEF RoomForCompany
<1>1. IsFiniteSet(Companies) /\ Cardinality(Companies) <= MaxCompanies
    BY DEF RoomForCompany
<1>2. IsFiniteSet(Companies') /\ Cardinality(Companies') <= Cardinality(Companies)
    BY <1>1, FS_Subset
<1>3. Cardinality(Companies) \in Nat /\ Cardinality(Companies') \in Nat /\ MaxCompanies \in Nat
    BY <1>1, <1>2, FS_CardinalityType, MaxCompaniesAssumption
<1>4. QED  BY <1>1, <1>2, <1>3 DEF RoomForCompany

\* One registration at a time, each counting before it inserts.
LEMMA ServicesKeepRoom ==
    ASSUME TypeOK, LeftoverInv, Alone, abandoned = {}, RoomForCompany, ServicesStep
    PROVE  RoomForCompany'
<1>1. CASE AuthCrash \/ CompanyCrash
  <2>1. Companies' = Companies
      BY <1>1 DEF AuthCrash, CompanyCrash, Companies
  <2>2. \A a \in Attempts : pc'[a] = "insertCompany" => pc[a] = "insertCompany"
      BY <1>1 DEF AuthCrash, CompanyCrash
  <2>3. QED  BY <2>1, <2>2, NoMoreCompanies
<1>2. ASSUME NEW a \in Attempts, RegisterStep(a) \/ CreateResourceStep(a)
      PROVE  RoomForCompany'
  <2>1. \A b \in Attempts \ {a} : pc'[b] = pc[b] /\ rows'[b] = rows[b]
      BY <1>2, CallIsLocal DEF Local, LeftoverInv
  <2>2. /\ "company" \in rows'[a] =>
               "company" \in rows[a] \/ (pc[a] = "insertCompany" /\ pc'[a] # "insertCompany")
        /\ pc'[a] = "insertCompany" =>
               pc[a] = "insertCompany" \/ (~LimitReached /\ rows' = rows)
      BY <1>2, CompaniesOfStep
  <2>3. \A b \in Attempts : pc[b] = "insertCompany" => Running(b)
      BY DEF Running, Forward
  <2>4. CASE pc[a] = "insertCompany" /\ pc'[a] # "insertCompany"
    <3>1. \A b \in Attempts \ {a} : pc[b] # "insertCompany"
        BY <2>3, <2>4 DEF Alone
    <3>2. \A b \in Attempts : pc'[b] # "insertCompany"
        BY <2>1, <2>4, <3>1
    <3>3. Companies' \subseteq Companies \cup {a}
        BY <2>1 DEF Companies
    <3>4. ASSUME MaxCompanies > 0
          PROVE  IsFiniteSet(Companies') /\ Cardinality(Companies') <= MaxCompanies
      <4>1. IsFiniteSet(Companies) /\ Cardinality(Companies) < MaxCompanies
          BY <2>4, <3>4 DEF RoomForCompany
      <4>2. /\ IsFiniteSet(Companies \cup {a})
            /\ Cardinality(Companies \cup {a}) \in
                   {Cardinality(Companies), Cardinality(Companies) + 1}
          BY <4>1, FS_AddElement
      <4>3. IsFiniteSet(Companies') /\ Cardinality(Companies') <= Cardinality(Companies \cup {a})
          BY <3>3, <4>2, FS_Subset
      <4>4. /\ Cardinality(Companies) \in Nat /\ Cardinality(Companies') \in Nat
            /\ MaxCompanies \in Nat
          BY <4>1, <4>3, FS_CardinalityType, MaxCompaniesAssumption
      <4>5. QED  BY <4>1, <4>2, <4>3, <4>4
    <3>5. QED  BY <3>2, <3>4 DEF RoomForCompany
  <2>5. CASE pc'[a] = "insertCompany" /\ pc[a] # "insertCompany"
    <3>1. ~LimitReached /\ Companies' = Companies
        BY <2>2, <2>5 DEF Companies
    <3>2. ASSUME MaxCompanies > 0
          PROVE  Cardinality(Companies) < MaxCompanies
      <4>1. IsFiniteSet(Companies)
          BY <3>2 DEF RoomForCompany
      <4>2. Cardinality(Companies) \in Nat /\ MaxCompanies \in Nat
          BY <4>1, FS_CardinalityType, MaxCompaniesAssumption
      <4>3. ~(Cardinality(Companies) >= MaxCompanies)
          BY <3>1, <3>2 DEF LimitReached
      <4>4. QED  BY <4>2, <4>3
    <3>3. QED  BY <3>1, <3>2 DEF RoomForCompany
  <2>6. CASE pc'[a] = "insertCompany" <=> pc[a] = "insertCompany"
    <3>1. Companies' \subseteq Companies
        BY <2>1, <2>2, <2>6 DEF Companies
    <3>2. QED  BY <2>1, <2>6, <3>1, NoMoreCompanies
  <2>7. QED  BY <2>4, <2>5, <2>6
<1>3. QED  BY <1>1, <1>2 DEF ServicesStep

-----------------------------------------------------------------------------
(* What the tool's phase tells of the registrations.                       *)

\* The tool writes the marker, and has written it, for a usable installation.
MarkedUsable ==
    cli = "mark" \/ (marker /\ cli # "removeMarker" /\ ~cut) => \E b \in Attempts : Usable(b)

\* A call answered "registered" has its company until everything is deleted,
\* and the tool deletes nothing before it has read the answer.
RegisteredHasCompany ==
    cli = "posting" /\ pc[call] = "registered" => "company" \in rows[call]

\* The answer the tool waits for will name MAX_COMPANIES.
LimitAnswer ==
    cli = "posting" /\ pc[call] \in {"rollback", "failed"} /\ cause[call] = "limit"

\* Behind such an answer, and behind what the tool tries out, there is a
\* settled registration that is usable or stuck; behind "unusable" too.
Reason == \E b \in Attempts : Usable(b) \/ Stuck(b)
ReasonKnown ==
    "skipped" \notin Faults =>
        (LimitAnswer \/ cli \in {"verify", "unusable"} => Reason)

ToolKnows ==
    NobodyHungUp => MarkedUsable /\ RegisteredHasCompany /\ RoomForCompany /\ ReasonKnown

\* While nobody was left behind, a settled company is one the administrator
\* can sign in to, or stuck.
LEMMA SettledCompany ==
    ASSUME TypeOK, LeftoverInv, "skipped" \notin Faults, NEW b \in Attempts,
           ~Running(b), "company" \in rows[b]
    PROVE  Usable(b) \/ Stuck(b)
<1>1. CallInv(b)
    BY DEF LeftoverInv
<1>2. pc[b] \in {"idle", "registered", "failed", "crashed"}
    BY DEF TypeOK, Running, Forward, Phases
<1>3. CASE pc[b] = "registered"
    BY <1>1, <1>3 DEF CallInv, Opened, Usable
<1>4. CASE pc[b] = "crashed"
    BY <1>4 DEF Stuck
<1>5. CASE pc[b] \in {"idle", "failed"}
  <2>1. Due(b) = {}
      BY <1>1, <1>5, NothingDue DEF CallInv, InOrder, Recorded
  <2>2. Explained(b, "company")
      BY <1>1, <1>5, <2>1 DEF CallInv, Kept, Accounted
  <2>3. ReferencedBy("company") = {} /\ UndoOf("company") = "company"
      BY DEF ReferencedBy, UndoOf
  <2>4. "company" \in spoiled[b]
      BY <2>2, <2>3, ExplainedByItself DEF HasReason
  <2>5. QED  BY <2>4 DEF Stuck
<1>6. QED  BY <1>2, <1>3, <1>4, <1>5

\* A count that reaches the limit has counted a settled company.
LEMMA LimitHasReason ==
    ASSUME TypeOK, LeftoverInv, Alone, NobodyHungUp, RoomForCompany,
           "skipped" \notin Faults, cli = "posting", call \in Attempts,
           pc[call] = "count", LimitReached
    PROVE  Reason
<1>1. MaxCompanies > 0 /\ Cardinality(Companies) >= MaxCompanies
    BY DEF LimitReached
<1>2. Companies # {}
  <2>1. SUFFICES ASSUME Companies = {} PROVE FALSE
      OBVIOUS
  <2>2. Cardinality(Companies) = 0
      BY <2>1, FS_EmptySet
  <2>3. QED  BY <1>1, <2>2, MaxCompaniesAssumption
<1>3. PICK b \in Attempts : "company" \in rows[b]
    BY <1>2 DEF Companies
<1>4. b # call
  <2>1. CallInv(call)
      BY DEF LeftoverInv
  <2>2. Due(call) = {}
      BY <2>1, NothingDue DEF CallInv, InOrder, Recorded
  <2>3. Forward(call) /\ handler[call] # "failed"
      BY <2>1 DEF CallInv, Serving, Unsent, Forward
  <2>4. ~Explained(call, "company")
      BY <2>1, <2>3, NothingExplained
  <2>5. "company" \notin rows[call]
      BY <2>1, <2>2, <2>4 DEF CallInv, Kept, Accounted
  <2>6. QED  BY <1>3, <2>5
<1>5. ~Running(b)
    BY <1>4 DEF Alone, NobodyHungUp
<1>6. QED  BY <1>3, <1>5, SettledCompany DEF Reason

\* A call comes to fail for the limit only by counting up to it.
LEMMA CauseOfStep ==
    ASSUME TypeOK, LeftoverInv, ServicesStep, NEW c \in Attempts,
           pc'[c] \in {"rollback", "failed"}, cause'[c] = "limit"
    PROVE  \/ pc[c] \in {"rollback", "failed"} /\ cause[c] = "limit"
           \/ /\ pc[c] = "count" /\ LimitReached
              /\ UNCHANGED <<rows, spoiled>> /\ \A b \in Attempts \ {c} : pc'[b] = pc[b]
<1>1. CASE AuthCrash \/ CompanyCrash
    BY <1>1 DEF AuthCrash, CompanyCrash, TypeOK
<1>2. ASSUME NEW a \in Attempts, a # c, RegisterStep(a) \/ CreateResourceStep(a)
      PROVE  pc'[c] = pc[c] /\ cause'[c] = cause[c]
  <2>1. Local(a)
      BY <1>2, CallIsLocal DEF LeftoverInv
  <2>2. cause'[c] = cause[c]
      BY <1>2, HandlerLeavesCompany
      DEF TypeOK, RegisterStep, CountCompanies, InsertCompany, CreateProject,
          CreateEnvironment, CreateApiKey, CreateUser, UpdateCompany, AddUserToProject,
          CallCreateResource, ResourceCreated, ResourceFailed, ResourceLost,
          UpdateServiceResource, UndoLast, RollbackTimesOut, FinishRollback, Write, Fail
  <2>3. QED  BY <1>2, <2>1, <2>2 DEF Local
<1>3. CASE CountCompanies(c)
    BY <1>3 DEF TypeOK, CountCompanies, GoTo, Fail
<1>4. CASE RegisterStep(c) /\ ~CountCompanies(c)
  <2>1. \/ pc'[c] \notin {"rollback", "failed"} \/ cause'[c] = "error"
        \/ pc[c] = "rollback" /\ cause' = cause
      BY <1>4
      DEF TypeOK, RegisterStep, InsertCompany, CreateProject,
          CreateEnvironment, CreateApiKey, CreateUser, UpdateCompany, AddUserToProject,
          CallCreateResource, ResourceCreated, ResourceFailed, ResourceLost,
          UpdateServiceResource, UndoLast, RollbackTimesOut, FinishRollback, Write, GoTo, Fail
  <2>2. QED  BY <2>1
<1>5. CASE CreateResourceStep(c)
    BY <1>5, HandlerLeavesCompany
<1>6. QED  BY <1>1, <1>2, <1>3, <1>4, <1>5 DEF ServicesStep

-----------------------------------------------------------------------------
(* Every step keeps what the tool knows.                                   *)

\* A settled registration is usable or stuck as before when a step leaves its
\* phase, its rows and its history alone.
LEMMA SameStanding ==
    ASSUME NEW b \in Attempts, pc'[b] = pc[b], rows'[b] = rows[b], spoiled'[b] = spoiled[b]
    PROVE  /\ Usable(b) => Usable(b)'
           /\ Stuck(b) => Stuck(b)'
BY DEF Usable, Stuck, CanSignIn, Running, Forward

\* The invariant a step of Bootstrap may count on.
BootstrapInv ==
    /\ BootstrapTypeOK /\ PostingHasCall /\ LeftoverInv
    /\ Alone /\ MarkerAtRest /\ ToolKnows

\* The services, while the tool waits or is at rest.
LEMMA ServicesKeepKnowledge ==
    ASSUME BootstrapInv, ServicesStep, NobodyHungUp
    PROVE  MarkedUsable' /\ RegisteredHasCompany' /\ RoomForCompany' /\ ReasonKnown'
<1>1. /\ TypeOK /\ LeftoverInv /\ Alone /\ UNCHANGED cliVars
      /\ MarkedUsable /\ RegisteredHasCompany /\ RoomForCompany /\ ReasonKnown
    BY DEF BootstrapInv, BootstrapTypeOK, ToolKnows, ServicesStep
<1>2. \A b \in Attempts : (Usable(b) => Usable(b)') /\ (Stuck(b) => Stuck(b)')
    BY <1>1, SettledStays DEF Usable, Stuck
<1>3. MarkedUsable'
    BY <1>1, <1>2 DEF MarkedUsable, cliVars
<1>4. RoomForCompany'
    BY <1>1, ServicesKeepRoom DEF NobodyHungUp
<1>5. RegisteredHasCompany'
  <2> SUFFICES ASSUME cli = "posting", pc'[call] = "registered"
               PROVE  "company" \in rows'[call]
      BY <1>1 DEF RegisteredHasCompany, cliVars
  <2>1. call \in Attempts
      BY DEF BootstrapInv, PostingHasCall
  <2>2. CASE pc[call] = "registered"
    <3>1. "company" \in rows[call]
        BY <1>1, <2>2 DEF RegisteredHasCompany
    <3>2. CASE AuthCrash \/ CompanyCrash
        BY <3>1, <3>2 DEF AuthCrash, CompanyCrash
    <3>3. ASSUME NEW a \in Attempts \ {call}, RegisterStep(a) \/ CreateResourceStep(a)
          PROVE  "company" \in rows'[call]
        BY <1>1, <2>1, <3>1, <3>3, CallIsLocal DEF Local, LeftoverInv
    <3>4. CASE CreateResourceStep(call)
        BY <1>1, <2>1, <3>1, <3>4, HandlerLeavesCompany
    <3>5. ~Running(call)
        BY <2>2 DEF Running, Forward
    <3>6. QED  BY <1>1, <2>1, <3>2, <3>3, <3>4, <3>5, RegisterStepRuns DEF ServicesStep
  <2>3. CASE pc[call] # "registered"
    <3>1. ~AuthCrash /\ ~CompanyCrash
        BY <2>1, <2>3 DEF AuthCrash, CompanyCrash
    <3>2. PICK a \in Attempts : RegisterStep(a) \/ CreateResourceStep(a)
        BY <3>1 DEF ServicesStep
    <3>3. Local(a)
        BY <1>1, <3>2, CallIsLocal DEF LeftoverInv
    <3>4. a = call
        BY <2>1, <2>3, <3>3 DEF Local
    <3>5. pc[call] = "updateServices" /\ rows[call] \subseteq rows'[call]
        BY <2>3, <3>3, <3>4 DEF Local
    <3>6. Undoable \ {"projectDatabase"} \subseteq rows[call]
        BY <1>1, <2>1, <3>5, ReadyForServices DEF LeftoverInv
    <3>7. QED  BY <3>5, <3>6 DEF Undoable
  <2>4. QED  BY <2>2, <2>3
<1>6. ReasonKnown'
  <2> SUFFICES ASSUME "skipped" \notin Faults
               PROVE  LimitAnswer' \/ cli \in {"verify", "unusable"} => Reason'
      BY <1>1 DEF ReasonKnown, cliVars
  <2>1. Reason => Reason'
      BY <1>2 DEF Reason
  <2>2. ASSUME LimitAnswer'
        PROVE  Reason'
    <3>1. /\ cli = "posting" /\ call \in Attempts
          /\ pc'[call] \in {"rollback", "failed"} /\ cause'[call] = "limit"
        BY <1>1, <2>2 DEF LimitAnswer, cliVars, BootstrapInv, PostingHasCall
    <3>2. CASE pc[call] \in {"rollback", "failed"} /\ cause[call] = "limit"
        BY <1>1, <2>1, <3>1, <3>2 DEF LimitAnswer, ReasonKnown
    <3>3. CASE pc[call] = "count" /\ LimitReached
        BY <1>1, <2>1, <3>1, <3>3, LimitHasReason
    <3>4. QED  BY <1>1, <3>1, <3>2, <3>3, CauseOfStep
  <2>3. QED  BY <1>1, <1>2, <2>1, <2>2 DEF ReasonKnown
<1>7. QED  BY <1>3, <1>4, <1>5, <1>6

\* The tool reads an answer, tries the installation out, or starts again.
LEMMA ToolKeepsKnowledge ==
    ASSUME BootstrapInv, ToolOnly, NobodyHungUp
    PROVE  MarkedUsable' /\ RegisteredHasCompany' /\ RoomForCompany' /\ ReasonKnown'
<1>1. /\ TypeOK /\ LeftoverInv /\ Alone /\ MarkerAtRest
      /\ MarkedUsable /\ RegisteredHasCompany /\ RoomForCompany /\ ReasonKnown
    BY DEF BootstrapInv, BootstrapTypeOK, ToolKnows
<1>2. UNCHANGED <<pc, rows, spoiled, cause>>
    BY ToolOnlyLeavesServices
<1>3. \A b \in Attempts : (Usable(b) <=> Usable(b)') /\ (Stuck(b) <=> Stuck(b)')
    BY <1>2 DEF Usable, Stuck, CanSignIn, Running, Forward
<1>4. RoomForCompany'
    BY <1>1, <1>2 DEF RoomForCompany, Companies
<1>5. cli' # "posting"
    BY DEF ToolOnly, StartCmd, BootstrapTimeout, Answered, VerifySetup, RemoveMarker
<1>6. CASE StartCmd \/ BootstrapTimeout \/ RemoveMarker
  <2>1. cli' \notin {"mark", "verify", "unusable", "posting", "removeMarker"}
      BY <1>6 DEF StartCmd, BootstrapTimeout, RemoveMarker
  <2>2. marker' /\ ~cut' => marker /\ cli # "removeMarker" /\ ~cut
      BY <1>6 DEF StartCmd, BootstrapTimeout, RemoveMarker, AtRest
  <2>3. QED  BY <1>1, <1>3, <1>4, <2>1, <2>2
             DEF MarkedUsable, RegisteredHasCompany, ReasonKnown, LimitAnswer
<1>7. CASE Answered
  <2>1. ~marker /\ ~marker'
      BY <1>1, <1>7 DEF Answered, MarkerAtRest, AtRest
  <2>2. /\ cli' \in {"verify", "bootstrap", "failed"}
        /\ cli' = "verify" => pc[call] = "registered" \/ LimitAnswer
      BY <1>7 DEF Answered, LimitAnswer
  <2>3. ASSUME "skipped" \notin Faults, pc[call] = "registered"
        PROVE  Reason
    <3>1. call \in Attempts /\ "company" \in rows[call]
        BY <1>1, <1>7, <2>3 DEF Answered, BootstrapInv, PostingHasCall, RegisteredHasCompany
    <3>2. ~Running(call)
        BY <2>3 DEF Running, Forward
    <3>3. QED  BY <1>1, <2>3, <3>1, <3>2, SettledCompany DEF Reason
  <2>4. "skipped" \notin Faults /\ cli' = "verify" => Reason
      BY <1>1, <2>2, <2>3 DEF ReasonKnown
  <2>5. QED  BY <1>3, <1>4, <2>1, <2>2, <2>4
             DEF MarkedUsable, RegisteredHasCompany, ReasonKnown, LimitAnswer, Reason
<1>8. CASE VerifySetup
  <2>1. /\ cli = "verify" /\ cli' \in {"mark", "unusable"} /\ UNCHANGED <<marker, cut>>
        /\ cli' = "mark" => \E a \in Attempts : CanSignIn(a)
      BY <1>8 DEF VerifySetup
  <2>2. ~marker
      BY <1>1, <2>1 DEF MarkerAtRest, AtRest
  <2>3. \A a \in Attempts : ~Running(a)
      BY <1>1, <2>1 DEF Alone, NobodyHungUp
  <2>4. cli' = "mark" => \E b \in Attempts : Usable(b)
      BY <2>1, <2>3 DEF Usable
  <2>5. "skipped" \notin Faults => Reason
      BY <1>1, <2>1 DEF ReasonKnown
  <2>6. QED  BY <1>3, <1>4, <2>1, <2>2, <2>4, <2>5
             DEF MarkedUsable, RegisteredHasCompany, ReasonKnown, LimitAnswer, Reason
<1>9. QED  BY <1>6, <1>7, <1>8 DEF ToolOnly

\* The other steps of the tool: it posts, writes the marker, is interrupted
\* while it waits for nothing, or deletes everything.
LEMMA OthersKeepKnowledge ==
    ASSUME BootstrapInv, NobodyHungUp, NobodyHungUp',
           \/ \E a \in Attempts : Post(a)
           \/ MarkBootstrapped \/ Interrupt \/ Down \/ ConnectionLost
    PROVE  MarkedUsable' /\ RegisteredHasCompany' /\ RoomForCompany' /\ ReasonKnown'
<1>1. /\ TypeOK /\ LeftoverInv /\ Alone /\ MarkerAtRest
      /\ MarkedUsable /\ RegisteredHasCompany /\ RoomForCompany /\ ReasonKnown
    BY DEF BootstrapInv, BootstrapTypeOK, ToolKnows
<1>2. ASSUME NEW a \in Attempts, Post(a)
      PROVE  MarkedUsable' /\ RegisteredHasCompany' /\ RoomForCompany' /\ ReasonKnown'
  <2>1. /\ cli = "bootstrap" /\ cli' = "posting" /\ call' = a /\ pc'[a] = "count"
        /\ UNCHANGED <<marker, rows>> /\ \A b \in Attempts \ {a} : pc'[b] = pc[b]
      BY <1>1, <1>2 DEF Post, Start, GoTo, TypeOK
  <2>2. ~marker'
      BY <1>1, <2>1 DEF MarkerAtRest, AtRest
  <2>3. Companies' \subseteq Companies
      BY <2>1 DEF Companies
  <2>4. RoomForCompany'
      BY <1>1, <2>1, <2>3, NoMoreCompanies
  <2>5. QED  BY <2>1, <2>2, <2>4
             DEF MarkedUsable, RegisteredHasCompany, ReasonKnown, LimitAnswer
<1>3. CASE MarkBootstrapped \/ Interrupt
  <2>1. UNCHANGED <<pc, rows, spoiled>>
      BY <1>3, MarkOrInterrupt
  <2>2. \A b \in Attempts : Usable(b) => Usable(b)'
      BY <2>1, SameStanding
  <2>3. Companies' \subseteq Companies
      BY <2>1 DEF Companies
  <2>4. RoomForCompany'
      BY <1>1, <2>1, <2>3, NoMoreCompanies
  <2>5. cli' \in {"ready", "failed", "idle"}
      BY <1>3 DEF MarkBootstrapped, Interrupt
  <2>6. marker' /\ ~cut' => cli = "mark"
    <3>1. CASE MarkBootstrapped
        BY <3>1 DEF MarkBootstrapped
    <3>2. CASE Interrupt
        BY <1>1, <3>2 DEF Interrupt, MarkerAtRest
    <3>3. QED  BY <1>3, <3>1, <3>2
  <2>7. MarkedUsable'
      BY <1>1, <2>2, <2>5, <2>6 DEF MarkedUsable
  <2>8. QED  BY <2>4, <2>5, <2>7
             DEF RegisteredHasCompany, ReasonKnown, LimitAnswer
<1>4. CASE Down
  <2>1. /\ cli \in AtRest /\ cli' \in {"failed", "removeMarker"} /\ marker' = marker
        /\ \A a \in Attempts : pc'[a] = "insertCompany" => pc[a] = "insertCompany"
        /\ rows' = [a \in Attempts |-> {}] \/ rows' = rows
      BY <1>4 DEF Down, ContainersStop, Running, Forward
  <2>2. Companies' \subseteq Companies
      BY <2>1 DEF Companies
  <2>3. RoomForCompany'
      BY <1>1, <2>1, <2>2, NoMoreCompanies
  <2>4. cli' # "removeMarker" /\ marker' /\ ~cut' => ~cut /\ rows' = rows
    <3>1. CASE UNCHANGED <<rows, cut>>
        BY <2>1, <3>1
    <3>2. CASE cut' = (cut \/ marker)
        BY <2>1, <3>2
    <3>3. QED  BY <1>4, <3>1, <3>2 DEF Down
  <2>5. ASSUME NEW b \in Attempts, Usable(b), rows' = rows
        PROVE  Usable(b)'
    <3>1. pc'[b] = pc[b]
        BY <1>4, <2>5 DEF Down, ContainersStop, Usable
    <3>2. QED  BY <2>5, <3>1 DEF Usable, CanSignIn, Running, Forward
  <2>6. MarkedUsable'
      BY <1>1, <2>1, <2>4, <2>5 DEF MarkedUsable, AtRest
  <2>7. QED  BY <2>1, <2>3, <2>6
             DEF RegisteredHasCompany, ReasonKnown, LimitAnswer
<1>5. ~ConnectionLost
    BY DEF ConnectionLost, NobodyHungUp
<1>6. QED  BY <1>2, <1>3, <1>4, <1>5

\* A call the tool left stays left.
LEMMA AbandonedStays ==
    ASSUME [BootstrapNext]_allVars, NobodyHungUp'
    PROVE  NobodyHungUp
<1>1. abandoned \subseteq abandoned'
  <2>1. CASE ToolOnly \/ ServicesStep \/ UNCHANGED allVars
      BY <2>1, ToolOnlyLeavesServices DEF ServicesStep, cliVars, allVars
  <2>2. CASE \/ MarkBootstrapped \/ Interrupt \/ Down \/ ConnectionLost
             \/ \E a \in Attempts : Post(a)
      BY <2>2 DEF MarkBootstrapped, Interrupt, Down, ConnectionLost, Post
  <2>3. QED  BY <2>1, <2>2, BootstrapSteps
<1>2. QED  BY <1>1 DEF NobodyHungUp

-----------------------------------------------------------------------------
(* The theorems.                                                           *)

\* Before the first start there is nothing.
LEMMA BootstrapInvInit ==
    ASSUME BootstrapInit
    PROVE  BootstrapInv
<1>1. Init /\ cli = "idle" /\ marker = FALSE
    BY DEF BootstrapInit
<1>2. BootstrapTypeOK /\ PostingHasCall
  <2>1. TypeOK
      BY <1>1, EmptySeq, MaxFailuresAssumption DEF Init, TypeOK, Phases, HandlerPhases
  <2>2. QED  BY <2>1 DEF BootstrapInit, BootstrapTypeOK, PostingHasCall, CliPhases
<1>3. LeftoverInv
    BY <1>1, LeftoverInit
<1>4. Alone /\ MarkerAtRest
    BY <1>1 DEF Alone, MarkerAtRest, Init, Running, Forward
<1>5. RoomForCompany
  <2>1. Companies = {}
      BY <1>1 DEF Companies, Init
  <2>2. IsFiniteSet(Companies) /\ Cardinality(Companies) = 0
      BY <2>1, FS_EmptySet
  <2>3. QED  BY <2>2, MaxCompaniesAssumption DEF RoomForCompany
<1>6. MarkedUsable /\ RegisteredHasCompany /\ ReasonKnown
    BY <1>1 DEF MarkedUsable, RegisteredHasCompany, ReasonKnown, LimitAnswer
<1>7. QED  BY <1>2, <1>3, <1>4, <1>5, <1>6 DEF BootstrapInv, ToolKnows

\* Every step of the tool and of the services keeps the invariant.
LEMMA BootstrapInvStep ==
    ASSUME BootstrapInv, [BootstrapNext]_allVars
    PROVE  BootstrapInv'
<1>1. BootstrapTypeOK' /\ PostingHasCall'
    BY BootstrapTypeStep DEF BootstrapInv
<1>2. LeftoverInv'
    BY LeftoverUnderTool DEF BootstrapInv
<1>3. Alone' /\ MarkerAtRest'
    BY AloneStep DEF BootstrapInv
<1>4. ToolKnows'
  <2> SUFFICES ASSUME NobodyHungUp'
               PROVE  /\ MarkedUsable' /\ RegisteredHasCompany'
                      /\ RoomForCompany' /\ ReasonKnown'
      BY DEF ToolKnows
  <2>1. NobodyHungUp
      BY AbandonedStays
  <2>2. CASE UNCHANGED allVars
    <3>1. MarkedUsable /\ RegisteredHasCompany /\ RoomForCompany /\ ReasonKnown
        BY <2>1 DEF BootstrapInv, ToolKnows
    <3>2. UNCHANGED <<pc, rows, spoiled, cause, cli, call, marker, cut>>
        BY <2>2 DEF allVars, vars, cliVars
    <3>3. \A b \in Attempts : (Usable(b) <=> Usable(b)') /\ (Stuck(b) <=> Stuck(b)')
        BY <3>2 DEF Usable, Stuck, CanSignIn, Running, Forward
    <3>4. RoomForCompany' /\ RegisteredHasCompany'
        BY <3>1, <3>2 DEF RoomForCompany, Companies, RegisteredHasCompany
    <3>5. MarkedUsable' /\ ReasonKnown'
        BY <3>1, <3>2, <3>3 DEF MarkedUsable, ReasonKnown, LimitAnswer, Reason
    <3>6. QED  BY <3>4, <3>5
  <2>3. QED  BY <2>1, <2>2, BootstrapSteps, ServicesKeepKnowledge, ToolKeepsKnowledge,
                OthersKeepKnowledge
<1>5. QED  BY <1>1, <1>2, <1>3, <1>4 DEF BootstrapInv

\* The invariant of the tool and the services.
THEOREM BootstrapInvariant == BootstrapSpec => []BootstrapInv
<1>1. BootstrapInit => BootstrapInv
    BY BootstrapInvInit
<1>2. BootstrapInv /\ [BootstrapNext]_allVars => BootstrapInv'
    BY BootstrapInvStep
<1>3. QED  BY <1>1, <1>2, PTL DEF BootstrapSpec

\* The marker stands for an installation its administrator can sign in to:
\* the tool writes it after a sign-in, with no registration under way, what has
\* settled the services leave alone, and a reset that deletes the data under it
\* ends with the marker gone or is recorded in cut.
THEOREM MarkerIsInstalled == BootstrapSpec => []MarkerMeansInstalled
<1>1. BootstrapInv => MarkerMeansInstalled
    BY DEF BootstrapInv, ToolKnows, MarkedUsable, Usable, MarkerMeansInstalled
<1>2. QED  BY <1>1, BootstrapInvariant, PTL

\* The tool calls an installation unusable only when it is a finished one, whose
\* sign-in was refused, or for a company row that was left behind for a reason,
\* when ServiceResource.Update reports the rows it drops: a refusal that names
\* MAX_COMPANIES has counted a settled company, and one that is not stuck has
\* everything its administrator needs.
THEOREM UnusableHasReason ==
    ASSUME "skipped" \notin Faults
    PROVE  BootstrapSpec => []UnusableOnlyForReason
<1>1. BootstrapInv => UnusableOnlyForReason
    BY DEF BootstrapInv, ToolKnows, ReasonKnown, Reason, Usable, Stuck,
           UnusableOnlyForReason
<1>2. QED  BY <1>1, BootstrapInvariant, PTL

\* One tool, asking for one registration after the other, sets up no more
\* companies than MAX_COMPANIES allows: nobody inserts between the count and
\* the insertion of the only registration under way.
THEOREM OneToolKeepsToLimit == BootstrapSpec => []OneToolOneCompany
<1>1. BootstrapInv => OneToolOneCompany
    BY DEF BootstrapInv, ToolKnows, RoomForCompany, OneToolOneCompany,
           AtMostMaxCompanies
<1>2. QED  BY <1>1, BootstrapInvariant, PTL
=============================================================================
