--------------------------- MODULE LeftoverProofs ---------------------------
(***************************************************************************)
(* Theorems about what a registration leaves behind, for any set of calls, *)
(* any limit on the companies and any kinds and number of failures: every  *)
(* row that outlives a failed registration is explained, no row is an      *)
(* orphan, and Register keeps its promise.                                 *)
(***************************************************************************)
EXTENDS RegistrationProofs, RegistrationPromise

-----------------------------------------------------------------------------
(* The inductive invariant.  All of it is about one call at a time.        *)

\* The place of a write among those that record an undo.
Rank(what) ==
    CASE what = "company"         -> 1
      [] what = "project"         -> 2
      [] what = "environment"     -> 3
      [] what = "apiKey"          -> 4
      [] what = "user"            -> 5
      [] what = "membership"      -> 6
      [] what = "projectDatabase" -> 7

\* How many undos a call has recorded when it is in a phase.
Recorded(phase) ==
    CASE phase = "createProject"     -> 1
      [] phase = "createEnvironment" -> 2
      [] phase = "createApiKey"      -> 3
      [] phase = "createUser"        -> 4
      [] phase \in {"updateCompany", "addMembership"}  -> 5
      [] phase \in {"createResource", "awaitResource"} -> 6
      [] phase = "updateServices"    -> 7
      [] OTHER                       -> 0

\* The writes whose undo is still to run.
Due(a) == {what \in Undoable : Rank(what) <= Len(undos[a])}

\* The undos are those of the first writes, in the order of the writes.
InOrder(a) ==
    /\ \A i \in 1 .. Len(undos[a]) : Rank(undos[a][i]) = i
    /\ pc[a] # "rollback" => Len(undos[a]) = Recorded(pc[a])

\* Nothing but the database is spoiled while a call goes forward, and that only
\* by a request that failed; nor is an undo that is due.
Unspoiled(a) ==
    /\ Forward(a) \/ pc[a] \in {"idle", "registered"} => spoiled[a] \subseteq {"database"}
    /\ "database" \in spoiled[a] => handler[a] = "failed"
NotBoth(a)   == Due(a) \cap spoiled[a] = {}

\* Going forward, what was written is there.
Present(a) == Forward(a) => Due(a) \ {"projectDatabase"} \subseteq rows[a]

\* What the request for the database has made when it is in a phase.
MadeBy(phase) ==
    CASE phase = "putSecret"         -> {"role", "database"}
      [] phase = "insertResource"    -> {"role", "database", "secret"}
      [] phase = "insertResourceEnv" -> {"role", "database", "secret", "resource"}
      [] phase = "registerBuilder"   -> {"role", "database", "secret", "resource", "resourceEnv"}
      [] OTHER                       -> {}

\* The request for the database: not sent yet, sent, or answered.  One that
\* the caller no longer waits for has no undo, so its rows are explained.
Unsent(a)   == pc[a] = "idle" \/ (Forward(a) /\ pc[a] \notin {"awaitResource", "updateServices"})
Delivered(a) == pc[a] = "updateServices" \/ "projectDatabase" \in Due(a)
                                        \/ "serviceResource" \in rows[a]
AwaitedIn(phase) == phase \in {"awaitResource", "crashed"}

Serving(a) ==
    /\ Unsent(a) => handler[a] = "none"
    /\ Delivered(a) => handler[a] = "succeeded"
    /\ ~Quiet(a) =>
            \/ "projectDatabase" \in spoiled[a]
            \/ AwaitedIn(pc[a]) /\ {"project", "environment"} \subseteq rows[a]
    /\ MadeBy(handler[a]) \subseteq rows[a]
    /\ pc[a] \in {"awaitResource", "updateServices"} /\ handler[a] = "succeeded" =>
            ResourceRows \subseteq rows[a]

\* A request makes nothing before it begins, and one that fails takes its
\* database back or has it recorded as spoiled.
Dropped(a) ==
    /\ handler[a] \in {"none", "createDatabase"} => rows[a] \cap ResourceRows = {}
    /\ handler[a] = "failed" /\ rows[a] \cap {"role", "database"} # {} =>
            "database" \in spoiled[a]

\* Every row of a call that was not answered "registered" and did not die with
\* its process is either about to be undone or there for a reason.
Accounted(a, kind) ==
    \/ UndoOf(kind) \in Due(a)
    \/ Explained(a, kind)
    \/ pc[a] = "awaitResource" /\ kind \in ResourceRows

Kept(a) ==
    pc[a] \notin {"registered", "crashed"} =>
        \A kind \in rows[a] \ {"secret", "pool"} : Accounted(a, kind)

\* NoOrphans, for one call.
Rooted(a) == \A kind \in rows[a] : Parents[kind] \subseteq rows[a] \/ Explained(a, kind)

\* Without the writes ServiceResource.Update drops in silence, an organisation
\* is usable when its registration is answered, until everything is deleted.
Opened(a) ==
    "skipped" \notin Faults /\ pc[a] = "registered" /\ rows[a] # {} => CanSignIn(a)

CallInv(a) ==
    /\ InOrder(a) /\ Unspoiled(a) /\ NotBoth(a) /\ Present(a)
    /\ Serving(a) /\ Dropped(a) /\ Kept(a) /\ Rooted(a) /\ Opened(a)

LeftoverInv == \A a \in Attempts : CallInv(a)

\* Nothing a step changes is the call's.
Untouched(a) ==
    /\ pc'[a] = pc[a] /\ undos'[a] = undos[a] /\ rows'[a] = rows[a]
    /\ handler'[a] = handler[a] /\ spoiled'[a] = spoiled[a]

-----------------------------------------------------------------------------
(* The order of the undos.                                                 *)

\* No two writes have the same rank.
LEMMA RankIsInjective ==
    ASSUME NEW v \in Undoable, NEW w \in Undoable, Rank(v) = Rank(w)
    PROVE  v = w
BY DEF Rank, Undoable

\* There are seven of them.
LEMMA RankType ==
    ASSUME NEW w \in Undoable
    PROVE  Rank(w) \in 1 .. 7
BY DEF Rank, Undoable

\* The number of undos recorded is a number.
LEMMA UndosType ==
    ASSUME TypeOK, NEW a \in Attempts
    PROVE  undos[a] \in Seq(Undoable) /\ Len(undos[a]) \in Nat
BY LenProperties DEF TypeOK

\* Recording the undo of the next write makes it due.
LEMMA DueAfterAppend ==
    ASSUME TypeOK, NEW a \in Attempts, NEW what \in Undoable,
           \A i \in 1 .. Len(undos[a]) : Rank(undos[a][i]) = i,
           Rank(what) = Len(undos[a]) + 1,
           undos'[a] = Append(undos[a], what)
    PROVE  /\ Due(a)' = Due(a) \cup {what} /\ what \notin Due(a)
           /\ \A i \in 1 .. Len(undos'[a]) : Rank(undos'[a][i]) = i
           /\ Len(undos'[a]) = Len(undos[a]) + 1
<1>1. undos[a] \in Seq(Undoable) /\ Len(undos[a]) \in Nat
    BY UndosType
<1>2. /\ Len(undos'[a]) = Len(undos[a]) + 1
      /\ \A i \in 1 .. Len(undos[a]) : undos'[a][i] = undos[a][i]
      /\ undos'[a][Len(undos[a]) + 1] = what
    BY <1>1, AppendProperties
<1>3. \A i \in 1 .. Len(undos'[a]) : Rank(undos'[a][i]) = i
  <2> SUFFICES ASSUME NEW i \in 1 .. Len(undos'[a]) PROVE Rank(undos'[a][i]) = i
      OBVIOUS
  <2>1. i \in 1 .. Len(undos[a]) \/ i = Len(undos[a]) + 1
      BY <1>1, <1>2
  <2>2. QED  BY <1>2, <2>1
<1>4. ASSUME NEW w \in Undoable
      PROVE  Rank(w) <= Len(undos'[a]) <=> Rank(w) <= Len(undos[a]) \/ w = what
    BY <1>1, <1>2, RankType, RankIsInjective
<1>5. what \notin Due(a)
    BY <1>1 DEF Due
<1>6. Due(a)' = Due(a) \cup {what}
    BY <1>4 DEF Due
<1>7. QED  BY <1>2, <1>3, <1>5, <1>6

\* Running the last undo leaves those of the earlier writes.
LEMMA DueAfterDrop ==
    ASSUME TypeOK, NEW a \in Attempts, undos[a] # <<>>,
           \A i \in 1 .. Len(undos[a]) : Rank(undos[a][i]) = i,
           undos'[a] = SubSeq(undos[a], 1, Len(undos[a]) - 1),
           NEW what, what = undos[a][Len(undos[a])]
    PROVE  /\ what \in Due(a) /\ Due(a)' = Due(a) \ {what}
           /\ \A w \in Due(a)' : Rank(w) < Rank(what)
           /\ \A i \in 1 .. Len(undos'[a]) : Rank(undos'[a][i]) = i
<1> DEFINE n == Len(undos[a])
<1>1. undos[a] \in Seq(Undoable) /\ n \in Nat \ {0}
    BY UndosType, EmptySeq
<1>2. \A i \in 1 .. n - 1 : undos[a][i] \in Undoable
    BY <1>1, ElementOfSeq
<1>3. /\ Len(undos'[a]) = IF 1 <= n - 1 THEN (n - 1) - 1 + 1 ELSE 0
      /\ \A i \in 1 .. (n - 1) - 1 + 1 : undos'[a][i] = undos[a][1 + i - 1]
    BY <1>1, <1>2, SubSeqProperties, 1 \in Int, n - 1 \in Int
<1>4. Len(undos'[a]) = n - 1
    BY <1>1, <1>3
<1>5. \A i \in 1 .. n - 1 : undos'[a][i] = undos[a][i]
  <2> SUFFICES ASSUME NEW i \in 1 .. n - 1 PROVE undos'[a][i] = undos[a][i]
      OBVIOUS
  <2>1. i \in 1 .. (n - 1) - 1 + 1 /\ 1 + i - 1 = i
      BY <1>1
  <2>2. QED  BY <1>3, <2>1
<1>6. what \in Undoable /\ Rank(what) = n
    BY <1>1, ElementOfSeq
<1>7. ASSUME NEW w \in Undoable
      PROVE  Rank(w) <= n - 1 <=> Rank(w) <= n /\ w # what
    BY <1>1, <1>6, RankType, RankIsInjective
<1>8. what \in Due(a)
    BY <1>1, <1>6 DEF Due
<1>9. Due(a)' = Due(a) \ {what}
    BY <1>4, <1>7 DEF Due
<1>10. \A w \in Due(a)' : Rank(w) < Rank(what)
    BY <1>1, <1>4, <1>6, RankType DEF Due
<1>11. \A i \in 1 .. Len(undos'[a]) : Rank(undos'[a][i]) = i
    BY <1>1, <1>4, <1>5
<1>12. QED  BY <1>8, <1>9, <1>10, <1>11

\* Nothing is due when no undo is recorded.
LEMMA NothingDue ==
    ASSUME NEW a \in Attempts, Len(undos[a]) = 0
    PROVE  Due(a) = {}
BY RankType DEF Due

\* A call with its undos left alone.
LEMMA SameDue ==
    ASSUME NEW a \in Attempts, undos'[a] = undos[a]
    PROVE  Due(a)' = Due(a)
BY DEF Due

\* A write is due when its rank says so.
LEMMA DueWhen ==
    ASSUME NEW a \in Attempts, NEW what \in Undoable
    PROVE  what \in Due(a) <=> Rank(what) <= Len(undos[a])
BY DEF Due

-----------------------------------------------------------------------------
(* Steps that leave a call alone.                                          *)

\* A call none of whose state changes keeps its part of the invariant.
LEMMA UntouchedKeeps ==
    ASSUME NEW a \in Attempts, CallInv(a), Untouched(a)
    PROVE  CallInv(a)'
<1>1. Due(a)' = Due(a)
    BY SameDue DEF Untouched
<1>2. \A kind : Explained(a, kind)' <=> Explained(a, kind)
    BY DEF Untouched, Explained, HasReason
<1>3. Forward(a)' <=> Forward(a)
    BY DEF Untouched, Forward
<1>4. InOrder(a)' /\ Unspoiled(a)' /\ NotBoth(a)' /\ Present(a)'
    BY <1>1, <1>3 DEF CallInv, Untouched, InOrder, Unspoiled, NotBoth, Present
<1>5. Serving(a)' /\ Dropped(a)'
    BY <1>1, <1>3 DEF CallInv, Untouched, Serving, Dropped, Unsent, Delivered, Quiet
<1>6. Kept(a)' /\ Rooted(a)' /\ Opened(a)'
    BY <1>1, <1>2 DEF CallInv, Untouched, Kept, Accounted, Rooted, Opened, CanSignIn
<1>7. QED  BY <1>4, <1>5, <1>6 DEF CallInv

\* So it is enough to look at the call that takes the step.
LEMMA OneCallLeft ==
    ASSUME LeftoverInv, NEW a \in Attempts,
           \A b \in Attempts \ {a} : Untouched(b), CallInv(a)'
    PROVE  LeftoverInv'
BY UntouchedKeeps DEF LeftoverInv

\* A row that is explained stays so while nothing is taken from the history
\* and no row that may explain it goes.
LEMMA ExplainedLasts ==
    ASSUME NEW a \in Attempts, NEW kind, Explained(a, kind),
           spoiled[a] \subseteq spoiled'[a],
           handler[a] = "failed" => handler'[a] = "failed",
           \A k \in ReferencedBy(kind) \cap rows[a] : HasReason(a, k) => k \in rows'[a]
    PROVE  Explained(a, kind)'
BY DEF Explained, HasReason

\* A row with a reason of its own is explained, and one that nothing refers
\* to is explained in no other way.
LEMMA ExplainedByItself ==
    ASSUME NEW a \in Attempts, NEW kind
    PROVE  /\ HasReason(a, kind) => Explained(a, kind)
           /\ ReferencedBy(kind) = {} /\ Explained(a, kind) => HasReason(a, kind)
BY DEF Explained

\* A call that has not failed, and whose request has not, explains nothing.
LEMMA NothingExplained ==
    ASSUME NEW a \in Attempts, CallInv(a),
           Forward(a) \/ pc[a] = "idle", handler[a] # "failed"
    PROVE  spoiled[a] = {} /\ \A kind : ~Explained(a, kind)
BY DEF CallInv, Unspoiled, Explained, HasReason

-----------------------------------------------------------------------------
(* The steps of one call, by what they do to it.                           *)

\* A call goes on without having written anything that is undone.
LEMMA AdvanceKeeps ==
    ASSUME TypeOK, NEW a \in Attempts, CallInv(a),
           Unsent(a), Unsent(a)', Forward(a)', Recorded(pc'[a]) = Recorded(pc[a]),
           undos'[a] = undos[a], rows'[a] = rows[a], handler'[a] = handler[a],
           spoiled'[a] = spoiled[a]
    PROVE  CallInv(a)'
<1>1. Due(a)' = Due(a)
    BY SameDue
<1>2. \A kind : Explained(a, kind)' <=> Explained(a, kind)
    BY DEF Explained, HasReason
<1>3. InOrder(a)' /\ Unspoiled(a)' /\ NotBoth(a)' /\ Dropped(a)'
    BY <1>1 DEF CallInv, InOrder, Unspoiled, NotBoth, Dropped, Unsent, Forward
<1>4. Present(a)'
  <2>1. CASE pc[a] = "idle"
    <3>1. Len(undos[a]) = 0
        BY <2>1 DEF CallInv, InOrder, Recorded
    <3>2. Due(a) = {}
        BY <3>1, NothingDue
    <3>3. QED  BY <1>1, <3>2 DEF Present
  <2>2. CASE Forward(a)
      BY <1>1, <2>2 DEF CallInv, Present
  <2>3. QED  BY <2>1, <2>2 DEF Unsent
<1>5. handler[a] = "none"
    BY DEF CallInv, Serving
<1>6. Delivered(a)' => Delivered(a)
    BY <1>1 DEF Delivered, Unsent, Forward
<1>7. Serving(a)'
    BY <1>5, <1>6 DEF CallInv, Serving, Quiet, MadeBy, Unsent, Forward
<1>8. Kept(a)' /\ Rooted(a)' /\ Opened(a)'
    BY <1>1, <1>2 DEF CallInv, Kept, Rooted, Opened, Accounted, Unsent, Forward
<1>9. QED  BY <1>3, <1>4, <1>7, <1>8 DEF CallInv

\* A call fails having done nothing, and turns to its rollback.
LEMMA GiveUpKeeps ==
    ASSUME TypeOK, NEW a \in Attempts, CallInv(a),
           Forward(a), pc[a] # "awaitResource", pc'[a] = "rollback",
           undos'[a] = undos[a], rows'[a] = rows[a], handler'[a] = handler[a],
           spoiled'[a] = spoiled[a]
    PROVE  CallInv(a)'
<1>1. Due(a)' = Due(a)
    BY SameDue
<1>2. \A kind : Explained(a, kind)' <=> Explained(a, kind)
    BY DEF Explained, HasReason
<1>3. InOrder(a)' /\ Unspoiled(a)' /\ NotBoth(a)' /\ Present(a)' /\ Dropped(a)'
    BY <1>1 DEF CallInv, InOrder, Unspoiled, NotBoth, Present, Dropped, Forward
<1>4. Quiet(a)'
    BY DEF CallInv, Serving, Unsent, Delivered, Forward, Quiet
<1>5. Delivered(a)' => Delivered(a)
    BY <1>1 DEF Delivered
<1>6. Serving(a)'
    BY <1>4, <1>5 DEF CallInv, Serving, Unsent, Forward
<1>7. Kept(a)' /\ Rooted(a)' /\ Opened(a)'
    BY <1>1, <1>2 DEF CallInv, Kept, Rooted, Opened, Accounted, Forward
<1>8. QED  BY <1>3, <1>6, <1>7 DEF CallInv

\* What a row belongs to is written before it.
LEMMA ParentsAreEarlier ==
    ASSUME NEW what \in Undoable \ {"projectDatabase"}, NEW p \in Parents[what]
    PROVE  p \in Undoable \ {"projectDatabase"} /\ Rank(p) < Rank(what)
BY DEF Parents, Kinds, Rank, Undoable, ResourceRows

\* So it is there when the row is written.
LEMMA ParentsPresent ==
    ASSUME TypeOK, NEW a \in Attempts, CallInv(a), Forward(a),
           NEW what \in Undoable \ {"projectDatabase"},
           Rank(what) = Recorded(pc[a]) + 1
    PROVE  Parents[what] \subseteq rows[a]
<1> SUFFICES ASSUME NEW p \in Parents[what] PROVE p \in rows[a]
    OBVIOUS
<1>1. p \in Undoable \ {"projectDatabase"} /\ Rank(p) < Rank(what)
    BY ParentsAreEarlier
<1>2. Len(undos[a]) = Recorded(pc[a]) /\ Len(undos[a]) \in Nat
    BY UndosType DEF CallInv, InOrder, Forward
<1>3. Rank(p) <= Len(undos[a])
    BY <1>1, <1>2, RankType
<1>4. p \in Due(a)
    BY <1>1, <1>3, DueWhen
<1>5. QED  BY <1>1, <1>4 DEF CallInv, Present

\* A write that is answered.
LEMMA WrittenKeeps ==
    ASSUME TypeOK, NEW a \in Attempts, CallInv(a),
           NEW what \in Undoable \ {"projectDatabase"},
           Unsent(a), Forward(a), Unsent(a)', Forward(a)',
           Rank(what) = Recorded(pc[a]) + 1, Recorded(pc'[a]) = Rank(what),
           undos'[a] = Append(undos[a], what), rows'[a] = rows[a] \cup {what},
           handler'[a] = handler[a], spoiled'[a] = spoiled[a]
    PROVE  CallInv(a)'
<1>1. /\ Len(undos[a]) = Recorded(pc[a])
      /\ \A i \in 1 .. Len(undos[a]) : Rank(undos[a][i]) = i
    BY DEF CallInv, InOrder, Forward
<1>2. /\ Due(a)' = Due(a) \cup {what}
      /\ \A i \in 1 .. Len(undos'[a]) : Rank(undos'[a][i]) = i
      /\ Len(undos'[a]) = Len(undos[a]) + 1
    BY <1>1, DueAfterAppend
<1>3. spoiled[a] = {} /\ handler[a] = "none"
    BY NothingExplained DEF CallInv, Serving
<1>4. InOrder(a)' /\ Unspoiled(a)' /\ NotBoth(a)' /\ Present(a)' /\ Dropped(a)'
  <2>1. what \notin ResourceRows
      BY DEF Undoable, ResourceRows
  <2>2. QED  BY <1>1, <1>2, <1>3, <2>1
             DEF CallInv, InOrder, Unspoiled, NotBoth, Present, Dropped
<1>5. Delivered(a)' => Delivered(a)
    BY <1>2 DEF Delivered, Unsent, Forward, Undoable
<1>6. Serving(a)'
    BY <1>3, <1>5 DEF CallInv, Serving, Quiet, MadeBy, Unsent, Forward
<1>7. \A kind : ~Explained(a, kind)
    BY <1>3, NothingExplained
<1>8. Kept(a)'
  <2>1. UndoOf(what) = what
      BY DEF UndoOf, Undoable
  <2>2. ASSUME NEW kind \in rows[a] \ {"secret", "pool"}
        PROVE  UndoOf(kind) \in Due(a)
      BY <1>7 DEF CallInv, Kept, Accounted, Unsent, Forward
  <2>3. QED  BY <1>2, <2>1, <2>2 DEF Kept, Accounted
<1>9. Rooted(a)'
    BY <1>7, ParentsPresent DEF CallInv, Rooted
<1>10. Opened(a)'
    BY DEF Opened, Forward
<1>11. QED  BY <1>4, <1>6, <1>8, <1>9, <1>10 DEF CallInv

\* A write whose answer is lost.
LEMMA LostKeeps ==
    ASSUME TypeOK, NEW a \in Attempts, CallInv(a),
           NEW what \in Undoable \ {"projectDatabase"},
           Unsent(a), Forward(a), pc'[a] = "rollback",
           Rank(what) = Recorded(pc[a]) + 1,
           undos'[a] = undos[a], rows'[a] = rows[a] \cup {what},
           handler'[a] = handler[a], spoiled'[a] = spoiled[a] \cup {what}
    PROVE  CallInv(a)'
<1>1. Len(undos[a]) = Recorded(pc[a]) /\ Len(undos[a]) \in Nat
    BY UndosType DEF CallInv, InOrder, Forward
<1>2. what \notin Due(a)
    BY <1>1, DueWhen
<1>3. Due(a)' = Due(a)
    BY SameDue
<1>4. spoiled[a] = {} /\ handler[a] = "none"
    BY NothingExplained DEF CallInv, Serving
<1>5. InOrder(a)' /\ Unspoiled(a)' /\ NotBoth(a)' /\ Present(a)' /\ Dropped(a)'
  <2>1. what \notin ResourceRows /\ what # "database"
      BY DEF Undoable, ResourceRows
  <2>2. QED  BY <1>2, <1>3, <1>4, <2>1
             DEF CallInv, InOrder, Unspoiled, NotBoth, Present, Dropped, Forward
<1>6. Delivered(a)' => Delivered(a)
    BY <1>3 DEF Delivered, Undoable
<1>7. Serving(a)'
    BY <1>4, <1>6 DEF CallInv, Serving, Quiet, MadeBy, Unsent, Forward
<1>8. \A kind : ~Explained(a, kind)
    BY <1>4, NothingExplained
<1>9. Explained(a, what)'
    BY DEF Explained, HasReason, UndoOf, Undoable
<1>10. Kept(a)'
  <2>1. ASSUME NEW kind \in rows[a] \ {"secret", "pool"}
        PROVE  UndoOf(kind) \in Due(a)
      BY <1>8 DEF CallInv, Kept, Accounted, Unsent, Forward
  <2>2. QED  BY <1>3, <1>9, <2>1 DEF Kept, Accounted
<1>11. Rooted(a)'
    BY <1>8, <1>9 DEF CallInv, Rooted
<1>12. Opened(a)'
    BY DEF Opened
<1>13. QED  BY <1>5, <1>7, <1>10, <1>11, <1>12 DEF CallInv

\* The writes of Register that record an undo.
LEMMA WriteKeepsLeft ==
    ASSUME TypeOK, LeftoverInv, NEW a \in Attempts, NEW here, NEW next,
           NEW what \in Undoable \ {"projectDatabase"},
           Write(a, here, what, next),
           here \in Phases \ {"idle", "rollback", "registered", "failed", "crashed",
                              "awaitResource", "updateServices"},
           next \in Phases \ {"idle", "rollback", "registered", "failed", "crashed",
                              "awaitResource", "updateServices"},
           Rank(what) = Recorded(here) + 1, Recorded(next) = Rank(what)
    PROVE  LeftoverInv'
<1>1. \A b \in Attempts \ {a} : Untouched(b)
    BY DEF TypeOK, Write, GoTo, Fail, Untouched
<1>2. CallInv(a)
    BY DEF LeftoverInv
<1>3. Unsent(a) /\ Forward(a) /\ pc[a] = here /\ handler'[a] = handler[a]
    BY DEF Write, Unsent, Forward
<1>4. CASE /\ undos'[a] = Append(undos[a], what) /\ rows'[a] = rows[a] \cup {what}
           /\ pc'[a] = next /\ spoiled'[a] = spoiled[a]
  <2>1. Unsent(a)' /\ Forward(a)'
      BY <1>4 DEF Unsent, Forward
  <2>2. CallInv(a)'
      BY <1>2, <1>3, <1>4, <2>1, WrittenKeeps
  <2>3. QED  BY <1>1, <2>2, OneCallLeft
<1>5. CASE /\ undos'[a] = undos[a] /\ rows'[a] = rows[a]
           /\ pc'[a] = "rollback" /\ spoiled'[a] = spoiled[a]
  <2>1. CallInv(a)'
      BY <1>2, <1>3, <1>5, GiveUpKeeps
  <2>2. QED  BY <1>1, <2>1, OneCallLeft
<1>6. CASE /\ undos'[a] = undos[a] /\ rows'[a] = rows[a] \cup {what}
           /\ pc'[a] = "rollback" /\ spoiled'[a] = spoiled[a] \cup {what}
  <2>1. CallInv(a)'
      BY <1>2, <1>3, <1>6, LostKeeps
  <2>2. QED  BY <1>1, <2>1, OneCallLeft
<1>7. QED  BY <1>4, <1>5, <1>6 DEF TypeOK, Write, GoTo, Fail

-----------------------------------------------------------------------------
(* The request for the database, as Register sees it.                      *)

\* The request is sent, or not.
LEMMA CallCreateResourceKeepsLeft ==
    ASSUME TypeOK, LeftoverInv, NEW a \in Attempts, CallCreateResource(a)
    PROVE  LeftoverInv'
<1>1. /\ \A b \in Attempts \ {a} : Untouched(b)
      /\ pc[a] = "createResource" /\ undos' = undos /\ rows' = rows /\ spoiled' = spoiled
    BY DEF TypeOK, CallCreateResource, GoTo, Fail, Untouched
<1>2. CallInv(a) /\ Unsent(a) /\ Forward(a)
    BY <1>1 DEF LeftoverInv, Unsent, Forward
<1>3. CASE pc'[a] = "awaitResource" /\ handler'[a] = "createDatabase"
  <2>1. Due(a)' = Due(a)
      BY <1>1, SameDue
  <2>2. handler[a] = "none" /\ spoiled[a] = {} /\ \A kind : ~Explained(a, kind)
      BY <1>2, NothingExplained DEF CallInv, Serving
  <2>3. InOrder(a)' /\ Unspoiled(a)' /\ NotBoth(a)' /\ Present(a)' /\ Dropped(a)'
      BY <1>1, <1>2, <1>3, <2>1, <2>2
      DEF CallInv, InOrder, Unspoiled, NotBoth, Present, Dropped, Forward, Recorded
  <2>4. Len(undos[a]) = 6
      BY <1>1, <1>2 DEF CallInv, InOrder, Recorded
  <2>5. {"project", "environment"} \subseteq Due(a) /\ "projectDatabase" \notin Due(a)
    <3>1. /\ Rank("project") = 2 /\ Rank("environment") = 3 /\ Rank("projectDatabase") = 7
          /\ {"project", "environment", "projectDatabase"} \subseteq Undoable
        BY DEF Rank, Undoable
    <3>2. QED  BY <2>4, <3>1 DEF Due
  <2>6. {"project", "environment"} \subseteq rows[a]
      BY <1>2, <2>5 DEF CallInv, Present
  <2>7. ~Delivered(a)
      BY <1>1, <1>2 DEF CallInv, Serving
  <2>8. Serving(a)'
      BY <1>1, <1>3, <2>1, <2>6, <2>7
      DEF Serving, Unsent, Delivered, AwaitedIn, MadeBy, Quiet
  <2>9. \A kind : Explained(a, kind)' <=> Explained(a, kind)
      BY <1>1, <1>3, <2>2 DEF Explained, HasReason
  <2>10. Kept(a)' /\ Rooted(a)' /\ Opened(a)'
      BY <1>1, <1>2, <1>3, <2>1, <2>9 DEF CallInv, Kept, Rooted, Opened, Accounted
  <2>11. CallInv(a)'
      BY <2>3, <2>8, <2>10 DEF CallInv
  <2>12. QED  BY <1>1, <2>11, OneCallLeft
<1>4. CASE pc'[a] = "rollback" /\ handler' = handler
  <2>1. CallInv(a)'
      BY <1>1, <1>2, <1>4, GiveUpKeeps
  <2>2. QED  BY <1>1, <2>1, OneCallLeft
<1>5. QED  BY <1>3, <1>4 DEF TypeOK, CallCreateResource, GoTo, Fail

\* While the answer is awaited, six undos are recorded and the last one
\* missing, and nothing is explained unless the request has failed.
LEMMA Awaiting ==
    ASSUME TypeOK, NEW a \in Attempts, CallInv(a), pc[a] = "awaitResource"
    PROVE  /\ Len(undos[a]) = 6 /\ Due(a) = Undoable \ {"projectDatabase"}
           /\ spoiled[a] \subseteq {"database"} /\ Due(a) \subseteq rows[a]
           /\ handler[a] # "failed" => spoiled[a] = {} /\ \A kind : ~Explained(a, kind)
           /\ "serviceResource" \notin rows[a]
<1>1. Len(undos[a]) = 6
    BY DEF CallInv, InOrder, Recorded
<1>2. Due(a) = Undoable \ {"projectDatabase"}
    BY <1>1 DEF Due, Undoable, Rank
<1>3. spoiled[a] \subseteq {"database"} /\ Due(a) \subseteq rows[a]
    BY <1>2 DEF CallInv, Unspoiled, Present, Forward
<1>4. handler[a] # "failed" => spoiled[a] = {} /\ \A kind : ~Explained(a, kind)
    BY NothingExplained DEF Forward
<1>5. "serviceResource" \notin rows[a]
  <2>1. /\ UndoOf("serviceResource") \notin Undoable \cup {"database"}
        /\ "serviceResource" \notin ResourceRows \cup {"secret", "pool"}
        /\ ReferencedBy("serviceResource") = {}
      BY DEF UndoOf, Undoable, ResourceRows, ReferencedBy
  <2>2. ~HasReason(a, "serviceResource")
      BY <1>3, <2>1 DEF HasReason, ResourceRows
  <2>3. ~Explained(a, "serviceResource")
      BY <2>1, <2>2, ExplainedByItself
  <2>4. \A kind \in rows[a] \ {"secret", "pool"} : Accounted(a, kind)
      BY DEF CallInv, Kept
  <2>5. QED  BY <1>2, <2>1, <2>3, <2>4 DEF Accounted
<1>6. QED  BY <1>1, <1>2, <1>3, <1>4, <1>5

\* The database is there: its undo is recorded.
LEMMA ResourceCreatedKeepsLeft ==
    ASSUME TypeOK, LeftoverInv, NEW a \in Attempts, ResourceCreated(a)
    PROVE  LeftoverInv'
<1>1. /\ \A b \in Attempts \ {a} : Untouched(b)
      /\ pc[a] = "awaitResource" /\ pc'[a] = "updateServices" /\ handler[a] = "succeeded"
      /\ undos'[a] = Append(undos[a], "projectDatabase")
      /\ UNCHANGED <<rows, handler, spoiled>>
    BY DEF TypeOK, ResourceCreated, GoTo, Untouched
<1>2. CallInv(a)
    BY DEF LeftoverInv
<1>3. /\ Len(undos[a]) = 6 /\ Due(a) = Undoable \ {"projectDatabase"}
      /\ spoiled[a] = {} /\ Due(a) \subseteq rows[a]
      /\ \A kind : ~Explained(a, kind)
      /\ "serviceResource" \notin rows[a]
    BY <1>1, <1>2, Awaiting
<1>4. /\ Due(a)' = Undoable
      /\ \A i \in 1 .. Len(undos'[a]) : Rank(undos'[a][i]) = i
      /\ Len(undos'[a]) = 7
  <2>1. "projectDatabase" \in Undoable /\ Rank("projectDatabase") = Len(undos[a]) + 1
      BY <1>3 DEF Rank, Undoable
  <2>2. \A i \in 1 .. Len(undos[a]) : Rank(undos[a][i]) = i
      BY <1>2 DEF CallInv, InOrder
  <2>3. /\ Due(a)' = Due(a) \cup {"projectDatabase"}
        /\ \A i \in 1 .. Len(undos'[a]) : Rank(undos'[a][i]) = i
        /\ Len(undos'[a]) = Len(undos[a]) + 1
      BY <1>1, <2>1, <2>2, DueAfterAppend
  <2>4. QED  BY <1>3, <2>1, <2>3
<1>5. InOrder(a)' /\ Unspoiled(a)' /\ NotBoth(a)' /\ Present(a)' /\ Dropped(a)'
    BY <1>1, <1>3, <1>4
    DEF InOrder, Unspoiled, NotBoth, Present, Dropped, Recorded, Forward
<1>6. ResourceRows \subseteq rows[a]
    BY <1>1, <1>2 DEF CallInv, Serving
<1>7. Serving(a)'
    BY <1>1, <1>3, <1>6 DEF Serving, Unsent, Quiet, MadeBy
<1>8. Kept(a)'
  <2>1. \A kind \in Kinds \ {"secret", "pool", "serviceResource"} : UndoOf(kind) \in Undoable
      BY DEF Kinds, ResourceRows, Undoable, UndoOf
  <2>2. rows[a] \subseteq Kinds
      BY DEF TypeOK
  <2>3. QED  BY <1>1, <1>3, <1>4, <2>1, <2>2 DEF Kept, Accounted
<1>9. Rooted(a)' /\ Opened(a)'
    BY <1>1, <1>2, <1>3 DEF CallInv, Rooted, Opened
<1>10. CallInv(a)'
    BY <1>5, <1>7, <1>8, <1>9 DEF CallInv
<1>11. QED  BY <1>1, <1>10, OneCallLeft

\* The answer is an error, or never arrives: what the request made, and may
\* still make, is explained from now on.
LEMMA ResourceMissedKeepsLeft ==
    ASSUME TypeOK, LeftoverInv, NEW a \in Attempts, ResourceFailed(a) \/ ResourceLost(a)
    PROVE  LeftoverInv'
<1>1. /\ \A b \in Attempts \ {a} : Untouched(b)
      /\ pc[a] = "awaitResource" /\ pc'[a] = "rollback"
      /\ UNCHANGED <<rows, handler, undos>>
      /\ \/ spoiled'[a] = {"projectDatabase"} \cup spoiled[a]
         \/ spoiled'[a] = spoiled[a] /\ handler[a] = "failed"
    BY DEF TypeOK, ResourceFailed, ResourceLost, GoTo, Fail, Untouched
<1>2. CallInv(a)
    BY DEF LeftoverInv
<1>3. /\ Len(undos[a]) = 6 /\ Due(a) = Undoable \ {"projectDatabase"}
      /\ spoiled[a] \subseteq {"database"} /\ Due(a) \subseteq rows[a]
      /\ "serviceResource" \notin rows[a]
    BY <1>1, <1>2, Awaiting
<1>4. Due(a)' = Due(a) /\ "database" \notin Undoable
    BY <1>1, SameDue DEF Undoable
<1>5. InOrder(a)' /\ Unspoiled(a)' /\ NotBoth(a)' /\ Present(a)' /\ Dropped(a)'
    BY <1>1, <1>2, <1>3, <1>4
    DEF CallInv, InOrder, Unspoiled, NotBoth, Present, Dropped, Forward
<1>6. Serving(a)'
    BY <1>1, <1>2, <1>3, <1>4 DEF CallInv, Serving, Unsent, Delivered, Quiet, Forward
<1>7. \A kind : Explained(a, kind) => Explained(a, kind)'
    BY <1>1 DEF Explained, HasReason
<1>8. Kept(a)'
  <2> SUFFICES ASSUME NEW kind \in rows[a] \ {"secret", "pool"}
               PROVE  UndoOf(kind) \in Due(a) \/ Explained(a, kind)'
      BY <1>1, <1>4 DEF Kept, Accounted
  <2>1. CASE kind \in ResourceRows
    <3>1. kind \in {"role", "database", "resource", "resourceEnv"}
        BY <2>1 DEF ResourceRows
    <3>2. HasReason(a, kind)'
      <4>1. CASE "projectDatabase" \in spoiled'[a]
          BY <3>1, <4>1 DEF HasReason, UndoOf
      <4>2. CASE spoiled'[a] = spoiled[a] /\ handler[a] = "failed"
          BY <1>1, <1>2, <3>1, <4>2 DEF HasReason, CallInv, Dropped
      <4>3. QED  BY <1>1, <4>1, <4>2
    <3>3. QED  BY <3>2 DEF Explained
  <2>2. CASE kind \notin ResourceRows
    <3>1. kind \in Undoable \ {"projectDatabase"}
        BY <1>3, <2>2 DEF TypeOK, Kinds
    <3>2. QED  BY <1>3, <3>1 DEF UndoOf, Undoable
  <2>3. QED  BY <2>1, <2>2
<1>9. Rooted(a)' /\ Opened(a)'
    BY <1>1, <1>2, <1>7 DEF CallInv, Rooted, Opened
<1>10. CallInv(a)'
    BY <1>5, <1>6, <1>8, <1>9 DEF CallInv
<1>11. QED  BY <1>1, <1>10, OneCallLeft

-----------------------------------------------------------------------------
(* The last write.                                                         *)

\* Before it, everything is there but the row it writes.
LEMMA ReadyForServices ==
    ASSUME TypeOK, NEW a \in Attempts, CallInv(a), pc[a] = "updateServices"
    PROVE  /\ Due(a) = Undoable /\ Undoable \ {"projectDatabase"} \subseteq rows[a]
           /\ ResourceRows \subseteq rows[a] /\ handler[a] = "succeeded"
           /\ spoiled[a] = {}
<1>1. Len(undos[a]) = 7
    BY DEF CallInv, InOrder, Recorded
<1>2. Due(a) = Undoable
    BY <1>1, RankType DEF Due
<1>3. handler[a] = "succeeded"
    BY DEF CallInv, Serving, Delivered
<1>4. spoiled[a] = {}
    BY <1>3, NothingExplained DEF Forward
<1>5. QED  BY <1>2, <1>3, <1>4 DEF CallInv, Present, Serving, Forward

\* It ends the registration, fails, or is done and not answered.
LEMMA UpdateServiceResourceKeepsLeft ==
    ASSUME TypeOK, LeftoverInv, NEW a \in Attempts, UpdateServiceResource(a)
    PROVE  LeftoverInv'
<1>1. /\ \A b \in Attempts \ {a} : Untouched(b)
      /\ pc[a] = "updateServices" /\ handler' = handler
    BY DEF TypeOK, UpdateServiceResource, GoTo, Fail, Untouched
<1>2. CallInv(a)
    BY DEF LeftoverInv
<1>3. /\ Due(a) = Undoable /\ Undoable \ {"projectDatabase"} \subseteq rows[a]
      /\ ResourceRows \subseteq rows[a] /\ handler[a] = "succeeded"
      /\ spoiled[a] = {}
    BY <1>1, <1>2, ReadyForServices
<1>4. {"resource", "environment"} \subseteq rows[a]
    BY <1>3 DEF Undoable, ResourceRows
<1>5. Parents["serviceResource"] \subseteq rows[a]
    BY <1>4 DEF Parents, Kinds
<1>6. CASE /\ pc'[a] = "registered" /\ undos'[a] = <<>> /\ spoiled'[a] = spoiled[a]
           /\ \/ rows'[a] = rows[a] \cup {"serviceResource"}
              \/ rows'[a] = rows[a] /\ "skipped" \in Faults
  <2>1. Len(undos'[a]) = 0 /\ Due(a)' = {}
    <3>1. Len(undos'[a]) = 0
        BY <1>6, EmptySeq
    <3>2. QED  BY <3>1, RankType DEF Due
  <2>2. InOrder(a)' /\ Unspoiled(a)' /\ NotBoth(a)' /\ Present(a)' /\ Dropped(a)'
      BY <1>1, <1>3, <1>6, <2>1
      DEF InOrder, Unspoiled, NotBoth, Present, Dropped, Recorded, Forward
  <2>3. Serving(a)'
      BY <1>1, <1>3, <1>6 DEF Serving, Unsent, Quiet, MadeBy, Forward
  <2>4. Kept(a)' /\ Rooted(a)'
    <3>1. \A kind : ~Explained(a, kind)
        BY <1>1, <1>2, <1>3, NothingExplained DEF Forward
    <3>2. QED  BY <1>2, <1>5, <1>6, <3>1 DEF CallInv, Kept, Rooted
  <2>5. Opened(a)'
    <3>1. SignInNeeds \subseteq rows[a] \cup {"serviceResource"}
        BY <1>3 DEF SignInNeeds, Undoable, ResourceRows
    <3>2. QED  BY <1>6, <3>1 DEF Opened, CanSignIn
  <2>6. CallInv(a)'
      BY <2>2, <2>3, <2>4, <2>5 DEF CallInv
  <2>7. QED  BY <1>1, <2>6, OneCallLeft
<1>7. CASE /\ pc'[a] = "rollback" /\ UNCHANGED <<undos, rows, spoiled>>
  <2>1. Forward(a) /\ pc[a] # "awaitResource"
      BY <1>1 DEF Forward
  <2>2. CallInv(a)'
      BY <1>1, <1>2, <1>7, <2>1, GiveUpKeeps
  <2>3. QED  BY <1>1, <2>2, OneCallLeft
<1>8. CASE /\ pc'[a] = "rollback" /\ undos' = undos
           /\ rows'[a] = rows[a] \cup {"serviceResource"}
           /\ spoiled'[a] = spoiled[a] \cup {"serviceResource"}
  <2>1. Due(a)' = Due(a)
      BY <1>8, SameDue
  <2>2. InOrder(a)' /\ Unspoiled(a)' /\ NotBoth(a)' /\ Present(a)' /\ Dropped(a)'
    <3>1. "serviceResource" \notin Undoable
        BY DEF Undoable
    <3>2. QED  BY <1>1, <1>2, <1>3, <1>8, <2>1, <3>1
               DEF CallInv, InOrder, Unspoiled, NotBoth, Present, Dropped, Forward
  <2>3. Serving(a)'
      BY <1>1, <1>3, <1>8 DEF Serving, Unsent, Quiet, MadeBy, Forward
  <2>4. HasReason(a, "serviceResource")'
      BY <1>8 DEF HasReason, UndoOf
  <2>5. Kept(a)'
    <3> SUFFICES ASSUME NEW kind \in rows[a] \ {"secret", "pool"}
                 PROVE  UndoOf(kind) \in Due(a) \/ Explained(a, kind)'
        BY <1>8, <2>1, <2>4 DEF Kept, Accounted, Explained
    <3>1. UndoOf(kind) \in Due(a) \/ Explained(a, kind)
        BY <1>1, <1>2 DEF CallInv, Kept, Accounted
    <3>2. ~Explained(a, kind)
        BY <1>1, <1>2, <1>3, NothingExplained DEF Forward
    <3>3. QED  BY <3>1, <3>2
  <2>6. Rooted(a)' /\ Opened(a)'
    <3>1. \A kind : ~Explained(a, kind)
        BY <1>1, <1>2, <1>3, NothingExplained DEF Forward
    <3>2. QED  BY <1>2, <1>5, <1>8, <3>1 DEF CallInv, Rooted, Opened
  <2>7. CallInv(a)'
      BY <2>2, <2>3, <2>5, <2>6 DEF CallInv
  <2>8. QED  BY <1>1, <2>7, OneCallLeft
<1>9. QED  BY <1>6, <1>7, <1>8 DEF TypeOK, UpdateServiceResource, Happens, GoTo, Fail

-----------------------------------------------------------------------------
(* The steps of Register that write nothing.                               *)

\* It goes on, gives up, or the caller goes away.
LEMMA PlainKeepsLeft ==
    ASSUME TypeOK, LeftoverInv, NEW a \in Attempts,
           Start(a) \/ CountCompanies(a) \/ UpdateCompany(a) \/ HangUp(a)
    PROVE  LeftoverInv'
<1>1. /\ \A b \in Attempts \ {a} : Untouched(b)
      /\ UNCHANGED <<undos, rows, handler, spoiled>>
    BY DEF TypeOK, Start, CountCompanies, UpdateCompany, HangUp, GoTo, Fail, Untouched
<1>2. CallInv(a)
    BY DEF LeftoverInv
<1>3. CASE \/ pc[a] = "idle" /\ pc'[a] = "count"
           \/ pc[a] = "count" /\ pc'[a] = "insertCompany"
           \/ pc[a] = "updateCompany" /\ pc'[a] = "addMembership"
  <2>1. Unsent(a) /\ Unsent(a)' /\ Forward(a)' /\ Recorded(pc'[a]) = Recorded(pc[a])
      BY <1>3 DEF Unsent, Forward, Recorded
  <2>2. CallInv(a)'
      BY <1>1, <1>2, <2>1, AdvanceKeeps
  <2>3. QED  BY <1>1, <2>2, OneCallLeft
<1>4. CASE pc[a] \in {"count", "updateCompany"} /\ pc'[a] = "rollback"
  <2>1. Forward(a) /\ pc[a] # "awaitResource"
      BY <1>4 DEF Forward
  <2>2. CallInv(a)'
      BY <1>1, <1>2, <1>4, <2>1, GiveUpKeeps
  <2>3. QED  BY <1>1, <2>2, OneCallLeft
<1>5. CASE pc' = pc
  <2>1. Untouched(a)
      BY <1>1, <1>5 DEF Untouched
  <2>2. QED  BY <1>1, <1>2, <2>1, UntouchedKeeps, OneCallLeft
<1>6. QED  BY <1>3, <1>4, <1>5
           DEF TypeOK, Start, CountCompanies, UpdateCompany, HangUp, GoTo, Fail

\* The administrator's creation.
LEMMA CreateUserKeepsLeft ==
    ASSUME TypeOK, LeftoverInv, NEW a \in Attempts, CreateUser(a)
    PROVE  LeftoverInv'
<1>1. CASE Write(a, "createUser", "user", "updateCompany")
  <2>1. Rank("user") = Recorded("createUser") + 1 /\ Recorded("updateCompany") = Rank("user")
      BY DEF Rank, Recorded
  <2>2. QED  BY <1>1, <2>1, WriteKeepsLeft DEF Undoable, Phases
<1>2. CASE /\ pc[a] = "createUser" /\ Fail(a, "error")
           /\ UNCHANGED <<undos, rows, handler, cancelled, spoiled, failures>>
  <2>1. /\ \A b \in Attempts \ {a} : Untouched(b)
        /\ Forward(a) /\ pc[a] # "awaitResource" /\ pc'[a] = "rollback"
      BY <1>2 DEF TypeOK, GoTo, Fail, Untouched, Forward
  <2>2. CallInv(a)
      BY DEF LeftoverInv
  <2>3. CallInv(a)'
      BY <1>2, <2>1, <2>2, GiveUpKeeps
  <2>4. QED  BY <2>1, <2>3, OneCallLeft
<1>3. QED  BY <1>1, <1>2 DEF CreateUser

\* A call is answered with an error: no undo is left, or none was recorded.
LEMMA RefusedKeepsLeft ==
    ASSUME TypeOK, LeftoverInv, NEW a \in Attempts, RejectInput(a) \/ FinishRollback(a)
    PROVE  LeftoverInv'
<1>1. /\ \A b \in Attempts \ {a} : Untouched(b)
      /\ UNCHANGED <<undos, rows, handler, spoiled>>
      /\ pc[a] \in {"idle", "rollback"} /\ pc'[a] = "failed"
    BY DEF TypeOK, RejectInput, FinishRollback, GoTo, Untouched
<1>2. CallInv(a)
    BY DEF LeftoverInv
<1>3. Len(undos[a]) = 0
  <2>1. CASE FinishRollback(a)
      BY <2>1, EmptySeq DEF FinishRollback
  <2>2. CASE RejectInput(a)
      BY <1>2, <2>2 DEF RejectInput, CallInv, InOrder, Recorded
  <2>3. QED  BY <2>1, <2>2
<1>4. Due(a)' = Due(a)
    BY <1>1, SameDue
<1>5. \A kind : Explained(a, kind)' <=> Explained(a, kind)
    BY <1>1 DEF Explained, HasReason
<1>6. InOrder(a)' /\ Unspoiled(a)' /\ NotBoth(a)' /\ Present(a)' /\ Dropped(a)'
    BY <1>1, <1>2, <1>3, <1>4
    DEF CallInv, InOrder, Unspoiled, NotBoth, Present, Dropped, Recorded, Forward
<1>7. Serving(a)'
    BY <1>1, <1>2, <1>4 DEF CallInv, Serving, Unsent, Delivered, AwaitedIn, Quiet, Forward
<1>8. Kept(a)' /\ Rooted(a)' /\ Opened(a)'
    BY <1>1, <1>2, <1>4, <1>5 DEF CallInv, Kept, Rooted, Opened, Accounted
<1>9. CallInv(a)'
    BY <1>6, <1>7, <1>8 DEF CallInv
<1>10. QED  BY <1>1, <1>9, OneCallLeft

-----------------------------------------------------------------------------
(* The request for the database, as the company service sees it.           *)

\* Two rows refer to nothing, and what the request makes belongs to the
\* project, to the environment or to what it made before.
LEMMA ResourceParents ==
    /\ Parents["role"] = {} /\ Parents["secret"] = {} /\ Parents["pool"] = {}
    /\ Parents["database"] = {"project", "environment"}
    /\ Parents["resource"] = {"project", "environment"}
    /\ Parents["resourceEnv"] = {"resource", "environment"}
BY DEF Parents, Kinds, ResourceRows, Undoable

\* Nothing belongs to a role or a database, nor refers to one.
LEMMA NothingOnDatabase ==
    /\ \A kind \in Kinds : Parents[kind] \cap {"role", "database"} = {}
    /\ \A kind : ReferencedBy(kind) \cap {"role", "database"} = {}
BY DEF Parents, ReferencedBy

\* A step of the request keeps what it had made, but for the database it may
\* drop when it fails, and makes rows whose other parents it made before.  A
\* database it leaves when it fails is recorded as spoiled.
LEMMA HandlerStepKeeps ==
    ASSUME TypeOK, TypeOK', NEW a \in Attempts, CallInv(a), ~Quiet(a),
           pc'[a] = pc[a], undos'[a] = undos[a],
           spoiled'[a] \in {spoiled[a], spoiled[a] \cup {"database"}},
           "database" \in spoiled'[a] => handler'[a] = "failed",
           handler'[a] = "failed" /\ rows'[a] \cap {"role", "database"} # {} =>
               "database" \in spoiled'[a],
           handler'[a] \notin {"none", "createDatabase"},
           rows'[a] \ rows[a] \subseteq ResourceRows,
           rows[a] \ rows'[a] \subseteq {"role", "database"},
           MadeBy(handler'[a]) \subseteq rows'[a],
           handler'[a] = "succeeded" => ResourceRows \subseteq rows'[a],
           \A kind \in rows'[a] \ rows[a] :
               Parents[kind] \subseteq rows'[a] \cup {"project", "environment"}
    PROVE  CallInv(a)'
<1>1. Due(a)' = Due(a)
    BY SameDue
<1>2. ~Unsent(a) /\ ~Delivered(a) /\ handler[a] # "failed"
    BY DEF CallInv, Serving, Quiet
<1>3. "projectDatabase" \in spoiled[a]
      \/ (AwaitedIn(pc[a]) /\ {"project", "environment"} \subseteq rows[a])
    BY DEF CallInv, Serving
<1>4. "projectDatabase" \in spoiled'[a]
      \/ (AwaitedIn(pc'[a]) /\ {"project", "environment"} \subseteq rows'[a])
    BY <1>3
<1>5. InOrder(a)' /\ Unspoiled(a)' /\ NotBoth(a)' /\ Dropped(a)' /\ Opened(a)'
  <2>1. pc[a] # "registered"
      BY <1>3 DEF CallInv, Unspoiled, AwaitedIn
  <2>2. "database" \notin Due(a)
      BY DEF Due, Undoable
  <2>3. InOrder(a)' /\ NotBoth(a)' /\ Dropped(a)' /\ Opened(a)'
      BY <1>1, <2>1, <2>2 DEF CallInv, InOrder, NotBoth, Dropped, Opened
  <2>4. Unspoiled(a)'
      BY DEF CallInv, Unspoiled, Forward
  <2>5. QED  BY <2>3, <2>4
<1>6. Present(a)'
  <2>1. Due(a) \cap {"role", "database"} = {}
      BY DEF Due, Undoable
  <2>2. QED  BY <1>1, <2>1 DEF CallInv, Present, Forward
<1>7. Serving(a)'
  <2>1. ~Unsent(a)'
      BY <1>2 DEF Unsent, Forward
  <2>2. ~Delivered(a)'
      BY <1>1, <1>2 DEF Delivered, ResourceRows
  <2>3. QED  BY <1>4, <2>1, <2>2 DEF Serving
<1>8. \A kind : Explained(a, kind) => Explained(a, kind)'
  <2> SUFFICES ASSUME NEW kind, Explained(a, kind) PROVE Explained(a, kind)'
      OBVIOUS
  <2>1. \A k \in ReferencedBy(kind) \cap rows[a] : k \in rows'[a]
      BY NothingOnDatabase
  <2>2. QED  BY <1>2, <2>1, ExplainedLasts
<1>9. ASSUME NEW kind \in rows'[a] \ rows[a], kind \notin {"secret", "pool"},
             "projectDatabase" \in spoiled[a]
      PROVE  Explained(a, kind)'
  <2>1. UndoOf(kind) = "projectDatabase"
      BY <1>9 DEF UndoOf, ResourceRows
  <2>2. HasReason(a, kind)'
      BY <1>9, <2>1 DEF HasReason
  <2>3. QED  BY <2>2 DEF Explained
<1>10. Kept(a)'
  <2> SUFFICES ASSUME pc[a] \notin {"registered", "crashed"},
                      NEW kind \in rows'[a] \ {"secret", "pool"}
               PROVE  Accounted(a, kind)'
      BY DEF Kept
  <2>1. CASE kind \in rows[a]
      BY <1>1, <1>8, <2>1 DEF CallInv, Kept, Accounted
  <2>2. CASE kind \notin rows[a]
      BY <1>3, <1>9, <2>2 DEF Accounted, AwaitedIn
  <2>3. QED  BY <2>1, <2>2
<1>11. Rooted(a)'
  <2> SUFFICES ASSUME NEW kind \in rows'[a]
               PROVE  Parents[kind] \subseteq rows'[a] \/ Explained(a, kind)'
      BY DEF Rooted
  <2>1. CASE kind \in rows[a]
    <3>1. kind \in Kinds
        BY DEF TypeOK
    <3>2. Parents[kind] \subseteq rows[a] => Parents[kind] \subseteq rows'[a]
        BY <3>1, NothingOnDatabase
    <3>3. QED  BY <1>8, <2>1, <3>2 DEF CallInv, Rooted
  <2>2. CASE kind \notin rows[a]
      BY <1>4, <1>9, <2>2, ResourceParents
  <2>3. QED  BY <2>1, <2>2
<1>12. QED  BY <1>5, <1>6, <1>7, <1>10, <1>11 DEF CallInv

\* One write of AddResource.
LEMMA AddResourceWriteKeepsLeft ==
    ASSUME TypeOK, TypeOK', LeftoverInv, NEW a \in Attempts, NEW here, NEW next,
           NEW what \in ResourceRows, AddResourceWrite(a, here, what, next),
           here \notin {"none", "succeeded", "failed", "gone"},
           next \notin {"none", "createDatabase", "failed"},
           MadeBy(next) \subseteq MadeBy(here) \cup {what},
           next = "succeeded" => ResourceRows \subseteq MadeBy(here) \cup {what},
           Parents[what] \subseteq MadeBy(here) \cup {"project", "environment"}
    PROVE  LeftoverInv'
<1>1. \A b \in Attempts \ {a} : Untouched(b)
    BY DEF TypeOK, AddResourceWrite, HandlerStep, HandlerGoTo, Untouched
<1>2. CallInv(a) /\ handler[a] = here /\ ~Quiet(a)
    BY DEF LeftoverInv, AddResourceWrite, HandlerStep, Quiet
<1>3. MadeBy(here) \subseteq rows[a]
    BY <1>2 DEF CallInv, Serving
<1>4. UNCHANGED <<pc, undos, spoiled>> /\ "database" \notin spoiled'[a]
    BY <1>2 DEF AddResourceWrite, HandlerStep, CallInv, Unspoiled
<1>5. CASE rows'[a] = rows[a] \cup {what} /\ handler'[a] = next
  <2>1. CallInv(a)'
      BY <1>2, <1>3, <1>4, <1>5, HandlerStepKeeps
  <2>2. QED  BY <1>1, <2>1, OneCallLeft
<1>6. CASE rows'[a] \in {rows[a], rows[a] \cup {what}} /\ handler'[a] = "dropDatabase"
  <2>1. MadeBy("dropDatabase") = {}
      BY DEF MadeBy
  <2>2. rows'[a] \ rows[a] \subseteq {what} /\ rows[a] \subseteq rows'[a]
      BY <1>6
  <2>3. CallInv(a)'
      BY <1>2, <1>3, <1>4, <1>6, <2>1, <2>2, HandlerStepKeeps
  <2>4. QED  BY <1>1, <2>3, OneCallLeft
<1>7. QED  BY <1>5, <1>6 DEF TypeOK, AddResourceWrite, HandlerGoTo

\* The creation of the role and the database.
LEMMA CreateDatabaseKeepsLeft ==
    ASSUME TypeOK, TypeOK', LeftoverInv, NEW a \in Attempts, CreateUserAndDatabase(a)
    PROVE  LeftoverInv'
<1>1. /\ \A b \in Attempts \ {a} : Untouched(b)
      /\ UNCHANGED <<pc, undos>>
    BY DEF TypeOK, CreateUserAndDatabase, HandlerStep, HandlerGoTo, Untouched
<1>2. /\ CallInv(a) /\ ~Quiet(a)
      /\ rows[a] \cap {"role", "database"} = {} /\ "database" \notin spoiled[a]
  <2>1. CallInv(a) /\ handler[a] = "createDatabase"
      BY DEF LeftoverInv, CreateUserAndDatabase, HandlerStep
  <2>2. QED  BY <2>1 DEF CallInv, Dropped, Unspoiled, Quiet, ResourceRows
<1>3. /\ rows[a] \subseteq rows'[a] /\ rows'[a] \subseteq rows[a] \cup {"role", "database"}
      /\ \/ /\ handler'[a] = "failed"
            /\ \/ spoiled'[a] = spoiled[a] \cup {"database"}
               \/ spoiled'[a] = spoiled[a] /\ rows'[a] = rows[a]
         \/ /\ handler'[a] = "putSecret" /\ {"role", "database"} \subseteq rows'[a]
            /\ spoiled'[a] = spoiled[a]
    BY DEF TypeOK, CreateUserAndDatabase, HandlerGoTo
<1>4. MadeBy(handler'[a]) \subseteq rows'[a]
    BY <1>3 DEF MadeBy
<1>5. CallInv(a)'
  <2>1. rows'[a] \ rows[a] \subseteq ResourceRows
      BY <1>3 DEF ResourceRows
  <2>2. \A kind \in rows'[a] \ rows[a] :
            Parents[kind] \subseteq rows'[a] \cup {"project", "environment"}
      BY <1>3, ResourceParents
  <2>3. handler'[a] \notin {"none", "createDatabase", "succeeded"}
      BY <1>3
  <2>4. /\ spoiled'[a] \in {spoiled[a], spoiled[a] \cup {"database"}}
        /\ "database" \in spoiled'[a] => handler'[a] = "failed"
        /\ handler'[a] = "failed" /\ rows'[a] \cap {"role", "database"} # {} =>
               "database" \in spoiled'[a]
      BY <1>2, <1>3
  <2>5. rows[a] \ rows'[a] = {}
      BY <1>3
  <2>6. QED  BY <1>1, <1>2, <1>4, <2>1, <2>2, <2>3, <2>4, <2>5, HandlerStepKeeps
<1>6. QED  BY <1>1, <1>5, OneCallLeft

\* The deferred drop, and an environment that is no longer there.
LEMMA DropDatabaseKeepsLeft ==
    ASSUME TypeOK, TypeOK', LeftoverInv, NEW a \in Attempts,
           \/ DropDatabase(a)
           \/ /\ HandlerStep(a, "insertResourceEnv") /\ HandlerGoTo(a, "dropDatabase")
              /\ UNCHANGED <<rows, spoiled>>
    PROVE  LeftoverInv'
<1>1. /\ \A b \in Attempts \ {a} : Untouched(b)
      /\ UNCHANGED <<pc, undos>>
      /\ handler'[a] \in {"dropDatabase", "failed"}
    BY DEF TypeOK, DropDatabase, HandlerStep, HandlerGoTo, Untouched
<1>2. CallInv(a) /\ ~Quiet(a) /\ "database" \notin spoiled[a]
  <2>1. CallInv(a) /\ handler[a] \in {"dropDatabase", "insertResourceEnv"}
      BY DEF LeftoverInv, DropDatabase, HandlerStep
  <2>2. QED  BY <2>1 DEF CallInv, Unspoiled, Quiet
<1>3. /\ rows'[a] \subseteq rows[a] /\ rows[a] \ rows'[a] \subseteq {"role", "database"}
      /\ \/ handler'[a] = "failed" /\ spoiled'[a] = spoiled[a] \cup {"database"}
         \/ spoiled'[a] = spoiled[a] /\ handler'[a] = "dropDatabase"
         \/ spoiled'[a] = spoiled[a] /\ rows'[a] \cap {"role", "database"} = {}
    BY DEF TypeOK, DropDatabase, HandlerGoTo
<1>4. /\ MadeBy(handler'[a]) = {}
      /\ handler'[a] \notin {"none", "createDatabase", "succeeded"}
      /\ spoiled'[a] \in {spoiled[a], spoiled[a] \cup {"database"}}
      /\ "database" \in spoiled'[a] => handler'[a] = "failed"
      /\ handler'[a] = "failed" /\ rows'[a] \cap {"role", "database"} # {} =>
             "database" \in spoiled'[a]
    BY <1>1, <1>2, <1>3 DEF MadeBy
<1>5. CallInv(a)'
    BY <1>1, <1>2, <1>3, <1>4, HandlerStepKeeps
<1>6. QED  BY <1>1, <1>5, OneCallLeft

\* All the steps of the request.
LEMMA HandlerKeepsLeft ==
    ASSUME TypeOK, TypeOK', LeftoverInv, NEW a \in Attempts, CreateResourceStep(a)
    PROVE  LeftoverInv'
<1>1. CASE PutSecret(a)
  <2>1. /\ MadeBy("insertResource") \subseteq MadeBy("putSecret") \cup {"secret"}
        /\ "secret" \in ResourceRows
      BY DEF MadeBy, ResourceRows
  <2>2. QED  BY <1>1, <2>1, ResourceParents, AddResourceWriteKeepsLeft DEF PutSecret
<1>2. CASE InsertResource(a)
  <2>1. /\ MadeBy("insertResourceEnv") \subseteq MadeBy("insertResource") \cup {"resource"}
        /\ "resource" \in ResourceRows
      BY DEF MadeBy, ResourceRows
  <2>2. QED  BY <1>2, <2>1, ResourceParents, AddResourceWriteKeepsLeft DEF InsertResource
<1>3. CASE AddResourceWrite(a, "insertResourceEnv", "resourceEnv", "registerBuilder")
  <2>1. /\ MadeBy("registerBuilder") \subseteq MadeBy("insertResourceEnv") \cup {"resourceEnv"}
        /\ "resourceEnv" \in ResourceRows /\ "resource" \in MadeBy("insertResourceEnv")
      BY DEF MadeBy, ResourceRows
  <2>2. QED  BY <1>3, <2>1, ResourceParents, AddResourceWriteKeepsLeft
<1>4. CASE RegisterBuilder(a)
  <2>1. /\ MadeBy("succeeded") = {} /\ "pool" \in ResourceRows
        /\ ResourceRows \subseteq MadeBy("registerBuilder") \cup {"pool"}
      BY DEF MadeBy, ResourceRows
  <2>2. QED  BY <1>4, <2>1, ResourceParents, AddResourceWriteKeepsLeft DEF RegisterBuilder
<1>5. QED  BY <1>1, <1>2, <1>3, <1>4, CreateDatabaseKeepsLeft, DropDatabaseKeepsLeft
           DEF CreateResourceStep, InsertResourceEnvironment

-----------------------------------------------------------------------------
(* The rollback.                                                           *)

\* What refers to a row is undone before it, or has no undo at all.
LEMMA ReferrersAreLater ==
    ASSUME NEW kind \in Kinds, NEW k \in ReferencedBy(kind)
    PROVE  /\ k \in Kinds \ {"secret", "pool"} /\ ReferencedBy(k) = {}
           /\ kind \in {"environment", "user", "resource"}
           /\ UndoOf(k) \in Undoable => Rank(UndoOf(kind)) < Rank(UndoOf(k))
<1>1. CASE kind = "environment"
    BY <1>1 DEF ReferencedBy, Kinds, ResourceRows, Undoable, UndoOf, Rank
<1>2. CASE kind = "user"
    BY <1>2 DEF ReferencedBy, Kinds, ResourceRows, Undoable, UndoOf, Rank
<1>3. CASE kind = "resource"
    BY <1>3 DEF ReferencedBy, Kinds, ResourceRows, Undoable, UndoOf, Rank
<1>4. QED  BY <1>1, <1>2, <1>3 DEF ReferencedBy

\* What belongs to a row is undone before it or with it, or has no undo, and
\* then it is the row that keeps its parents.
LEMMA ChildrenAreLater ==
    ASSUME NEW kind \in Kinds \ {"secret", "pool"}, NEW p \in Parents[kind]
    PROVE  /\ p \in Kinds
           /\ UndoOf(kind) \in Undoable => \/ Rank(UndoOf(p)) < Rank(UndoOf(kind))
                                           \/ kind = "resourceEnv" /\ p = "resource"
BY DEF Parents, Kinds, ResourceRows, Undoable, UndoOf, Rank

\* An undo takes away only what it is the undo of, never what another row
\* refers to, and the resource only with its use in the environment.
LEMMA UndoneType ==
    ASSUME NEW a \in Attempts, NEW what \in Undoable
    PROVE  /\ \A k \in Undone(a, what) : UndoOf(k) = what /\ ~Blocked(a, k)
           /\ \A kind \in Kinds \ {"secret", "pool"} :
                  UndoOf(kind) = what /\ ~Blocked(a, kind) => kind \in Undone(a, what)
           /\ \A gone \in HalfUndone(a, what) : gone \subseteq Undone(a, what)
           /\ "secret" \notin Undone(a, what) /\ "pool" \notin Undone(a, what)
<1>1. \A k \in Undone(a, what) : UndoOf(k) = what /\ ~Blocked(a, k)
    BY DEF Undone, UndoOf, Undoable
<1>2. \A kind \in Kinds \ {"secret", "pool"} :
          UndoOf(kind) = what /\ ~Blocked(a, kind) => kind \in Undone(a, what)
    BY DEF Undone, UndoOf, Undoable, Kinds, ResourceRows
<1>3. \A gone \in HalfUndone(a, what) : gone \subseteq Undone(a, what)
    BY DEF HalfUndone
<1>4. "secret" \notin Undone(a, what) /\ "pool" \notin Undone(a, what)
    BY DEF Undone, Undoable
<1>5. QED  BY <1>1, <1>2, <1>3, <1>4

\* A row whose undo is due has no reason of its own to be left.
LEMMA DueHasNoReason ==
    ASSUME NEW a \in Attempts, CallInv(a), NEW kind, UndoOf(kind) \in Due(a)
    PROVE  ~HasReason(a, kind)
<1>1. UndoOf(kind) \notin spoiled[a]
    BY DEF CallInv, NotBoth
<1>2. CASE UndoOf(kind) = "projectDatabase"
  <2>1. handler[a] = "succeeded"
      BY <1>2 DEF CallInv, Serving, Delivered
  <2>2. "database" \notin spoiled[a]
      BY <2>1 DEF CallInv, Unspoiled
  <2>3. QED  BY <1>1, <2>1, <2>2 DEF HasReason
<1>3. CASE UndoOf(kind) # "projectDatabase"
    BY <1>1, <1>3 DEF HasReason, UndoOf
<1>4. QED  BY <1>2, <1>3

\* An undo that is due takes nothing from under a request at work.
LEMMA MadeIsNotUndone ==
    ASSUME NEW a \in Attempts, CallInv(a), NEW what \in Due(a)
    PROVE  MadeBy(handler[a]) \cap Undone(a, what) = {}
<1>1. CASE what = "projectDatabase"
    BY <1>1 DEF CallInv, Serving, Delivered, MadeBy
<1>2. CASE what # "projectDatabase"
  <2>1. Undone(a, what) \subseteq {what}
      BY <1>2 DEF Undone
  <2>2. what \notin MadeBy(handler[a])
      BY DEF Due, Undoable, MadeBy
  <2>3. QED  BY <2>1, <2>2
<1>3. QED  BY <1>1, <1>2

\* The undos that are recorded are those that are due.
LEMMA RecordedIsDue ==
    ASSUME TypeOK, NEW a \in Attempts, InOrder(a)
    PROVE  {undos[a][i] : i \in DOMAIN undos[a]} = Due(a)
<1>1. undos[a] \in Seq(Undoable) /\ Len(undos[a]) \in Nat /\ DOMAIN undos[a] = 1 .. Len(undos[a])
    BY UndosType, LenProperties
<1>2. \A i \in 1 .. Len(undos[a]) : undos[a][i] \in Undoable /\ Rank(undos[a][i]) = i
    BY <1>1, ElementOfSeq DEF InOrder
<1>3. ASSUME NEW i \in 1 .. Len(undos[a])
      PROVE  undos[a][i] \in Due(a)
    BY <1>1, <1>2 DEF Due
<1>4. ASSUME NEW w \in Due(a)
      PROVE  \E i \in 1 .. Len(undos[a]) : undos[a][i] = w
  <2>1. w \in Undoable /\ Rank(w) \in 1 .. Len(undos[a])
      BY <1>1, RankType DEF Due
  <2>2. undos[a][Rank(w)] = w
      BY <1>2, <2>1, RankIsInjective
  <2>3. QED  BY <2>1, <2>2
<1>5. QED  BY <1>1, <1>3, <1>4

\* A call that rolls back accounts for each row with an undo that is due or
\* with the history, and what refers to a row that is being removed is explained.
LEMMA RollingBack ==
    ASSUME TypeOK, NEW a \in Attempts, CallInv(a), pc[a] = "rollback"
    PROVE  \A kind \in rows[a] \ {"secret", "pool"} :
               UndoOf(kind) \in Due(a) \/ Explained(a, kind)
BY DEF CallInv, Kept, Accounted

\* One undo of the rollback, whether it works or not.
LEMMA UndoKeepsCall ==
    ASSUME TypeOK, NEW a \in Attempts, CallInv(a), UndoLast(a)
    PROVE  CallInv(a)'
<1> DEFINE what == undos[a][Len(undos[a])]
<1>1. /\ pc[a] = "rollback" /\ pc' = pc /\ handler' = handler /\ undos[a] # <<>>
      /\ undos'[a] = SubSeq(undos[a], 1, Len(undos[a]) - 1)
    BY DEF TypeOK, UndoLast
<1>2. /\ what \in Due(a) /\ Due(a)' = Due(a) \ {what}
      /\ \A w \in Due(a)' : Rank(w) < Rank(what)
      /\ \A i \in 1 .. Len(undos'[a]) : Rank(undos'[a][i]) = i
    BY <1>1, DueAfterDrop DEF CallInv, InOrder
<1>3. what \in Undoable
    BY <1>2 DEF Due
<1>4. /\ \A k \in Undone(a, what) : UndoOf(k) = what /\ ~Blocked(a, k)
      /\ \A kind \in Kinds \ {"secret", "pool"} :
             UndoOf(kind) = what /\ ~Blocked(a, kind) => kind \in Undone(a, what)
      /\ \A gone \in HalfUndone(a, what) : gone \subseteq Undone(a, what)
      /\ "secret" \notin Undone(a, what) /\ "pool" \notin Undone(a, what)
    BY <1>3, UndoneType
<1>5. /\ rows'[a] \subseteq rows[a] /\ rows[a] \ rows'[a] \subseteq Undone(a, what)
      /\ \/ rows'[a] = rows[a] \ Undone(a, what) /\ spoiled'[a] = spoiled[a]
         \/ spoiled'[a] = spoiled[a] \cup {what}
  <2>1. CASE rows' = [rows EXCEPT ![a] = @ \ Undone(a, what)] /\ UNCHANGED <<spoiled, failures>>
      BY <2>1 DEF TypeOK
  <2>2. CASE /\ \E gone \in HalfUndone(a, what) : rows' = [rows EXCEPT ![a] = @ \ gone]
             /\ spoiled' = [spoiled EXCEPT ![a] = @ \cup {what}]
      BY <1>4, <2>2 DEF TypeOK
  <2>3. QED  BY <2>1, <2>2 DEF UndoLast
<1> HIDE DEF what
<1>6. \A k : UndoOf(k) = what => ~HasReason(a, k)
    BY <1>2, DueHasNoReason
<1>7. \A kind : Explained(a, kind) => Explained(a, kind)'
  <2> SUFFICES ASSUME NEW kind, Explained(a, kind) PROVE Explained(a, kind)'
      OBVIOUS
  <2>1. \A k \in ReferencedBy(kind) \cap rows[a] : HasReason(a, k) => k \in rows'[a]
      BY <1>4, <1>5, <1>6
  <2>2. spoiled[a] \subseteq spoiled'[a] /\ handler'[a] = handler[a]
      BY <1>1, <1>5
  <2>3. QED  BY <2>1, <2>2, ExplainedLasts
<1>8. \A kind \in rows[a] \ {"secret", "pool"} : UndoOf(kind) \in Due(a) \/ Explained(a, kind)
    BY <1>1, RollingBack
<1>9. \A kind \in rows[a] : kind \in Kinds
    BY DEF TypeOK
\* A row that this undo was to take and is still there.
<1>10. ASSUME NEW kind \in rows'[a] \ {"secret", "pool"}, UndoOf(kind) = what
       PROVE  Explained(a, kind)'
  <2>1. CASE what \in spoiled'[a]
      BY <1>10, <2>1 DEF Explained, HasReason
  <2>2. CASE rows'[a] = rows[a] \ Undone(a, what) /\ spoiled'[a] = spoiled[a]
    <3>1. PICK k \in ReferencedBy(kind) \cap rows[a] : TRUE
        BY <1>4, <1>9, <1>10, <2>2 DEF Blocked
    <3>2. /\ k \in Kinds \ {"secret", "pool"} /\ ReferencedBy(k) = {}
          /\ UndoOf(k) \in Undoable => Rank(UndoOf(kind)) < Rank(UndoOf(k))
        BY <1>5, <1>9, <1>10, <3>1, ReferrersAreLater
    <3>3. UndoOf(k) \notin Due(a)
      <4>1. SUFFICES ASSUME UndoOf(k) \in Due(a) PROVE FALSE
          OBVIOUS
      <4>2. UndoOf(k) \in Undoable /\ Rank(what) < Rank(UndoOf(k))
          BY <1>10, <3>2, <4>1 DEF Due
      <4>3. Rank(what) \in Nat /\ Rank(UndoOf(k)) \in Nat
          BY <1>3, <4>2, RankType
      <4>4. UndoOf(k) \in Due(a)' \/ UndoOf(k) = what
          BY <1>2, <4>1
      <4>5. QED  BY <1>2, <4>2, <4>3, <4>4
    <3>4. HasReason(a, k)
        BY <1>8, <3>1, <3>2, <3>3, ExplainedByItself
    <3>5. k \in rows'[a]
        BY <1>4, <1>5, <1>6, <3>1, <3>4
    <3>6. HasReason(a, k)'
        BY <1>1, <2>2, <3>4 DEF HasReason
    <3>7. QED  BY <3>1, <3>5, <3>6 DEF Explained
  <2>3. QED  BY <1>5, <2>1, <2>2
<1>11. /\ InOrder(a)' /\ Unspoiled(a)' /\ NotBoth(a)' /\ Present(a)'
       /\ Dropped(a)' /\ Opened(a)'
  <2>1. what # "database"
      BY <1>3 DEF Undoable
  <2>2. QED  BY <1>1, <1>2, <1>5, <2>1
             DEF CallInv, InOrder, Unspoiled, NotBoth, Present, Dropped, Opened, Forward
<1>12. Serving(a)'
  <2>1. Delivered(a)' => Delivered(a)
      BY <1>1, <1>2, <1>5 DEF Delivered
  <2>2. ~Quiet(a)' => "projectDatabase" \in spoiled'[a]
      BY <1>1, <1>5 DEF CallInv, Serving, Quiet, AwaitedIn
  <2>3. MadeBy(handler[a]) \subseteq rows'[a]
      BY <1>2, <1>5, MadeIsNotUndone DEF CallInv, Serving
  <2>4. QED  BY <1>1, <2>1, <2>2, <2>3 DEF CallInv, Serving, Unsent, Forward
<1>13. Kept(a)'
  <2> SUFFICES ASSUME NEW kind \in rows'[a] \ {"secret", "pool"}
               PROVE  UndoOf(kind) \in Due(a)' \/ Explained(a, kind)'
      BY DEF Kept, Accounted
  <2>1. UndoOf(kind) \in Due(a) \/ Explained(a, kind)
      BY <1>5, <1>8
  <2>2. QED  BY <1>2, <1>7, <1>10, <2>1
<1>14. Rooted(a)'
  <2> SUFFICES ASSUME NEW kind \in rows'[a], ~Explained(a, kind)',
                      NEW p \in Parents[kind]
               PROVE  p \in rows'[a]
      BY DEF Rooted
  <2>1. kind \in Kinds \ {"secret", "pool"}
      BY <1>5, <1>9, ResourceParents
  <2>2. ~Explained(a, kind) /\ UndoOf(kind) \in Due(a)
      BY <1>5, <1>7, <1>8, <2>1
  <2>3. p \in rows[a]
      BY <1>5, <2>2 DEF CallInv, Rooted
  <2>4. UndoOf(kind) # what
      BY <1>10, <2>1
  <2>5. UndoOf(kind) \in Undoable /\ Rank(UndoOf(kind)) < Rank(what)
      BY <1>2, <2>2, <2>4 DEF Due
  <2>6. SUFFICES ASSUME UndoOf(p) = what PROVE FALSE
      BY <1>4, <1>5, <2>3
  <2>7. \/ Rank(what) < Rank(UndoOf(kind))
        \/ kind = "resourceEnv" /\ p = "resource"
      BY <2>1, <2>5, <2>6, ChildrenAreLater
  <2>8. UndoOf("resourceEnv") = UndoOf("resource")
      BY DEF UndoOf
  <2>9. Rank(what) \in Nat /\ Rank(UndoOf(kind)) \in Nat
      BY <1>3, <2>5, RankType
  <2>10. QED  BY <2>4, <2>5, <2>6, <2>7, <2>8, <2>9
<1>15. QED  BY <1>11, <1>12, <1>13, <1>14 DEF CallInv

\* The deadline of the rollback: all that was due is spoiled, so whatever is
\* still there is explained.
LEMMA DeadlineKeepsCall ==
    ASSUME TypeOK, NEW a \in Attempts, CallInv(a), RollbackTimesOut(a)
    PROVE  CallInv(a)'
<1> DEFINE what == undos[a][Len(undos[a])]
<1>1. /\ pc[a] = "rollback" /\ pc' = pc /\ handler' = handler /\ undos[a] # <<>>
      /\ undos'[a] = <<>>
      /\ spoiled'[a] = spoiled[a] \cup {undos[a][i] : i \in DOMAIN undos[a]}
      /\ \E gone \in HalfUndone(a, what) : rows'[a] = rows[a] \ gone
    BY DEF TypeOK, RollbackTimesOut
<1>2. spoiled'[a] = spoiled[a] \cup Due(a)
    BY <1>1, RecordedIsDue DEF CallInv
<1>3. what \in Due(a) /\ what \in Undoable
  <2>1. Len(undos[a]) \in Nat /\ Len(undos[a]) # 0
      BY <1>1, UndosType, EmptySeq
  <2>2. what \in Undoable
      BY <1>1, UndosType, DropLast
  <2>3. QED  BY <2>1, <2>2 DEF CallInv, InOrder, Due
<1> HIDE DEF what
<1>4. Len(undos'[a]) = 0 /\ Due(a)' = {}
  <2>1. Len(undos'[a]) = 0
      BY <1>1, EmptySeq
  <2>2. QED  BY <2>1, RankType DEF Due
<1>5. /\ rows'[a] \subseteq rows[a]
      /\ \A k \in rows[a] \ rows'[a] : UndoOf(k) = what
      /\ rows[a] \ rows'[a] \subseteq Undone(a, what)
    BY <1>1, <1>3, UndoneType
<1>6. \A kind : Explained(a, kind) => Explained(a, kind)'
  <2> SUFFICES ASSUME NEW kind, Explained(a, kind) PROVE Explained(a, kind)'
      OBVIOUS
  <2>1. \A k \in ReferencedBy(kind) \cap rows[a] : HasReason(a, k) => k \in rows'[a]
      BY <1>3, <1>5, DueHasNoReason
  <2>2. spoiled[a] \subseteq spoiled'[a] /\ handler'[a] = handler[a]
      BY <1>1, <1>2
  <2>3. QED  BY <2>1, <2>2, ExplainedLasts
<1>7. \A kind \in rows'[a] \ {"secret", "pool"} : Explained(a, kind)'
  <2> SUFFICES ASSUME NEW kind \in rows'[a] \ {"secret", "pool"}
               PROVE  Explained(a, kind)'
      OBVIOUS
  <2>1. UndoOf(kind) \in Due(a) \/ Explained(a, kind)
      BY <1>1, <1>5, RollingBack
  <2>2. UndoOf(kind) \in Due(a) => HasReason(a, kind)'
      BY <1>2 DEF HasReason
  <2>3. HasReason(a, kind)' => Explained(a, kind)'
      BY DEF Explained
  <2>4. QED  BY <1>6, <2>1, <2>2, <2>3
<1>8. /\ InOrder(a)' /\ Unspoiled(a)' /\ NotBoth(a)' /\ Present(a)'
      /\ Dropped(a)' /\ Opened(a)'
  <2>1. "database" \notin Due(a)
      BY DEF Due, Undoable
  <2>2. QED  BY <1>1, <1>2, <1>4, <1>5, <2>1
             DEF CallInv, InOrder, Unspoiled, NotBoth, Present, Dropped, Opened, Forward
<1>9. Serving(a)'
  <2>1. Delivered(a)' => Delivered(a)
      BY <1>1, <1>4, <1>5 DEF Delivered
  <2>2. ~Quiet(a)' => "projectDatabase" \in spoiled'[a]
      BY <1>1, <1>2 DEF CallInv, Serving, Quiet, AwaitedIn
  <2>3. MadeBy(handler[a]) \subseteq rows'[a]
      BY <1>3, <1>5, MadeIsNotUndone DEF CallInv, Serving
  <2>4. QED  BY <1>1, <2>1, <2>2, <2>3 DEF CallInv, Serving, Unsent, Forward
<1>10. Kept(a)' /\ Rooted(a)'
    BY <1>7, ResourceParents DEF Kept, Accounted, Rooted
<1>11. QED  BY <1>8, <1>9, <1>10 DEF CallInv

\* Neither concerns any other call.
LEMMA UndoKeepsLeft ==
    ASSUME TypeOK, LeftoverInv, NEW a \in Attempts, UndoLast(a) \/ RollbackTimesOut(a)
    PROVE  LeftoverInv'
<1>1. \A b \in Attempts \ {a} : Untouched(b)
    BY DEF TypeOK, UndoLast, RollbackTimesOut, Untouched
<1>2. QED  BY <1>1, UndoKeepsCall, DeadlineKeepsCall, OneCallLeft DEF LeftoverInv

-----------------------------------------------------------------------------
(* The crashes, which concern every call at once.                          *)

\* The auth service dies: the calls it was running are over and nobody is left
\* to run an undo, but their rows and their database requests stay.
LEMMA AuthCrashKeepsLeft ==
    ASSUME TypeOK, LeftoverInv, AuthCrash
    PROVE  LeftoverInv'
<1> SUFFICES ASSUME NEW a \in Attempts PROVE CallInv(a)'
    BY DEF LeftoverInv
<1>1. CallInv(a)
    BY DEF LeftoverInv
<1>2. /\ pc'[a] = (IF Running(a) THEN "crashed" ELSE pc[a]) /\ undos'[a] = <<>>
      /\ UNCHANGED <<rows, handler, spoiled>>
    BY DEF AuthCrash
<1>3. Len(undos'[a]) = 0 /\ Due(a)' = {}
  <2>1. Len(undos'[a]) = 0
      BY <1>2, EmptySeq
  <2>2. QED  BY <2>1, RankType DEF Due
<1>4. pc'[a] \in {"idle", "registered", "failed", "crashed"} /\ ~Forward(a)'
    BY <1>2 DEF TypeOK, Running, Forward, Phases
<1>5. \A kind : Explained(a, kind)' <=> Explained(a, kind)
    BY <1>2 DEF Explained, HasReason
<1>6. InOrder(a)' /\ NotBoth(a)' /\ Present(a)' /\ Dropped(a)' /\ Rooted(a)'
    BY <1>1, <1>2, <1>3, <1>4, <1>5
    DEF CallInv, InOrder, NotBoth, Present, Dropped, Rooted, Recorded
<1>7. CASE Running(a)
  <2>1. Unspoiled(a)' /\ Kept(a)' /\ Opened(a)'
      BY <1>1, <1>2, <1>7 DEF CallInv, Unspoiled, Kept, Opened, Forward
  <2>2. Serving(a)'
      BY <1>1, <1>2, <1>3, <1>7
      DEF CallInv, Serving, Unsent, Delivered, AwaitedIn, Quiet, Forward
  <2>3. QED  BY <1>6, <2>1, <2>2 DEF CallInv
<1>8. CASE ~Running(a)
  <2>1. pc'[a] = pc[a] /\ Len(undos[a]) = 0
      BY <1>1, <1>2, <1>4, <1>8 DEF CallInv, InOrder, Recorded
  <2>2. Due(a) = {}
      BY <2>1, NothingDue
  <2>3. Unspoiled(a)' /\ Kept(a)' /\ Opened(a)'
      BY <1>1, <1>2, <1>3, <1>5, <2>1, <2>2
      DEF CallInv, Unspoiled, Kept, Accounted, Opened, CanSignIn, Forward
  <2>4. Serving(a)'
      BY <1>1, <1>2, <1>3, <2>1, <2>2
      DEF CallInv, Serving, Unsent, Delivered, AwaitedIn, Quiet, Forward
  <2>5. QED  BY <1>6, <2>3, <2>4 DEF CallInv
<1>9. QED  BY <1>7, <1>8

\* The company service dies, and its requests with it.
LEMMA CompanyCrashKeepsLeft ==
    ASSUME TypeOK, LeftoverInv, CompanyCrash
    PROVE  LeftoverInv'
<1> SUFFICES ASSUME NEW a \in Attempts PROVE CallInv(a)'
    BY DEF LeftoverInv
<1>1. CallInv(a)
    BY DEF LeftoverInv
<1>2. /\ handler'[a] = (IF Quiet(a) THEN handler[a] ELSE "gone")
      /\ pc'[a] = (IF pc[a] = "insertCompany" THEN "rollback" ELSE pc[a])
      /\ UNCHANGED <<undos, rows, spoiled>>
    BY DEF CompanyCrash
<1>3. CASE pc[a] = "insertCompany"
  <2>1. Forward(a) /\ handler[a] = "none"
      BY <1>1, <1>3 DEF CallInv, Serving, Unsent, Forward
  <2>2. handler'[a] = handler[a]
      BY <1>2, <2>1 DEF Quiet
  <2>3. QED  BY <1>1, <1>2, <1>3, <2>1, <2>2, GiveUpKeeps
<1>4. CASE pc[a] # "insertCompany" /\ Quiet(a)
  <2>1. Untouched(a)
      BY <1>2, <1>4 DEF Untouched
  <2>2. QED  BY <1>1, <2>1, UntouchedKeeps
<1>5. CASE pc[a] # "insertCompany" /\ ~Quiet(a)
  <2>1. Due(a)' = Due(a)
      BY <1>2, SameDue
  <2>2. \A kind : Explained(a, kind)' <=> Explained(a, kind)
      BY <1>2, <1>5 DEF Explained, HasReason, Quiet
  <2>3. /\ InOrder(a)' /\ Unspoiled(a)' /\ NotBoth(a)' /\ Present(a)' /\ Dropped(a)'
        /\ Kept(a)' /\ Rooted(a)' /\ Opened(a)'
      BY <1>1, <1>2, <1>5, <2>1, <2>2
      DEF CallInv, InOrder, Unspoiled, NotBoth, Present, Dropped, Kept, Rooted, Opened,
          Accounted, CanSignIn, Forward, Quiet
  <2>4. ~Unsent(a) /\ ~Delivered(a) /\ handler'[a] = "gone"
      BY <1>1, <1>2, <1>5 DEF CallInv, Serving, Quiet
  <2>5. ~Unsent(a)' /\ ~Delivered(a)'
      BY <1>2, <1>5, <2>1, <2>4 DEF Unsent, Delivered, Forward
  <2>6. Serving(a)'
      BY <2>4, <2>5 DEF Serving, Quiet, MadeBy
  <2>7. QED  BY <2>3, <2>6 DEF CallInv
<1>6. QED  BY <1>3, <1>4, <1>5

-----------------------------------------------------------------------------
(* The theorems.                                                           *)

\* At the start no call has done anything.
LEMMA LeftoverInit ==
    ASSUME Init
    PROVE  LeftoverInv
<1> SUFFICES ASSUME NEW a \in Attempts PROVE CallInv(a)
    BY DEF LeftoverInv
<1>1. /\ pc[a] = "idle" /\ undos[a] = <<>> /\ rows[a] = {} /\ handler[a] = "none"
      /\ spoiled[a] = {}
    BY DEF Init
<1>2. Len(undos[a]) = 0 /\ Due(a) = {}
    BY <1>1, EmptySeq, NothingDue
<1>3. InOrder(a) /\ Unspoiled(a) /\ NotBoth(a) /\ Present(a) /\ Dropped(a)
    BY <1>1, <1>2 DEF InOrder, Unspoiled, NotBoth, Present, Dropped, Recorded, Forward
<1>4. Serving(a)
    BY <1>1, <1>2 DEF Serving, Delivered, Quiet, MadeBy
<1>5. Kept(a) /\ Rooted(a) /\ Opened(a)
    BY <1>1 DEF Kept, Rooted, Opened
<1>6. QED  BY <1>3, <1>4, <1>5 DEF CallInv

\* Every step of every call, of every request and of the processes keeps it.
LEMMA LeftoverStep ==
    ASSUME TypeOK, LeftoverInv, [Next]_vars
    PROVE  LeftoverInv'
<1>1. TypeOK'
    BY TypeStep
<1>2. CASE UNCHANGED vars
  <2>1. \A a \in Attempts : Untouched(a)
      BY <1>2 DEF vars, Untouched
  <2>2. QED  BY <2>1, UntouchedKeeps DEF LeftoverInv
<1>3. ASSUME NEW a \in Attempts,
             \/ InsertCompany(a) \/ CreateProject(a) \/ CreateEnvironment(a)
             \/ CreateApiKey(a) \/ AddUserToProject(a)
      PROVE  LeftoverInv'
  <2>1. /\ Rank("company") = 1 /\ Rank("project") = 2 /\ Rank("environment") = 3
        /\ Rank("apiKey") = 4 /\ Rank("membership") = 6
        /\ {"company", "project", "environment", "apiKey", "membership"}
               \subseteq Undoable \ {"projectDatabase"}
      BY DEF Rank, Undoable
  <2>2. /\ Recorded("insertCompany") = 0 /\ Recorded("createProject") = 1
        /\ Recorded("createEnvironment") = 2 /\ Recorded("createApiKey") = 3
        /\ Recorded("createUser") = 4 /\ Recorded("addMembership") = 5
        /\ Recorded("createResource") = 6
      BY DEF Recorded
  <2>3. CASE InsertCompany(a)
      BY <2>1, <2>2, <2>3, WriteKeepsLeft DEF InsertCompany, Phases
  <2>4. CASE CreateProject(a)
      BY <2>1, <2>2, <2>4, WriteKeepsLeft DEF CreateProject, Phases
  <2>5. CASE CreateEnvironment(a)
      BY <2>1, <2>2, <2>5, WriteKeepsLeft DEF CreateEnvironment, Phases
  <2>6. CASE CreateApiKey(a)
      BY <2>1, <2>2, <2>6, WriteKeepsLeft DEF CreateApiKey, Phases
  <2>7. CASE AddUserToProject(a)
      BY <2>1, <2>2, <2>7, WriteKeepsLeft DEF AddUserToProject, Phases
  <2>8. QED  BY <1>3, <2>3, <2>4, <2>5, <2>6, <2>7
<1>4. ASSUME NEW a \in Attempts,
             Start(a) \/ RejectInput(a) \/ HangUp(a) \/ RegisterStep(a)
      PROVE  LeftoverInv'
    BY <1>3, <1>4, PlainKeepsLeft, CreateUserKeepsLeft, CallCreateResourceKeepsLeft,
       ResourceCreatedKeepsLeft, ResourceMissedKeepsLeft,
       UpdateServiceResourceKeepsLeft, UndoKeepsLeft, RefusedKeepsLeft
    DEF RegisterStep
<1>5. QED  BY <1>1, <1>2, <1>4, HandlerKeepsLeft, AuthCrashKeepsLeft,
              CompanyCrashKeepsLeft
           DEF Next

\* The invariant, with the types, of every registration.
THEOREM LeftoverInvariant == Spec => [](TypeOK /\ LeftoverInv)
<1>1. Init => LeftoverInv
    BY LeftoverInit
<1>2. TypeOK /\ LeftoverInv /\ [Next]_vars => LeftoverInv'
    BY LeftoverStep
<1>3. QED  BY <1>1, <1>2, TypeCorrect, PTL DEF Spec

\* Once a registration has failed, every row left behind is explained: its own
\* write or undo went wrong, CreateResource failed after writing it, or another
\* such row refers to it.  Nothing is due any more, and Kept says that a row
\* that is not due is explained.
THEOREM LeftoversAreExplained == Spec => []LeftoversExplained
<1>1. TypeOK /\ LeftoverInv => LeftoversExplained
  <2> SUFFICES ASSUME LeftoverInv, NEW a \in Attempts, pc[a] = "failed",
                      NEW kind \in rows[a] \ {"secret", "pool"}
               PROVE  Explained(a, kind)
      BY DEF LeftoversExplained
  <2>1. CallInv(a)
      BY DEF LeftoverInv
  <2>2. Due(a) = {}
      BY <2>1, NothingDue DEF CallInv, InOrder, Recorded
  <2>3. QED  BY <2>1, <2>2 DEF CallInv, Kept, Accounted
<1>2. QED  BY <1>1, LeftoverInvariant, PTL

\* At no moment of a registration, its rollback or a crash is a row there
\* without the rows it belongs to, unless it is explained.
THEOREM NoRowIsAnOrphan == Spec => []NoOrphans
<1>1. LeftoverInv => NoOrphans
    BY DEF LeftoverInv, CallInv, Rooted, NoOrphans
<1>2. QED  BY <1>1, LeftoverInvariant, PTL

\* The administrator of a failed registration can sign in only if the last
\* answer was lost and the undos of the membership and of the database both
\* went wrong: each of the three rows is explained, and by nothing but itself.
LEMMA FailedIsClosed ==
    ASSUME LeftoverInv
    PROVE  FailedLeavesNoAccess
<1> SUFFICES ASSUME NEW a \in Attempts, pc[a] = "failed", CanSignIn(a)
             PROVE  {"membership", "projectDatabase", "serviceResource"} \subseteq spoiled[a]
    BY DEF FailedLeavesNoAccess
<1>1. CallInv(a)
    BY DEF LeftoverInv
<1>2. Due(a) = {}
    BY <1>1, NothingDue DEF CallInv, InOrder, Recorded
<1>3. \A kind \in {"membership", "database", "serviceResource"} :
          /\ kind \in rows[a] \ {"secret", "pool"} /\ ReferencedBy(kind) = {}
    BY DEF CanSignIn, SignInNeeds, ReferencedBy
<1>4. \A kind \in {"membership", "database", "serviceResource"} : Explained(a, kind)
    BY <1>1, <1>2, <1>3 DEF CallInv, Kept, Accounted
<1>5. \A kind \in {"membership", "database", "serviceResource"} : HasReason(a, kind)
    BY <1>3, <1>4, ExplainedByItself
<1>6. /\ UndoOf("membership") = "membership" /\ UndoOf("database") = "projectDatabase"
      /\ UndoOf("serviceResource") = "serviceResource"
    BY DEF UndoOf
<1>7. "database" \notin spoiled[a]
    BY <1>1, <1>3 DEF CallInv, Serving, Delivered, Unspoiled
<1>8. QED  BY <1>5, <1>6, <1>7 DEF HasReason

\* It holds of every registration, whatever fails and however often.
THEOREM FailureLeavesNoAccess == Spec => []FailedLeavesNoAccess
<1>1. QED  BY FailedIsClosed, LeftoverInvariant, PTL

-----------------------------------------------------------------------------
(* Register implements what AtomicRegistration promises.                   *)

\* What a step of one call may do: nothing to the other calls; nothing to the
\* phase of a call that was answered nor to its doubt, and nothing to its rows
\* unless its database request is still at work, which never writes the last
\* row.  Answering with an error changes no row, a call is answered otherwise
\* only after its last write, and what raises a doubt opens no door.
Local(a) ==
    /\ \A b \in Attempts \ {a} : /\ pc'[b] = pc[b] /\ rows'[b] = rows[b]
                                 /\ spoiled'[b] = spoiled[b]
    /\ spoiled[a] \subseteq spoiled'[a]
    /\ pc[a] \in {"registered", "failed"} =>
           /\ pc'[a] = pc[a] /\ (InDoubt(a)' => InDoubt(a))
           /\ Quiet(a) => rows'[a] = rows[a]
           /\ "serviceResource" \in rows'[a] => "serviceResource" \in rows[a]
    /\ pc'[a] = "failed" =>
           pc[a] = "failed" \/ (rows'[a] = rows[a] /\ spoiled'[a] = spoiled[a])
    /\ pc'[a] = "registered" =>
           \/ pc[a] = "registered"
           \/ /\ pc[a] = "updateServices"
              /\ rows[a] \subseteq rows'[a] /\ spoiled'[a] = spoiled[a]
    /\ InDoubt(a)' => InDoubt(a) \/ rows'[a] \subseteq rows[a]

\* The writes of Register that record an undo.
LEMMA WriteIsLocal ==
    ASSUME TypeOK, NEW a \in Attempts, CallInv(a),
           NEW here \in Phases \ {"idle", "rollback", "registered", "failed", "crashed"},
           NEW what \in Undoable, NEW next \in Phases \ {"registered", "failed"},
           Write(a, here, what, next)
    PROVE  Local(a)
<1>1. pc[a] = here /\ pc'[a] \in {next, "rollback"}
    BY DEF TypeOK, Write, GoTo, Fail
<1>2. \A b \in Attempts \ {a} : /\ pc'[b] = pc[b] /\ rows'[b] = rows[b]
                                /\ spoiled'[b] = spoiled[b]
    BY DEF TypeOK, Write, GoTo, Fail
<1>3. spoiled'[a] \in {spoiled[a], spoiled[a] \cup {what}}
    BY DEF TypeOK, Write
<1>4. spoiled[a] \subseteq {"database"}
    BY <1>1 DEF CallInv, Unspoiled, Forward
<1>5. ~InDoubt(a)'
    BY <1>3, <1>4 DEF InDoubt, Undoable
<1>6. QED  BY <1>1, <1>2, <1>3, <1>5 DEF Local

\* The steps that write nothing.
LEMMA PlainIsLocal ==
    ASSUME TypeOK, NEW a \in Attempts,
           \A b \in Attempts \ {a} : pc'[b] = pc[b],
           UNCHANGED <<rows, spoiled>>,
           pc[a] \in {"registered", "failed"} => pc'[a] = pc[a],
           pc'[a] = "registered" => pc[a] = "registered"
    PROVE  Local(a)
BY DEF Local, InDoubt

\* The last write.
LEMMA LastWriteIsLocal ==
    ASSUME TypeOK, NEW a \in Attempts, CallInv(a), UpdateServiceResource(a)
    PROVE  Local(a)
<1>1. /\ pc[a] = "updateServices" /\ pc'[a] \in {"registered", "rollback"}
      /\ \A b \in Attempts \ {a} : /\ pc'[b] = pc[b] /\ rows'[b] = rows[b]
                                   /\ spoiled'[b] = spoiled[b]
    BY DEF TypeOK, UpdateServiceResource, GoTo, Fail
<1>2. pc'[a] = "registered" => rows[a] \subseteq rows'[a] /\ spoiled'[a] = spoiled[a]
    BY DEF TypeOK, UpdateServiceResource, GoTo, Fail
<1>3. spoiled'[a] \in {spoiled[a], spoiled[a] \cup {"serviceResource"}}
    BY DEF TypeOK, UpdateServiceResource
<1>4. spoiled[a] = {}
    BY <1>1, ReadyForServices
<1>5. ~InDoubt(a)'
    BY <1>3, <1>4 DEF InDoubt
<1>6. QED  BY <1>1, <1>2, <1>3, <1>5 DEF Local

\* The steps that only take rows away, or leave them.
LEMMA WithdrawalIsLocal ==
    ASSUME TypeOK, NEW a \in Attempts,
           ResourceLost(a) \/ UndoLast(a) \/ RollbackTimesOut(a)
    PROVE  Local(a)
<1>1. pc[a] \in {"awaitResource", "rollback"} /\ pc'[a] = "rollback"
    BY DEF TypeOK, ResourceLost, UndoLast, RollbackTimesOut, GoTo, Fail
<1>2. /\ \A b \in Attempts \ {a} : /\ pc'[b] = pc[b] /\ rows'[b] = rows[b]
                                   /\ spoiled'[b] = spoiled[b]
      /\ spoiled[a] \subseteq spoiled'[a] /\ rows'[a] \subseteq rows[a]
  <2>1. CASE ResourceLost(a)
      BY <2>1 DEF TypeOK, ResourceLost, GoTo, Fail
  <2>2. CASE UndoLast(a)
      BY <2>2 DEF TypeOK, UndoLast
  <2>3. CASE RollbackTimesOut(a)
      BY <2>3 DEF TypeOK, RollbackTimesOut
  <2>4. QED  BY <2>1, <2>2, <2>3
<1>3. QED  BY <1>1, <1>2 DEF Local

\* The steps of the database request.
LEMMA HandlerIsLocal ==
    ASSUME TypeOK, NEW a \in Attempts, CreateResourceStep(a)
    PROVE  Local(a)
<1>1. pc' = pc /\ ~Quiet(a)
    BY DEF CreateResourceStep, CreateUserAndDatabase, PutSecret, InsertResource,
           InsertResourceEnvironment, RegisterBuilder, DropDatabase,
           AddResourceWrite, HandlerStep, Quiet
<1>2. /\ \A b \in Attempts \ {a} : rows'[b] = rows[b] /\ spoiled'[b] = spoiled[b]
      /\ spoiled'[a] \in {spoiled[a], spoiled[a] \cup {"database"}}
      /\ "serviceResource" \in rows'[a] => "serviceResource" \in rows[a]
  <2>1. ASSUME NEW here, NEW what, NEW next, what # "serviceResource",
               AddResourceWrite(a, here, what, next)
        PROVE  <1>2
      BY <2>1 DEF TypeOK, AddResourceWrite
  <2>2. CASE CreateUserAndDatabase(a)
      BY <2>2 DEF TypeOK, CreateUserAndDatabase
  <2>3. CASE DropDatabase(a)
      BY <2>3 DEF TypeOK, DropDatabase
  <2>4. CASE rows' = rows /\ spoiled' = spoiled
      BY <2>4
  <2>5. QED  BY <2>1, <2>2, <2>3, <2>4
             DEF CreateResourceStep, PutSecret, InsertResource,
                 InsertResourceEnvironment, RegisterBuilder
<1>3. InDoubt(a)' => InDoubt(a)
    BY <1>2 DEF InDoubt
<1>4. QED  BY <1>1, <1>2, <1>3 DEF Local

\* So of every step of a call.
LEMMA CallIsLocal ==
    ASSUME TypeOK, NEW a \in Attempts, CallInv(a),
           \/ Start(a) \/ RejectInput(a) \/ HangUp(a)
           \/ RegisterStep(a) \/ CreateResourceStep(a)
    PROVE  Local(a)
<1>1. CASE \/ InsertCompany(a) \/ CreateProject(a) \/ CreateEnvironment(a)
           \/ CreateApiKey(a) \/ AddUserToProject(a)
           \/ Write(a, "createUser", "user", "updateCompany")
    BY <1>1, WriteIsLocal
    DEF InsertCompany, CreateProject, CreateEnvironment, CreateApiKey,
        AddUserToProject, Undoable, Phases
<1>2. CASE \/ Start(a) \/ RejectInput(a) \/ HangUp(a) \/ CountCompanies(a)
           \/ UpdateCompany(a) \/ CallCreateResource(a) \/ ResourceCreated(a)
           \/ ResourceFailed(a) \/ FinishRollback(a)
           \/ /\ pc[a] = "createUser" /\ Fail(a, "error")
              /\ UNCHANGED <<undos, rows, handler, cancelled, spoiled, failures>>
  <2>1. /\ \A b \in Attempts \ {a} : pc'[b] = pc[b]
        /\ UNCHANGED <<rows, spoiled>>
        /\ pc[a] \in {"registered", "failed"} => pc'[a] = pc[a]
        /\ pc'[a] = "registered" => pc[a] = "registered"
      BY <1>2 DEF TypeOK, Start, RejectInput, HangUp, CountCompanies, UpdateCompany,
                  CallCreateResource, ResourceCreated, ResourceFailed, FinishRollback,
                  GoTo, Fail
  <2>2. QED  BY <2>1, PlainIsLocal
<1>3. QED  BY <1>1, <1>2, LastWriteIsLocal, WithdrawalIsLocal, HandlerIsLocal
           DEF RegisterStep, CreateUser

\* The answers, the open organisations and the doubts, as the promise sees them.
answers == [a \in Attempts |-> AnswerOf(a)]
opened  == {a \in Attempts : CanSignIn(a)}
doubts  == {a \in Attempts : InDoubt(a)}

\* A step that gives no answer, neither opens nor closes an organisation and
\* raises no doubt.
LEMMA SameAnswers ==
    ASSUME \A a \in Attempts : /\ AnswerOf(a)' = AnswerOf(a) /\ rows'[a] = rows[a]
                               /\ spoiled'[a] = spoiled[a]
    PROVE  answers' = answers /\ opened' = opened /\ doubts' = doubts
BY DEF answers, opened, doubts, CanSignIn, InDoubt

\* A call that was answered is neither opened, closed nor doubted any more: a
\* database request that is still at work works for a call that never came to
\* its last write.
LEMMA AnsweredIsSettled ==
    ASSUME NEW a \in Attempts, CallInv(a), Local(a), pc[a] \in {"registered", "failed"}
    PROVE  (CanSignIn(a)' <=> CanSignIn(a)) /\ (InDoubt(a)' <=> InDoubt(a))
<1>1. InDoubt(a)' <=> InDoubt(a)
    BY DEF Local, InDoubt
<1>2. CASE Quiet(a)
    BY <1>1, <1>2 DEF Local, CanSignIn
<1>3. CASE ~Quiet(a)
  <2>1. "serviceResource" \notin rows[a]
      BY <1>3 DEF CallInv, Serving, Delivered, Quiet
  <2>2. "serviceResource" \notin rows'[a]
      BY <2>1 DEF Local
  <2>3. QED  BY <1>1, <2>1, <2>2 DEF CanSignIn, SignInNeeds
<1>4. QED  BY <1>1, <1>2, <1>3

\* A step of one call, seen from the promise.
LEMMA CallKeepsPromise ==
    ASSUME TypeOK, LeftoverInv, LeftoverInv', "skipped" \notin Faults,
           NEW a \in Attempts, Local(a), FailedLeavesNoAccess'
    PROVE  [Promise!Next]_<<answers, opened, doubts>>
<1>1. CallInv(a) /\ CallInv(a)'
    BY DEF LeftoverInv
<1>2. \A b \in Attempts \ {a} : /\ AnswerOf(b)' = AnswerOf(b)
                                /\ CanSignIn(b)' <=> CanSignIn(b)
                                /\ InDoubt(b)' <=> InDoubt(b)
    BY DEF Local, AnswerOf, CanSignIn, InDoubt
<1>3. /\ AnswerOf(a)' = AnswerOf(a) => answers' = answers
      /\ CanSignIn(a)' => opened' = opened \cup {a}
      /\ ~CanSignIn(a)' => opened' = opened \ {a}
      /\ InDoubt(a)' => doubts' = doubts \cup {a}
      /\ (InDoubt(a)' <=> InDoubt(a)) => doubts' = doubts
    BY <1>2 DEF answers, opened, doubts
<1>4. CASE AnswerOf(a) = "none" /\ AnswerOf(a)' = "none"
  <2>1. answers[a] = "none" /\ answers' = answers
      BY <1>3, <1>4 DEF answers
  <2>2. CASE InDoubt(a)' <=> InDoubt(a)
    <3>1. Promise!Open(a) \/ Promise!Withdraw(a)
        BY <1>3, <2>1, <2>2
        DEF Promise!Open, Promise!Withdraw, answers, opened, doubts
    <3>2. QED  BY <3>1 DEF Promise!Next
  <2>3. CASE ~(InDoubt(a)' <=> InDoubt(a))
    <3>1. InDoubt(a)' /\ rows'[a] \subseteq rows[a]
        BY <2>3 DEF Local, InDoubt
    <3>2. CanSignIn(a)' => CanSignIn(a)
        BY <3>1 DEF CanSignIn
    <3>3. opened' \in {opened, opened \ {a}}
        BY <1>3, <3>2 DEF opened
    <3>4. Promise!Withdraw(a)
        BY <1>3, <2>1, <3>1, <3>3 DEF Promise!Withdraw, answers, opened, doubts
    <3>5. QED  BY <3>4 DEF Promise!Next
  <2>4. QED  BY <2>2, <2>3
<1>5. CASE AnswerOf(a) = "none" /\ pc'[a] = "registered"
  <2>1. answers' = [answers EXCEPT ![a] = "registered"] /\ answers[a] = "none"
      BY <1>2, <1>5 DEF answers, AnswerOf
  <2>2. /\ pc[a] = "updateServices" /\ rows[a] \subseteq rows'[a]
        /\ spoiled'[a] = spoiled[a]
      BY <1>5 DEF Local, AnswerOf
  <2>3. spoiled[a] = {} /\ Undoable \ {"projectDatabase"} \subseteq rows[a]
      BY <1>1, <2>2, ReadyForServices
  <2>4. ~InDoubt(a) /\ ~InDoubt(a)'
      BY <2>2, <2>3 DEF InDoubt
  <2>5. CanSignIn(a)'
    <3>1. rows'[a] # {}
        BY <2>2, <2>3 DEF Undoable
    <3>2. QED  BY <1>1, <1>5, <3>1 DEF CallInv, Opened
  <2>6. opened' = opened \cup {a} /\ doubts' = doubts /\ a \notin doubts
      BY <1>3, <2>4, <2>5 DEF doubts
  <2>7. Promise!Register(a)
      BY <2>1, <2>6 DEF Promise!Register, Promise!Answer, answers, opened, doubts
  <2>8. QED  BY <2>7 DEF Promise!Next
<1>6. CASE AnswerOf(a) = "none" /\ pc'[a] = "failed"
  <2>1. answers' = [answers EXCEPT ![a] = "failed"] /\ answers[a] = "none"
      BY <1>2, <1>6 DEF answers, AnswerOf
  <2>2. rows'[a] = rows[a] /\ spoiled'[a] = spoiled[a]
      BY <1>6 DEF Local, AnswerOf
  <2>3. /\ CanSignIn(a)' <=> CanSignIn(a)
        /\ InDoubt(a)' <=> InDoubt(a)
      BY <2>2 DEF CanSignIn, InDoubt
  <2>4. CanSignIn(a)' => InDoubt(a)'
      BY <1>6 DEF FailedLeavesNoAccess, InDoubt
  <2>5. opened' = opened /\ doubts' = doubts /\ (a \in opened => a \in doubts)
      BY <1>2, <2>3, <2>4 DEF opened, doubts
  <2>6. Promise!Refuse(a)
      BY <2>1, <2>5 DEF Promise!Refuse, Promise!Answer, answers, opened, doubts
  <2>7. QED  BY <2>6 DEF Promise!Next
<1>7. CASE AnswerOf(a) # "none"
  <2>1. pc[a] \in {"registered", "failed"} /\ pc'[a] = pc[a]
      BY <1>7 DEF AnswerOf, Local
  <2>2. /\ CanSignIn(a)' <=> CanSignIn(a)
        /\ InDoubt(a)' <=> InDoubt(a)
      BY <1>1, <2>1, AnsweredIsSettled
  <2>3. QED  BY <1>2, <2>1, <2>2 DEF answers, opened, doubts, AnswerOf
<1>8. QED  BY <1>4, <1>5, <1>6, <1>7 DEF AnswerOf

\* Register implements the promise, whatever fails and however often, as long
\* as ServiceResource.Update does not drop its rows in silence: a caller is
\* answered at most once; an organisation that was registered is open, stays
\* open and was never in doubt; one that was refused is closed and stays closed,
\* unless its withdrawal was in doubt when the answer was given.
THEOREM RegisterKeepsPromise ==
    ASSUME "skipped" \notin Faults
    PROVE  Spec => KeepsPromise
<1>1. Init => Promise!Init
  <2> SUFFICES ASSUME Init PROVE Promise!Init
      OBVIOUS
  <2>1. \A a \in Attempts : AnswerOf(a) = "none" /\ ~CanSignIn(a) /\ ~InDoubt(a)
      BY DEF Init, AnswerOf, CanSignIn, SignInNeeds, InDoubt
  <2>2. QED  BY <2>1 DEF Promise!Init
<1>2. TypeOK /\ LeftoverInv /\ LeftoverInv' /\ FailedLeavesNoAccess' /\ [Next]_vars
      => [Promise!Next]_<<answers, opened, doubts>>
  <2> SUFFICES ASSUME TypeOK, LeftoverInv, LeftoverInv', FailedLeavesNoAccess',
                      [Next]_vars
               PROVE  [Promise!Next]_<<answers, opened, doubts>>
      OBVIOUS
  <2>1. ASSUME NEW a \in Attempts,
               \/ Start(a) \/ RejectInput(a) \/ HangUp(a)
               \/ RegisterStep(a) \/ CreateResourceStep(a)
        PROVE  [Promise!Next]_<<answers, opened, doubts>>
    <3>1. Local(a)
        BY <2>1, CallIsLocal DEF LeftoverInv
    <3>2. QED  BY <3>1, CallKeepsPromise
  <2>2. CASE AuthCrash \/ CompanyCrash \/ UNCHANGED vars
    <3>1. \A a \in Attempts : /\ AnswerOf(a)' = AnswerOf(a) /\ rows'[a] = rows[a]
                              /\ spoiled'[a] = spoiled[a]
        BY <2>2 DEF AuthCrash, CompanyCrash, vars, AnswerOf, Running, Forward
    <3>2. QED  BY <3>1, SameAnswers
  <2>3. QED  BY <2>1, <2>2 DEF Next
<1>3. [Promise!Next]_<<answers, opened, doubts>> => [Promise!Next]_(Promise!vars)
    BY DEF Promise!vars, answers, opened, doubts
<1>4. QED  BY <1>1, <1>2, <1>3, LeftoverInvariant, FailureLeavesNoAccess, PTL
           DEF Spec, KeepsPromise, Promise!Spec
=============================================================================
