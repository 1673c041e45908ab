------------------------------ MODULE Bootstrap ------------------------------
(***************************************************************************)
(* The ucode command line tool setting an installation up.                 *)
(*                                                                         *)
(* ucode start brings the containers up and, unless a marker file says it  *)
(* was done before, registers the first organisation over HTTP, signs in   *)
(* as its administrator and writes the marker.  ucode reset deletes the    *)
(* data and then the marker.  The tool can be interrupted anywhere; the    *)
(* registration it asked for goes on in the services without it.           *)
(***************************************************************************)
EXTENDS Registration

NoCall == "noCall"

VARIABLES
    cli,    \* what the tool is doing
    call,   \* the call of Register it waits for
    marker, \* .bootstrapped exists
    cut,    \* history: a reset deleted the data and left the marker: it was
            \* interrupted, or down or the marker's removal reported an error
    abandoned \* history: the calls a broken connection or Ctrl-C walked away from

cliVars == <<cli, call, marker, cut, abandoned>>
allVars == <<vars, cliVars>>

CliPhases == {"idle", "bootstrap", "posting", "verify", "mark",
              "ready", "failed", "unusable", "removeMarker"}

\* The phases in which the tool is not running, by how it last ended: not yet
\* run or interrupted, with success, with an error, and with the advice that
\* the administrator cannot sign in.
AtRest == {"idle", "ready", "failed", "unusable"}

BootstrapInit ==
    /\ Init
    /\ cli = "idle" /\ call = NoCall /\ marker = FALSE
    /\ cut = FALSE /\ abandoned = {}

-----------------------------------------------------------------------------
(* ucode start                                                             *)

\* The containers come up and answer, or not in time; the marker decides
\* whether there is anything to do.
StartCmd ==
    /\ cli \in AtRest
    /\ \/ cli' = (IF marker THEN "ready" ELSE "bootstrap") /\ UNCHANGED failures
       \/ cli' = "failed" /\ Happens("refused")
    /\ UNCHANGED <<pc, undos, rows, handler, cause, cancelled, spoiled>>
    /\ UNCHANGED <<call, marker, cut, abandoned>>

\* registerCompany posts the request.
Post(a) ==
    /\ cli = "bootstrap"
    /\ Start(a)
    /\ cli' = "posting" /\ call' = a
    /\ UNCHANGED <<marker, cut, abandoned>>

\* The five minutes of bootstrap are over.
BootstrapTimeout ==
    /\ cli = "bootstrap" /\ \A a \in Attempts : pc[a] # "idle"
    /\ cli' = "failed"
    /\ UNCHANGED <<vars, call, marker, cut, abandoned>>

\* Mutant: any refusal is taken for an installation already set up.
AnsweredAnyRefusal ==
    /\ cli = "posting" /\ Finished(call)
    /\ cli' = IF pc[call] = "crashed" THEN "bootstrap" ELSE "verify"
    /\ call' = NoCall
    /\ UNCHANGED <<vars, marker, cut, abandoned>>

\* Mutant: a broken connection is not an answer.
AnsweredByTheLiving ==
    /\ cli = "posting" /\ pc[call] \in {"registered", "failed"}
    /\ cli' = IF pc[call] = "registered" THEN "verify" ELSE "failed"
    /\ call' = NoCall
    /\ UNCHANGED <<vars, marker, cut, abandoned>>

\* What the tool makes of the answer: a refusal that names MAX_COMPANIES is an
\* installation already set up, and an error is retried when its text says a
\* service was not up yet.  A dead auth service is a broken connection.
Answered ==
    /\ cli = "posting" /\ Finished(call)
    /\ \/ pc[call] = "registered" /\ cli' = "verify"
       \/ pc[call] = "failed" /\ cause[call] = "limit" /\ cli' = "verify"
       \/ pc[call] = "failed" /\ cause[call] # "limit" /\ cli' \in {"bootstrap", "failed"}
       \/ pc[call] = "crashed" /\ cli' = "bootstrap"
    /\ call' = NoCall
    /\ UNCHANGED <<vars, marker, cut, abandoned>>

\* Mutant: the installation is not tried out.
VerifyNothing ==
    /\ cli = "verify"
    /\ cli' = "mark"
    /\ UNCHANGED <<vars, call, marker, cut, abandoned>>

\* verifySetup signs in as the administrator, again and again for two minutes.
\* It cannot tell rows that are missing from a service that is down or slow for
\* as long as that.
VerifySetup ==
    /\ cli = "verify"
    /\ \/ /\ \E a \in Attempts : CanSignIn(a)
          /\ \/ cli' = "mark" /\ UNCHANGED failures
             \/ cli' = "unusable" /\ Happens("refused")
       \/ /\ ~\E a \in Attempts : CanSignIn(a)
          /\ cli' = "unusable" /\ UNCHANGED failures
    /\ UNCHANGED <<pc, undos, rows, handler, cause, cancelled, spoiled>>
    /\ UNCHANGED <<call, marker, cut, abandoned>>

\* Writing the marker may fail before or after the file is there.
MarkBootstrapped ==
    /\ cli = "mark"
    /\ \/ marker' = TRUE /\ cli' = "ready" /\ UNCHANGED failures
       \/ marker' \in {marker, TRUE} /\ cli' = "failed" /\ Happens("refused")
    /\ UNCHANGED <<pc, undos, rows, handler, cause, cancelled, spoiled>>
    /\ UNCHANGED <<call, cut, abandoned>>

\* The connection of the request breaks: the tool tries again when it was
\* reset, and gives up when it was its own timeout of three minutes.
ConnectionLost ==
    /\ cli = "posting"
    /\ HangUp(call)
    /\ cli' \in {"bootstrap", "failed"} /\ call' = NoCall
    /\ abandoned' = abandoned \cup {call}
    /\ UNCHANGED <<marker, cut>>

-----------------------------------------------------------------------------
(* ucode reset                                                             *)

\* The containers are stopped: calls and requests die with their services.
ContainersStop ==
    /\ pc' = [a \in Attempts |-> IF Running(a) THEN "crashed" ELSE pc[a]]
    /\ undos' = [a \in Attempts |-> <<>>]
    /\ handler' = [a \in Attempts |-> IF Quiet(a) THEN handler[a] ELSE "gone"]

\* down --volumes stops every container and deletes the volume with everything
\* stored.  An error ends the command before it comes to the marker, be it
\* reported before anything was done, with the volume still there, or after.
Down ==
    /\ cli \in AtRest
    /\ \/ /\ ContainersStop /\ rows' = [a \in Attempts |-> {}]
          /\ \/ cli' = "removeMarker" /\ UNCHANGED <<failures, cut>>
             \/ cli' = "failed" /\ Happens("refused") /\ cut' = (cut \/ marker)
       \/ /\ ContainersStop \/ UNCHANGED <<pc, undos, handler>>
          /\ cli' = "failed" /\ Happens("refused")
          /\ UNCHANGED <<rows, cut>>
    /\ UNCHANGED <<cause, cancelled, spoiled, call, marker, abandoned>>

\* The file is removed, or the error of its removal ends the command.
RemoveMarker ==
    /\ cli = "removeMarker"
    /\ \/ /\ marker' = FALSE /\ cli' = "ready" /\ cut' = FALSE
          /\ UNCHANGED failures
       \/ /\ cli' = "failed" /\ Happens("refused") /\ cut' = (cut \/ marker)
          /\ UNCHANGED marker
    /\ UNCHANGED <<pc, undos, rows, handler, cause, cancelled, spoiled>>
    /\ UNCHANGED <<call, abandoned>>

-----------------------------------------------------------------------------
\* Ctrl-C.  The connection of a request in flight closes with the process.
Interrupt ==
    /\ cli \notin AtRest
    /\ Happens("hangUp")
    /\ LET closed == IF cli = "posting" THEN {call} ELSE {} IN
       /\ cancelled' = cancelled \cup closed
       /\ abandoned' = abandoned \cup closed
    /\ cli' = "idle" /\ call' = NoCall
    /\ cut' = (cut \/ (marker /\ cli = "removeMarker"))
    /\ UNCHANGED <<pc, undos, rows, handler, cause, spoiled, marker>>

\* The services, whatever the tool does.
ServicesStep ==
    /\ \/ \E a \in Attempts : RegisterStep(a) \/ CreateResourceStep(a)
       \/ AuthCrash
       \/ CompanyCrash
    /\ UNCHANGED cliVars

\* The tool, once it runs.
CliStep ==
    \/ \E a \in Attempts : Post(a)
    \/ BootstrapTimeout \/ Answered \/ VerifySetup
    \/ MarkBootstrapped \/ RemoveMarker

BootstrapNext ==
    \/ StartCmd \/ Down \/ Interrupt \/ ConnectionLost
    \/ CliStep
    \/ ServicesStep

BootstrapSpec == BootstrapInit /\ [][BootstrapNext]_allVars

\* The tool runs until it ends, and the services serve.  Nobody has to start
\* or reset anything.
BootstrapFairness ==
    /\ WF_allVars(CliStep)
    /\ \A a \in Attempts :
         /\ WF_allVars(RegisterStep(a) /\ UNCHANGED cliVars)
         /\ WF_allVars(CreateResourceStep(a) /\ UNCHANGED cliVars)

FairBootstrapSpec == BootstrapSpec /\ BootstrapFairness

-----------------------------------------------------------------------------
(* Properties.                                                             *)

\* The type of every variable.
BootstrapTypeOK ==
    /\ TypeOK
    /\ cli \in CliPhases
    /\ call \in Attempts \cup {NoCall}
    /\ marker \in BOOLEAN
    /\ cut \in BOOLEAN
    /\ abandoned \subseteq Attempts

\* The tool has waited for the answer to every registration it asked for, if
\* only to see its connection break with the auth service.  One that it left
\* goes on, or takes itself back, while the tool tries again: it holds the
\* only place for a company, may open its doors for a moment, and may come to
\* its count when the next one has come to its own.
NobodyHungUp == abandoned = {}

\* A marker stands for an installation its administrator can sign in to,
\* unless ucode reset is at work, or one deleted the data and was interrupted or
\* failed before the marker was gone (stack.go, markBootstrapped; main.go
\* starts nothing when the marker is there, however the last reset ended).
MarkerMeansInstalled ==
    NobodyHungUp /\ marker /\ cli # "removeMarker" /\ ~cut =>
        \E a \in Attempts : CanSignIn(a)

\* The tool reports an unusable installation, whose only way out is ucode
\* reset, either over a finished one, whose sign-in was refused for two minutes,
\* or when a company row was left behind for a reason: its creation's answer was
\* lost, its undo failed, or the auth service died.  A registration that merely
\* failed is retried instead (bootstrap.go, verifySetup).
UnusableOnlyForReason ==
    NobodyHungUp /\ cli = "unusable" =>
        \E a \in Attempts :
            \/ CanSignIn(a)
            \/ /\ "company" \in rows[a]
               /\ "company" \in spoiled[a] \/ pc[a] = "crashed"

\* The tool, asking for one registration after the other, sets up no more
\* companies than MAX_COMPANIES allows, over retries, crashes and resets.
OneToolOneCompany == NobodyHungUp => AtMostMaxCompanies

\* ucode start and ucode reset come to an end.
CommandsEnd == cli \notin AtRest ~> cli \in AtRest

=============================================================================
