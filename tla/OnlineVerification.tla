------------------------------ MODULE OnlineVerification ------------------------------
(***************************************************************************)
(* The `verify` command of the recovery tool against the running portal:   *)
(* after an offline replacement it checks the portal behind the closed     *)
(* gate, moves the maintenance to its end over HTTP, logs in and out as an *)
(* ordinary user and records the result in the receipt.                    *)
(*                                                                         *)
(* Its control requests are those of MaintenanceMode, as the controller    *)
(* Cli; a request it stops waiting for goes on in the portal. RecoverySwap *)
(* models what the other commands do with the same receipt.                *)
(***************************************************************************)
EXTENDS MaintenanceMode

CONSTANTS Cli,             \* the controller that verify is
          Administrator    \* the user it logs in as

ASSUME VerifierAssumption == Cli \in Controllers /\ Administrator \in Users

VARIABLES
  receipt,   \* the phase in the receipt file
  bound,     \* its maintenanceOperationId
  verifier   \* the verify that runs, if any

verification == <<receipt, bound, verifier>>
onlineVars == <<vars, verification>>

\* step names the request that is next, or under way when waiting. first is
\* the state the first status answer gave. completed: this run's complete was
\* answered with success.
NoVerifier == [step |-> "none", waiting |-> FALSE, first |-> "inactive", completed |-> FALSE]

At(step) == verifier.step = step /\ ~verifier.waiting

Continue(step) == verifier' = [verifier EXCEPT !.step = step, !.waiting = FALSE]

\* Slip: the candidate keeps the sessions of the live database.
restoreWithSessions ==
  /\ ~running
  /\ receipt = "none"
  /\ Recoverable(row)
  /\ row.operation \in told
  /\ receipt' = "swapped"
  /\ bound' = row.operation
  /\ UNCHANGED <<vars, verifier>>

\* The offline replacement up to `swapped`, while the portal is down. The
\* candidate is a copy of the live database with its maintenance row, without
\* sessions.
restore ==
  /\ ~running
  /\ receipt = "none"
  /\ Recoverable(row)
  /\ row.operation \in told
  /\ receipt' = "swapped"
  /\ bound' = row.operation
  /\ sessions' = {}
  /\ UNCHANGED <<row, request, control, told, migration, bounded, verifier>>

verifyBegins ==
  /\ verifier = NoVerifier
  /\ receipt = "swapped"
  /\ verifier' = [NoVerifier EXCEPT !.step = "status"]
  /\ UNCHANGED <<vars, receipt, bound>>

\* Health and schema are well and the maintenance is this one, not yet exiting.
firstStatus ==
  /\ At("status")
  /\ running
  /\ Readable(row) /\ row.state \in {"active", "verifying"} /\ row.operation = bound
  /\ verifier' = [verifier EXCEPT !.step = "smoke", !.first = row.state]
  /\ UNCHANGED <<vars, receipt, bound>>

\* runMaintenanceVerificationSmoke reads the row, checks the password and the
\* settings, ...
smokeReadsState ==
  /\ At("smoke")
  /\ running
  /\ Readable(row) /\ row.state \in {"active", "verifying"} /\ row.operation = bound
  /\ Continue("smokeSessions")
  /\ UNCHANGED <<vars, receipt, bound>>

\* ... and then, in one batch, writes an audit event and counts the sessions.
smokeCountsSessions ==
  /\ At("smokeSessions")
  /\ running
  /\ sessions = {}
  /\ Continue(IF verifier.first = "active" THEN "start" ELSE "exit")
  /\ UNCHANGED <<vars, receipt, bound>>

sendTransition ==
  /\ verifier.step \in {"start", "exit", "complete"}
  /\ ~verifier.waiting
  /\ authorizeTransition(Cli, verifier.step, bound)
  /\ verifier' = [verifier EXCEPT !.waiting = TRUE]
  /\ UNCHANGED <<receipt, bound>>

\* The answer is there, and it is good.
transitionAnswered ==
  /\ verifier.step \in {"start", "exit", "complete"}
  /\ verifier.waiting
  /\ control[Cli].step = "idle"
  /\ control[Cli].answer = "ok"
  /\ verifier' = [verifier EXCEPT
       !.step = CASE @ = "start" -> "exit"
                  [] @ = "exit" -> "complete"
                  [] OTHER -> "finalStatus",
       !.waiting = FALSE,
       !.completed = verifier.step = "complete"]
  /\ UNCHANGED <<vars, receipt, bound>>

finalStatus ==
  /\ At("finalStatus")
  /\ running
  /\ GateOpen
  /\ Continue("login")
  /\ UNCHANGED <<vars, receipt, bound>>

\* The login goes through the gate like any other request.
sendLogin ==
  /\ At("login")
  /\ gate(Administrator)
  /\ verifier' = [verifier EXCEPT !.waiting = TRUE]
  /\ UNCHANGED <<receipt, bound>>

loginAnswered ==
  /\ verifier.step = "login"
  /\ verifier.waiting
  /\ request[Administrator] = "idle"
  /\ \E s \in sessions : s.user = Administrator
  /\ Continue("audit")
  /\ UNCHANGED <<vars, receipt, bound>>

\* The audit log, with the session; logout follows whether it shows the
\* smoke's event or not.
readAudit ==
  /\ At("audit")
  /\ \/ /\ running
        /\ GateOpen
        /\ \E s \in sessions : s.user = Administrator
        /\ Continue("logout")
     \/ Continue("logoutAfterFailure")
  /\ UNCHANGED <<vars, receipt, bound>>

\* Slip: the run ends with the audit log.
logoutForgotten ==
  /\ At("logout") \/ At("logoutAfterFailure")
  /\ Continue(IF verifier.step = "logout" THEN "recordVerified" ELSE "recordFailure")
  /\ UNCHANGED <<vars, receipt, bound>>

logout ==
  /\ At("logout") \/ At("logoutAfterFailure")
  /\ running
  /\ GateOpen
  /\ sessions' = {s \in sessions : s.user # Administrator}
  /\ Continue(IF verifier.step = "logout" THEN "recordVerified" ELSE "recordFailure")
  /\ UNCHANGED <<row, request, control, told, migration, bounded, receipt, bound>>

\* Any request may be refused, fail, or not be answered in time, and the write
\* of the receipt may fail; what the portal does of it is not undone.
verificationFails ==
  /\ verifier.step \notin {"none", "recordFailure"}
  /\ Continue("recordFailure")
  /\ UNCHANGED <<vars, receipt, bound>>

\* Slip: the verdict is written with the checks passed, before the end of the
\* maintenance.
recordVerifiedEarly ==
  /\ At("complete") \/ At("recordVerified")
  /\ receipt' = "verified"
  /\ verifier' = NoVerifier
  /\ UNCHANGED <<vars, bound>>

\* The write may report an error although it replaced the receipt.
recordVerified ==
  /\ At("recordVerified")
  /\ receipt' = "verified"
  /\ verifier' = NoVerifier \/ Continue("recordFailure")
  /\ UNCHANGED <<vars, bound>>

\* The phase for an error other than recovery_online_post_complete_failed.
\* That one is thrown if the audit or the logout is not "ok" at the end, but
\* each of them throws its own error first: no run gets there.
failurePhase == "failed"

\* recordVerificationFailure; its own failure is ignored.
recordVerificationFailure ==
  /\ At("recordFailure")
  /\ receipt' \in {failurePhase, receipt}
  /\ verifier' = NoVerifier
  /\ UNCHANGED <<vars, bound>>

verifierCrashes ==
  /\ verifier # NoVerifier
  /\ verifier' = NoVerifier
  /\ UNCHANGED <<vars, receipt, bound>>

\* maintenance-recover takes the receipt after an exchange, bound to the
\* operation in the row; after a rollback too, which RecoverySwap models.
maintenanceRecover ==
  /\ receipt \in {"swapped", "failed", "post_complete_failed"}
  /\ row.operation = bound
  /\ recoverOffline

verifyNext ==
  \/ verifyBegins
  \/ firstStatus
  \/ smokeReadsState
  \/ smokeCountsSessions
  \/ sendTransition
  \/ transitionAnswered
  \/ finalStatus
  \/ sendLogin
  \/ loginAnswered
  \/ readAudit
  \/ logout
  \/ verificationFails
  \/ recordVerified
  \/ recordVerificationFailure
  \/ verifierCrashes

\* The portal and its other callers. Only verify sends the requests of Cli and
\* of the administrator.
portalNext ==
  /\ \/ \E c \in Controllers \ {Cli} : ask(c)
     \/ \E c \in Controllers : serve(c)
     \/ \E u \in Users \ {Administrator} : gate(u)
     \/ \E u \in Users : userNext(u)
     \/ \E operation \in Operations : migrationBegins(operation)
     \/ migrationEnds
     \/ markMaintenanceFailed
     \/ maintenanceRecover
     \/ portalStops
     \/ portalStarts
     \/ tick
  /\ UNCHANGED verification

OnlineInit ==
  /\ Init
  /\ receipt = "none"
  /\ bound = 0
  /\ verifier = NoVerifier

OnlineNext == restore \/ verifyNext \/ portalNext

OnlineSpec == OnlineInit /\ [][OnlineNext]_onlineVars

-----------------------------------------------------------------------------
(* Properties *)

\* Types of the verifier and its receipt.
OnlineTypeOK ==
  /\ TypeOK
  /\ receipt \in {"none", "swapped", "verified", "failed", "post_complete_failed"}
  /\ bound \in 0 .. MaxOperations
  /\ verifier \in
       [step : {"none", "status", "smoke", "smokeSessions", "start", "exit", "complete",
                "finalStatus", "login", "audit", "logout", "logoutAfterFailure",
                "recordVerified", "recordFailure"},
        waiting : BOOLEAN, first : States, completed : BOOLEAN]

\* A receipt says `verified` only of a portal whose maintenance has ended,
\* whatever answers were lost and whoever else used the control endpoints.
VerifiedIsReopened == receipt = "verified" => row.operation # bound

\* The test login leaves nothing behind: once `verified`, the administrator
\* has no session and no request that could still make one, although a login
\* that was given up goes on in the portal.
VerifiedIsLoggedOut ==
  receipt = "verified" =>
    /\ request[Administrator] = "idle"
    /\ \A s \in sessions : s.user # Administrator

\* From the replacement to the end of the maintenance nobody is logged in and
\* nothing runs: what verify checks is what was restored.
RestoredIsQuiet ==
  receipt # "none" /\ row.operation = bound /\ row.state \in Blocked =>
    /\ sessions = {}
    /\ \A u \in Users : request[u] = "idle"

\* The design: a failure after `complete` marks the receipt
\* `post_complete_failed`.
PostCompleteIsMarked ==
  [][verifier.completed /\ receipt' # receipt =>
       receipt' \in {"verified", "post_complete_failed"}]_onlineVars
=============================================================================
