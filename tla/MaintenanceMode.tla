------------------------------ MODULE MaintenanceMode ------------------------------
(***************************************************************************)
(* Persistent maintenance mode: the row of portal_maintenance_state, the   *)
(* requests that move it, the gate in front of the ordinary API, and the   *)
(* two writers that do not go through the control endpoints: a failing     *)
(* schema migration and the offline recovery.                              *)
(*                                                                         *)
(* A control request reads the row, awaits the hash of the secret it was   *)
(* given, writes with a guarded UPDATE, and reads the row again for its    *)
(* answer; other requests run at every await.                              *)
(*                                                                         *)
(* An operation id and its controller secret are created together and      *)
(* stored together, so that one number stands for both; 0 is NULL.         *)
(***************************************************************************)
EXTENDS Integers

CONSTANTS Controllers,     \* callers of the control endpoints, a request each
          Users,           \* callers of the ordinary API, a request each
          MaxOperations,   \* bound: prepared operations
          MaxTime,         \* bound: the clock
          Ttl,             \* how long a prepared operation may be entered
          MaxStops         \* bound: stops and crashes of the portal

ASSUME MaintenanceAssumption ==
  /\ MaxOperations \in Nat
  /\ MaxTime \in Nat
  /\ Ttl \in Nat \ {0}
  /\ MaxStops \in Nat

VARIABLES
  row,         \* the row with id 'main'
  sessions,    \* portal_sessions: who, and during which operation it was made
  request,     \* the ordinary request of each user
  control,     \* the control request of each controller
  told,        \* operations whose secret an answer carried to a caller
  migration,   \* the maintenance operation a migration was started under
  operations,  \* how many operations were prepared
  clock,
  running,     \* the portal is up
  stops

portal == <<sessions, request>>
bounded == <<operations, clock, running, stops>>
vars == <<row, portal, control, told, migration, bounded>>

States == {"inactive", "entering", "active", "verifying", "exiting", "failed"}
Blocked == {"active", "verifying", "exiting", "failed"}
Operations == 1 .. MaxOperations

\* The row prepare inserts, which complete and cancel restore. A missing row
\* is treated as this one.
ClosedRow ==
  [state |-> "inactive", operation |-> 0, created |-> FALSE,
   expires |-> 0, verification |-> "empty"]

\* normalizeRow accepts the row: an operation exactly outside inactive, and
\* only the five known checks in verification_json.
Readable(r) ==
  /\ r.verification # "offlineRecovery"
  /\ IF r.state = "inactive"
       THEN r.operation = 0 /\ ~r.created /\ r.expires = 0
       ELSE r.operation # 0 /\ r.created

\* Slip: the gate looks for the two states the entry goes through.
GateOpenDuringChecks == Readable(row) /\ row.state \notin {"entering", "active"}

\* What the gate reads: any state but inactive, and any row it cannot read,
\* close the ordinary API and the scheduled runs.
GateOpen == Readable(row) /\ row.state = "inactive"

-----------------------------------------------------------------------------
(* Control requests *)

Transitions == {"enter", "start", "exit", "complete", "cancel"}

\* Slip: complete does not wait for exit and its checks.
FromBeforeExit ==
  [prepare |-> "inactive", enter |-> "entering", start |-> "active",
   exit |-> "verifying", complete |-> "verifying", cancel |-> "entering"]

From == [prepare |-> "inactive", enter |-> "entering", start |-> "active",
         exit |-> "verifying", complete |-> "exiting", cancel |-> "entering"]

To == [prepare |-> "entering", enter |-> "active", start |-> "verifying",
       exit |-> "exiting", complete |-> "inactive", cancel |-> "inactive"]

\* Slip: the state was looked at before, the UPDATE asks for the operation only.
AdmitsAnyState(r, action, operation, now) ==
  /\ r.operation = operation
  /\ From[action] = "entering" => r.expires > now

\* The row is in the state the action starts from, of this operation, and,
\* when only prepared, not expired at the given time.
Admits(r, action, operation, now) ==
  /\ r.state = From[action]
  /\ r.operation = operation
  /\ From[action] = "entering" => r.expires > now

\* The row after the action's UPDATE.
Moved(r, action) ==
  CASE action = "enter" -> [r EXCEPT !.state = "active", !.expires = 0]
    [] action = "start" -> [r EXCEPT !.state = "verifying"]
    [] action = "exit" -> [r EXCEPT !.state = "exiting", !.verification = "complete"]
    [] OTHER -> ClosedRow

Idle == [step |-> "idle", action |-> "none", operation |-> 0, now |-> 0,
         moved |-> 0, answer |-> "none"]

Free(c) == running /\ control[c].step = "idle"

\* moved is the operation whose row the request's UPDATE changed. An answer is
\* "unknown" to its caller when it is a 500 or never arrives.
Answer(r, answer) == [r EXCEPT !.step = "idle", !.answer = answer, !.now = 0]

\* prepareMaintenance up to its batch: it takes the time and hashes a secret.
prepareMaintenance(c) ==
  /\ Free(c)
  /\ control' = [control EXCEPT ![c] =
       [Idle EXCEPT !.step = "authorized", !.action = "prepare", !.now = clock]]
  /\ UNCHANGED <<row, portal, told, migration, bounded>>

\* Its batch: it claims an inactive row, a readable one or not.
claimOperation(c) ==
  /\ control[c].step = "authorized"
  /\ control[c].action = "prepare"
  /\ operations < MaxOperations
  /\ IF row.state = "inactive"
       THEN /\ row' = [state |-> "entering", operation |-> operations + 1,
                       created |-> TRUE, expires |-> control[c].now + Ttl,
                       verification |-> "empty"]
            /\ operations' = operations + 1
            /\ control' = [control EXCEPT ![c] = [@ EXCEPT !.step = "applied",
                 !.operation = operations + 1, !.moved = operations + 1]]
       ELSE /\ control' = [control EXCEPT ![c] = Answer(@, "refused")]
            /\ UNCHANGED <<row, operations>>
  /\ UNCHANGED <<portal, told, migration, clock, running, stops>>

\* authorizeTransition for a caller who has the operation's secret.
authorizeTransition(c, action, operation) ==
  /\ Free(c)
  /\ operation \in told
  /\ LET asked == [Idle EXCEPT !.step = "authorized", !.action = action,
                               !.operation = operation, !.now = clock]
     IN control' = [control EXCEPT ![c] =
          IF Readable(row) /\ Admits(row, action, operation, clock)
            THEN asked
            ELSE [Idle EXCEPT !.answer = IF Readable(row) THEN "refused" ELSE "unknown"]]
  /\ UNCHANGED <<row, portal, told, migration, bounded>>

\* Slip: the number of changed rows is not looked at.
AppliedUnchecked(c, changed) ==
  control' = [control EXCEPT ![c] = [@ EXCEPT !.step = "applied",
    !.moved = IF changed THEN row.operation ELSE 0]]

\* The guarded UPDATE changed the row, or it did not.
Applied(c, changed) ==
  control' = [control EXCEPT ![c] =
    IF changed THEN [@ EXCEPT !.step = "applied", !.moved = row.operation]
               ELSE Answer(@, "refused")]

\* Slip: the batch of enter lacks its second statement.
applyTransitionKeepingSessions(c) ==
  LET r == control[c]
      admitted == Admits(row, r.action, r.operation, r.now)
  IN /\ r.step = "authorized"
     /\ r.action \in Transitions
     /\ row' = IF admitted THEN Moved(row, r.action) ELSE row
     /\ Applied(c, admitted)
     /\ UNCHANGED <<portal, told, migration, bounded>>

\* The batch of each transition. The time is the one read before the hash.
\* enter has a second statement that revokes the sessions if the row is now
\* active under this operation, whoever made it so.
applyTransition(c) ==
  LET r == control[c]
      admitted == Admits(row, r.action, r.operation, r.now)
  IN /\ r.step = "authorized"
     /\ r.action \in Transitions
     /\ row' = IF admitted THEN Moved(row, r.action) ELSE row
     /\ sessions' = IF /\ r.action = "enter"
                       /\ row'.state = "active"
                       /\ row'.operation = r.operation
                      THEN {} ELSE sessions
     /\ Applied(c, admitted)
     /\ UNCHANGED <<request, told, migration, bounded>>

\* The database refuses the batch; nothing is written.
batchFails(c) ==
  /\ control[c].step = "authorized"
  /\ control' = [control EXCEPT ![c] = Answer(@, "unknown")]
  /\ UNCHANGED <<row, portal, told, migration, bounded>>

\* finishTransition, and the end of prepareMaintenance: the row is read again.
\* Only a good answer to prepare carries the secret.
finishTransition(c) ==
  LET r == control[c]
      good == /\ Readable(row)
              /\ row.state = To[r.action]
              /\ r.action = "prepare" => row.operation = r.operation
  IN /\ r.step = "applied"
     /\ control' = [control EXCEPT ![c] = Answer(@, IF good THEN "ok" ELSE "unknown")]
     /\ told' = IF good /\ r.action = "prepare" THEN told \cup {r.operation} ELSE told
     /\ UNCHANGED <<row, portal, migration, bounded>>

\* The request was carried out but its answer does not reach the caller.
answerLost(c) ==
  /\ control[c].step = "applied"
  /\ control' = [control EXCEPT ![c] = Answer(@, "unknown")]
  /\ UNCHANGED <<row, portal, told, migration, bounded>>

\* A caller sends a request; the portal carries it on.
ask(c) ==
  \/ prepareMaintenance(c)
  \/ \E action \in Transitions, operation \in Operations :
       authorizeTransition(c, action, operation)

serve(c) ==
  \/ claimOperation(c)
  \/ applyTransition(c)
  \/ batchFails(c)
  \/ finishTransition(c)
  \/ answerLost(c)

-----------------------------------------------------------------------------
(* Ordinary requests and scheduled runs *)

\* The gate lets the request through; it does not look again.
gate(u) ==
  /\ running
  /\ request[u] = "idle"
  /\ GateOpen
  /\ request' = [request EXCEPT ![u] = "admitted"]
  /\ UNCHANGED <<row, sessions, control, told, migration, bounded>>

\* A login stores a session.
authenticateLocalUser(u) ==
  /\ request[u] = "admitted"
  /\ request' = [request EXCEPT ![u] = "idle"]
  /\ sessions' = sessions \cup
       {[user |-> u, during |-> IF row.state \in Blocked THEN row.operation ELSE 0]}
  /\ UNCHANGED <<row, control, told, migration, bounded>>

\* A session is found; the request goes on to its work.
resolveLocalSession(u) ==
  /\ request[u] = "admitted"
  /\ \E s \in sessions : s.user = u
  /\ request' = [request EXCEPT ![u] = "working"]
  /\ UNCHANGED <<row, sessions, control, told, migration, bounded>>

\* The request ends, as a logout or otherwise. A scheduled run has no session.
endRequest(u) ==
  /\ request[u] # "idle"
  /\ request' = [request EXCEPT ![u] = "idle"]
  /\ \/ sessions' = sessions
     \/ request[u] = "working" /\ sessions' = {s \in sessions : s.user # u}
  /\ UNCHANGED <<row, control, told, migration, bounded>>

userNext(u) == authenticateLocalUser(u) \/ resolveLocalSession(u) \/ endRequest(u)

-----------------------------------------------------------------------------
(* Migration, offline recovery and the rest of the surroundings *)

\* applyControlledStorageMigration checks the maintenance once, at its start.
migrationBegins(operation) ==
  /\ running
  /\ migration = 0
  /\ operation \in told
  /\ Readable(row) /\ row.state = "active" /\ row.operation = operation
  /\ migration' = operation
  /\ UNCHANGED <<row, portal, control, told, bounded>>

\* It ends well, or it ends badly and also fails to mark the maintenance.
migrationEnds ==
  /\ migration # 0
  /\ migration' = 0
  /\ UNCHANGED <<row, portal, control, told, bounded>>

\* It ends badly: whatever operation is in place by now is marked failed.
markMaintenanceFailed ==
  /\ migration # 0
  /\ migration' = 0
  /\ row' = IF row.state \in {"active", "verifying", "exiting"}
              THEN [row EXCEPT !.state = "failed"] ELSE row
  /\ UNCHANGED <<portal, control, told, bounded>>

\* The states loadRecoveryMaintenance lets the offline recovery see. Its UPDATE
\* would also take exiting.
Recoverable(r) == r.state \in {"active", "verifying", "failed"} /\ r.operation # 0

\* recoverFailedMaintenanceOffline: one transaction while the portal, which
\* holds the same lock, is down. created_at is not among the columns it resets.
\* That there is a receipt of the operation is left to OnlineVerification.
recoverOffline ==
  /\ ~running
  /\ Recoverable(row)
  /\ row' = [row EXCEPT !.state = "inactive", !.operation = 0, !.expires = 0,
                        !.verification = "offlineRecovery"]
  /\ sessions' = {}
  /\ UNCHANGED <<request, control, told, migration, bounded>>

\* The portal stops or crashes; every request under way is gone.
portalStops ==
  /\ running
  /\ stops < MaxStops
  /\ running' = FALSE
  /\ stops' = stops + 1
  /\ request' = [u \in Users |-> "idle"]
  /\ control' = [c \in Controllers |->
       IF control[c].step # "idle" THEN Answer(control[c], "unknown") ELSE control[c]]
  /\ migration' = 0
  /\ UNCHANGED <<row, sessions, told, operations, clock>>

portalStarts ==
  /\ ~running
  /\ running' = TRUE
  /\ UNCHANGED <<row, portal, control, told, migration, operations, clock, stops>>

tick ==
  /\ clock < MaxTime
  /\ clock' = clock + 1
  /\ UNCHANGED <<row, portal, control, told, migration, operations, running, stops>>

Init ==
  /\ row = ClosedRow
  /\ sessions = {}
  /\ request = [u \in Users |-> "idle"]
  /\ control = [c \in Controllers |-> Idle]
  /\ told = {}
  /\ migration = 0
  /\ operations = 0
  /\ clock = 0
  /\ running = TRUE
  /\ stops = 0

Next ==
  \/ \E c \in Controllers : ask(c) \/ serve(c)
  \/ \E u \in Users : gate(u) \/ userNext(u)
  \/ \E operation \in Operations : migrationBegins(operation)
  \/ migrationEnds
  \/ markMaintenanceFailed
  \/ recoverOffline
  \/ portalStops
  \/ portalStarts
  \/ tick

Spec == Init /\ [][Next]_vars

\* A request that was let through ends.
RequestsEnd == \A u \in Users : WF_vars(userNext(u))

FairSpec == Spec /\ RequestsEnd

-----------------------------------------------------------------------------
(* Properties *)

\* Types of all variables.
RowType ==
  [state : States, operation : 0 .. MaxOperations, created : BOOLEAN,
   expires : 0 .. MaxTime + Ttl,
   verification : {"empty", "complete", "offlineRecovery"}]

ControlType ==
  [step : {"idle", "authorized", "applied"},
   action : Transitions \cup {"prepare", "none"},
   operation : 0 .. MaxOperations, now : 0 .. MaxTime, moved : 0 .. MaxOperations,
   answer : {"none", "ok", "refused", "unknown"}]

TypeOK ==
  /\ row \in RowType
  /\ sessions \subseteq [user : Users, during : 0 .. MaxOperations]
  /\ request \in [Users -> {"idle", "admitted", "working"}]
  /\ control \in [Controllers -> ControlType]
  /\ told \subseteq Operations
  /\ migration \in 0 .. MaxOperations
  /\ operations \in 0 .. MaxOperations
  /\ clock \in 0 .. MaxTime
  /\ running \in BOOLEAN
  /\ stops \in 0 .. MaxStops

\* What a controller is told is what its request did: an `ok` moved the row of
\* its own operation, a `refused` (409) moved nothing. The row may have moved
\* on between the hash, the UPDATE and the second read.
AnswersTellTruth ==
  \A c \in Controllers :
    /\ control[c].answer = "ok" => control[c].moved = control[c].operation /\ control[c].moved # 0
    /\ control[c].answer = "refused" => control[c].moved = 0

\* However many requests for the same transition of one operation run at once,
\* the UPDATE of only one of them changes the row.
TransitionsHappenOnce ==
  \A c, d \in Controllers :
    /\ control[c].moved # 0
    /\ control[c].moved = control[d].moved
    /\ control[c].action = control[d].action
    => c = d

\* Behind a closed gate no session from before the entry is left. One can only
\* be there if a request the gate had let through earlier made it since.
OldSessionsRevoked ==
  row.state \in Blocked => \A s \in sessions : s.during = row.operation

\* The portal reopens after an entry only over an accepted verification, or
\* by the offline recovery with the portal down: no restart, no clock, no
\* request of an earlier operation reopens it.
NoSilentReopening ==
  [][row.state \in Blocked /\ row'.state = "inactive" =>
       \/ row.state = "exiting" /\ row.verification = "complete"
       \/ ~running]_vars

\* Whom the portal lets in, who was let in, and who has a session.
Access ==
  CASE GateOpen -> "open"
    [] row.state = "inactive" /\ ~GateOpen -> "recovered"
    [] row.state = "entering" -> "closing"
    [] row.state = "exiting" /\ row.verification = "complete" -> "accepted"
    [] OTHER -> "closed"

Inside == {u \in Users : request[u] # "idle"}
LoggedIn == {s.user : s \in sessions}

\* Whatever control requests overlap, fail or are lost, and whenever the portal stops,
\* row, sessions and requests behave like one maintenance window.
Window == INSTANCE MaintenanceWindow
  WITH access <- Access, inside <- Inside, loggedIn <- LoggedIn, up <- running
KeepsTheWindow == Window!Spec

\* A portal that stays closed comes to rest: the requests the gate had let
\* through end, and in none of the closed states a new one is let in.
RequestsDrain ==
  <>[](row.state \in Blocked) => <>[](\A u \in Users : request[u] = "idle")

\* The maintenance guide's table: in `inactive` the portal works as usual.
InactiveIsOpen == row.state = "inactive" => GateOpen
=============================================================================
