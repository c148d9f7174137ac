------------------------------ MODULE DirectoryActions ------------------------------
(***************************************************************************)
(* Changes of FreeIPA: one user or group at a time, or a list of users, in *)
(* a bulk request whose lanes take the users one after the other from one  *)
(* cursor. Each change is an RPC, then a row of the log of runs, written   *)
(* in the same handler that catches the failure of the RPC, so that a row  *)
(* that could not be written is followed by a row of a failed run.         *)
(*                                                                         *)
(* A user of a list is its position. FreeIPA is external: an RPC is        *)
(* answered with success or failure, or not at all. What it did there does *)
(* not follow from the answer and is left out: the portal reads the HTTP   *)
(* status and the top-level error, not the members a group command could   *)
(* not add. The audit events, whose failures are swallowed, and the        *)
(* notifications are left out too; a single action is a list of one.       *)
(***************************************************************************)
EXTENDS PortalProcess

CONSTANTS MaxUsers,    \* maxBulkUsers
          Concurrency  \* bulkConcurrency

ASSUME DirectoryAssumption == MaxUsers \in Nat /\ Concurrency \in Nat \ {0}

VARIABLES
  bulk,  \* the request of each caller: its step, how many users, the cursor
  lane,  \* what each lane of it does, and for which user
  user   \* for each of its users: how often the RPC was sent, the answer to it
         \* (a history variable), the status of its run, and its result

directoryVars == <<bulk, lane, user, process>>

Positions == 1 .. MaxUsers
Lanes == 1 .. Concurrency
NoBulk == [step |-> "idle", size |-> 0, cursor |-> 1]
NoLane == [step |-> "off", at |-> 0]
NoUser == [sent |-> 0, rpc |-> "none", run |-> "none", result |-> "none"]

DirectoryInit ==
  /\ ProcessInit
  /\ bulk = [c \in Callers |-> NoBulk]
  /\ lane = [c \in Callers |-> [l \in Lanes |-> NoLane]]
  /\ user = [c \in Callers |-> [i \in Positions |-> NoUser]]

\* A request is over when it is answered and its lanes have ended.
BulkOver(c) == bulk[c].step \in {"idle", "answered", "broken"} /\ \A l \in Lanes : lane[c][l].step = "off"

LaneIs(c, l, step) == lane[c][l].step = step
Taken(c, l) == lane[c][l].at
LaneTurns(c, l, step) == lane' = [lane EXCEPT ![c][l].step = step]

\* The list of users: not empty, no longer than allowed, none twice.
normalizeUsers(n) == n \in Positions

BulkArrives(c, n) ==
  /\ BulkOver(c) /\ normalizeUsers(n)
  /\ Arrive
  /\ bulk' = [bulk EXCEPT ![c] = [step |-> "preflight", size |-> n, cursor |-> 1]]
  /\ user' = [user EXCEPT ![c] = [i \in Positions |-> NoUser]]
  /\ UNCHANGED lane

\* The permission is checked; then as many lanes start as there are users for.
PreflightWrite(c) ==
  /\ bulk[c].step = "preflight"
  /\ \/ bulk' = [bulk EXCEPT ![c] = NoBulk] /\ lane' = lane
     \/ /\ bulk' = [bulk EXCEPT ![c].step = "lanes"]
        /\ lane' = [lane EXCEPT ![c] = [l \in Lanes |->
             IF l <= bulk[c].size THEN [step |-> "take", at |-> 0] ELSE NoLane]]
  /\ UNCHANGED <<user, process>>

\* A lane takes the next user, or ends.
TakeUser(c, l) ==
  /\ LaneIs(c, l, "take")
  /\ IF bulk[c].cursor > bulk[c].size
     THEN lane' = [lane EXCEPT ![c][l] = NoLane] /\ bulk' = bulk
     ELSE /\ lane' = [lane EXCEPT ![c][l] = [step |-> "settings", at |-> bulk[c].cursor]]
          /\ bulk' = [bulk EXCEPT ![c].cursor = @ + 1]
  /\ UNCHANGED <<user, process>>

---------------------------------------------------------------------------------
(* handleFreeIpaAction. *)

\* The answer for one user, and the lane goes on.
UserAnswered(c, l, result) ==
  /\ user' = [user EXCEPT ![c][Taken(c, l)].result = result]
  /\ LaneTurns(c, l, "take")

\* The settings, or those of the environment when they cannot be read: demo
\* mode, which calls nobody; a live FreeIPA; neither, or an action that is not
\* valid or not permitted.
ReadDirectorySettings(c, l) ==
  /\ LaneIs(c, l, "settings")
  /\ \/ \E step \in {"demo", "rpc"} : LaneTurns(c, l, step) /\ user' = user
     \/ UserAnswered(c, l, "refused")
  /\ UNCHANGED <<bulk, process>>

\* success: HTTP ok and no top-level error. failure: anything else, the login or
\* the RPC without an answer in time included, when FreeIPA may have done it.
CallFreeIpa(c, l) ==
  /\ LaneIs(c, l, "rpc")
  /\ \E rpc \in {"success", "failure"} :
       /\ user' = [user EXCEPT ![c][Taken(c, l)].sent = @ + 1, ![c][Taken(c, l)].rpc = rpc]
       /\ LaneTurns(c, l, IF rpc = "success" THEN "saveSuccess" ELSE "saveFailed")
  /\ UNCHANGED <<bulk, process>>

\* saveOperationRun and the answer.
SaveDirectoryRun(c, l) ==
  /\ lane[c][l].step \in {"demo", "saveSuccess", "saveFailed"}
  /\ LET run == CASE LaneIs(c, l, "demo") -> "demo"
                  [] LaneIs(c, l, "saveSuccess") -> "success"
                  [] OTHER -> "failed"
         answer == IF run = "failed" THEN "failed" ELSE "ok"
     IN user' = [user EXCEPT ![c][Taken(c, l)].run = run, ![c][Taken(c, l)].result = answer]
  /\ LaneTurns(c, l, "take")
  /\ UNCHANGED <<bulk, process>>

\* Slip: a list that breaks off is answered like one that ends.
AnswerWhatIsThere(c, l) ==
  /\ lane[c][l].step \in {"demo", "saveSuccess", "saveFailed"}
  /\ Fault
  /\ IF LaneIs(c, l, "saveSuccess")
     THEN LaneTurns(c, l, "saveFailed") /\ bulk' = bulk
     ELSE /\ lane' = [lane EXCEPT ![c][l] = NoLane]
          /\ bulk' = bulk
  /\ UNCHANGED user

\* The database throws. The handler takes it for a failure of the RPC when the
\* row of a successful run is written, and otherwise throws, which ends the
\* lane and answers the request, while the other lanes go on.
DirectoryThrows(c, l) ==
  /\ lane[c][l].step \in {"demo", "saveSuccess", "saveFailed"}
  /\ Fault
  /\ IF LaneIs(c, l, "saveSuccess")
     THEN LaneTurns(c, l, "saveFailed") /\ bulk' = bulk
     ELSE /\ lane' = [lane EXCEPT ![c][l] = NoLane]
          /\ bulk' = [bulk EXCEPT ![c].step = "broken"]
  /\ UNCHANGED user

---------------------------------------------------------------------------------

\* Promise.all: every lane has ended.
AnswerBulk(c) ==
  /\ bulk[c].step = "lanes"
  /\ \A l \in Lanes : LaneIs(c, l, "off")
  /\ bulk' = [bulk EXCEPT ![c].step = "answered"]
  /\ UNCHANGED <<lane, user, process>>

DirectoryProcessDies ==
  /\ Die
  /\ bulk' = [c \in Callers |-> IF bulk[c].step = "lanes" THEN [bulk[c] EXCEPT !.step = "broken"]
                                ELSE IF bulk[c].step = "preflight" THEN NoBulk ELSE bulk[c]]
  /\ lane' = [c \in Callers |-> [l \in Lanes |-> NoLane]]
  /\ UNCHANGED user

DirectoryStep(c) ==
  \/ \E n \in Positions : BulkArrives(c, n)
  \/ PreflightWrite(c) \/ AnswerBulk(c)
  \/ \E l \in Lanes : \/ TakeUser(c, l) \/ ReadDirectorySettings(c, l) \/ CallFreeIpa(c, l)
                      \/ SaveDirectoryRun(c, l) \/ DirectoryThrows(c, l)

DirectoryNext == (\E c \in Callers : DirectoryStep(c)) \/ DirectoryProcessDies

DirectorySpec == DirectoryInit /\ [][DirectoryNext]_directoryVars

---------------------------------------------------------------------------------
(* Properties. *)

DirectoryTypeOK ==
  /\ bulk \in [Callers -> [step : {"idle", "preflight", "lanes", "answered", "broken"},
                           size : 0 .. MaxUsers, cursor : 1 .. MaxUsers + 1]]
  /\ lane \in [Callers -> [Lanes ->
       [step : {"off", "take", "settings", "demo", "rpc", "saveSuccess", "saveFailed"},
        at : 0 .. MaxUsers]]]
  /\ user \in [Callers -> [Positions ->
       [sent : Nat, rpc : {"none", "success", "failure"}, run : {"none", "success", "failed", "demo"},
        result : {"none", "ok", "refused", "failed"}]]]

\* docs/FREEIPA_USER_BULK.md, partial execution returns "the result for each
\* login": an answered list has one for every user, however the lanes overlap.
\* What it calls ok was answered with success, was sent, and is in the log as
\* such; a run is logged as successful for no other; what is refused was not
\* sent and has no run; and no user is sent to FreeIPA twice, answered or not.
\* (That FreeIPA did it is not implied: see CallFreeIpa.)
BulkAnswerIsTrue ==
  \A c \in Callers, i \in Positions :
    /\ user[c][i].sent <= 1
    /\ user[c][i].run = "success" => user[c][i].rpc = "success" /\ user[c][i].sent = 1
    /\ user[c][i].result = "ok" => user[c][i].run \in {"success", "demo"}
    /\ user[c][i].result = "refused" => user[c][i].sent = 0 /\ user[c][i].run = "none"
    /\ bulk[c].step = "answered" /\ i <= bulk[c].size => user[c][i].result # "none"
===================================================================================
