-------------------------------- MODULE ApprovalGate --------------------------------
(***************************************************************************)
(* The approval of a dangerous operation: a run request that the policy    *)
(* guards becomes an approval row, approvers decide on it, and the         *)
(* requester executes it once: the row is claimed, the job is started in   *)
(* XYOps, and the outcome is written back.                                 *)
(*                                                                         *)
(* One approval row is followed. Every function that reads the row expires *)
(* overdue rows first; the two statements are one step here, as time may   *)
(* pass after the read just as well as between them.                       *)
(***************************************************************************)
EXTENDS PortalProcess, FiniteSets

CONSTANTS Approvers,  \* identities that may decide; the requester is another
          MaxNeeded,  \* bound: approvals a policy can require
          Window      \* expiresMinutes

ASSUME ApprovalAssumption ==
  /\ MaxNeeded \in Nat /\ Window \in Nat
  /\ IsFiniteSet(Approvers)

VARIABLES
  approval,  \* the row of operation_approvals
  decision,  \* operation_approval_decisions, by identity
  policy,    \* approvals the current policy requires; 0 is no requirement
  actor,     \* the approval request of each caller
  launches   \* jobs XYOps started for the row

approvalVars == <<approval, decision, policy, actor, launches, process>>

NoApproval == [status |-> "none", needed |-> 0, expires |-> 0]
NoActor ==
  [step |-> "idle", by |-> "requester", needed |-> 0, approvals |-> 0, outcome |-> "none"]

ApprovalInit ==
  /\ ProcessInit
  /\ approval = NoApproval
  /\ decision = [a \in Approvers |-> "none"]
  /\ policy \in 1 .. MaxNeeded
  /\ actor = [c \in Callers |-> NoActor]
  /\ launches = 0

Approvals == Cardinality({a \in Approvers : decision[a] = "approve"})

Go(c, step) ==
  actor' = [actor EXCEPT ![c] = IF step = "idle" THEN NoActor ELSE [@ EXCEPT !.step = step]]

Set(status) == approval' = [approval EXCEPT !.status = status]

\* UPDATE ... 'expired' WHERE pending or approved AND expires_at <= now.
Expired ==
  IF approval.status \in {"pending", "approved"} /\ approval.expires <= clock
  THEN [approval EXCEPT !.status = "expired"]
  ELSE approval

\* readRow: the row after the expiry; the request goes on if its status is
\* one the operation accepts.
Read(c, from, statuses, to) ==
  /\ actor[c].step = from
  /\ approval.status # "none"
  /\ approval' = Expired
  /\ Go(c, IF Expired.status \in statuses THEN to ELSE "idle")
  /\ UNCHANGED <<decision, policy, launches, process>>

Begin(c, by, step) ==
  /\ actor[c].step = "idle"
  /\ Arrive
  /\ actor' = [actor EXCEPT ![c] = [NoActor EXCEPT !.step = step, !.by = by]]
  /\ UNCHANGED <<approval, decision, policy, launches>>

---------------------------------------------------------------------------------
(* The request for an approval. *)

\* A run without an approval reads the policy, which requires one here.
RequestRun(c) ==
  /\ approval.status = "none"
  /\ policy > 0
  /\ Begin(c, "requester", "policy")

ReadPolicy(c) ==
  /\ actor[c].step = "policy"
  /\ actor' = [actor EXCEPT ![c].step = "create", ![c].needed = policy]
  /\ UNCHANGED <<approval, decision, policy, launches, process>>

\* The row is inserted with what was read of the policy. Another request
\* makes a row of its own, which is not followed.
CreateApproval(c) ==
  /\ actor[c].step = "create"
  /\ approval' = IF approval.status = "none" /\ actor[c].needed > 0
                 THEN [status |-> "pending", needed |-> actor[c].needed,
                       expires |-> clock + Window]
                 ELSE approval
  /\ Go(c, "idle")
  /\ UNCHANGED <<decision, policy, launches, process>>

SavePolicy ==
  /\ Arrive
  /\ policy' \in 0 .. MaxNeeded
  /\ UNCHANGED <<approval, decision, actor, launches>>

\* Any list of approvals expires the overdue ones.
ListApprovals ==
  /\ approval # Expired
  /\ approval' = Expired
  /\ UNCHANGED <<decision, policy, actor, launches, process>>

---------------------------------------------------------------------------------
(* Decisions and cancellation. *)

Decide(c, a) == Begin(c, a, "decide")
CancelApproval(c) == Begin(c, "requester", "cancel")

ReadForDecision(c) == Read(c, "decide", {"pending"}, "insert")

\* The primary key admits one decision of an identity on a row.
InsertDecision(c) ==
  /\ actor[c].step = "insert"
  /\ IF decision[actor[c].by] # "none"
     THEN Go(c, "idle") /\ UNCHANGED decision
     ELSE \E d \in {"approve", "reject"} :
            /\ decision' = [decision EXCEPT ![actor[c].by] = d]
            /\ Go(c, IF d = "approve" THEN "count" ELSE "reject")
  /\ UNCHANGED <<approval, policy, launches, process>>

\* Slip: the row is rejected whatever became of it.
RejectAlways(c) ==
  /\ actor[c].step = "reject"
  /\ Set("rejected")
  /\ Go(c, "reread")
  /\ UNCHANGED <<decision, policy, launches, process>>

RejectApproval(c) ==
  /\ actor[c].step = "reject"
  /\ IF approval.status = "pending" THEN Set("rejected") ELSE UNCHANGED approval
  /\ Go(c, "reread")
  /\ UNCHANGED <<decision, policy, launches, process>>

\* Slip: one approval more than the row requires is waited for.
CountBeyond(c) ==
  /\ actor[c].step = "count"
  /\ Go(c, IF Approvals > approval.needed THEN "approve" ELSE "reread")
  /\ UNCHANGED <<approval, decision, policy, launches, process>>

\* SELECT COUNT(*): the decisions others have inserted meanwhile count.
CountApprovals(c) ==
  /\ actor[c].step = "count"
  /\ Go(c, IF Approvals >= approval.needed THEN "approve" ELSE "reread")
  /\ UNCHANGED <<approval, decision, policy, launches, process>>

ApproveApproval(c) ==
  /\ actor[c].step = "approve"
  /\ IF approval.status = "pending" THEN Set("approved") ELSE UNCHANGED approval
  /\ Go(c, "reread")
  /\ UNCHANGED <<decision, policy, launches, process>>

ReadForCancel(c) == Read(c, "cancel", {"pending", "approved"}, "cancelling")

UpdateCancelled(c) ==
  /\ actor[c].step = "cancelling"
  /\ IF approval.status \in {"pending", "approved"}
     THEN Set("cancelled") ELSE UNCHANGED approval
  /\ Go(c, "reread")
  /\ UNCHANGED <<decision, policy, launches, process>>

\* The answer of a decision or a cancellation is read back, which expires.
Reread(c) == Read(c, "reread", {}, "idle")

---------------------------------------------------------------------------------
(* Execution. *)

Execute(c) == Begin(c, "requester", "execute")

ReadForClaim(c) == Read(c, "execute", {"approved"}, "claim")

\* Slip: the row read before is trusted.
ClaimUnguarded(c) ==
  /\ actor[c].step = "claim"
  /\ Set("executing")
  /\ Go(c, "claimed")
  /\ UNCHANGED <<decision, policy, launches, process>>

ClaimExecution(c) ==
  /\ actor[c].step = "claim"
  /\ IF approval.status = "approved" /\ approval.expires > clock
     THEN Set("executing") /\ Go(c, "claimed")
     ELSE Go(c, "idle") /\ UNCHANGED approval
  /\ UNCHANGED <<decision, policy, launches, process>>

\* The claimed row is read back with its decisions, and decrypted.
ReadClaimed(c) ==
  /\ actor[c].step = "claimed"
  /\ approval' = Expired
  /\ actor' = [actor EXCEPT ![c].step = "check", ![c].approvals = Approvals]
  /\ UNCHANGED <<decision, policy, launches, process>>

Finish(c, outcome) ==
  actor' = [actor EXCEPT ![c].step = "finish", ![c].outcome = outcome]

\* Slip: a refused execution answers without giving the row back.
CheckAndReturn(c) ==
  /\ actor[c].step = "check"
  /\ Go(c, IF policy > 0 /\ actor[c].approvals >= policy THEN "recheck" ELSE "idle")
  /\ UNCHANGED <<approval, decision, policy, launches, process>>

\* Secret fields, the version of the process schema, the visibility policy:
\* any of them may refuse; then the approval policy of this moment.
CheckExecution(c) ==
  /\ actor[c].step = "check"
  /\ \/ Finish(c, "failed")
     \/ IF policy > 0 /\ actor[c].approvals >= policy
        THEN Go(c, "recheck") ELSE Finish(c, "failed")
  /\ UNCHANGED <<approval, decision, policy, launches, process>>

\* The run handler looks at the row again before it starts the job.
ReadExecuting(c) ==
  /\ actor[c].step = "recheck"
  /\ approval' = Expired
  /\ IF approval.status = "executing" THEN Go(c, "launch") ELSE Finish(c, "failed")
  /\ UNCHANGED <<decision, policy, launches, process>>

\* Slip: no answer is taken for a refusal.
RefusedOrLost ==
  [accepted |-> "executed", refused |-> "failed", broken |-> "unknown", lost |-> "failed"]

\* What the answer to the launch means for the row: any 2xx is a success, 409 and
\* 429 are passed on, every other refusal is 502, and so is an exception.
LaunchOutcome ==
  [accepted |-> "executed", refused |-> "failed", broken |-> "unknown", lost |-> "unknown"]

\* run_event: whether XYOps started a job is certain only after 409 and 429. A 2xx
\* is taken for a started job without a look at a result code in its body or for
\* a job id, and in demo mode, without a request, a run is made up.
LaunchJob(c) ==
  /\ actor[c].step = "launch"
  /\ \E answer \in DOMAIN LaunchOutcome :
       /\ launches' \in IF answer = "refused" THEN {launches} ELSE {launches, launches + 1}
       /\ actor' = [actor EXCEPT ![c].step = IF answer = "lost" THEN "saveFailed" ELSE "save",
                                  ![c].outcome = LaunchOutcome[answer]]
  /\ UNCHANGED <<approval, decision, policy, process>>

\* The run and its replay parameters are stored; an exception on the way is
\* answered by storing a failed run instead, see ApprovalThrows.
SaveRun(c) ==
  /\ actor[c].step \in {"save", "saveFailed"}
  /\ Go(c, "finish")
  /\ UNCHANGED <<approval, decision, policy, launches, process>>

\* UPDATE ... WHERE status = 'executing'.
FinishExecution(c) ==
  /\ actor[c].step = "finish"
  /\ IF approval.status = "executing" THEN Set(actor[c].outcome) ELSE UNCHANGED approval
  /\ Go(c, "idle")
  /\ UNCHANGED <<decision, policy, launches, process>>

---------------------------------------------------------------------------------
(* Failures. *)

\* An exception while a run is stored is the run handler's to answer; any
\* other one ends the request, and a claimed row stays as it is.
ApprovalThrows(c) ==
  /\ actor[c].step # "idle"
  /\ Fault
  /\ IF actor[c].step = "save"
     THEN actor' = [actor EXCEPT ![c].step = "saveFailed", ![c].outcome = "unknown"]
     ELSE Go(c, "idle")
  /\ UNCHANGED <<approval, decision, policy, launches>>

ApprovalDies ==
  /\ Die
  /\ actor' = [c \in Callers |-> NoActor]
  /\ UNCHANGED <<approval, decision, policy, launches>>

ApprovalTick ==
  /\ Tick
  /\ UNCHANGED <<approval, decision, policy, actor, launches>>

ApprovalStep(c) ==
  \/ ReadPolicy(c) \/ CreateApproval(c)
  \/ ReadForDecision(c) \/ InsertDecision(c) \/ RejectApproval(c)
  \/ CountApprovals(c) \/ ApproveApproval(c)
  \/ ReadForCancel(c) \/ UpdateCancelled(c) \/ Reread(c)
  \/ ReadForClaim(c) \/ ClaimExecution(c) \/ ReadClaimed(c) \/ CheckExecution(c)
  \/ ReadExecuting(c) \/ LaunchJob(c) \/ SaveRun(c) \/ FinishExecution(c)

ApprovalNext ==
  \/ \E c \in Callers :
       \/ RequestRun(c) \/ CancelApproval(c) \/ Execute(c) \/ \E a \in Approvers : Decide(c, a)
       \/ ApprovalStep(c)
       \/ ApprovalThrows(c)
  \/ SavePolicy
  \/ ListApprovals
  \/ ApprovalDies
  \/ ApprovalTick

ApprovalSpec == ApprovalInit /\ [][ApprovalNext]_approvalVars

---------------------------------------------------------------------------------
(* Properties. *)

FinalStatuses == {"rejected", "cancelled", "expired", "executed", "failed", "unknown"}
Statuses == {"none", "pending", "approved", "executing"} \cup FinalStatuses
DecisionSteps == {"decide", "insert", "count", "reject", "approve"}
ExecutionSteps == {"claimed", "check", "recheck", "launch", "save", "saveFailed", "finish"}

\* Types: only approvers insert decisions, and an outcome is decided by the
\* time it is written.
ApprovalTypeOK ==
  /\ ProcessTypeOK
  /\ approval \in [status : Statuses, needed : 0 .. MaxNeeded, expires : 0 .. MaxTime + Window]
  /\ decision \in [Approvers -> {"none", "approve", "reject"}]
  /\ policy \in 0 .. MaxNeeded
  /\ actor \in [Callers ->
       [step : DecisionSteps \cup ExecutionSteps \cup
               {"idle", "policy", "create", "cancel", "cancelling", "reread",
                "execute", "claim"},
        by : Approvers \cup {"requester"}, needed : 0 .. MaxNeeded,
        approvals : Nat, outcome : {"none", "executed", "failed", "unknown"}]]
  /\ \A c \in Callers : /\ actor[c].step \in DecisionSteps => actor[c].by \in Approvers
                        /\ actor[c].step = "finish" => actor[c].outcome # "none"
  /\ launches \in Nat

\* However many executions race, with each other, with decisions, with a
\* cancellation and with the expiry, XYOps starts at most one job for an
\* approval, and only for one that enough approvers had approved.
LaunchIsApproved ==
  launches > 0 => launches = 1 /\ approval.needed > 0 /\ Approvals >= approval.needed

\* The outcome "failed", after which the requester asks for a new approval,
\* is written only when no job was started: a timeout is not a refusal.
FailedWasNotLaunched == approval.status = "failed" => launches = 0

\* No path through the checks forgets the row it claimed: it stays executing
\* only while the request that claimed it goes on, or after an exception or a
\* crash, from which nothing takes it back.
StuckOnlyAfterFailure ==
  approval.status = "executing" =>
    \/ \E c \in Callers : actor[c].step \in ExecutionSteps
    \/ faults + crashes > 0

\* A row is pending only while its decisions leave it open: the last approval
\* and the rejection are carried out by the request that inserted them, unless
\* it died between the two statements.
PendingIsUndecided ==
  approval.status = "pending" =>
    \/ /\ Approvals < approval.needed
       /\ \A a \in Approvers : decision[a] # "reject"
    \/ \E c \in Callers : actor[c].step \in {"count", "approve", "reject"}
    \/ faults + crashes > 0

\* A decided, cancelled, expired or finished row never changes again, although
\* every one of these writes was decided on a row read before.
FinalIsFinal == [][approval.status \in FinalStatuses => approval' = approval]_approvalVars

\* Whatever requests overlap, time out or die, the row and the jobs of XYOps behave
\* like one launch that is granted by enough votes, taken once, started at most
\* once, and said to have failed only if it was not started. (That "executed" means
\* a job, as docs/integrations/APPROVAL_GATES.md has it, is not so: see LaunchJob.)
Launch == INSTANCE ApprovedLaunch WITH
  stage <- CASE approval.status = "none" -> "none"
             [] approval.status = "pending" -> "open"
             [] approval.status = "approved" -> "granted"
             [] approval.status = "executing" -> "taken"
             [] OTHER -> "over",
  quorum <- approval.needed,
  votes <- {a \in Approvers : decision[a] = "approve"},
  started <- launches,
  told <- IF approval.status \in {"executed", "failed", "unknown"} THEN approval.status ELSE "nothing"
LaunchesAsApproved == Launch!Spec
===================================================================================
