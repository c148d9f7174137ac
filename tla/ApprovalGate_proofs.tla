---------------------------- MODULE ApprovalGate_proofs ----------------------------
(***************************************************************************)
(* Theorems about ApprovalGate, for any number of callers and approvers:   *)
(* at most one launch, of what enough approvers approved; "failed" means   *)
(* not launched; a row is left claimed or undecided by a failure only; and *)
(* a finished row never changes.                                           *)
(***************************************************************************)
EXTENDS ApprovalGate, FiniteSetTheorems, TLAPS

Steps == DecisionSteps \cup ExecutionSteps \cup
           {"idle", "policy", "create", "cancel", "cancelling", "reread", "execute", "claim"}
ActorType ==
  [step : Steps, by : Approvers \cup {"requester"}, needed : 0 .. MaxNeeded,
   approvals : Nat, outcome : {"none", "executed", "failed", "unknown"}]
ApprovalType == [status : Statuses, needed : 0 .. MaxNeeded, expires : 0 .. MaxTime + Window]
DecisionType == [Approvers -> {"none", "approve", "reject"}]

Executing(c) == actor[c].step \in ExecutionSteps
Rejected == \E a \in Approvers : decision[a] = "reject"
Failure == faults + crashes > 0

GateTypes ==
  /\ ProcessTypeOK
  /\ approval \in ApprovalType /\ decision \in DecisionType
  /\ policy \in 0 .. MaxNeeded /\ launches \in Nat
  /\ actor \in [Callers -> ActorType]

\* What the row says: it was approved by enough, and launched at most once.
ApprovalOK ==
  /\ approval.status = "none" => \A a \in Approvers : decision[a] = "none"
  /\ approval.status # "none" => approval.needed > 0
  /\ approval.status \in {"approved", "executing", "executed", "failed", "unknown"}
       => Approvals >= approval.needed
  /\ launches > 0 => launches = 1 /\ approval.status \in {"executing", "executed", "unknown"}

\* What a request knows of the row between two statements.
ActorOK(c) ==
  /\ actor[c].step \in DecisionSteps => actor[c].by \in Approvers
  /\ actor[c].step \in {"insert", "count", "reject", "approve"} => approval.status # "none"
  /\ actor[c].step = "approve" => Approvals >= approval.needed
  /\ Executing(c) => approval.status = "executing"
  /\ actor[c].step \in {"claimed", "check", "recheck", "launch"} => launches = 0
  /\ actor[c].step \in {"save", "saveFailed", "finish"} =>
       /\ actor[c].outcome # "none"
       /\ actor[c].outcome = "failed" => launches = 0

\* Only one request has claimed the row.
ExecutorExclusive == \A c, d \in Callers : Executing(c) /\ Executing(d) => c = d

\* What is under way is carried on by somebody, or a failure ended it.
CarriedOn ==
  /\ approval.status = "executing" => Failure \/ \E c \in Callers : Executing(c)
  /\ approval.status = "pending" /\ Rejected =>
       Failure \/ \E c \in Callers : actor[c].step = "reject"
  /\ approval.status = "pending" /\ Approvals >= approval.needed =>
       Failure \/ \E c \in Callers : actor[c].step \in {"count", "approve"}

GateInv ==
  /\ GateTypes /\ ApprovalOK /\ ExecutorExclusive /\ CarriedOn
  /\ \A c \in Callers : ActorOK(c)

---------------------------------------------------------------------------------
(* Counting the approvals. *)

\* The number of approvals is a natural number, at most the number of approvers.
LEMMA ApprovalsAreCounted ==
  ASSUME IsFiniteSet(Approvers)
  PROVE  Approvals \in Nat
<1>1. IsFiniteSet({a \in Approvers : decision[a] = "approve"})
  BY FS_Subset
<1> QED
  BY <1>1, FS_CardinalityType DEF Approvals

\* A decision is never taken back, so the count only grows.
LEMMA ApprovalsGrow ==
  ASSUME decision \in DecisionType, NEW a \in Approvers, decision[a] = "none",
         NEW d \in {"approve", "reject"}, decision' = [decision EXCEPT ![a] = d]
  PROVE  Approvals \in Nat /\ Approvals' \in Nat /\ Approvals' >= Approvals
         /\ (d = "reject" => Approvals' = Approvals)
<1> DEFINE old == {x \in Approvers : decision[x] = "approve"}
           new == {x \in Approvers : decision'[x] = "approve"}
<1>1. IsFiniteSet(Approvers) /\ old \subseteq Approvers /\ new \subseteq Approvers
  BY ApprovalAssumption
<1>2. old \subseteq new /\ (d = "reject" => new = old)
  BY DEF DecisionType
<1>3. IsFiniteSet(old) /\ IsFiniteSet(new)
  BY <1>1, FS_Subset
<1>4. Cardinality(old) \in Nat /\ Cardinality(new) \in Nat /\ Cardinality(old) <= Cardinality(new)
  BY <1>2, <1>3, FS_Subset, FS_CardinalityType
<1>5. Approvals = Cardinality(old) /\ Approvals' = Cardinality(new)
  BY DEF Approvals
<1> HIDE DEF old, new
<1> QED
  BY <1>2, <1>4, <1>5

\* Without decisions nobody approved.
LEMMA NobodyApproved ==
  ASSUME \A a \in Approvers : decision[a] = "none"
  PROVE  Approvals = 0
<1>1. {a \in Approvers : decision[a] = "approve"} = {}
  OBVIOUS
<1> QED
  BY <1>1, FS_EmptySet DEF Approvals

\* The count is of the decisions, and a natural number.
LEMMA SameDecisions ==
  ASSUME UNCHANGED decision
  PROVE  Approvals' = Approvals /\ Approvals \in Nat
<1>1. Approvals \in Nat
  BY ApprovalsAreCounted, ApprovalAssumption
<1>2. Approvals' = Approvals
  BY DEF Approvals
<1> QED
  BY <1>1, <1>2

---------------------------------------------------------------------------------
(* Requests. *)

\* The caller without a request has the type of a caller.
LEMMA NoActorIs ==
  NoActor \in ActorType /\ NoActor.step = "idle" /\ NoActor.by = "requester"
  /\ NoActor.outcome = "none"
BY ApprovalAssumption DEF NoActor, ActorType, Steps

\* What a step of one caller to its next statement leaves in the other callers.
LEMMA GoIs ==
  ASSUME NEW c \in Callers, actor \in [Callers -> ActorType], NEW step \in Steps, Go(c, step)
  PROVE  /\ actor' \in [Callers -> ActorType]
         /\ \A d \in Callers \ {c} : actor'[d] = actor[d]
         /\ actor'[c].step = step
         /\ step # "idle" => actor'[c].by = actor[c].by /\ actor'[c].outcome = actor[c].outcome
<1>1. CASE step = "idle"
  BY <1>1, NoActorIs DEF Go
<1>2. CASE step # "idle"
  <2> DEFINE next == [actor[c] EXCEPT !.step = step]
  <2>1. /\ next \in ActorType
        /\ next.step = step /\ next.by = actor[c].by /\ next.outcome = actor[c].outcome
    BY DEF ActorType
  <2>2. actor' = [actor EXCEPT ![c] = next]
    BY <1>2 DEF Go
  <2> HIDE DEF next
  <2> QED
    BY <2>1, <2>2
<1> QED
  BY <1>1, <1>2

\* Any step of one request: the others keep what they know of the row.
LEMMA ActorMoves ==
  ASSUME GateInv, GateTypes', ApprovalOK', NEW c \in Callers, ActorOK(c)',
         \A d \in Callers \ {c} : actor'[d] = actor[d],
         approval.status # "none" => approval'.status # "none" /\ approval'.needed = approval.needed,
         Approvals \in Nat, Approvals' \in Nat, Approvals' >= Approvals,
         ~Executing(c) => /\ approval.status = "executing" => approval'.status = "executing"
                          /\ launches' = launches,
         Executing(c)' => Executing(c) \/ approval.status # "executing",
         Failure => Failure',
         approval'.status = "executing" =>
           Executing(c)' \/ Failure' \/ (approval.status = "executing" /\ ~Executing(c)),
         approval'.status = "pending" /\ Rejected' =>
           \/ actor'[c].step = "reject" \/ Failure'
           \/ approval.status = "pending" /\ Rejected /\ actor[c].step # "reject",
         approval'.status = "pending" /\ Approvals' >= approval'.needed =>
           \/ actor'[c].step \in {"count", "approve"} \/ Failure'
           \/ /\ approval.status = "pending" /\ Approvals >= approval.needed
              /\ actor[c].step \notin {"count", "approve"}
  PROVE  GateInv'
<1>1. \A d \in Callers \ {c} : ActorOK(d)'
  <2> SUFFICES ASSUME NEW d \in Callers \ {c} PROVE ActorOK(d)'
    OBVIOUS
  <2>1. ActorOK(d) /\ actor'[d] = actor[d] /\ (Executing(d) <=> Executing(d)')
    BY DEF GateInv, Executing
  <2>2. CASE Executing(d)
    <3>1. ~Executing(c) /\ approval.status = "executing"
      BY <2>1, <2>2 DEF GateInv, ExecutorExclusive, ActorOK
    <3> QED
      BY <2>1, <2>2, <3>1 DEF ActorOK, Executing, ExecutionSteps, DecisionSteps
  <2>3. CASE ~Executing(d)
    <3>1. approval.needed \in Nat
      BY DEF GateInv, GateTypes, ApprovalType
    <3> QED
      BY <2>1, <2>3, <3>1 DEF ActorOK, Executing, ExecutionSteps
  <2> QED
    BY <2>2, <2>3
<1>2. ExecutorExclusive'
  <2>1. \A d \in Callers \ {c} : Executing(d)' <=> Executing(d)
    BY DEF Executing
  <2>2. \A d \in Callers : Executing(d) => approval.status = "executing"
    BY DEF GateInv, ActorOK
  <2> QED
    BY <2>1, <2>2 DEF GateInv, ExecutorExclusive
<1>3. CarriedOn'
  BY DEF GateInv, CarriedOn, Executing
<1> QED
  BY <1>1, <1>2, <1>3 DEF GateInv

\* A step of one request that leaves the row, its decisions and its jobs alone.
LEMMA RowStays ==
  ASSUME GateInv, NEW c \in Callers, UNCHANGED <<approval, decision, launches>>,
         ProcessTypeOK', policy' \in 0 .. MaxNeeded,
         actor' \in [Callers -> ActorType],
         \A d \in Callers \ {c} : actor'[d] = actor[d],
         ActorOK(c)',
         Executing(c)' => Executing(c),
         Failure => Failure',
         Executing(c) => Executing(c)' \/ Failure',
         actor[c].step = "reject" => Failure' \/ approval.status # "pending",
         actor[c].step \in {"count", "approve"} =>
           \/ actor'[c].step \in {"count", "approve"} \/ Failure'
           \/ approval.status # "pending" \/ Approvals < approval.needed
  PROVE  GateInv'
<1>1. Approvals' = Approvals /\ Approvals \in Nat
  BY SameDecisions
<1>2. GateTypes' /\ ApprovalOK'
  BY <1>1 DEF GateInv, GateTypes, ApprovalOK
<1>3. Rejected' <=> Rejected
  BY DEF Rejected
<1>4. approval.needed \in Nat
  BY DEF GateInv, GateTypes, ApprovalType
<1> QED
  BY <1>1, <1>2, <1>3, <1>4, ActorMoves

\* A status is set on the row.
LEMMA SetIs ==
  ASSUME approval \in ApprovalType, NEW status \in Statuses, Set(status)
  PROVE  /\ approval' \in ApprovalType
         /\ approval'.status = status /\ approval'.needed = approval.needed
BY DEF ApprovalType, Set

\* What the expiry of an overdue row, part of every read, does to the row.
LEMMA ExpiredIs ==
  ASSUME approval \in ApprovalType
  PROVE  /\ Expired \in ApprovalType /\ Expired.needed = approval.needed
         /\ \/ Expired = approval
            \/ approval.status \in {"pending", "approved"} /\ Expired.status = "expired"
<1>1. CASE approval.status \in {"pending", "approved"} /\ approval.expires <= clock
  <2> DEFINE next == [approval EXCEPT !.status = "expired"]
  <2>1. next \in ApprovalType /\ next.needed = approval.needed /\ next.status = "expired"
    BY DEF ApprovalType, Statuses, FinalStatuses
  <2>2. Expired = next
    BY <1>1 DEF Expired
  <2> HIDE DEF next
  <2> QED
    BY <1>1, <2>1, <2>2
<1>2. CASE ~(approval.status \in {"pending", "approved"} /\ approval.expires <= clock)
  BY <1>2 DEF Expired
<1> QED
  BY <1>1, <1>2

\* A request sets a status other than executing and pending, and ends or goes on
\* to read the answer, when nothing but that status is at stake.
LEMMA StatusMoves ==
  ASSUME GateInv, NEW c \in Callers, UNCHANGED <<decision, policy, launches, process>>,
         actor' \in [Callers -> ActorType],
         \A d \in Callers \ {c} : actor'[d] = actor[d],
         actor'[c].step \in {"idle", "reread"},
         approval' \in ApprovalType, approval'.needed = approval.needed,
         approval.status # "none", approval.status = "executing" => Executing(c),
         approval'.status \notin {"none", "executing", "pending"},
         approval'.status \in {"approved", "executed", "failed", "unknown"} =>
           Approvals >= approval.needed,
         launches > 0 => approval.status = "executing" /\ approval'.status \in {"executed", "unknown"}
  PROVE  GateInv'
<1>1. Approvals' = Approvals /\ Approvals \in Nat
  BY SameDecisions
<1>2. GateTypes'
  BY DEF GateInv, GateTypes, ProcessTypeOK, process
<1>3. ApprovalOK'
  BY <1>1 DEF GateInv, GateTypes, ApprovalOK
<1>4. ActorOK(c)'
  BY DEF ActorOK, Executing, DecisionSteps, ExecutionSteps
<1>5. ~Executing(c)' /\ (Failure => Failure')
  BY DEF Executing, ExecutionSteps, Failure, process
<1>6. ~Executing(c) => approval.status # "executing"
  OBVIOUS
<1> QED
  BY <1>1, <1>2, <1>3, <1>4, <1>5, <1>6, ActorMoves

\* A request reads the row, which may expire, and is not one that carries
\* anything on.
LEMMA ReadMoves ==
  ASSUME GateInv, NEW c \in Callers, UNCHANGED <<decision, policy, launches, process>>,
         actor' \in [Callers -> ActorType],
         \A d \in Callers \ {c} : actor'[d] = actor[d],
         ~Executing(c), ~Executing(c)', actor[c].step \notin {"count", "approve", "reject"},
         ActorOK(c)', approval' = Expired
  PROVE  GateInv'
<1>1. Approvals' = Approvals /\ Approvals \in Nat
  BY SameDecisions
<1>2. /\ Expired \in ApprovalType /\ Expired.needed = approval.needed
      /\ \/ Expired = approval
         \/ approval.status \in {"pending", "approved"} /\ Expired.status = "expired"
  BY ExpiredIs DEF GateInv, GateTypes
<1>3. GateTypes'
  BY <1>2 DEF GateInv, GateTypes, ProcessTypeOK, process
<1>4. ApprovalOK'
  BY <1>1, <1>2 DEF GateInv, GateTypes, ApprovalOK
<1>5. (Failure => Failure') /\ (Rejected' <=> Rejected)
  BY DEF Failure, process, Rejected
<1> QED
  BY <1>1, <1>2, <1>3, <1>4, <1>5, ActorMoves

---------------------------------------------------------------------------------
(* The steps of a request. *)

\* The parts of the type invariant, for the lemmas on single actions.
LEMMA GateTypesAre ==
  ASSUME GateInv, NEW c \in Callers
  PROVE  /\ approval \in ApprovalType /\ decision \in DecisionType /\ policy \in 0 .. MaxNeeded
         /\ launches \in Nat /\ actor \in [Callers -> ActorType] /\ actor[c] \in ActorType
         /\ ProcessTypeOK /\ ActorOK(c) /\ ApprovalOK
         /\ MaxNeeded \in Nat /\ Window \in Nat /\ MaxRequests \in Nat /\ MaxTime \in Nat
         /\ MaxFaults \in Nat /\ MaxCrashes \in Nat
         /\ approval.needed \in Nat /\ Approvals \in Nat
BY SameDecisions, ApprovalsAreCounted, ApprovalAssumption, ProcessAssumption
   DEF GateInv, GateTypes, ApprovalType

\* A new request, whatever it asks for.
LEMMA BeginKeeps ==
  ASSUME GateInv, NEW c \in Callers, NEW by \in Approvers \cup {"requester"},
         NEW step \in {"policy", "decide", "cancel", "execute"}, Begin(c, by, step),
         step = "decide" => by \in Approvers
  PROVE  GateInv'
<1> DEFINE next == [NoActor EXCEPT !.step = step, !.by = by]
<1>1. next \in ActorType /\ next.step = step /\ next.by = by
  BY NoActorIs DEF ActorType, NoActor, Steps, DecisionSteps
<1>2. /\ actor' = [actor EXCEPT ![c] = next] /\ actor[c].step = "idle" /\ Arrive
      /\ UNCHANGED <<approval, decision, policy, launches>>
  BY DEF Begin
<1> HIDE DEF next
<1>3. /\ actor' \in [Callers -> ActorType]
      /\ \A d \in Callers \ {c} : actor'[d] = actor[d]
      /\ actor'[c].step = step /\ actor'[c].by = by
  BY <1>1, <1>2, GateTypesAre
<1>4. ProcessTypeOK' /\ (Failure => Failure') /\ policy' \in 0 .. MaxNeeded
  BY <1>2, GateTypesAre DEF Arrive, ProcessTypeOK, Failure
<1>5. ~Executing(c) /\ ~Executing(c)' /\ ActorOK(c)'
  BY <1>2, <1>3 DEF Executing, ExecutionSteps, ActorOK, DecisionSteps
<1> QED
  BY <1>2, <1>3, <1>4, <1>5, RowStays

\* The row of a request that the policy guards.
LEMMA CreateKeeps ==
  ASSUME GateInv, NEW c \in Callers, ReadPolicy(c) \/ CreateApproval(c)
  PROVE  GateInv'
<1>1. CASE ReadPolicy(c)
  <2> DEFINE next == [actor[c] EXCEPT !.step = "create", !.needed = policy]
  <2>1. next \in ActorType /\ next.step = "create"
    BY GateTypesAre DEF ActorType, Steps
  <2>2. /\ actor' = [actor EXCEPT ![c] = next] /\ actor[c].step = "policy"
        /\ UNCHANGED <<approval, decision, policy, launches, process>>
    BY <1>1, GateTypesAre DEF ReadPolicy
  <2> HIDE DEF next
  <2>3. /\ actor' \in [Callers -> ActorType]
        /\ \A d \in Callers \ {c} : actor'[d] = actor[d]
        /\ actor'[c].step = "create"
    BY <2>1, <2>2, GateTypesAre
  <2>4. ProcessTypeOK' /\ (Failure => Failure') /\ policy' \in 0 .. MaxNeeded
    BY <2>2, GateTypesAre DEF process, ProcessTypeOK, Failure
  <2>5. ~Executing(c) /\ ~Executing(c)' /\ ActorOK(c)'
    BY <2>2, <2>3 DEF Executing, ExecutionSteps, ActorOK, DecisionSteps
  <2> QED
    BY <2>2, <2>3, <2>4, <2>5, RowStays
<1>2. CASE CreateApproval(c)
  <2>1. /\ actor[c].step = "create" /\ UNCHANGED <<decision, policy, launches, process>>
        /\ Go(c, "idle")
    BY <1>2 DEF CreateApproval
  <2>2. /\ actor' \in [Callers -> ActorType]
        /\ \A d \in Callers \ {c} : actor'[d] = actor[d]
        /\ actor'[c].step = "idle"
    BY <2>1, GoIs, GateTypesAre DEF Steps
  <2>3. ProcessTypeOK' /\ (Failure => Failure') /\ policy' \in 0 .. MaxNeeded
    BY <2>1, GateTypesAre DEF process, ProcessTypeOK, Failure
  <2>4. ~Executing(c) /\ ~Executing(c)' /\ ActorOK(c)'
    BY <2>1, <2>2 DEF Executing, ExecutionSteps, ActorOK, DecisionSteps
  <2>5. CASE approval' = approval
    BY <2>1, <2>2, <2>3, <2>4, <2>5, RowStays
  <2>6. CASE approval' # approval
    <3> DEFINE new == [status |-> "pending", needed |-> actor[c].needed, expires |-> clock + Window]
    <3>1. approval' = new /\ approval.status = "none" /\ actor[c].needed > 0
      BY <1>2, <2>6 DEF CreateApproval
    <3>2. clock + Window \in 0 .. MaxTime + Window
      BY GateTypesAre DEF ProcessTypeOK
    <3>3. new \in ApprovalType /\ new.status = "pending" /\ new.needed > 0
      BY <3>1, <3>2, GateTypesAre DEF ApprovalType, ActorType, Statuses
    <3> HIDE DEF new
    <3>4. Approvals' = 0 /\ Approvals = 0 /\ ~Rejected'
      BY <2>1, <3>1, NobodyApproved, SameDecisions, GateTypesAre DEF ApprovalOK, Rejected
    <3>5. launches = 0
      BY <3>1, GateTypesAre DEF ApprovalOK
    <3>6. GateTypes' /\ ApprovalOK'
      BY <2>1, <2>2, <2>3, <3>1, <3>3, <3>5, GateTypesAre DEF GateTypes, ApprovalOK
    <3> QED
      BY <2>1, <2>2, <2>3, <2>4, <3>1, <3>3, <3>4, <3>6, ActorMoves DEF ApprovalType
  <2> QED
    BY <2>5, <2>6
<1> QED
  BY <1>1, <1>2

\* Every read of the row, with the expiry it carries out.
LEMMA ReadKeeps ==
  ASSUME GateInv, NEW c \in Callers,
         ReadForDecision(c) \/ ReadForCancel(c) \/ Reread(c) \/ ReadForClaim(c)
  PROVE  GateInv'
<1>1. PICK to \in {"insert", "cancelling", "idle", "claim"} :
        /\ Go(c, to) /\ approval' = Expired
        /\ UNCHANGED <<decision, policy, launches, process>>
        /\ actor[c].step \in {"decide", "cancel", "reread", "execute"}
        /\ to = "insert" => actor[c].step = "decide" /\ Expired.status = "pending"
  BY DEF ReadForDecision, ReadForCancel, Reread, ReadForClaim, Read
<1>2. /\ actor' \in [Callers -> ActorType]
      /\ \A d \in Callers \ {c} : actor'[d] = actor[d]
      /\ actor'[c].step = to /\ (to # "idle" => actor'[c].by = actor[c].by)
  BY <1>1, GoIs, GateTypesAre DEF Steps, DecisionSteps
<1>3. ~Executing(c) /\ ~Executing(c)' /\ ActorOK(c)'
  BY <1>1, <1>2, GateTypesAre DEF Executing, ExecutionSteps, ActorOK, DecisionSteps
<1> QED
  BY <1>1, <1>2, <1>3, ReadMoves

\* The decision is stored before the state of the row is compared.
LEMMA InsertKeeps ==
  ASSUME GateInv, NEW c \in Callers, InsertDecision(c)
  PROVE  GateInv'
<1>1. /\ actor[c].step = "insert" /\ actor[c].by \in Approvers /\ approval.status # "none"
      /\ UNCHANGED <<approval, policy, launches, process>>
  BY GateTypesAre DEF InsertDecision, ActorOK, DecisionSteps
<1>2. ProcessTypeOK' /\ (Failure => Failure') /\ policy' \in 0 .. MaxNeeded
  BY <1>1, GateTypesAre DEF process, ProcessTypeOK, Failure
<1>3. CASE decision' = decision
  <2>1. Go(c, "idle")
    BY <1>3, <1>1, GateTypesAre DEF InsertDecision, DecisionType
  <2>2. /\ actor' \in [Callers -> ActorType]
        /\ \A d \in Callers \ {c} : actor'[d] = actor[d]
        /\ actor'[c].step = "idle"
    BY <2>1, GoIs, GateTypesAre DEF Steps
  <2>3. ~Executing(c) /\ ~Executing(c)' /\ ActorOK(c)'
    BY <1>1, <2>2 DEF Executing, ExecutionSteps, ActorOK, DecisionSteps
  <2> QED
    BY <1>1, <1>2, <1>3, <2>2, <2>3, RowStays
<1>4. CASE decision' # decision
  <2>1. PICK d \in {"approve", "reject"} :
          /\ decision[actor[c].by] = "none"
          /\ decision' = [decision EXCEPT ![actor[c].by] = d]
          /\ Go(c, IF d = "approve" THEN "count" ELSE "reject")
    BY <1>4 DEF InsertDecision
  <2> DEFINE to == IF d = "approve" THEN "count" ELSE "reject"
  <2>2. to \in Steps /\ to # "idle" /\ to \in DecisionSteps
    BY DEF Steps, DecisionSteps
  <2>3. /\ actor' \in [Callers -> ActorType]
        /\ \A x \in Callers \ {c} : actor'[x] = actor[x]
        /\ actor'[c].step = to /\ actor'[c].by = actor[c].by
    BY <2>1, <2>2, GoIs, GateTypesAre
  <2>4. /\ Approvals \in Nat /\ Approvals' \in Nat /\ Approvals' >= Approvals
        /\ d = "reject" => Approvals' = Approvals
    BY <1>1, <2>1, ApprovalsGrow, GateTypesAre
  <2>5. decision' \in DecisionType
    BY <1>1, <2>1, GateTypesAre DEF DecisionType
  <2>6. GateTypes' /\ ApprovalOK'
    BY <1>1, <1>2, <2>3, <2>4, <2>5, GateTypesAre DEF GateTypes, ApprovalOK
  <2>7. ~Executing(c) /\ ~Executing(c)' /\ ActorOK(c)'
    BY <1>1, <2>3 DEF Executing, ExecutionSteps, ActorOK, DecisionSteps
  <2>8. d = "approve" => (Rejected' => Rejected)
    BY <1>1, <2>1, GateTypesAre DEF Rejected, DecisionType
  <2> QED
    BY <1>1, <1>2, <2>3, <2>4, <2>6, <2>7, <2>8, ActorMoves
<1> QED
  BY <1>3, <1>4

\* The statement that carries a decision or a cancellation out: guarded by the
\* status, so that it does nothing when another request was first.
LEMMA UpdateKeeps ==
  ASSUME GateInv, NEW c \in Callers,
         RejectApproval(c) \/ ApproveApproval(c) \/ UpdateCancelled(c)
  PROVE  GateInv'
<1>1. PICK status \in {"rejected", "approved", "cancelled"} :
        /\ \/ actor[c].step = "reject" /\ status = "rejected"
           \/ actor[c].step = "approve" /\ status = "approved"
           \/ actor[c].step = "cancelling" /\ status = "cancelled"
        /\ \/ approval' = approval /\ approval.status # "pending"
           \/ approval.status \in {"pending", "approved"} /\ Set(status)
        /\ Go(c, "reread")
        /\ UNCHANGED <<decision, policy, launches, process>>
  BY DEF RejectApproval, ApproveApproval, UpdateCancelled
<1>2. /\ actor' \in [Callers -> ActorType]
      /\ \A d \in Callers \ {c} : actor'[d] = actor[d]
      /\ actor'[c].step = "reread"
  BY <1>1, GoIs, GateTypesAre DEF Steps
<1>3. ~Executing(c) /\ ~Executing(c)' /\ ActorOK(c)'
  BY <1>1, <1>2 DEF Executing, ExecutionSteps, ActorOK, DecisionSteps
<1>4. CASE approval' = approval /\ approval.status # "pending"
  <2>1. ProcessTypeOK' /\ (Failure => Failure') /\ policy' \in 0 .. MaxNeeded
    BY <1>1, GateTypesAre DEF process, ProcessTypeOK, Failure
  <2> QED
    BY <1>1, <1>2, <1>3, <1>4, <2>1, RowStays
<1>5. CASE approval.status \in {"pending", "approved"} /\ Set(status)
  <2>1. /\ approval' \in ApprovalType
        /\ approval'.status = status /\ approval'.needed = approval.needed
    BY <1>1, <1>5, SetIs, GateTypesAre DEF Statuses, FinalStatuses
  <2>2. ~(launches > 0)
    BY <1>5, GateTypesAre DEF ApprovalOK
  <2>3. status = "approved" => Approvals >= approval.needed
    BY <1>1, GateTypesAre DEF ActorOK
  <2> QED
    BY <1>1, <1>2, <1>5, <2>1, <2>2, <2>3, StatusMoves
<1> QED
  BY <1>1, <1>4, <1>5

\* The approvals are counted, and the request waits or goes on to approve.
LEMMA CountKeeps ==
  ASSUME GateInv, NEW c \in Callers, CountApprovals(c)
  PROVE  GateInv'
<1> DEFINE to == IF Approvals >= approval.needed THEN "approve" ELSE "reread"
<1>1. /\ actor[c].step = "count" /\ Go(c, to)
      /\ UNCHANGED <<approval, decision, policy, launches, process>>
  BY DEF CountApprovals
<1>2. to \in Steps
  BY DEF Steps, DecisionSteps
<1>3. to = "approve" => Approvals >= approval.needed
  OBVIOUS
<1>4. to = "reread" => Approvals < approval.needed
  BY GateTypesAre
<1>5. to \in {"approve", "reread"}
  OBVIOUS
<1> HIDE DEF to
<1>6. /\ actor' \in [Callers -> ActorType]
      /\ \A d \in Callers \ {c} : actor'[d] = actor[d]
      /\ actor'[c].step = to /\ actor'[c].by = actor[c].by
  BY <1>1, <1>2, <1>5, GoIs, GateTypesAre
<1>7. ProcessTypeOK' /\ (Failure => Failure') /\ policy' \in 0 .. MaxNeeded
  BY <1>1, GateTypesAre DEF process, ProcessTypeOK, Failure
<1>8. Approvals' = Approvals
  BY <1>1, SameDecisions
<1>9. ~Executing(c) /\ ~Executing(c)' /\ ActorOK(c)'
  BY <1>1, <1>3, <1>5, <1>6, <1>8, GateTypesAre DEF Executing, ExecutionSteps, ActorOK, DecisionSteps
<1> QED
  BY <1>1, <1>4, <1>5, <1>6, <1>7, <1>9, RowStays

\* The guarded UPDATE that makes one execution out of an approved row.
LEMMA ClaimKeeps ==
  ASSUME GateInv, NEW c \in Callers, ClaimExecution(c)
  PROVE  GateInv'
<1>1. /\ actor[c].step = "claim" /\ UNCHANGED <<decision, policy, launches, process>>
      /\ \/ approval.status = "approved" /\ Set("executing") /\ Go(c, "claimed")
         \/ approval' = approval /\ Go(c, "idle")
  BY DEF ClaimExecution
<1>2. ProcessTypeOK' /\ (Failure => Failure') /\ policy' \in 0 .. MaxNeeded
  BY <1>1, GateTypesAre DEF process, ProcessTypeOK, Failure
<1>3. CASE approval' = approval /\ Go(c, "idle")
  <2>1. /\ actor' \in [Callers -> ActorType]
        /\ \A d \in Callers \ {c} : actor'[d] = actor[d]
        /\ actor'[c].step = "idle"
    BY <1>3, GoIs, GateTypesAre DEF Steps
  <2>2. ~Executing(c) /\ ~Executing(c)' /\ ActorOK(c)'
    BY <1>1, <2>1 DEF Executing, ExecutionSteps, ActorOK, DecisionSteps
  <2> QED
    BY <1>1, <1>2, <1>3, <2>1, <2>2, RowStays
<1>4. CASE approval.status = "approved" /\ Set("executing") /\ Go(c, "claimed")
  <2>1. /\ actor' \in [Callers -> ActorType]
        /\ \A d \in Callers \ {c} : actor'[d] = actor[d]
        /\ actor'[c].step = "claimed"
    BY <1>4, GoIs, GateTypesAre DEF Steps, ExecutionSteps
  <2>2. /\ approval' \in ApprovalType
        /\ approval'.status = "executing" /\ approval'.needed = approval.needed
    BY <1>4, SetIs, GateTypesAre DEF Statuses
  <2>3. launches = 0 /\ Approvals' = Approvals
    BY <1>1, <1>4, SameDecisions, GateTypesAre DEF ApprovalOK
  <2>4. GateTypes' /\ ApprovalOK'
    BY <1>1, <1>2, <1>4, <2>1, <2>2, <2>3, GateTypesAre DEF GateTypes, ApprovalOK
  <2>5. Executing(c)' /\ ~Executing(c) /\ ActorOK(c)'
    BY <1>1, <2>1, <2>2, <2>3 DEF Executing, ExecutionSteps, ActorOK, DecisionSteps
  <2> QED
    BY <1>1, <1>2, <1>4, <2>1, <2>2, <2>3, <2>4, <2>5, GateTypesAre, ActorMoves
<1> QED
  BY <1>1, <1>3, <1>4

\* The checks of the request that claimed the row: it stays claimed.
LEMMA ExecutorMoves ==
  ASSUME GateInv, NEW c \in Callers, UNCHANGED <<approval, decision, launches, policy, process>>,
         NEW next \in ActorType, actor' = [actor EXCEPT ![c] = next],
         Executing(c), next.step \in ExecutionSteps,
         next.step \in {"claimed", "check", "recheck", "launch"} => launches = 0,
         next.step \in {"save", "saveFailed", "finish"} =>
           /\ next.outcome # "none"
           /\ next.outcome = "failed" => launches = 0
  PROVE  GateInv'
<1>1. /\ actor' \in [Callers -> ActorType]
      /\ \A d \in Callers \ {c} : actor'[d] = actor[d]
      /\ actor'[c] = next
  BY GateTypesAre
<1>2. ProcessTypeOK' /\ (Failure => Failure') /\ policy' \in 0 .. MaxNeeded
  BY GateTypesAre DEF process, ProcessTypeOK, Failure
<1>3. Executing(c)' /\ approval.status = "executing"
  BY <1>1, GateTypesAre DEF Executing, ActorOK
<1>4. ActorOK(c)'
  BY <1>1, <1>3 DEF ActorOK, ExecutionSteps, DecisionSteps
<1>5. actor[c].step \notin {"reject", "count", "approve"}
  BY DEF Executing, ExecutionSteps
<1> QED
  BY <1>1, <1>2, <1>3, <1>4, <1>5, RowStays

\* The checks between the claim and the launch, and the launch.
LEMMA CheckKeeps ==
  ASSUME GateInv, NEW c \in Callers,
         ReadClaimed(c) \/ CheckExecution(c) \/ ReadExecuting(c) \/ SaveRun(c)
  PROVE  GateInv'
<1>1. /\ Executing(c) /\ UNCHANGED <<decision, launches, policy, process>>
      /\ approval' \in {approval, Expired}
  BY DEF ReadClaimed, CheckExecution, ReadExecuting, SaveRun, Executing, ExecutionSteps, Finish, Go
<1>2. approval.status = "executing" /\ approval' = approval
  BY <1>1, GateTypesAre DEF ActorOK, Expired
<1>3. CASE ReadClaimed(c)
  <2> DEFINE next == [actor[c] EXCEPT !.step = "check", !.approvals = Approvals]
  <2>1. next \in ActorType /\ next.step = "check"
    BY GateTypesAre DEF ActorType, Steps, ExecutionSteps
  <2>2. actor' = [actor EXCEPT ![c] = next] /\ launches = 0
    BY <1>3, GateTypesAre DEF ReadClaimed, ActorOK
  <2> HIDE DEF next
  <2> QED
    BY <1>1, <1>2, <2>1, <2>2, ExecutorMoves DEF ExecutionSteps
<1>4. CASE CheckExecution(c) \/ ReadExecuting(c)
  <2>1. launches = 0
    BY <1>4, GateTypesAre DEF CheckExecution, ReadExecuting, ActorOK
  <2>2. CASE Finish(c, "failed")
    <3> DEFINE next == [actor[c] EXCEPT !.step = "finish", !.outcome = "failed"]
    <3>1. next \in ActorType /\ next.step = "finish" /\ next.outcome = "failed"
      BY GateTypesAre DEF ActorType, Steps, ExecutionSteps
    <3>2. actor' = [actor EXCEPT ![c] = next]
      BY <2>2, GateTypesAre DEF Finish
    <3> HIDE DEF next
    <3> QED
      BY <1>1, <1>2, <2>1, <3>1, <3>2, ExecutorMoves DEF ExecutionSteps
  <2>3. CASE Go(c, "recheck") \/ Go(c, "launch")
    <3>1. PICK step \in {"recheck", "launch"} : Go(c, step)
      BY <2>3
    <3> DEFINE next == [actor[c] EXCEPT !.step = step]
    <3>2. next \in ActorType /\ next.step = step
      BY GateTypesAre DEF ActorType, Steps, ExecutionSteps
    <3>3. actor' = [actor EXCEPT ![c] = next]
      BY <3>1, GateTypesAre DEF Go
    <3> HIDE DEF next
    <3> QED
      BY <1>1, <1>2, <2>1, <3>2, <3>3, ExecutorMoves DEF ExecutionSteps
  <2> QED
    BY <1>4, <2>2, <2>3 DEF CheckExecution, ReadExecuting
<1>5. CASE SaveRun(c)
  <2> DEFINE next == [actor[c] EXCEPT !.step = "finish"]
  <2>1. next \in ActorType /\ next.step = "finish" /\ next.outcome = actor[c].outcome
    BY GateTypesAre DEF ActorType, Steps, ExecutionSteps
  <2>2. actor' = [actor EXCEPT ![c] = next] /\ actor[c].step \in {"save", "saveFailed"}
    BY <1>5, GateTypesAre DEF SaveRun, Go
  <2>3. /\ actor[c].outcome # "none"
        /\ actor[c].outcome = "failed" => launches = 0
    BY <2>2, GateTypesAre DEF ActorOK
  <2> HIDE DEF next
  <2> QED
    BY <1>1, <1>2, <2>1, <2>2, <2>3, ExecutorMoves DEF ExecutionSteps
<1> QED
  BY <1>3, <1>4, <1>5

\* The launch: the executor counts the job it may have started.
LEMMA LaunchKeeps ==
  ASSUME GateInv, NEW c \in Callers, LaunchJob(c)
  PROVE  GateInv'
<1>1. PICK step \in {"save", "saveFailed"}, outcome \in {"executed", "failed", "unknown"} :
        /\ actor' = [actor EXCEPT ![c].step = step, ![c].outcome = outcome]
        /\ launches' = launches \/ (launches' = launches + 1 /\ outcome # "failed")
  <2>1. PICK answer \in {"accepted", "refused", "broken", "lost"} :
          /\ launches' \in IF answer = "refused" THEN {launches} ELSE {launches, launches + 1}
          /\ actor' = [actor EXCEPT ![c].step = IF answer = "lost" THEN "saveFailed" ELSE "save",
                                     ![c].outcome = LaunchOutcome[answer]]
    BY DEF LaunchJob, LaunchOutcome
  <2>2. /\ LaunchOutcome[answer] \in {"executed", "failed", "unknown"}
        /\ LaunchOutcome[answer] = "failed" => answer = "refused"
    BY DEF LaunchOutcome
  <2>3. (IF answer = "lost" THEN "saveFailed" ELSE "save") \in {"save", "saveFailed"}
    OBVIOUS
  <2>4. launches' = launches \/ (launches' = launches + 1 /\ LaunchOutcome[answer] # "failed")
    BY <2>1, <2>2
  <2> QED
    BY <2>1, <2>2, <2>3, <2>4
<1>2. actor[c].step = "launch" /\ UNCHANGED <<approval, decision, policy, process>>
  BY DEF LaunchJob
<1>3. /\ launches = 0 /\ approval.status = "executing" /\ Executing(c)
      /\ \A d \in Callers : Executing(d) => d = c
  BY <1>2, GateTypesAre DEF ActorOK, Executing, ExecutionSteps, GateInv, ExecutorExclusive
<1> DEFINE next == [actor[c] EXCEPT !.step = step, !.outcome = outcome]
<1>4. next \in ActorType /\ next.step = step /\ next.outcome = outcome
  BY GateTypesAre DEF ActorType, Steps, ExecutionSteps
<1>5. actor' = [actor EXCEPT ![c] = next]
  BY <1>1, GateTypesAre
<1> HIDE DEF next
<1>6. /\ actor' \in [Callers -> ActorType]
      /\ \A d \in Callers \ {c} : actor'[d] = actor[d]
      /\ actor'[c] = next
  BY <1>4, <1>5, GateTypesAre
<1>7. /\ ProcessTypeOK' /\ (Failure => Failure') /\ policy' \in 0 .. MaxNeeded
      /\ Approvals' = Approvals /\ launches' \in {0, 1}
  BY <1>1, <1>2, <1>3, SameDecisions, GateTypesAre DEF process, ProcessTypeOK, Failure
<1>8. GateTypes' /\ ApprovalOK'
  BY <1>2, <1>3, <1>6, <1>7, GateTypesAre DEF GateTypes, ApprovalOK
<1>9. Executing(c)' /\ ActorOK(c)'
  BY <1>1, <1>2, <1>3, <1>4, <1>6 DEF Executing, ExecutionSteps, ActorOK, DecisionSteps
<1> QED
  BY <1>2, <1>3, <1>6, <1>7, <1>8, <1>9, GateTypesAre, ActorMoves

\* The outcome of the execution is written over the claim.
LEMMA FinishKeeps ==
  ASSUME GateInv, NEW c \in Callers, FinishExecution(c)
  PROVE  GateInv'
<1>1. /\ actor[c].step = "finish" /\ Go(c, "idle")
      /\ UNCHANGED <<decision, policy, launches, process>>
  BY DEF FinishExecution
<1>2. /\ approval.status = "executing" /\ actor[c].outcome \in {"executed", "failed", "unknown"}
      /\ actor[c].outcome = "failed" => launches = 0
      /\ Executing(c) /\ Approvals >= approval.needed
  BY <1>1, GateTypesAre DEF ActorOK, ActorType, ApprovalOK, Executing, ExecutionSteps
<1>3. /\ actor' \in [Callers -> ActorType]
      /\ \A d \in Callers \ {c} : actor'[d] = actor[d]
      /\ actor'[c].step = "idle"
  BY <1>1, GoIs, GateTypesAre DEF Steps
<1>4. /\ approval' \in ApprovalType
      /\ approval'.status = actor[c].outcome /\ approval'.needed = approval.needed
  BY <1>2, SetIs, GateTypesAre DEF FinishExecution, Statuses, FinalStatuses
<1> QED
  BY <1>1, <1>2, <1>3, <1>4, GateTypesAre, StatusMoves

\* A statement that throws ends the request, and may leave a claim.
LEMMA ActorThrows ==
  ASSUME GateInv, NEW c \in Callers, ApprovalThrows(c)
  PROVE  GateInv'
<1>1. Fault /\ UNCHANGED <<approval, decision, policy, launches>>
  BY DEF ApprovalThrows
<1>2. ProcessTypeOK' /\ Failure' /\ policy' \in 0 .. MaxNeeded
  BY <1>1, GateTypesAre DEF Fault, ProcessTypeOK, Failure
<1>3. CASE actor[c].step = "save"
  <2> DEFINE next == [actor[c] EXCEPT !.step = "saveFailed", !.outcome = "unknown"]
  <2>1. next \in ActorType /\ next.step = "saveFailed" /\ next.outcome = "unknown"
    BY GateTypesAre DEF ActorType, Steps, ExecutionSteps
  <2>2. actor' = [actor EXCEPT ![c] = next]
    BY <1>3, GateTypesAre DEF ApprovalThrows
  <2> HIDE DEF next
  <2>3. /\ actor' \in [Callers -> ActorType]
        /\ \A d \in Callers \ {c} : actor'[d] = actor[d]
        /\ actor'[c] = next
    BY <2>1, <2>2, GateTypesAre
  <2>4. Executing(c) /\ Executing(c)' /\ ActorOK(c)'
    BY <1>1, <1>3, <2>1, <2>3, GateTypesAre DEF Executing, ExecutionSteps, ActorOK, DecisionSteps
  <2> QED
    BY <1>1, <1>2, <2>3, <2>4, RowStays
<1>4. CASE actor[c].step # "save"
  <2>1. /\ actor' \in [Callers -> ActorType]
        /\ \A d \in Callers \ {c} : actor'[d] = actor[d]
        /\ actor'[c].step = "idle"
    BY <1>4, GoIs, GateTypesAre DEF ApprovalThrows, Steps
  <2>2. ~Executing(c)' /\ ActorOK(c)'
    BY <2>1 DEF Executing, ExecutionSteps, ActorOK, DecisionSteps
  <2> QED
    BY <1>1, <1>2, <2>1, <2>2, RowStays
<1> QED
  BY <1>3, <1>4

\* Without a step of a request the row may expire; a crash ends every request.
LEMMA OtherActorsKeep ==
  ASSUME GateInv, UNCHANGED <<decision, launches>>, approval' \in {approval, Expired},
         ProcessTypeOK', policy' \in 0 .. MaxNeeded, Failure => Failure',
         \/ actor' = actor
         \/ actor' = [c \in Callers |-> NoActor] /\ Failure'
  PROVE  GateInv'
<1>1. /\ approval \in ApprovalType /\ actor \in [Callers -> ActorType] /\ decision \in DecisionType
      /\ launches \in Nat /\ ApprovalOK /\ CarriedOn /\ ExecutorExclusive /\ approval.needed \in Nat
  BY DEF GateInv, GateTypes, ApprovalType
<1>2. Approvals' = Approvals /\ Approvals \in Nat /\ (Rejected' <=> Rejected)
  BY SameDecisions DEF Rejected
<1>3. /\ approval' \in ApprovalType /\ approval'.needed = approval.needed
      /\ \/ approval' = approval
         \/ approval.status \in {"pending", "approved"} /\ approval'.status = "expired"
  BY <1>1, ExpiredIs
<1>4. actor' \in [Callers -> ActorType]
  BY <1>1, NoActorIs
<1>5. GateTypes' /\ ApprovalOK'
  BY <1>1, <1>2, <1>3, <1>4 DEF GateTypes, ApprovalOK
<1>6. \A c \in Callers : ActorOK(c)'
  <2> SUFFICES ASSUME NEW c \in Callers PROVE ActorOK(c)'
    OBVIOUS
  <2>1. CASE actor'[c].step = "idle"
    BY <2>1 DEF ActorOK, Executing, DecisionSteps, ExecutionSteps
  <2>2. CASE actor'[c] = actor[c]
    BY <1>2, <1>3, <2>2 DEF GateInv, ActorOK, Executing
  <2> QED
    BY <2>1, <2>2, NoActorIs
<1>7. ExecutorExclusive'
  BY <1>1, NoActorIs DEF ExecutorExclusive, Executing, ExecutionSteps
<1>8. CarriedOn'
  BY <1>1, <1>2, <1>3 DEF CarriedOn, Executing
<1> QED
  BY <1>5, <1>6, <1>7, <1>8 DEF GateInv

\* The death of the process ends every request.
LEMMA GateKeeps ==
  ASSUME GateInv, SavePolicy \/ ListApprovals \/ ApprovalDies \/ ApprovalTick
  PROVE  GateInv'
<1>1. /\ ProcessTypeOK /\ policy \in 0 .. MaxNeeded /\ MaxRequests \in Nat /\ MaxTime \in Nat
      /\ MaxFaults \in Nat /\ MaxCrashes \in Nat
  BY ProcessAssumption DEF GateInv, GateTypes
<1>2. CASE SavePolicy
  BY <1>1, <1>2, OtherActorsKeep DEF SavePolicy, Arrive, ProcessTypeOK, Failure
<1>3. CASE ListApprovals
  BY <1>1, <1>3, OtherActorsKeep DEF ListApprovals, process, ProcessTypeOK, Failure
<1>4. CASE ApprovalDies
  BY <1>1, <1>4, OtherActorsKeep DEF ApprovalDies, Die, ProcessTypeOK, Failure
<1>5. CASE ApprovalTick
  BY <1>1, <1>5, OtherActorsKeep DEF ApprovalTick, Tick, ProcessTypeOK, Failure
<1> QED
  BY <1>2, <1>3, <1>4, <1>5

\* Every step of the component preserves the invariant.
LEMMA ApprovalNextKeeps == GateInv /\ [ApprovalNext]_approvalVars => GateInv'
<1> SUFFICES ASSUME GateInv, [ApprovalNext]_approvalVars PROVE GateInv'
  OBVIOUS
<1>1. CASE \E c \in Callers : \/ RequestRun(c) \/ CancelApproval(c) \/ Execute(c)
                              \/ \E a \in Approvers : Decide(c, a)
  BY <1>1, BeginKeeps DEF RequestRun, CancelApproval, Execute, Decide
<1>2. CASE \E c \in Callers : ApprovalStep(c)
  BY <1>2, CreateKeeps, ReadKeeps, InsertKeeps, UpdateKeeps, CountKeeps, ClaimKeeps, CheckKeeps,
     LaunchKeeps, FinishKeeps DEF ApprovalStep
<1>3. CASE \E c \in Callers : ApprovalThrows(c)
  BY <1>3, ActorThrows
<1>4. CASE SavePolicy \/ ListApprovals \/ ApprovalDies \/ ApprovalTick
  BY <1>4, GateKeeps
<1>5. CASE UNCHANGED approvalVars
  BY <1>5, OtherActorsKeep DEF approvalVars, process, GateInv, GateTypes, ProcessTypeOK, Failure
<1> QED
  BY <1>1, <1>2, <1>3, <1>4, <1>5 DEF ApprovalNext

\* The invariant holds at the start.
LEMMA GateInvHolds == ApprovalInit => GateInv
<1> SUFFICES ASSUME ApprovalInit PROVE GateInv
  OBVIOUS
<1>1. ProcessTypeOK /\ policy \in 0 .. MaxNeeded /\ launches = 0
  BY ProcessAssumption, ApprovalAssumption DEF ApprovalInit, ProcessInit, ProcessTypeOK
<1>2. approval \in ApprovalType /\ approval.status = "none"
  BY ApprovalAssumption, ProcessAssumption DEF ApprovalInit, NoApproval, ApprovalType, Statuses
<1>3. decision \in DecisionType /\ \A a \in Approvers : decision[a] = "none"
  BY DEF ApprovalInit, DecisionType
<1>4. actor \in [Callers -> ActorType] /\ \A c \in Callers : actor[c].step = "idle"
  BY NoActorIs DEF ApprovalInit
<1> QED
  BY <1>1, <1>2, <1>3, <1>4 DEF GateInv, GateTypes, ApprovalOK, ExecutorExclusive, CarriedOn, ActorOK, Executing,
     ExecutionSteps, DecisionSteps

\* What the database says of a request, the requests under way and the
\* executions fits together in every reachable state: the invariant the
\* theorems below draw on.
THEOREM GateInvariant == ApprovalSpec => []GateInv
<1> QED
  BY GateInvHolds, ApprovalNextKeeps, PTL DEF ApprovalSpec

\* Row, decisions and requests keep their types: only approvers decide, and an
\* outcome is known by the time it is written.
THEOREM ApprovalsAreTyped == ApprovalSpec => []ApprovalTypeOK
<1>1. GateInv => ApprovalTypeOK
  BY DEF GateInv, GateTypes, ApprovalType, DecisionType, ActorType, Steps, ActorOK, ApprovalTypeOK
<1> QED
  BY <1>1, GateInvariant, PTL

---------------------------------------------------------------------------------
(* The properties. *)

\* At most one job is started for an approval, and only for one that as many
\* approvers as it needs had approved, however executions, decisions,
\* cancellations and the expiry interleave.
THEOREM LaunchesAreApproved == ApprovalSpec => []LaunchIsApproved
<1>1. GateInv => LaunchIsApproved
  BY DEF GateInv, ApprovalOK, LaunchIsApproved
<1> QED
  BY <1>1, GateInvariant, PTL

\* A requester who reads "failed" may ask again: no job was started.
THEOREM FailedMeansNotLaunched == ApprovalSpec => []FailedWasNotLaunched
<1>1. GateInv => FailedWasNotLaunched
  BY DEF GateInv, GateTypes, ApprovalOK, FailedWasNotLaunched
<1> QED
  BY <1>1, GateInvariant, PTL

\* Only an exception or a crash leaves a claimed row without an executor.
THEOREM OnlyFailuresLeaveClaims == ApprovalSpec => []StuckOnlyAfterFailure
<1>1. GateInv => StuckOnlyAfterFailure
  BY DEF GateInv, CarriedOn, StuckOnlyAfterFailure, Failure, Executing
<1> QED
  BY <1>1, GateInvariant, PTL

\* A decision that settles a row is carried out by the request that inserted
\* it, unless a failure ended that request.
THEOREM DecisionsAreCarriedOut == ApprovalSpec => []PendingIsUndecided
<1>1. GateInv => PendingIsUndecided
  <2> SUFFICES ASSUME GateInv PROVE PendingIsUndecided
    OBVIOUS
  <2>1. Approvals \in Nat /\ approval.needed \in Nat
    BY ApprovalsAreCounted, ApprovalAssumption DEF GateInv, GateTypes, ApprovalType
  <2> QED
    BY <2>1 DEF GateInv, CarriedOn, PendingIsUndecided, Failure, Rejected
<1> QED
  BY <1>1, GateInvariant, PTL

SettledApproval == approval.status \in FinalStatuses => approval' = approval

\* Every write of a status is guarded by one that is not final.
LEMMA SettledStays == GateInv /\ [ApprovalNext]_approvalVars => SettledApproval
<1> SUFFICES ASSUME GateInv, [ApprovalNext]_approvalVars, approval.status \in FinalStatuses
             PROVE  approval' = approval
  BY DEF SettledApproval
<1>1. approval.status \notin {"none", "pending", "approved", "executing"}
  BY DEF FinalStatuses
<1>2. Expired = approval
  BY <1>1 DEF Expired
<1>3. \A c \in Callers : actor[c].step # "finish"
  BY <1>1 DEF GateInv, ActorOK, Executing, ExecutionSteps
<1>4. CASE \E c \in Callers : ApprovalStep(c)
  BY <1>1, <1>2, <1>3, <1>4 DEF ApprovalStep, ReadPolicy, CreateApproval, ReadForDecision,
     InsertDecision, RejectApproval, CountApprovals, ApproveApproval, ReadForCancel,
     UpdateCancelled, Reread, ReadForClaim, ClaimExecution, ReadClaimed, CheckExecution,
     ReadExecuting, LaunchJob, SaveRun, FinishExecution, Read
<1>5. CASE ~\E c \in Callers : ApprovalStep(c)
  BY <1>2, <1>5 DEF ApprovalNext, RequestRun, CancelApproval, Execute, Decide, Begin, ApprovalThrows,
     SavePolicy, ListApprovals, ApprovalDies, ApprovalTick, approvalVars
<1> QED
  BY <1>4, <1>5

\* A decided, cancelled, expired or finished row never changes again.
THEOREM SettledRowsStay == ApprovalSpec => FinalIsFinal
<1>1. GateInv /\ [ApprovalNext]_approvalVars => [SettledApproval]_approvalVars
  BY SettledStays
<1>2. ApprovalSpec => [][SettledApproval]_approvalVars
  BY <1>1, GateInvariant, PTL DEF ApprovalSpec
<1> QED
  BY <1>2 DEF FinalIsFinal, SettledApproval

---------------------------------------------------------------------------------
(* The abstract specification. *)

\* The statuses a write of a status leads to, and what it is justified by.
StatusStep ==
  \/ approval.status = "pending" /\ approval'.status = "approved" /\ Approvals >= approval.needed
  \/ approval.status \in {"pending", "approved"}
     /\ approval'.status \in {"rejected", "cancelled", "expired"}
  \/ approval.status = "approved" /\ approval'.status = "executing"
  \/ /\ approval.status = "executing" /\ approval'.status \in {"executed", "failed", "unknown"}
     /\ approval'.status = "failed" => launches = 0

\* What a step does to the row, its decisions and its jobs: one of them changes.
LaunchStep ==
  \/ UNCHANGED <<approval, decision, launches>>
  \/ /\ approval.status = "none" /\ approval'.status = "pending" /\ approval'.needed \in Nat \ {0}
     /\ UNCHANGED <<decision, launches>>
  \/ /\ approval'.needed = approval.needed /\ StatusStep
     /\ UNCHANGED <<decision, launches>>
  \/ /\ approval.status # "none" /\ UNCHANGED <<approval, launches>>
     /\ \E a \in Approvers, d \in {"approve", "reject"} :
          decision[a] = "none" /\ decision' = [decision EXCEPT ![a] = d]
  \/ /\ approval.status = "executing" /\ launches = 0 /\ launches' = 1
     /\ UNCHANGED <<approval, decision>>

\* A read of the row, which may expire.
LEMMA ReadIsStep ==
  ASSUME GateInv, approval' = Expired, UNCHANGED <<decision, launches>>
  PROVE  LaunchStep
<1>1. /\ Expired.needed = approval.needed
      /\ \/ Expired = approval
         \/ approval.status \in {"pending", "approved"} /\ Expired.status = "expired"
  BY ExpiredIs DEF GateInv, GateTypes
<1> QED
  BY <1>1 DEF LaunchStep, StatusStep

\* Every step of the portal is one of these.
LEMMA LaunchSteps == GateInv /\ [ApprovalNext]_approvalVars => LaunchStep
<1> SUFFICES ASSUME GateInv, [ApprovalNext]_approvalVars
             PROVE  LaunchStep
  OBVIOUS
<1>1. approval \in ApprovalType /\ launches \in Nat /\ MaxNeeded \in Nat
  BY ApprovalAssumption DEF GateInv, GateTypes
<1>2. ASSUME NEW c \in Callers, CreateApproval(c)
      PROVE  LaunchStep
  <2>1. actor[c].needed \in Nat
    BY <1>1, GateTypesAre DEF ActorType
  <2> QED
    BY <1>2, <2>1 DEF CreateApproval, LaunchStep
<1>3. ASSUME NEW c \in Callers, InsertDecision(c)
      PROVE  LaunchStep
  <2>1. actor[c].by \in Approvers /\ approval.status # "none"
    BY <1>3 DEF InsertDecision, GateInv, ActorOK, DecisionSteps
  <2> QED
    BY <1>3, <2>1 DEF InsertDecision, LaunchStep
<1>4. ASSUME NEW c \in Callers, RejectApproval(c) \/ UpdateCancelled(c)
      PROVE  LaunchStep
  BY <1>1, <1>4, SetIs DEF RejectApproval, UpdateCancelled, LaunchStep, StatusStep, Statuses, FinalStatuses
<1>5. ASSUME NEW c \in Callers, ApproveApproval(c)
      PROVE  LaunchStep
  <2>1. Approvals >= approval.needed
    BY <1>5 DEF ApproveApproval, GateInv, ActorOK
  <2> QED
    BY <1>1, <1>5, <2>1, SetIs DEF ApproveApproval, LaunchStep, StatusStep, Statuses
<1>6. ASSUME NEW c \in Callers, ClaimExecution(c)
      PROVE  LaunchStep
  BY <1>1, <1>6, SetIs DEF ClaimExecution, LaunchStep, StatusStep, Statuses
<1>7. ASSUME NEW c \in Callers, LaunchJob(c)
      PROVE  LaunchStep
  <2>1. approval.status = "executing" /\ launches = 0
    BY <1>7 DEF LaunchJob, GateInv, ActorOK, Executing, ExecutionSteps
  <2> QED
    BY <1>7, <2>1 DEF LaunchJob, LaunchStep
<1>8. ASSUME NEW c \in Callers, FinishExecution(c)
      PROVE  LaunchStep
  <2>1. /\ actor[c].outcome \in {"executed", "failed", "unknown"}
        /\ actor[c].outcome = "failed" => launches = 0
    <3>1. actor[c] \in ActorType /\ ActorOK(c) /\ actor[c].step = "finish"
      BY <1>8, GateTypesAre DEF FinishExecution
    <3> QED
      BY <3>1 DEF ActorOK, ActorType
  <2>2. CASE approval.status = "executing"
    <3>1. Set(actor[c].outcome) /\ UNCHANGED <<decision, launches>>
      BY <1>8, <2>2 DEF FinishExecution
    <3>2. approval'.status = actor[c].outcome /\ approval'.needed = approval.needed
      BY <1>1, <2>1, <3>1, SetIs DEF Statuses, FinalStatuses
    <3> QED
      BY <2>1, <2>2, <3>1, <3>2 DEF LaunchStep, StatusStep
  <2>3. CASE approval.status # "executing"
    BY <1>8, <2>3 DEF FinishExecution, LaunchStep
  <2> QED
    BY <2>2, <2>3
<1>9. ASSUME NEW c \in Callers,
             \/ ReadForDecision(c) \/ ReadForCancel(c) \/ Reread(c) \/ ReadForClaim(c)
             \/ ReadClaimed(c) \/ ReadExecuting(c)
      PROVE  LaunchStep
  BY <1>9, ReadIsStep DEF ReadForDecision, ReadForCancel, Reread, ReadForClaim, Read, ReadClaimed,
     ReadExecuting
<1>10. ASSUME NEW c \in Callers, ReadPolicy(c) \/ CountApprovals(c) \/ CheckExecution(c) \/ SaveRun(c)
       PROVE  LaunchStep
  BY <1>10 DEF ReadPolicy, CountApprovals, CheckExecution, SaveRun, LaunchStep
<1>11. ASSUME NEW c \in Callers,
              \/ RequestRun(c) \/ CancelApproval(c) \/ Execute(c) \/ ApprovalThrows(c)
              \/ \E a \in Approvers : Decide(c, a)
       PROVE  LaunchStep
  BY <1>11 DEF RequestRun, CancelApproval, Execute, Decide, Begin, ApprovalThrows, LaunchStep
<1>12. CASE ListApprovals
  BY <1>12, ReadIsStep DEF ListApprovals
<1>13. CASE SavePolicy \/ ApprovalDies \/ ApprovalTick \/ UNCHANGED approvalVars
  BY <1>13 DEF SavePolicy, ApprovalDies, ApprovalTick, approvalVars, LaunchStep
<1> QED
  BY <1>2, <1>3, <1>4, <1>5, <1>6, <1>7, <1>8, <1>9, <1>10, <1>11, <1>12, <1>13
  DEF ApprovalNext, ApprovalStep

\* What the abstract variables are here.
launchStage ==
  CASE approval.status = "none" -> "none"
    [] approval.status = "pending" -> "open"
    [] approval.status = "approved" -> "granted"
    [] approval.status = "executing" -> "taken"
    [] OTHER -> "over"
toldOfIt ==
  IF approval.status \in {"executed", "failed", "unknown"} THEN approval.status ELSE "nothing"
votes == {a \in Approvers : decision[a] = "approve"}

\* The cardinality of the instance is the one that counts the approvals.
LEMMA SameCardinality == \A S : Launch!Cardinality(S) = Cardinality(S)
  BY Zenon DEF Launch!Cardinality, Cardinality

\* A decision is a vote, or none.
LEMMA DecisionVotes ==
  ASSUME decision \in DecisionType, NEW a \in Approvers, NEW d \in {"approve", "reject"},
         decision[a] = "none", decision' = [decision EXCEPT ![a] = d]
  PROVE  \/ votes' = votes
         \/ \E voter \in votes' : voter \notin votes /\ votes' = votes \cup {voter}
<1>1. CASE d = "reject"
  BY <1>1 DEF votes, DecisionType
<1>2. CASE d = "approve"
  <2>1. a \in votes' /\ a \notin votes /\ votes' = votes \cup {a}
    BY <1>2 DEF votes, DecisionType
  <2> QED
    BY <2>1
<1> QED
  BY <1>1, <1>2

\* The row, its decisions and its jobs implement one launch: granted by enough
\* votes, taken once, started at most once and said to have failed only if it was not, whatever
\* requests, exceptions, crashes and expiries do between the statements.
THEOREM LaunchesImplementApproval == ApprovalSpec => LaunchesAsApproved
<1>1. ApprovalInit => Launch!Init
  BY DEF ApprovalInit, NoApproval, Launch!Init
<1>2. GateInv /\ [ApprovalNext]_approvalVars => [Launch!Next]_(Launch!vars)
  <2> SUFFICES ASSUME GateInv, [ApprovalNext]_approvalVars
               PROVE  [Launch!Next]_(Launch!vars)
    OBVIOUS
  <2> USE DEF launchStage, toldOfIt, votes, Launch!vars, Launch!Next
  <2>1. LaunchStep /\ decision \in DecisionType
    BY LaunchSteps DEF GateInv, GateTypes
  <2>2. CASE UNCHANGED <<approval, decision, launches>>
    <3>1. votes' = votes /\ launchStage' = launchStage /\ toldOfIt' = toldOfIt
      BY <2>2
    <3> QED
      BY <2>2, <3>1
  <2>3. CASE /\ approval.status = "none" /\ approval'.status = "pending"
             /\ approval'.needed \in Nat \ {0} /\ UNCHANGED <<decision, launches>>
    BY <2>3 DEF Launch!Ask
  <2>4. CASE /\ approval'.needed = approval.needed /\ StatusStep
             /\ UNCHANGED <<decision, launches>>
    <3>1. votes' = votes /\ Approvals = Cardinality(votes)
      BY <2>4 DEF Approvals
    <3>2. CASE approval.status = "pending" /\ approval'.status = "approved" /\ Approvals >= approval.needed
      <4>1. Cardinality(votes) >= approval.needed
        BY <3>2 DEF Approvals
      <4>2. launchStage = "open" /\ launchStage' = "granted" /\ toldOfIt' = toldOfIt
        BY <3>2
      <4>3. Launch!Grant
        BY <2>4, <3>1, <4>1, <4>2, SameCardinality DEF Launch!Grant
      <4> QED
        BY <4>3
    <3>3. CASE approval.status \in {"pending", "approved"}
               /\ approval'.status \in {"rejected", "cancelled", "expired"}
      <4>1. Launch!Withdraw
        BY <2>4, <3>1, <3>3 DEF Launch!Withdraw
      <4> QED
        BY <4>1
    <3>4. CASE approval.status = "approved" /\ approval'.status = "executing"
      <4>1. Launch!Take
        BY <2>4, <3>1, <3>4 DEF Launch!Take
      <4> QED
        BY <4>1
    <3>5. CASE /\ approval.status = "executing" /\ approval'.status \in {"executed", "failed", "unknown"}
               /\ approval'.status = "failed" => launches = 0
      <4>1. Launch!Tell
        BY <2>4, <3>1, <3>5 DEF Launch!Tell
      <4> QED
        BY <4>1
    <3> QED
      BY <2>4, <3>2, <3>3, <3>4, <3>5 DEF StatusStep
  <2>5. CASE /\ approval.status # "none" /\ UNCHANGED <<approval, launches>>
             /\ \E a \in Approvers, d \in {"approve", "reject"} :
                  decision[a] = "none" /\ decision' = [decision EXCEPT ![a] = d]
    <3>1. \/ votes' = votes
          \/ \E voter \in votes' : voter \notin votes /\ votes' = votes \cup {voter}
      BY <2>1, <2>5, DecisionVotes
    <3> QED
      BY <2>5, <3>1 DEF Launch!Vote
  <2>6. CASE /\ approval.status = "executing" /\ launches = 0 /\ launches' = 1
             /\ UNCHANGED <<approval, decision>>
    BY <2>6 DEF Launch!StartJob
  <2> QED
    BY <2>1, <2>2, <2>3, <2>4, <2>5, <2>6 DEF LaunchStep
<1> QED
  BY <1>1, <1>2, GateInvariant, PTL DEF ApprovalSpec, LaunchesAsApproved, Launch!Spec
=================================================================================
