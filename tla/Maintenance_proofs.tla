--------------------------- MODULE Maintenance_proofs ---------------------------
(***************************************************************************)
(* Theorems about MaintenanceMode, for any number of controllers, users,   *)
(* prepared operations and stops of the portal; and about                  *)
(* OnlineVerification: what is proved of the maintenance mode holds with   *)
(* the verifier at work, and a receipt says `verified` only of a           *)
(* maintenance that has ended.                                             *)
(***************************************************************************)
EXTENDS OnlineVerification, TLAPS

(***************************************************************************)
(* The maintenance mode alone.                                             *)
(***************************************************************************)

\* An operation is named exactly outside inactive, and only exit leads to exiting.
RowOK ==
  /\ row.state = "inactive" <=> row.operation = 0
  /\ row.operation <= operations
  /\ row.state = "exiting" => row.verification = "complete"

\* What is known of a request by its step and its answer.
RequestOK(r) ==
  /\ r.operation <= operations
  /\ r.moved <= operations
  /\ r.step = "authorized" => r.moved = 0
  /\ r.step = "applied" => r.moved = r.operation /\ r.moved # 0
  /\ r.answer = "ok" => r.moved = r.operation /\ r.moved # 0
  /\ r.answer = "refused" => r.moved = 0
  /\ r.step # "idle" => r.answer = "none"
  /\ r.action = "none" => r.moved = 0

\* The states of an operation's row once the action has moved it.
Beyond ==
  [prepare |-> {"entering", "active", "verifying", "exiting", "failed"},
   enter |-> {"active", "verifying", "exiting", "failed"},
   start |-> {"verifying", "exiting", "failed"},
   exit |-> {"exiting", "failed"},
   complete |-> {},
   cancel |-> {}]

\* A row that still belongs to the operation a request moved is beyond that move.
Passed(r) ==
  r.moved # 0 /\ row.operation = r.moved => row.state \in Beyond[r.action]

ControlOK == \A c \in Controllers : RequestOK(control[c]) /\ Passed(control[c])

Inv ==
  /\ TypeOK
  /\ RowOK
  /\ ControlOK
  /\ TransitionsHappenOnce
  /\ OldSessionsRevoked

-----------------------------------------------------------------------------
(* One request changes *)

\* A request may take any value that is right by itself and moved nothing new.
LEMMA RequestChanges ==
  ASSUME Inv, NEW c \in Controllers, NEW x \in ControlType,
         control' = [control EXCEPT ![c] = x],
         RequestOK(x), x.moved # 0 => x.moved = control[c].moved /\ x.action = control[c].action,
         UNCHANGED <<row, operations>>
  PROVE  /\ control' \in [Controllers -> ControlType]
         /\ RowOK'
         /\ ControlOK'
         /\ TransitionsHappenOnce'
<1>1. /\ control' \in [Controllers -> ControlType]
      /\ control'[c] = x
      /\ \A d \in Controllers : d # c => control'[d] = control[d]
  BY DEF Inv, TypeOK
<1>2. RowOK'
  BY DEF Inv, RowOK
<1>3. ControlOK'
  <2>1. Passed(x)
    BY DEF Inv, ControlOK, Passed
  <2>2. \A d \in Controllers : RequestOK(control'[d]) /\ Passed(control'[d])
    BY <1>1, <2>1 DEF Inv, ControlOK
  <2> QED
    BY <2>2 DEF ControlOK, RequestOK, Passed
<1>4. TransitionsHappenOnce'
  BY <1>1 DEF Inv, TransitionsHappenOnce
<1> QED
  BY <1>1, <1>2, <1>3, <1>4

\* Nothing about the row, the requests or the sessions changes.
LEMMA RestChanges ==
  ASSUME Inv, TypeOK', UNCHANGED <<row, sessions, control, operations>>
  PROVE  Inv'
BY DEF Inv, RowOK, ControlOK, RequestOK, Passed, TransitionsHappenOnce, OldSessionsRevoked

-----------------------------------------------------------------------------
(* The requests of a controller *)

\* A controller without a request has a record of the right type.
LEMMA IdleType == Idle \in ControlType
BY MaintenanceAssumption DEF Idle, ControlType

\* A prepare that has been checked changes only its request.
LEMMA PrepareInv ==
  ASSUME Inv, NEW c \in Controllers, prepareMaintenance(c)
  PROVE  Inv'
<1> DEFINE x == [Idle EXCEPT !.step = "authorized", !.action = "prepare", !.now = clock]
<1>0. /\ x.operation = 0 /\ x.moved = 0
      /\ x.step = "authorized" /\ x.action = "prepare" /\ x.answer = "none"
  BY DEF Idle
<1>4. x \in ControlType
  BY IdleType DEF ControlType, Inv, TypeOK
<1> HIDE DEF x
<1>1. x \in ControlType /\ RequestOK(x) /\ x.moved = 0
  BY <1>0, <1>4, MaintenanceAssumption DEF RequestOK, Inv, TypeOK
<1>2. control' = [control EXCEPT ![c] = x] /\ UNCHANGED <<row, operations>>
  BY DEF prepareMaintenance, bounded, x
<1>3. /\ control' \in [Controllers -> ControlType]
      /\ RowOK' /\ ControlOK' /\ TransitionsHappenOnce'
  BY <1>1, <1>2, RequestChanges
<1> QED
  BY <1>3 DEF prepareMaintenance, portal, bounded, Inv, TypeOK, OldSessionsRevoked

\* A transition that has been authorised changes only its request.
LEMMA AuthorizeInv ==
  ASSUME Inv, NEW c \in Controllers, NEW action \in Transitions,
         NEW operation \in Operations, authorizeTransition(c, action, operation)
  PROVE  Inv'
<1> DEFINE asked == [Idle EXCEPT !.step = "authorized", !.action = action,
                                 !.operation = operation, !.now = clock]
           x == IF Readable(row) /\ Admits(row, action, operation, clock)
                  THEN asked
                  ELSE [Idle EXCEPT !.answer = IF Readable(row) THEN "refused" ELSE "unknown"]
<1>1. control' = [control EXCEPT ![c] = x] /\ UNCHANGED <<row, operations>>
  BY DEF authorizeTransition, bounded
<1>2. x \in ControlType /\ RequestOK(x) /\ x.moved = 0
  <2>1. CASE Readable(row) /\ Admits(row, action, operation, clock)
    <3>1. operation <= operations
      BY <2>1 DEF Admits, Inv, RowOK
    <3>2. /\ x.operation = operation /\ x.moved = 0
          /\ x.step = "authorized" /\ x.action = action /\ x.answer = "none"
      BY <2>1 DEF Idle
    <3>3. operation \in 0 .. MaxOperations /\ action # "none"
      BY MaintenanceAssumption DEF Operations, Transitions
    <3>4. x \in ControlType
      BY <2>1, <3>3, IdleType DEF ControlType, Inv, TypeOK
    <3> HIDE DEF x
    <3> QED
      BY <3>1, <3>2, <3>3, <3>4, MaintenanceAssumption DEF RequestOK, Inv, TypeOK
  <2>2. CASE ~(Readable(row) /\ Admits(row, action, operation, clock))
    BY <2>2, MaintenanceAssumption DEF Idle, ControlType, RequestOK, Inv, TypeOK
  <2> QED
    BY <2>1, <2>2
<1> HIDE DEF x
<1>3. /\ control' \in [Controllers -> ControlType]
      /\ RowOK' /\ ControlOK' /\ TransitionsHappenOnce'
  BY <1>1, <1>2, RequestChanges
<1> QED
  BY <1>3 DEF authorizeTransition, portal, bounded, Inv, TypeOK, OldSessionsRevoked

\* A request ends with an answer its step allows.
LEMMA AnswerIsRight ==
  ASSUME Inv, NEW c \in Controllers, NEW a \in {"ok", "refused", "unknown"},
         a = "ok" => control[c].step = "applied",
         a = "refused" => control[c].step = "authorized"
  PROVE  LET x == Answer(control[c], a)
         IN /\ x \in ControlType
            /\ RequestOK(x)
            /\ x.moved = control[c].moved
            /\ x.action = control[c].action
<1>1. control[c] \in ControlType /\ RequestOK(control[c])
  BY DEF Inv, TypeOK, ControlOK
<1>2. 0 \in 0 .. MaxTime
  BY MaintenanceAssumption
<1> QED
  BY <1>1, <1>2 DEF Answer, ControlType, RequestOK

\* The answer of a request agrees with what it moved.
LEMMA AnswerInv ==
  ASSUME Inv, NEW c \in Controllers, NEW a \in {"ok", "refused", "unknown"},
         a = "ok" => control[c].step = "applied",
         a = "refused" => control[c].step = "authorized",
         control' = [control EXCEPT ![c] = Answer(@, a)],
         UNCHANGED <<row, operations>>
  PROVE  /\ control' \in [Controllers -> ControlType]
         /\ RowOK' /\ ControlOK' /\ TransitionsHappenOnce'
<1> DEFINE x == Answer(control[c], a)
<1>1. /\ x \in ControlType
      /\ RequestOK(x)
      /\ x.moved = control[c].moved
      /\ x.action = control[c].action
  BY AnswerIsRight
<1>2. control' = [control EXCEPT ![c] = x]
  BY DEF Inv, TypeOK
<1> HIDE DEF x
<1> QED
  BY <1>1, <1>2, RequestChanges

\* The guarded UPDATE that makes a new operation out of an inactive row.
LEMMA ClaimInv ==
  ASSUME Inv, NEW c \in Controllers, claimOperation(c)
  PROVE  Inv'
<1>1. CASE row.state # "inactive"
  <2>1. /\ control' = [control EXCEPT ![c] = Answer(@, "refused")]
        /\ control[c].step = "authorized"
        /\ UNCHANGED <<row, operations>>
    BY <1>1 DEF claimOperation
  <2>2. /\ control' \in [Controllers -> ControlType]
        /\ RowOK' /\ ControlOK' /\ TransitionsHappenOnce'
    BY <2>1, AnswerInv
  <2> QED
    BY <2>1, <2>2 DEF claimOperation, portal, Inv, TypeOK, OldSessionsRevoked
<1>2. CASE row.state = "inactive"
  <2> DEFINE n == operations + 1
             x == [control[c] EXCEPT !.step = "applied", !.operation = n, !.moved = n]
  <2>1. /\ n \in Operations
        /\ operations \in Nat
        /\ operations' = n
        /\ row' = [state |-> "entering", operation |-> n, created |-> TRUE,
                   expires |-> control[c].now + Ttl, verification |-> "empty"]
        /\ control[c] \in ControlType
        /\ control[c].action = "prepare"
        /\ control[c].step = "authorized"
        /\ UNCHANGED <<sessions, request, told, migration, clock, running, stops>>
    BY <1>2, MaintenanceAssumption DEF claimOperation, Inv, TypeOK, Operations, portal
  <2>0. /\ n # 0 /\ n <= n /\ n \in Nat
        /\ x \in ControlType
        /\ x.operation = n /\ x.moved = n /\ x.step = "applied"
        /\ x.action = "prepare" /\ x.answer = control[c].answer
    <3>1. n # 0 /\ n <= n /\ n \in Nat /\ n \in 0 .. MaxOperations
      BY <2>1, MaintenanceAssumption DEF Operations
    <3> HIDE DEF n
    <3>2. x \in ControlType
      BY <2>1, <3>1 DEF ControlType
    <3>3. /\ x.operation = n /\ x.moved = n /\ x.step = "applied"
          /\ x.action = "prepare" /\ x.answer = control[c].answer
      BY <2>1 DEF ControlType
    <3> QED
      BY <3>1, <3>2, <3>3
  <2>2. /\ control' \in [Controllers -> ControlType]
        /\ control'[c] = x
        /\ \A d \in Controllers : d # c => control'[d] = control[d]
    <3>1. control' = [control EXCEPT ![c] = x]
      BY <1>2, <2>1 DEF claimOperation, Inv, TypeOK
    <3> HIDE DEF x
    <3> QED
      BY <2>0, <3>1 DEF Inv, TypeOK
  <2>3. TypeOK'
    <3>1. row' \in RowType
      BY <2>1, MaintenanceAssumption DEF RowType, States, ControlType, Operations
    <3> QED
      BY <2>1, <2>2, <3>1, MaintenanceAssumption DEF Inv, TypeOK, Operations
  <2>4. RowOK'
    <3>1. row'.state = "entering" /\ row'.operation = n /\ n # 0 /\ n <= operations'
      BY <2>0, <2>1
    <3> HIDE DEF n
    <3> QED
      BY <3>1 DEF RowOK
  <2>5. ControlOK'
    <3>1. \A d \in Controllers : control[d].moved \in Nat /\ control[d].operation \in Nat
      BY DEF Inv, TypeOK, ControlType
    <3>2. ASSUME NEW d \in Controllers, d # c
          PROVE  RequestOK(control[d])' /\ Passed(control[d])'
      <4>1. RequestOK(control[d])
        BY DEF Inv, ControlOK
      <4> QED
        BY <2>1, <2>2, <3>1, <3>2, <4>1 DEF RequestOK, Passed
    <3>3. RequestOK(control[c])' /\ Passed(control[c])'
      <4>1. RequestOK(control[c])
        BY DEF Inv, ControlOK
      <4>2. control'[c].answer = "none"
        BY <2>0, <2>1, <2>2, <4>1 DEF RequestOK
      <4> HIDE DEF n, x
      <4>3. RequestOK(control[c])'
        BY <2>0, <2>1, <2>2, <4>2 DEF RequestOK
      <4>4. Passed(control[c])'
        BY <2>0, <2>1, <2>2 DEF Passed, Beyond
      <4> QED
        BY <4>3, <4>4
    <3> QED
      BY <3>2, <3>3 DEF ControlOK
  <2>6. TransitionsHappenOnce'
    <3>1. \A d \in Controllers : control[d].moved \in Nat /\ control[d].moved <= operations
      BY DEF Inv, TypeOK, ControlType, ControlOK, RequestOK
    <3>2. \A d \in Controllers : d # c => control[d].moved # n
      BY <2>1, <3>1
    <3>3. control'[c].moved = n
      BY <2>1, <2>2 DEF ControlType
    <3>4. \A d \in Controllers : d # c => control'[d] = control[d]
      BY <2>2
    <3> HIDE DEF n, x
    <3>5. SUFFICES ASSUME NEW d \in Controllers, NEW e \in Controllers, d # e,
                          control'[d].moved # 0,
                          control'[d].moved = control'[e].moved,
                          control'[d].action = control'[e].action
                   PROVE  FALSE
      BY Zenon DEF TransitionsHappenOnce
    <3>6. CASE d = c
      <4>1. e # c
        BY <3>5, <3>6
      <4>2. control[e].moved = n
        BY <3>3, <3>4, <3>5, <3>6, <4>1
      <4> QED
        BY <3>2, <4>1, <4>2
    <3>7. CASE e = c
      <4>1. d # c
        BY <3>5, <3>7
      <4>2. control[d].moved = n
        BY <3>3, <3>4, <3>5, <3>7, <4>1
      <4> QED
        BY <3>2, <4>1, <4>2
    <3>8. CASE d # c /\ e # c
      <4>1. control'[d] = control[d] /\ control'[e] = control[e]
        BY <3>4, <3>8
      <4> QED
        BY <3>5, <4>1, Zenon DEF Inv, TransitionsHappenOnce
    <3> QED
      BY <3>6, <3>7, <3>8
  <2>7. OldSessionsRevoked'
    BY <2>1 DEF OldSessionsRevoked, Blocked
  <2> QED
    BY <2>3, <2>4, <2>5, <2>6, <2>7 DEF Inv
<1> QED
  BY <1>1, <1>2

\* The row moves under the operation of the request; other requests keep what
\* they know, because the row they moved has moved further.
LEMMA MoveInv ==
  ASSUME Inv, NEW c \in Controllers, applyTransition(c),
         Admits(row, control[c].action, control[c].operation, control[c].now)
  PROVE  Inv'
<1> DEFINE a == control[c].action
           x == [control[c] EXCEPT !.step = "applied", !.moved = row.operation]
<1>1. /\ a \in Transitions
      /\ control[c].step = "authorized"
      /\ row.state = From[a]
      /\ row.operation = control[c].operation
      /\ row' = Moved(row, a)
      /\ control[c] \in ControlType
      /\ row \in RowType
      /\ operations \in Nat
      /\ UNCHANGED <<request, told, migration, operations, clock, running, stops>>
  BY MaintenanceAssumption DEF applyTransition, Admits, Inv, TypeOK, bounded
<1>2. row.operation # 0
  BY <1>1 DEF From, Transitions, Inv, RowOK
<1>3. /\ x \in ControlType
      /\ x.operation = row.operation /\ x.moved = row.operation
      /\ x.step = "applied" /\ x.action = a /\ x.answer = control[c].answer
  BY <1>1 DEF ControlType, RowType
<1>4. /\ control' \in [Controllers -> ControlType]
      /\ control'[c] = x
      /\ \A d \in Controllers : d # c => control'[d] = control[d]
  <2>1. control' = [control EXCEPT ![c] = x]
    BY DEF applyTransition, Applied, Inv, TypeOK
  <2> HIDE DEF x
  <2> QED
    BY <1>3, <2>1 DEF Inv, TypeOK
<1> HIDE DEF x
<1>5. row' \in RowType
  <2>1. CASE a \in {"enter", "start", "exit"}
    <3>1. 0 \in 0 .. MaxTime + Ttl
      BY MaintenanceAssumption
    <3> QED
      BY <1>1, <2>1, <3>1 DEF Moved, RowType, States
  <2>2. CASE a \in {"complete", "cancel"}
    <3>1. row' = ClosedRow
      BY <1>1, <2>2 DEF Moved
    <3> QED
      BY <3>1, MaintenanceAssumption DEF ClosedRow, RowType, States
  <2> QED
    BY <1>1, <2>1, <2>2 DEF Transitions
<1>6. RowOK'
  <2>1. CASE a \in {"enter", "start", "exit"}
    BY <1>1, <1>2, <2>1 DEF Moved, RowOK, RowType, Inv
  <2>2. CASE a \in {"complete", "cancel"}
    BY <1>1, <2>2 DEF Moved, ClosedRow, RowOK
  <2> QED
    BY <1>1, <2>1, <2>2 DEF Transitions
<1>7. TypeOK'
  <2>1. sessions' \subseteq sessions
    BY DEF applyTransition
  <2> QED
    BY <1>1, <1>4, <1>5, <2>1 DEF Inv, TypeOK
<1>8. ASSUME NEW d \in Controllers, Passed(control[d])
      PROVE  LET r == control[d]
             IN r.moved # 0 /\ row'.operation = r.moved => row'.state \in Beyond[r.action]
  <2>1. CASE a \in {"enter", "start", "exit"}
    <3>1. row'.operation = row.operation
      BY <1>1, <2>1 DEF Moved, RowType
    <3>2. row'.state = To[a]
      BY <1>1, <2>1 DEF Moved, RowType, To
    <3>3. control[d].action \in Transitions \cup {"prepare", "none"}
      BY DEF Inv, TypeOK, ControlType
    <3>4. control[d].moved # 0 => control[d].action # "none"
      BY DEF Inv, ControlOK, RequestOK
    <3> QED
      BY <1>1, <1>8, <2>1, <3>1, <3>2, <3>3, <3>4 DEF Passed, Beyond, From, To, Transitions
  <2>2. CASE a \in {"complete", "cancel"}
    BY <1>1, <2>2 DEF Moved, ClosedRow
  <2> QED
    BY <1>1, <2>1, <2>2 DEF Transitions
<1>9. ControlOK'
  <2>1. ASSUME NEW d \in Controllers, d # c
        PROVE  RequestOK(control[d])' /\ Passed(control[d])'
    <3>1. RequestOK(control[d]) /\ Passed(control[d])
      BY DEF Inv, ControlOK
    <3> QED
      BY <1>1, <1>4, <1>8, <2>1, <3>1 DEF RequestOK, Passed
  <2>2. RequestOK(control[c])'
    <3>1. RequestOK(control[c]) /\ row.operation <= operations
      BY DEF Inv, ControlOK, RowOK
    <3> QED
      BY <1>1, <1>2, <1>3, <1>4, <3>1 DEF RequestOK, Transitions
  <2>3. Passed(control[c])'
    <3>1. CASE a \in {"enter", "start", "exit"}
      BY <1>1, <1>3, <1>4, <3>1 DEF Passed, Moved, Beyond, RowType
    <3>2. CASE a \in {"complete", "cancel"}
      BY <1>1, <1>2, <1>3, <1>4, <3>2 DEF Passed, Moved, ClosedRow
    <3> QED
      BY <1>1, <3>1, <3>2 DEF Transitions
  <2> QED
    BY <2>1, <2>2, <2>3 DEF ControlOK
<1>10. TransitionsHappenOnce'
  <2>1. From[a] \notin Beyond[a]
    BY <1>1 DEF From, Beyond, Transitions
  <2>2. ASSUME NEW d \in Controllers, d # c, control[d].moved = row.operation,
               control[d].action = a
        PROVE  FALSE
    BY <1>1, <1>2, <2>1, <2>2 DEF Inv, ControlOK, Passed
  <2> QED
    BY <1>3, <1>4, <2>2 DEF Inv, TransitionsHappenOnce
<1>11. OldSessionsRevoked'
  <2>1. CASE a = "enter"
    <3>1. row'.state = "active" /\ row'.operation = control[c].operation
      BY <1>1, <2>1 DEF Moved, RowType
    <3>2. sessions' = {}
      BY <2>1, <3>1 DEF applyTransition
    <3> QED
      BY <3>2 DEF OldSessionsRevoked
  <2>2. CASE a \in {"start", "exit"}
    BY <1>1, <2>2 DEF applyTransition, Moved, RowType, From, Inv, OldSessionsRevoked, Blocked
  <2>3. CASE a \in {"complete", "cancel"}
    BY <1>1, <2>3 DEF Moved, ClosedRow, OldSessionsRevoked, Blocked
  <2> QED
    BY <1>1, <2>1, <2>2, <2>3 DEF Transitions
<1> QED
  BY <1>6, <1>7, <1>9, <1>10, <1>11 DEF Inv

\* A refused request leaves the row.
LEMMA RefusedInv ==
  ASSUME Inv, NEW c \in Controllers, applyTransition(c),
         ~Admits(row, control[c].action, control[c].operation, control[c].now)
  PROVE  Inv'
<1>1. /\ control' = [control EXCEPT ![c] = Answer(@, "refused")]
      /\ control[c].step = "authorized"
      /\ sessions' \subseteq sessions
      /\ UNCHANGED <<row, request, told, migration, operations, clock, running, stops>>
  BY DEF applyTransition, Applied, bounded
<1>2. /\ control' \in [Controllers -> ControlType]
      /\ RowOK' /\ ControlOK' /\ TransitionsHappenOnce'
  BY <1>1, AnswerInv
<1> QED
  BY <1>1, <1>2 DEF Inv, TypeOK, OldSessionsRevoked

\* The row is read again and the request answered.
LEMMA FinishInv ==
  ASSUME Inv, NEW c \in Controllers, finishTransition(c)
  PROVE  Inv'
<1>1. PICK a \in {"ok", "unknown"} : control' = [control EXCEPT ![c] = Answer(@, a)]
  BY DEF finishTransition
<1>2. /\ control[c].step = "applied"
      /\ UNCHANGED <<row, operations, sessions, request, migration, clock, running, stops>>
  BY DEF finishTransition, portal, bounded
<1>3. /\ control' \in [Controllers -> ControlType]
      /\ RowOK' /\ ControlOK' /\ TransitionsHappenOnce'
  BY <1>1, <1>2, AnswerInv
<1>4. told' \subseteq Operations
  <2>1. control[c].operation \in Operations
    BY <1>2, MaintenanceAssumption
    DEF Inv, TypeOK, ControlOK, RequestOK, ControlType, Operations
  <2> QED
    BY <2>1 DEF finishTransition, Inv, TypeOK
<1> QED
  BY <1>2, <1>3, <1>4 DEF Inv, TypeOK, OldSessionsRevoked

\* A batch that fails and an answer that is lost.
LEMMA UnansweredInv ==
  ASSUME Inv, NEW c \in Controllers, batchFails(c) \/ answerLost(c)
  PROVE  Inv'
<1>1. /\ control' = [control EXCEPT ![c] = Answer(@, "unknown")]
      /\ UNCHANGED <<row, portal, told, migration, bounded>>
  BY DEF batchFails, answerLost
<1>2. /\ control' \in [Controllers -> ControlType]
      /\ RowOK' /\ ControlOK' /\ TransitionsHappenOnce'
  BY <1>1, AnswerInv DEF bounded
<1> QED
  BY <1>1, <1>2 DEF portal, bounded, Inv, TypeOK, OldSessionsRevoked

-----------------------------------------------------------------------------
(* Ordinary requests *)

\* Only the sessions and requests of the users change.
LEMMA PortalInv ==
  ASSUME Inv, NEW u \in Users, gate(u) \/ userNext(u)
  PROVE  Inv'
<1>1. UNCHANGED <<row, control, told, migration, operations, clock, running, stops>>
  BY DEF gate, userNext, authenticateLocalUser, resolveLocalSession, endRequest, bounded
<1>2. request' \in [Users -> {"idle", "admitted", "working"}]
  BY DEF gate, userNext, authenticateLocalUser, resolveLocalSession, endRequest, Inv, TypeOK
<1>3. \/ sessions' \subseteq sessions
      \/ authenticateLocalUser(u)
  BY DEF gate, userNext, resolveLocalSession, endRequest
<1>4. sessions' \subseteq [user : Users, during : 0 .. MaxOperations]
  <2>1. (IF row.state \in Blocked THEN row.operation ELSE 0) \in 0 .. MaxOperations
    BY MaintenanceAssumption DEF Inv, TypeOK, RowType
  <2> QED
    BY <1>3, <2>1 DEF authenticateLocalUser, Inv, TypeOK
<1>5. OldSessionsRevoked'
  BY <1>1, <1>3 DEF authenticateLocalUser, Inv, OldSessionsRevoked
<1>6. RowOK' /\ ControlOK' /\ TransitionsHappenOnce'
  BY <1>1 DEF Inv, RowOK, ControlOK, RequestOK, Passed, TransitionsHappenOnce
<1> QED
  BY <1>1, <1>2, <1>4, <1>5, <1>6 DEF Inv, TypeOK

-----------------------------------------------------------------------------
(* The surroundings *)

\* A failing migration marks the operation that is in place.
LEMMA MarkFailedInv ==
  ASSUME Inv, markMaintenanceFailed
  PROVE  Inv'
<1>1. UNCHANGED <<sessions, request, control, told, operations, clock, running, stops>>
  BY DEF markMaintenanceFailed, portal, bounded
<1>2. CASE row' = row
  <2>1. TypeOK'
    BY <1>1, <1>2, MaintenanceAssumption DEF markMaintenanceFailed, Inv, TypeOK
  <2> QED
    BY <1>1, <1>2, <2>1, RestChanges
<1>3. CASE row.state \in {"active", "verifying", "exiting"}
  <2>1. /\ row' \in RowType
        /\ row'.state = "failed"
        /\ row'.operation = row.operation
    BY <1>3 DEF markMaintenanceFailed, Inv, TypeOK, RowType, States
  <2>2. TypeOK'
    BY <1>1, <2>1, MaintenanceAssumption DEF markMaintenanceFailed, Inv, TypeOK
  <2>3. RowOK'
    BY <1>1, <1>3, <2>1 DEF Inv, RowOK
  <2>4. ASSUME NEW c \in Controllers
        PROVE  RequestOK(control[c])' /\ Passed(control[c])'
    <3>1. /\ RequestOK(control[c])
          /\ Passed(control[c])
          /\ control[c].action \in Transitions \cup {"prepare", "none"}
      BY DEF Inv, ControlOK, TypeOK, ControlType
    <3> QED
      BY <1>1, <1>3, <2>1, <3>1 DEF RequestOK, Passed, Beyond, Transitions
  <2>5. TransitionsHappenOnce'
    BY <1>1 DEF Inv, TransitionsHappenOnce
  <2>6. OldSessionsRevoked'
    BY <1>1, <1>3, <2>1 DEF Inv, OldSessionsRevoked, Blocked
  <2> QED
    BY <2>2, <2>3, <2>4, <2>5, <2>6 DEF Inv, ControlOK
<1> QED
  BY <1>2, <1>3 DEF markMaintenanceFailed

\* The offline recovery resets the row while the portal is down.
LEMMA RecoverInv ==
  ASSUME Inv, recoverOffline
  PROVE  Inv'
<1>1. /\ row' \in RowType
      /\ row'.state = "inactive"
      /\ row'.operation = 0
      /\ sessions' = {}
      /\ UNCHANGED <<request, control, told, migration, operations, clock, running, stops>>
  <2>1. 0 \in 0 .. MaxTime + Ttl /\ 0 \in 0 .. MaxOperations
    BY MaintenanceAssumption
  <2> QED
    BY <2>1 DEF recoverOffline, Inv, TypeOK, RowType, States, bounded
<1>2. TypeOK'
  BY <1>1 DEF Inv, TypeOK
<1>3. RowOK'
  BY <1>1, MaintenanceAssumption DEF Inv, TypeOK, RowOK
<1>4. ControlOK' /\ TransitionsHappenOnce' /\ OldSessionsRevoked'
  BY <1>1 DEF Inv, ControlOK, RequestOK, Passed, TransitionsHappenOnce, OldSessionsRevoked
<1> QED
  BY <1>2, <1>3, <1>4 DEF Inv

\* A stop of the portal ends every request.
LEMMA StopInv ==
  ASSUME Inv, portalStops
  PROVE  Inv'
<1>1. UNCHANGED <<row, sessions, told, operations, clock>>
  BY DEF portalStops
<1>2. ASSUME NEW c \in Controllers
      PROVE  /\ control'[c] \in ControlType
             /\ control'[c].moved = control[c].moved
             /\ control'[c].action = control[c].action
             /\ RequestOK(control'[c])
  <2>1. CASE control[c].step = "idle"
    BY <2>1 DEF portalStops, Inv, TypeOK, ControlOK
  <2>2. CASE control[c].step # "idle"
    <3>1. control'[c] = Answer(control[c], "unknown")
      BY <2>2 DEF portalStops
    <3> QED
      BY <3>1, AnswerIsRight
  <2> QED
    BY <2>1, <2>2
<1>3. TypeOK'
  <2>1. control' \in [Controllers -> ControlType]
    BY <1>2 DEF portalStops
  <2>2. request' \in [Users -> {"idle", "admitted", "working"}]
    BY DEF portalStops
  <2>3. stops' \in 0 .. MaxStops /\ migration' \in 0 .. MaxOperations
    <3>1. stops \in 0 .. MaxStops /\ stops < MaxStops /\ stops' = stops + 1 /\ migration' = 0
      BY DEF portalStops, Inv, TypeOK
    <3> QED
      BY <3>1, MaintenanceAssumption
  <2>4. running' \in BOOLEAN
    BY DEF portalStops
  <2> QED
    BY <1>1, <2>1, <2>2, <2>3, <2>4 DEF Inv, TypeOK
<1>4. ControlOK'
  BY <1>1, <1>2 DEF Inv, ControlOK, RequestOK, Passed
<1> QED
  BY <1>1, <1>2, <1>3, <1>4 DEF Inv, RowOK, TransitionsHappenOnce, OldSessionsRevoked

\* The invariant holds at the start.
LEMMA InitInv == Init => Inv
<1> SUFFICES ASSUME Init PROVE Inv
  OBVIOUS
<1>1. TypeOK
  BY IdleType, MaintenanceAssumption
  DEF Init, TypeOK, ClosedRow, RowType, States
<1> QED
  BY <1>1 DEF Init, Inv, RowOK, ControlOK, RequestOK, Passed, TransitionsHappenOnce,
              OldSessionsRevoked, ClosedRow, Idle, Blocked

\* Every step preserves the invariant.
LEMMA NextInv == Inv /\ [Next]_vars => Inv'
<1> SUFFICES ASSUME Inv, [Next]_vars PROVE Inv'
  OBVIOUS
<1>1. ASSUME NEW c \in Controllers, ask(c)
      PROVE  Inv'
  BY <1>1, PrepareInv, AuthorizeInv DEF ask
<1>2. ASSUME NEW c \in Controllers, serve(c)
      PROVE  Inv'
  BY <1>2, ClaimInv, MoveInv, RefusedInv, FinishInv, UnansweredInv DEF serve
<1>3. ASSUME NEW u \in Users, gate(u) \/ userNext(u)
      PROVE  Inv'
  BY <1>3, PortalInv
<1>4. ASSUME NEW operation \in Operations, migrationBegins(operation)
      PROVE  Inv'
  <2>1. TypeOK'
    BY <1>4, MaintenanceAssumption
    DEF migrationBegins, portal, bounded, Inv, TypeOK, Operations
  <2> QED
    BY <1>4, <2>1, RestChanges DEF migrationBegins, portal, bounded
<1>5. CASE migrationEnds
  <2>1. TypeOK'
    BY <1>5, MaintenanceAssumption DEF migrationEnds, portal, bounded, Inv, TypeOK
  <2> QED
    BY <1>5, <2>1, RestChanges DEF migrationEnds, portal, bounded
<1>6. CASE markMaintenanceFailed
  BY <1>6, MarkFailedInv
<1>7. CASE recoverOffline
  BY <1>7, RecoverInv
<1>8. CASE portalStops
  BY <1>8, StopInv
<1>9. CASE portalStarts
  <2>1. TypeOK'
    BY <1>9 DEF portalStarts, portal, Inv, TypeOK
  <2> QED
    BY <1>9, <2>1, RestChanges DEF portalStarts, portal
<1>10. CASE tick
  <2>1. TypeOK'
    BY <1>10, MaintenanceAssumption DEF tick, portal, Inv, TypeOK
  <2> QED
    BY <1>10, <2>1, RestChanges DEF tick, portal
<1>11. CASE UNCHANGED vars
  <2>1. TypeOK'
    BY <1>11 DEF vars, portal, bounded, Inv, TypeOK
  <2> QED
    BY <1>11, <2>1, RestChanges DEF vars, portal, bounded
<1> QED
  BY <1>1, <1>2, <1>3, <1>4, <1>5, <1>6, <1>7, <1>8, <1>9, <1>10, <1>11 DEF Next

-----------------------------------------------------------------------------
(* Theorems *)

\* The invariant holds in every reachable state.
LEMMA InvAlways == Spec => []Inv
BY InitInv, NextInv, PTL DEF Spec

\* The types of the maintenance row, of the requests and of the rest are right.
THEOREM TypesAreRight == Spec => []TypeOK
BY InvAlways, PTL DEF Inv

\* A controller that is told `ok` has moved the row of its operation, and one
\* that is told `refused` has moved nothing, however requests overlap.
THEOREM AnswersAreTrue == Spec => []AnswersTellTruth
<1>1. Inv => AnswersTellTruth
  BY DEF Inv, ControlOK, RequestOK, AnswersTellTruth
<1> QED
  BY <1>1, InvAlways, PTL

\* Of any number of overlapping requests for one transition of an operation,
\* one changes the row.
THEOREM EachTransitionOnce == Spec => []TransitionsHappenOnce
BY InvAlways, PTL DEF Inv

\* No session from before the entry is left behind a closed gate.
THEOREM SessionsAreRevoked == Spec => []OldSessionsRevoked
BY InvAlways, PTL DEF Inv

\* After an entry the portal only reopens over an accepted verification, or by
\* the offline recovery while it is down.
THEOREM OnlyVerifiedReopens == Spec => NoSilentReopening
<1> DEFINE Reopens ==
      row.state \in Blocked /\ row'.state = "inactive" =>
        \/ row.state = "exiting" /\ row.verification = "complete"
        \/ ~running
<1>1. Inv /\ [Next]_vars => [Reopens]_vars
  <2> SUFFICES ASSUME Inv, Next, row.state \in Blocked, row'.state = "inactive"
               PROVE  (row.state = "exiting" /\ row.verification = "complete") \/ ~running
    OBVIOUS
  <2>1. row' # row
    BY DEF Blocked
  <2>2. ASSUME NEW c \in Controllers, applyTransition(c)
        PROVE  row.state = "exiting"
    <3>1. /\ row.state = From[control[c].action]
          /\ row' = Moved(row, control[c].action)
          /\ control[c].action \in Transitions
      BY <2>1, <2>2 DEF applyTransition, Admits
    <3>2. row \in RowType
      BY DEF Inv, TypeOK
    <3> QED
      BY <3>1, <3>2 DEF From, Moved, Transitions, Blocked, RowType
  <2>3. ASSUME NEW c \in Controllers, claimOperation(c)
        PROVE  FALSE
    BY <2>1, <2>3 DEF claimOperation, Blocked
  <2>4. ASSUME markMaintenanceFailed
        PROVE  FALSE
    <3>1. row \in RowType
      BY DEF Inv, TypeOK
    <3> QED
      BY <2>1, <2>4, <3>1 DEF markMaintenanceFailed, RowType
  <2>5. recoverOffline => ~running
    BY DEF recoverOffline
  <2>6. \/ \E c \in Controllers : applyTransition(c) \/ claimOperation(c)
        \/ markMaintenanceFailed
        \/ recoverOffline
    BY <2>1 DEF Next, ask, serve, userNext, prepareMaintenance, authorizeTransition,
       batchFails, finishTransition, answerLost, gate, authenticateLocalUser,
       resolveLocalSession, endRequest, migrationBegins, migrationEnds, portalStops,
       portalStarts, tick
  <2> QED
    BY <2>2, <2>3, <2>4, <2>5, <2>6 DEF Inv, RowOK
<1> QED
  BY <1>1, InvAlways, PTL DEF Spec, NoSilentReopening

-----------------------------------------------------------------------------
(* The maintenance window *)

\* While the portal is down no request and no migration is under way.
DownOK == ~running => migration = 0 /\ \A c \in Controllers : control[c].step = "idle"

\* What the portal's access is in each state of the row.
AccessOK ==
  /\ GateOpen => Access = "open"
  /\ row.state = "inactive" /\ ~GateOpen => Access = "recovered"
  /\ row.state = "entering" => Access = "closing"
  /\ row.state = "exiting" => Access = "accepted"
  /\ row.state \in {"active", "verifying", "failed"} => Access = "closed"

LEMMA AccessNow == RowOK => AccessOK
BY DEF RowOK, AccessOK, Access, GateOpen

LEMMA AccessNext == RowOK' => AccessOK'
BY DEF RowOK, AccessOK, Access, GateOpen

\* A closed row is one the gate opens for.
LEMMA ClosedRowIsOpen == row' = ClosedRow => GateOpen'
BY DEF ClosedRow, GateOpen, Readable

\* Nothing starts while the portal is down, and it leaves nothing when it stops.
LEMMA DownKeeps == Inv /\ DownOK /\ [Next]_vars => DownOK'
<1> SUFFICES ASSUME Inv, DownOK, [Next]_vars, ~running'
             PROVE  migration' = 0 /\ \A c \in Controllers : control'[c].step = "idle"
  BY DEF DownOK
<1>1. control \in [Controllers -> ControlType]
  BY DEF Inv, TypeOK
<1>2. CASE portalStops
  BY <1>1, <1>2 DEF portalStops, Answer, ControlType
<1>3. CASE ~portalStops
  <2>1. ~running
    BY <1>3 DEF Next, ask, serve, userNext, prepareMaintenance, authorizeTransition,
       claimOperation, applyTransition, batchFails, finishTransition, answerLost, gate,
       authenticateLocalUser, resolveLocalSession, endRequest, migrationBegins, migrationEnds,
       markMaintenanceFailed, recoverOffline, portalStarts, tick, vars, bounded
  <2>2. migration = 0 /\ \A c \in Controllers : control[c].step = "idle"
    BY <2>1 DEF DownOK
  <2>3. UNCHANGED <<migration, control>>
    BY <1>3, <2>1, <2>2 DEF Next, ask, serve, userNext, Free, prepareMaintenance,
       authorizeTransition, claimOperation, applyTransition, batchFails, finishTransition,
       answerLost, gate, authenticateLocalUser, resolveLocalSession, endRequest,
       migrationBegins, migrationEnds, markMaintenanceFailed, recoverOffline, portalStarts,
       tick, vars, bounded
  <2> QED
    BY <2>2, <2>3
<1> QED
  BY <1>2, <1>3

\* A prepare that claims the row closes the portal for new users.
LEMMA ClaimIsWindow ==
  ASSUME Inv, Inv', DownOK, NEW c \in Controllers, claimOperation(c)
  PROVE  Window!Prepare \/ UNCHANGED Window!vars
<1>1. running
  BY DEF DownOK, claimOperation
<1>2. UNCHANGED <<Inside, LoggedIn, running>>
  BY DEF claimOperation, portal, Inside, LoggedIn
<1>3. CASE row.state = "inactive"
  <2>1. row'.state = "entering"
    BY <1>3 DEF claimOperation
  <2>2. Access \in {"open", "recovered"} /\ Access' = "closing"
    BY <1>3, <2>1, AccessNow, AccessNext DEF Inv, AccessOK
  <2> QED
    BY <1>1, <1>2, <2>2 DEF Window!Prepare
<1>4. CASE row.state # "inactive"
  <2>1. row' = row
    BY <1>4 DEF claimOperation
  <2>2. Access' = Access
    BY <2>1 DEF Access, GateOpen, Readable
  <2> QED
    BY <1>2, <2>2 DEF Window!vars
<1> QED
  BY <1>3, <1>4

\* A transition withdraws, begins, accepts or ends the maintenance, or goes on
\* behind the closed gate; and a late enter revokes once more.
LEMMA TransitionIsWindow ==
  ASSUME Inv, Inv', DownOK, NEW c \in Controllers, applyTransition(c)
  PROVE  \/ Window!Withdraw \/ Window!Begin \/ Window!Accept \/ Window!Reopen
         \/ Window!Revoke \/ UNCHANGED Window!vars
<1> DEFINE action == control[c].action
<1>1. running /\ UNCHANGED <<Inside, running>>
  BY DEF DownOK, applyTransition, bounded, Inside
<1>2. action \in Transitions
  BY DEF applyTransition
<1>3. sessions' = sessions \/ sessions' = {}
  BY DEF applyTransition
<1>4. LoggedIn' = LoggedIn \/ LoggedIn' = {}
  BY <1>3 DEF LoggedIn
<1>5. row \in RowType /\ AccessOK /\ AccessOK'
  BY AccessNow, AccessNext DEF Inv, TypeOK
<1>6. CASE row' = row
  <2>1. Access' = Access
    BY <1>6 DEF Access, GateOpen, Readable
  <2> QED
    BY <1>1, <1>4, <2>1 DEF Window!Revoke, Window!vars
<1>7. CASE row' # row
  <2>1. row.state = From[action] /\ row.operation = control[c].operation /\ row' = Moved(row, action)
    BY <1>7 DEF applyTransition, Admits
  <2>2. CASE action = "enter"
    <3>0. row.state = "entering" /\ row' = [row EXCEPT !.state = "active", !.expires = 0]
      BY <2>1, <2>2 DEF From, Moved
    <3>1. row.state = "entering" /\ row'.state = "active" /\ row'.operation = row.operation
      BY <1>5, <3>0 DEF RowType
    <3>2. sessions' = {}
      BY <2>1, <2>2, <3>1 DEF applyTransition
    <3>3. LoggedIn' = {}
      BY <3>2 DEF LoggedIn
    <3> QED
      BY <1>1, <1>5, <3>1, <3>3 DEF AccessOK, Window!Begin
  <2>3. CASE action # "enter"
    <3>1. UNCHANGED LoggedIn
      BY <2>3 DEF applyTransition, LoggedIn
    <3>2. CASE action = "start"
      <4>1. row.state = "active" /\ row'.state = "verifying"
        BY <1>5, <2>1, <3>2 DEF From, Moved, RowType
      <4> QED
        BY <1>1, <1>5, <3>1, <4>1 DEF AccessOK, Window!vars
    <3>3. CASE action = "exit"
      <4>0. /\ row.state = "verifying"
            /\ row' = [row EXCEPT !.state = "exiting", !.verification = "complete"]
        BY <2>1, <3>3 DEF From, Moved
      <4>1. row.state = "verifying" /\ row'.state = "exiting"
        BY <1>5, <4>0 DEF RowType
      <4> QED
        BY <1>1, <1>5, <3>1, <4>1 DEF AccessOK, Window!Accept
    <3>4. CASE action = "complete"
      <4>1. row.state = "exiting" /\ row' = ClosedRow
        BY <2>1, <3>4 DEF From, Moved
      <4> QED
        BY <1>1, <1>5, <3>1, <4>1, ClosedRowIsOpen DEF AccessOK, Window!Reopen
    <3>5. CASE action = "cancel"
      <4>1. row.state = "entering" /\ row' = ClosedRow
        BY <2>1, <3>5 DEF From, Moved
      <4> QED
        BY <1>1, <1>5, <3>1, <4>1, ClosedRowIsOpen DEF AccessOK, Window!Withdraw
    <3> QED
      BY <1>2, <2>3, <3>2, <3>3, <3>4, <3>5 DEF Transitions
  <2> QED
    BY <2>2, <2>3
<1> QED
  BY <1>6, <1>7

\* An ordinary request is let in, logs in, or leaves.
LEMMA UserIsWindow ==
  ASSUME Inv, NEW u \in Users, gate(u) \/ userNext(u)
  PROVE  Window!LetIn(u) \/ Window!LogIn(u) \/ Window!Leave(u) \/ UNCHANGED Window!vars
<1>1. UNCHANGED <<row, running>> /\ UNCHANGED Access
  BY DEF gate, userNext, authenticateLocalUser, resolveLocalSession, endRequest, bounded,
     Access, GateOpen, Readable
<1>2. request \in [Users -> {"idle", "admitted", "working"}]
  BY DEF Inv, TypeOK
<1>3. CASE gate(u)
  <2>1. u \notin Inside /\ Inside' = Inside \cup {u} /\ UNCHANGED LoggedIn
    BY <1>2, <1>3 DEF gate, Inside, LoggedIn
  <2>2. running /\ Access = "open"
    BY <1>3, AccessNow DEF gate, Inv, AccessOK
  <2> QED
    BY <1>1, <2>1, <2>2 DEF Window!LetIn
<1>4. CASE authenticateLocalUser(u)
  <2>1. u \in Inside /\ Inside' = Inside \ {u}
    BY <1>2, <1>4 DEF authenticateLocalUser, Inside
  <2>2. PICK n : sessions' = sessions \cup {[user |-> u, during |-> n]}
    BY <1>4 DEF authenticateLocalUser
  <2>3. LoggedIn' = LoggedIn \cup {u}
    <3> DEFINE new == [user |-> u, during |-> n]
    <3>1. new.user = u
      OBVIOUS
    <3>2. sessions' = sessions \cup {new}
      BY <2>2
    <3> HIDE DEF new
    <3>3. {s.user : s \in sessions'} = {s.user : s \in sessions} \cup {u}
      BY <3>1, <3>2
    <3> QED
      BY <3>3 DEF LoggedIn
  <2> QED
    BY <1>1, <2>1, <2>3 DEF Window!LogIn
<1>5. CASE resolveLocalSession(u)
  <2>1. UNCHANGED <<Inside, LoggedIn>>
    BY <1>2, <1>5 DEF resolveLocalSession, Inside, LoggedIn
  <2> QED
    BY <1>1, <2>1 DEF Window!vars
<1>6. CASE endRequest(u)
  <2>1. u \in Inside /\ Inside' = Inside \ {u}
    BY <1>2, <1>6 DEF endRequest, Inside
  <2>2. sessions' = sessions \/ sessions' = {s \in sessions : s.user # u}
    BY <1>6 DEF endRequest
  <2>3. LoggedIn' = LoggedIn \/ LoggedIn' = LoggedIn \ {u}
    BY <2>2 DEF LoggedIn
  <2> QED
    BY <1>1, <2>1, <2>3 DEF Window!Leave
<1> QED
  BY <1>3, <1>4, <1>5, <1>6 DEF userNext

\* A failing migration only takes back that checks were accepted.
LEMMA MarkFailedIsWindow ==
  ASSUME Inv, Inv', DownOK, markMaintenanceFailed
  PROVE  Window!Reject \/ UNCHANGED Window!vars
<1>1. running /\ UNCHANGED <<Inside, LoggedIn, running>>
  BY DEF DownOK, markMaintenanceFailed, portal, bounded, Inside, LoggedIn
<1>2. row \in RowType /\ AccessOK /\ AccessOK'
  BY AccessNow, AccessNext DEF Inv, TypeOK
<1>3. CASE row.state \in {"active", "verifying", "exiting"}
  <2>1. row'.state = "failed"
    BY <1>2, <1>3 DEF markMaintenanceFailed, RowType
  <2> QED
    BY <1>1, <1>2, <1>3, <2>1 DEF AccessOK, Window!Reject, Window!vars
<1>4. CASE row.state \notin {"active", "verifying", "exiting"}
  <2>1. row' = row
    BY <1>4 DEF markMaintenanceFailed
  <2> QED
    BY <1>1, <2>1 DEF Access, GateOpen, Readable, Window!vars
<1> QED
  BY <1>3, <1>4

\* The offline recovery ends a maintenance from outside.
LEMMA RecoverIsWindow ==
  ASSUME Inv, Inv', recoverOffline
  PROVE  Window!Recover
<1>1. ~running /\ UNCHANGED <<Inside, running>> /\ sessions' = {}
  BY DEF recoverOffline, bounded, Inside
<1>2. LoggedIn' = {}
  BY <1>1 DEF LoggedIn
<1>3. row \in RowType /\ AccessOK /\ AccessOK'
  BY AccessNow, AccessNext DEF Inv, TypeOK
<1>4. row'.state = "inactive" /\ ~GateOpen'
  BY <1>3 DEF recoverOffline, RowType, GateOpen, Readable
<1>5. row.state \in {"active", "verifying", "failed"}
  BY DEF recoverOffline, Recoverable
<1> QED
  BY <1>1, <1>2, <1>3, <1>4, <1>5 DEF AccessOK, Window!Recover

\* The row, the sessions and the requests stay.
LEMMA RestIsStutter ==
  ASSUME UNCHANGED <<row, sessions, request, running>>
  PROVE  UNCHANGED Window!vars
BY DEF Window!vars, Access, GateOpen, Readable, Inside, LoggedIn

\* Every step of the maintenance mode is one of the window or leaves it alone.
LEMMA WindowStep ==
  Inv /\ Inv' /\ DownOK /\ [Next]_vars => [Window!Next]_(Window!vars)
<1> SUFFICES ASSUME Inv, Inv', DownOK, [Next]_vars
             PROVE  Window!Next \/ UNCHANGED Window!vars
  OBVIOUS
<1>1. \/ UNCHANGED <<row, sessions, request, running>>
      \/ \E c \in Controllers : claimOperation(c) \/ applyTransition(c)
      \/ \E u \in Users : gate(u) \/ userNext(u)
      \/ markMaintenanceFailed
      \/ recoverOffline
      \/ portalStops
      \/ portalStarts
  BY DEF Next, ask, serve, prepareMaintenance, authorizeTransition, batchFails,
     finishTransition, answerLost, migrationBegins, migrationEnds, tick, vars, portal, bounded
<1>2. CASE \E c \in Controllers : claimOperation(c) \/ applyTransition(c)
  BY <1>2, ClaimIsWindow, TransitionIsWindow DEF Window!Next
<1>3. CASE \E u \in Users : gate(u) \/ userNext(u)
  BY <1>3, UserIsWindow DEF Window!Next
<1>4. CASE markMaintenanceFailed \/ recoverOffline
  BY <1>4, MarkFailedIsWindow, RecoverIsWindow DEF Window!Next
<1>5. CASE portalStops
  <2>1. running /\ running' = FALSE /\ Inside' = {} /\ UNCHANGED <<LoggedIn, Access>>
    BY <1>5 DEF portalStops, Inside, LoggedIn, Access, GateOpen, Readable
  <2> QED
    BY <2>1 DEF Window!Stop, Window!Next
<1>6. CASE portalStarts
  <2>1. ~running /\ running' = TRUE /\ UNCHANGED <<Access, Inside, LoggedIn>>
    BY <1>6 DEF portalStarts, portal, Inside, LoggedIn, Access, GateOpen, Readable
  <2> QED
    BY <2>1 DEF Window!Start, Window!Next
<1> QED
  BY <1>1, <1>2, <1>3, <1>4, <1>5, <1>6, RestIsStutter

\* The portal starts open, with nobody let in and nobody logged in.
LEMMA WindowInit == Init => Window!Init /\ DownOK
<1> SUFFICES ASSUME Init
             PROVE  Window!Init /\ DownOK
  OBVIOUS
<1>1. Access = "open"
  BY DEF Init, Access, GateOpen, Readable, ClosedRow
<1>2. Inside = {} /\ LoggedIn = {}
  BY DEF Init, Inside, LoggedIn
<1> QED
  BY <1>1, <1>2 DEF Init, Window!Init, DownOK

-----------------------------------------------------------------------------
(* The maintenance as the migrations see it *)

\* The variable `closed` of SchemaMigration.
Closed ==
  CASE row.state \in {"inactive", "entering"} -> "inactive"
    [] row.state \in {"verifying", "exiting"} -> "leaving"
    [] OTHER -> row.state

\* What SchemaMigration lets it do: the moves of its MoveMaintenance, the mark of a
\* failing migration, and the recovery that comes with another database.
ClosedMoves ==
  \/ <<Closed, Closed'>> \in
       {<<"inactive", "active">>, <<"active", "leaving">>, <<"leaving", "inactive">>}
  \/ migration # 0 /\ Closed \in {"active", "leaving"} /\ Closed' = "failed"
  \/ ~running /\ Closed' = "inactive"

\* Of a transition only the action and the state it starts from matter.
LEMMA TransitionMovesClosed ==
  ASSUME Inv, NEW c \in Controllers, applyTransition(c)
  PROVE  Closed' = Closed \/ ClosedMoves
<1> DEFINE action == control[c].action
<1>1. action \in Transitions /\ row \in RowType
  BY DEF applyTransition, Inv, TypeOK
<1>2. CASE row' = row
  BY <1>2 DEF Closed
<1>3. CASE row' # row
  <2>1. row.state = From[action] /\ row' = Moved(row, action)
    BY <1>3 DEF applyTransition, Admits
  <2>2. CASE action = "enter"
    <3>1. row.state = "entering" /\ row' = [row EXCEPT !.state = "active", !.expires = 0]
      BY <2>1, <2>2 DEF From, Moved
    <3>2. row'.state = "active"
      BY <1>1, <3>1 DEF RowType
    <3> QED
      BY <3>1, <3>2 DEF Closed, ClosedMoves
  <2>3. CASE action = "start"
    <3>1. row.state = "active" /\ row' = [row EXCEPT !.state = "verifying"]
      BY <2>1, <2>3 DEF From, Moved
    <3>2. row'.state = "verifying"
      BY <1>1, <3>1 DEF RowType
    <3> QED
      BY <3>1, <3>2 DEF Closed, ClosedMoves
  <2>4. CASE action = "exit"
    <3>1. /\ row.state = "verifying"
          /\ row' = [row EXCEPT !.state = "exiting", !.verification = "complete"]
      BY <2>1, <2>4 DEF From, Moved
    <3>2. row'.state = "exiting"
      BY <1>1, <3>1 DEF RowType
    <3> QED
      BY <3>1, <3>2 DEF Closed
  <2>5. CASE action \in {"complete", "cancel"}
    <3>1. row.state \in {"exiting", "entering"} /\ row'.state = "inactive"
      BY <2>1, <2>5 DEF From, Moved, ClosedRow
    <3> QED
      BY <3>1 DEF Closed, ClosedMoves
  <2> QED
    BY <1>1, <2>2, <2>3, <2>4, <2>5 DEF Transitions
<1> QED
  BY <1>2, <1>3

\* Every other step keeps the state, is a prepare, a mark or a recovery.
LEMMA StepMovesClosed == Inv /\ [Next]_vars => Closed' = Closed \/ ClosedMoves
<1> SUFFICES ASSUME Inv, [Next]_vars
             PROVE  Closed' = Closed \/ ClosedMoves
  OBVIOUS
<1>1. row \in RowType
  BY DEF Inv, TypeOK
<1>2. ASSUME NEW c \in Controllers, claimOperation(c)
      PROVE  Closed' = Closed
  BY <1>2 DEF claimOperation, Closed
<1>3. CASE markMaintenanceFailed
  <2>1. CASE row.state \in {"active", "verifying", "exiting"}
    <3>1. row'.state = "failed"
      BY <1>1, <1>3, <2>1 DEF markMaintenanceFailed, RowType
    <3> QED
      BY <1>3, <2>1, <3>1 DEF markMaintenanceFailed, Closed, ClosedMoves
  <2>2. CASE row.state \notin {"active", "verifying", "exiting"}
    BY <1>3, <2>2 DEF markMaintenanceFailed, Closed
  <2> QED
    BY <2>1, <2>2
<1>4. CASE recoverOffline
  <2>1. ~running /\ row'.state = "inactive"
    BY <1>1, <1>4 DEF recoverOffline, RowType
  <2> QED
    BY <2>1 DEF Closed, ClosedMoves
<1>5. \/ row' = row
      \/ \E c \in Controllers : claimOperation(c) \/ applyTransition(c)
      \/ markMaintenanceFailed
      \/ recoverOffline
  BY DEF Next, ask, serve, userNext, prepareMaintenance, authorizeTransition,
     batchFails, finishTransition, answerLost, gate, authenticateLocalUser,
     resolveLocalSession, endRequest, migrationBegins, migrationEnds, portalStops,
     portalStarts, tick, vars
<1> QED
  BY <1>2, <1>3, <1>4, <1>5, TransitionMovesClosed DEF Closed

(***************************************************************************)
(* The maintenance mode with the replacement and the verifier.             *)
(***************************************************************************)

\* The maintenance of the receipt has ended and cannot come back.
Ended == row.operation # bound

Finishing == {"finalStatus", "login", "audit", "logout", "logoutAfterFailure", "recordVerified"}

\* What verify knows at each of its steps.
VerifierOK ==
  /\ bound <= operations
  /\ receipt # "none" => bound # 0
  /\ verifier.step # "none" => receipt # "none"
  /\ verifier.step \in {"start", "exit", "complete"} /\ verifier.waiting =>
       \/ control[Cli].action = "none"
       \/ control[Cli].action = verifier.step /\ control[Cli].operation = bound
  /\ verifier.step \in Finishing => Ended
  /\ receipt = "verified" => Ended

OnlineInv == Inv /\ OnlineTypeOK /\ VerifierOK

-----------------------------------------------------------------------------

\* The invariant of the maintenance mode survives when sessions are taken away.
LEMMA SessionsTaken ==
  ASSUME Inv, sessions' \subseteq sessions,
         UNCHANGED <<row, request, control, told, migration, bounded>>
  PROVE  Inv'
BY DEF bounded, Inv, TypeOK, RowOK, ControlOK, RequestOK, Passed, TransitionsHappenOnce,
       OldSessionsRevoked

\* The portal's own steps do not bring an ended maintenance back, and keep what
\* the request of verify is about.
LEMMA PortalKeeps ==
  ASSUME Inv, bound \in 0 .. MaxOperations, bound <= operations, Next
  PROVE  /\ operations <= operations'
         /\ Ended /\ bound # 0 => row'.operation # bound
<1>1. /\ operations \in Nat
      /\ bound \in Nat
      /\ row \in RowType
  BY MaintenanceAssumption DEF Inv, TypeOK
<1>2. ASSUME NEW c \in Controllers, claimOperation(c)
      PROVE  /\ operations <= operations'
             /\ Ended /\ bound # 0 => row'.operation # bound
  <2>1. CASE row.state = "inactive"
    BY <1>1, <1>2, <2>1 DEF claimOperation
  <2>2. CASE row.state # "inactive"
    BY <1>1, <1>2, <2>2 DEF claimOperation, Ended
  <2> QED
    BY <2>1, <2>2
<1>3. ASSUME NEW c \in Controllers, applyTransition(c)
      PROVE  /\ operations <= operations'
             /\ Ended /\ bound # 0 => row'.operation # bound
  <2>1. row' = row \/ row' = Moved(row, control[c].action)
    BY <1>3 DEF applyTransition
  <2>2. row'.operation \in {row.operation, 0}
    <3>1. control[c].action \in Transitions
      BY <1>3 DEF applyTransition
    <3>2. CASE control[c].action \in {"enter", "start", "exit"}
      BY <1>1, <2>1, <3>2 DEF Moved, RowType
    <3>3. CASE control[c].action \in {"complete", "cancel"}
      BY <1>1, <2>1, <3>3 DEF Moved, ClosedRow
    <3> QED
      BY <3>1, <3>2, <3>3 DEF Transitions
  <2> QED
    BY <1>1, <1>3, <2>2 DEF applyTransition, bounded, Ended
<1>4. CASE markMaintenanceFailed \/ recoverOffline
  <2>1. row'.operation \in {row.operation, 0}
    BY <1>1, <1>4 DEF markMaintenanceFailed, recoverOffline, RowType
  <2> QED
    BY <1>1, <1>4, <2>1 DEF markMaintenanceFailed, recoverOffline, bounded, Ended
<1>5. \/ UNCHANGED <<row, operations>>
      \/ \E c \in Controllers : claimOperation(c) \/ applyTransition(c)
      \/ markMaintenanceFailed
      \/ recoverOffline
  BY DEF Next, ask, serve, userNext, prepareMaintenance, authorizeTransition,
     batchFails, finishTransition, answerLost, gate, authenticateLocalUser,
     resolveLocalSession, endRequest, migrationBegins, migrationEnds, portalStops,
     portalStarts, tick, bounded
<1> QED
  BY <1>1, <1>2, <1>3, <1>4, <1>5 DEF Ended

\* What the request of a controller is about changes only when it asks anew,
\* or when its prepare is carried out.
LEMMA RequestKept ==
  ASSUME Inv, NEW c \in Controllers, control[c].action # "prepare",
         \/ \E d \in Controllers \ {c} : ask(d)
         \/ \E d \in Controllers : serve(d)
         \/ portalStops
         \/ UNCHANGED control
  PROVE  control'[c].action = control[c].action /\ control'[c].operation = control[c].operation
<1>1. control[c] \in ControlType /\ control \in [Controllers -> ControlType]
  BY DEF Inv, TypeOK
<1>2. ASSUME NEW d \in Controllers, d # c, ask(d)
      PROVE  control'[c] = control[c]
  BY <1>1, <1>2 DEF ask, prepareMaintenance, authorizeTransition
<1>3. ASSUME NEW d \in Controllers, d # c, serve(d)
      PROVE  control'[c] = control[c]
  BY <1>1, <1>3 DEF serve, claimOperation, applyTransition, Applied, batchFails,
     finishTransition, answerLost
<1>4. ASSUME serve(c)
      PROVE  /\ control'[c].action = control[c].action
             /\ control'[c].operation = control[c].operation
  <2>1. ~claimOperation(c)
    BY DEF claimOperation
  <2>2. ASSUME NEW a, control' = [control EXCEPT ![c] = Answer(@, a)]
        PROVE  /\ control'[c].action = control[c].action
               /\ control'[c].operation = control[c].operation
    BY <1>1, <2>2 DEF Answer, ControlType
  <2>3. CASE applyTransition(c)
    <3>1. CASE control' = [control EXCEPT ![c] = [@ EXCEPT !.step = "applied", !.moved = row.operation]]
      BY <1>1, <3>1 DEF ControlType
    <3> QED
      BY <2>2, <2>3, <3>1 DEF applyTransition, Applied
  <2>4. CASE batchFails(c) \/ answerLost(c)
    BY <2>2, <2>4 DEF batchFails, answerLost
  <2>5. CASE finishTransition(c)
    <3>1. \E a : control' = [control EXCEPT ![c] = Answer(@, a)]
      BY <2>5 DEF finishTransition
    <3> QED
      BY <2>2, <3>1
  <2> QED
    BY <1>4, <2>1, <2>3, <2>4, <2>5 DEF serve
<1>5. CASE portalStops
  BY <1>1, <1>5 DEF portalStops, Answer, ControlType
<1> QED
  BY <1>2, <1>3, <1>4, <1>5

-----------------------------------------------------------------------------
(* The steps *)

\* The portal, its other callers and the recovery command.
LEMMA PortalStep ==
  ASSUME OnlineInv, portalNext
  PROVE  OnlineInv'
<1>1. Next /\ UNCHANGED verification
  BY VerifierAssumption DEF portalNext, maintenanceRecover, Next
<1>2. Inv'
  BY <1>1, NextInv DEF OnlineInv
<1>3. OnlineTypeOK'
  BY <1>1, <1>2 DEF OnlineInv, OnlineTypeOK, verification, Inv
<1>4. /\ operations <= operations'
      /\ Ended /\ bound # 0 => row'.operation # bound
  BY <1>1, PortalKeeps DEF OnlineInv, OnlineTypeOK, VerifierOK
<1>5. ASSUME verifier.step \in {"start", "exit", "complete"}, verifier.waiting
      PROVE  \/ control'[Cli].action = "none"
             \/ control'[Cli].action = verifier.step /\ control'[Cli].operation = bound
  <2>1. \/ control[Cli].action = "none"
        \/ control[Cli].action = verifier.step /\ control[Cli].operation = bound
    BY <1>5 DEF OnlineInv, VerifierOK
  <2>2. \/ \E d \in Controllers \ {Cli} : ask(d)
        \/ \E d \in Controllers : serve(d)
        \/ portalStops
        \/ UNCHANGED control
    BY DEF portalNext, maintenanceRecover, gate, userNext, authenticateLocalUser,
       resolveLocalSession, endRequest, migrationBegins, migrationEnds,
       markMaintenanceFailed, recoverOffline, portalStarts, tick
  <2>3. control[Cli].action # "prepare"
    BY <1>5, <2>1
  <2> QED
    BY <2>1, <2>2, <2>3, RequestKept, VerifierAssumption DEF OnlineInv
<1>6. bound <= operations'
  BY <1>2, <1>4, MaintenanceAssumption DEF OnlineInv, OnlineTypeOK, VerifierOK, Inv, TypeOK
<1>7. VerifierOK'
  BY <1>1, <1>4, <1>5, <1>6 DEF OnlineInv, VerifierOK, verification, Ended, Finishing
<1> QED
  BY <1>2, <1>3, <1>7 DEF OnlineInv

\* A step of verify that leaves the portal alone.
LEMMA QuietStep ==
  ASSUME OnlineInv, UNCHANGED <<vars, bound>>,
         verifier' \in [step : {"none", "status", "smoke", "smokeSessions", "start", "exit",
                               "complete", "finalStatus", "login", "audit", "logout",
                               "logoutAfterFailure", "recordVerified", "recordFailure"},
                       waiting : BOOLEAN, first : States, completed : BOOLEAN],
         receipt' \in {"none", "swapped", "verified", "failed", "post_complete_failed"},
         verifier'.step # "none" \/ receipt' # receipt => bound # 0 /\ receipt' # "none",
         verifier'.step \in {"start", "exit", "complete"} => ~verifier'.waiting,
         verifier'.step \in Finishing \/ receipt' = "verified" => Ended
  PROVE  OnlineInv'
<1>1. Inv'
  <2>1. TypeOK'
    BY DEF vars, portal, bounded, OnlineInv, Inv, TypeOK
  <2> QED
    BY <2>1, RestChanges DEF vars, portal, bounded, OnlineInv
<1>2. OnlineTypeOK'
  BY <1>1 DEF OnlineInv, OnlineTypeOK, Inv
<1>3. VerifierOK'
  BY DEF OnlineInv, VerifierOK, vars, bounded, Ended
<1> QED
  BY <1>1, <1>2, <1>3 DEF OnlineInv

\* The replacement of the database is a step in which the maintenance row stays.
LEMMA RestoreStep ==
  ASSUME OnlineInv, restore
  PROVE  OnlineInv'
<1>1. Inv'
  BY SessionsTaken DEF restore, OnlineInv
<1>2. OnlineTypeOK'
  BY <1>1 DEF restore, OnlineInv, OnlineTypeOK, Inv, TypeOK, RowType
<1>3. VerifierOK'
  <2>1. row.operation <= operations /\ row.operation # 0
    BY DEF restore, Recoverable, OnlineInv, Inv, RowOK
  <2>2. verifier.step = "none"
    BY DEF restore, OnlineInv, VerifierOK
  <2> QED
    BY <2>1, <2>2 DEF restore, bounded, VerifierOK, Finishing
<1> QED
  BY <1>1, <1>2, <1>3 DEF OnlineInv

\* The end of the test session.
LEMMA LogoutStep ==
  ASSUME OnlineInv, logout
  PROVE  OnlineInv'
<1>1. Inv'
  BY SessionsTaken DEF logout, OnlineInv
<1>2. OnlineTypeOK'
  BY <1>1 DEF logout, Continue, OnlineInv, OnlineTypeOK, Inv
<1>3. verifier'.step \in {"recordVerified", "recordFailure"}
  BY DEF logout, Continue, OnlineInv, OnlineTypeOK
<1>4. verifier.step \in Finishing
  BY DEF logout, At, Finishing
<1>5. VerifierOK'
  BY <1>3, <1>4 DEF logout, bounded, OnlineInv, VerifierOK, Ended, Finishing
<1> QED
  BY <1>1, <1>2, <1>5 DEF OnlineInv

\* A control request of the verifier.
LEMMA SendTransitionStep ==
  ASSUME OnlineInv, sendTransition
  PROVE  OnlineInv'
<1>1. /\ verifier.step \in Transitions
      /\ verifier.step \in {"start", "exit", "complete"}
      /\ verifier'.step = verifier.step
      /\ verifier' = [verifier EXCEPT !.waiting = TRUE]
      /\ authorizeTransition(Cli, verifier.step, bound)
      /\ UNCHANGED <<receipt, bound>>
  BY DEF sendTransition, Transitions, OnlineInv, OnlineTypeOK
<1>2. bound # 0 /\ bound \in Operations
  BY <1>1, MaintenanceAssumption DEF OnlineInv, OnlineTypeOK, VerifierOK, Operations
<1>3. Inv'
  BY <1>1, <1>2, AuthorizeInv, VerifierAssumption DEF OnlineInv
<1>4. OnlineTypeOK'
  BY <1>1, <1>3 DEF OnlineInv, OnlineTypeOK, Inv
<1>5. \/ control'[Cli].action = "none"
      \/ control'[Cli].action = verifier.step /\ control'[Cli].operation = bound
  BY <1>1, VerifierAssumption DEF authorizeTransition, Idle, OnlineInv, Inv, TypeOK
<1>6. VerifierOK'
  BY <1>1, <1>5
  DEF authorizeTransition, bounded, OnlineInv, VerifierOK, Ended, Finishing
<1> QED
  BY <1>3, <1>4, <1>6 DEF OnlineInv

\* The test login of the verifier.
LEMMA SendLoginStep ==
  ASSUME OnlineInv, sendLogin
  PROVE  OnlineInv'
<1>1. /\ verifier.step = "login"
      /\ verifier' = [verifier EXCEPT !.waiting = TRUE]
      /\ gate(Administrator)
      /\ UNCHANGED <<receipt, bound>>
  BY DEF sendLogin, At
<1>2. Inv'
  BY <1>1, PortalInv, VerifierAssumption DEF OnlineInv
<1>3. OnlineTypeOK'
  BY <1>1, <1>2 DEF OnlineInv, OnlineTypeOK, Inv
<1>4. verifier'.step = "login"
  BY <1>1 DEF OnlineInv, OnlineTypeOK
<1>5. VerifierOK'
  BY <1>1, <1>4 DEF gate, bounded, OnlineInv, VerifierOK, Ended, Finishing
<1> QED
  BY <1>2, <1>3, <1>5 DEF OnlineInv

\* A good answer to complete is about the row of the receipt's operation, which
\* the request has moved out of its last state.
LEMMA TransitionAnsweredStep ==
  ASSUME OnlineInv, transitionAnswered
  PROVE  OnlineInv'
<1>1. /\ verifier.step \in {"start", "exit", "complete"}
      /\ verifier.waiting
      /\ control[Cli].answer = "ok"
      /\ bound # 0 /\ receipt # "none"
      /\ UNCHANGED <<vars, receipt, bound>>
  BY DEF transitionAnswered, OnlineInv, VerifierOK
<1>2. RequestOK(control[Cli]) /\ Passed(control[Cli])
  BY VerifierAssumption DEF OnlineInv, Inv, ControlOK
<1>3. control[Cli].action = verifier.step /\ control[Cli].moved = bound
  BY <1>1, <1>2 DEF OnlineInv, VerifierOK, RequestOK
<1>4. /\ verifier'.step \in {"exit", "complete", "finalStatus"}
      /\ verifier'.step = "finalStatus" => verifier.step = "complete"
      /\ verifier'.waiting = FALSE
      /\ verifier'.first \in States
      /\ verifier'.completed \in BOOLEAN
  BY <1>1 DEF transitionAnswered, OnlineInv, OnlineTypeOK
<1>5. verifier'.step = "finalStatus" => Ended
  BY <1>1, <1>2, <1>3, <1>4 DEF Passed, Beyond, Ended
<1>6. receipt = "verified" => Ended
  BY DEF OnlineInv, VerifierOK
<1> QED
  BY <1>1, <1>4, <1>5, <1>6, QuietStep DEF Finishing, OnlineInv, OnlineTypeOK, transitionAnswered

\* The steps of verify that only change what it knows and the receipt.
LEMMA VerifierStep ==
  ASSUME OnlineInv,
         \/ verifyBegins
         \/ firstStatus
         \/ smokeReadsState
         \/ smokeCountsSessions
         \/ finalStatus
         \/ loginAnswered
         \/ readAudit
         \/ verificationFails
         \/ recordVerified
         \/ recordVerificationFailure
         \/ verifierCrashes
  PROVE  OnlineInv'
<1> USE DEF At, Continue, NoVerifier
<1>1. UNCHANGED <<vars, bound>>
  BY DEF verifyBegins, firstStatus, smokeReadsState, smokeCountsSessions, finalStatus,
     loginAnswered, readAudit, verificationFails, recordVerified,
     recordVerificationFailure, verifierCrashes
<1>2. verifier.step # "none" => bound # 0 /\ receipt # "none"
  BY DEF OnlineInv, VerifierOK
<1>3. verifier.step \in Finishing \/ receipt = "verified" => Ended
  BY DEF OnlineInv, VerifierOK
<1>4. /\ verifier.step \in {"none", "status", "smoke", "smokeSessions", "start", "exit",
           "complete", "finalStatus", "login", "audit", "logout", "logoutAfterFailure",
           "recordVerified", "recordFailure"}
      /\ verifier.waiting \in BOOLEAN /\ verifier.first \in States
      /\ verifier.completed \in BOOLEAN
      /\ verifier = [step |-> verifier.step, waiting |-> verifier.waiting,
                     first |-> verifier.first, completed |-> verifier.completed]
      /\ receipt \in {"none", "swapped", "verified", "failed", "post_complete_failed"}
  BY DEF OnlineInv, OnlineTypeOK
<1>5. CASE verifyBegins
  <2>1. bound # 0
    BY <1>5 DEF verifyBegins, OnlineInv, VerifierOK
  <2>2. verifier'.step = "status"
    BY <1>5 DEF verifyBegins
  <2> QED
    BY <1>1, <1>3, <1>4, <1>5, <2>1, <2>2, QuietStep DEF verifyBegins, Finishing, States
<1>6. CASE firstStatus
  BY <1>1, <1>2, <1>3, <1>4, <1>6, QuietStep DEF firstStatus, Finishing, States
<1>7. CASE smokeReadsState
  BY <1>1, <1>2, <1>3, <1>4, <1>7, QuietStep DEF smokeReadsState, Finishing
<1>8. CASE smokeCountsSessions
  <2>1. verifier'.step \in {"start", "exit"} /\ verifier'.waiting = FALSE
    BY <1>4, <1>8 DEF smokeCountsSessions
  <2> QED
    BY <1>1, <1>2, <1>3, <1>4, <1>8, <2>1, QuietStep DEF smokeCountsSessions, Finishing
<1>9. CASE finalStatus
  BY <1>1, <1>2, <1>3, <1>4, <1>9, QuietStep DEF finalStatus, Finishing
<1>10. CASE loginAnswered
  BY <1>1, <1>2, <1>3, <1>4, <1>10, QuietStep DEF loginAnswered, Finishing
<1>11. CASE readAudit
  <2>1. verifier.step \in Finishing /\ verifier'.step \in Finishing
    BY <1>4, <1>11 DEF readAudit, Finishing
  <2> QED
    BY <1>1, <1>2, <1>3, <1>4, <1>11, <2>1, QuietStep DEF readAudit, Finishing
<1>12. CASE verificationFails
  BY <1>1, <1>2, <1>3, <1>4, <1>12, QuietStep DEF verificationFails, Finishing
<1>13. CASE recordVerified
  <2>1. verifier.step \in Finishing /\ verifier.step # "none"
    BY <1>13 DEF recordVerified, Finishing
  <2>2. CASE verifier' = NoVerifier
    BY <1>1, <1>2, <1>3, <1>4, <1>13, <2>1, <2>2, QuietStep
    DEF recordVerified, Finishing, States
  <2>3. CASE verifier' = [verifier EXCEPT !.step = "recordFailure", !.waiting = FALSE]
    BY <1>1, <1>2, <1>3, <1>4, <1>13, <2>1, <2>3, QuietStep DEF recordVerified, Finishing
  <2> QED
    BY <1>13, <2>2, <2>3 DEF recordVerified
<1>14. CASE recordVerificationFailure
  BY <1>1, <1>2, <1>3, <1>4, <1>14, QuietStep
  DEF recordVerificationFailure, failurePhase, Finishing, States
<1>15. CASE verifierCrashes
  BY <1>1, <1>2, <1>3, <1>4, <1>15, QuietStep DEF verifierCrashes, Finishing, States
<1> QED
  BY <1>5, <1>6, <1>7, <1>8, <1>9, <1>10, <1>11, <1>12, <1>13, <1>14, <1>15

\* The invariant holds at the start.
LEMMA OnlineInitInv == OnlineInit => OnlineInv
BY InitInv, MaintenanceAssumption
DEF OnlineInit, Init, OnlineInv, OnlineTypeOK, VerifierOK, NoVerifier, Finishing, States,
    Inv

\* Every step preserves the invariant.
LEMMA OnlineNextInv == OnlineInv /\ [OnlineNext]_onlineVars => OnlineInv'
<1> SUFFICES ASSUME OnlineInv, [OnlineNext]_onlineVars PROVE OnlineInv'
  OBVIOUS
<1>1. CASE verifyNext
  BY <1>1, VerifierStep, SendTransitionStep, TransitionAnsweredStep, SendLoginStep, LogoutStep
  DEF verifyNext
<1>2. CASE UNCHANGED onlineVars
  <2>1. Inv'
    BY <1>2, NextInv DEF onlineVars, OnlineInv
  <2>2. OnlineTypeOK' /\ VerifierOK'
    BY <1>2, <2>1 DEF onlineVars, verification, vars, portal, bounded, OnlineInv,
       OnlineTypeOK, VerifierOK, Ended, Inv
  <2> QED
    BY <2>1, <2>2 DEF OnlineInv
<1> QED
  BY <1>1, <1>2, RestoreStep, PortalStep DEF OnlineNext

\* The invariant holds in every reachable state.
LEMMA OnlineInvAlways == OnlineSpec => []OnlineInv
BY OnlineInitInv, OnlineNextInv, PTL DEF OnlineSpec

-----------------------------------------------------------------------------
(* What the verifier finds, and what it leaves *)

LoggedOut ==
  /\ request[Administrator] = "idle"
  /\ \A s \in sessions : s.user # Administrator

\* A stopped portal works on nothing, and the maintenance of the receipt, which
\* was entered before the replacement, does not go back behind its entry.
QuietOK ==
  /\ ~running => \A u \in Users : request[u] = "idle"
  /\ receipt # "none" /\ ~Ended => row.state \in Blocked
  /\ RestoredIsQuiet

BeforeLogin == {"smoke", "smokeSessions", "start", "exit", "complete", "finalStatus"}

\* The administrator is logged in at most from the login of a run to its logout,
\* or after a run that failed in between, which no later run gets past its first
\* status answer.
LoginOK ==
  /\ \/ receipt \in {"none", "verified"}
     \/ ~Ended
     \/ verifier.step \in BeforeLogin \cup {"recordVerified"}
     \/ verifier.step = "login" /\ ~verifier.waiting
     => LoggedOut
  /\ verifier.step \in {"audit", "logout", "logoutAfterFailure"} =>
       request[Administrator] = "idle"
  /\ receipt = "verified" => verifier.step \in {"none", "recordFailure"}

QuietInv == QuietOK /\ LoginOK

\* The portal and its callers: who gets in, who logs in, and where the row goes.
LEMMA PortalLetsIn ==
  ASSUME OnlineInv, portalNext
  PROVE  /\ \A u \in Users : request[u] = "idle" =>
              \/ request'[u] = "idle"
              \/ running /\ running' /\ GateOpen /\ row' = row /\ u # Administrator
         /\ \A s \in sessions' : s \in sessions \/ request[s.user] # "idle"
         /\ running /\ ~running' => \A u \in Users : request'[u] = "idle"
         /\ row.state \in Blocked /\ row'.operation = row.operation => row'.state \in Blocked
<1>1. request \in [Users -> {"idle", "admitted", "working"}] /\ row \in RowType
  BY DEF OnlineInv, Inv, TypeOK
<1>2. row.state \in Blocked => row.operation # 0
  BY DEF OnlineInv, Inv, RowOK, Blocked
<1>3. CASE UNCHANGED <<row, sessions, request, running>>
  BY <1>3
<1>4. ASSUME NEW c \in Controllers, claimOperation(c) \/ applyTransition(c)
      PROVE  /\ UNCHANGED <<request, running>>
             /\ sessions' \subseteq sessions
             /\ row.state \in Blocked /\ row'.operation = row.operation => row'.state \in Blocked
  <2>1. CASE claimOperation(c)
    BY <2>1 DEF claimOperation, portal, Blocked
  <2>2. CASE applyTransition(c)
    <3>1. control[c].action \in Transitions /\ (row' = row \/ row' = Moved(row, control[c].action))
      BY <2>2 DEF applyTransition
    <3>2. CASE control[c].action \in {"enter", "start", "exit"}
      BY <1>1, <2>2, <3>1, <3>2 DEF applyTransition, Moved, RowType, Blocked, bounded
    <3>3. CASE control[c].action \in {"complete", "cancel"}
      BY <1>2, <2>2, <3>1, <3>3 DEF applyTransition, Moved, ClosedRow, bounded
    <3> QED
      BY <3>1, <3>2, <3>3 DEF Transitions
  <2> QED
    BY <1>4, <2>1, <2>2
<1>5. ASSUME NEW u \in Users, u # Administrator, gate(u)
      PROVE  /\ running /\ GateOpen
             /\ UNCHANGED <<row, sessions, running>>
             /\ \A v \in Users : v # u => request'[v] = request[v]
  BY <1>1, <1>5 DEF gate, bounded
<1>6. ASSUME NEW u \in Users, userNext(u)
      PROVE  /\ request[u] # "idle"
             /\ UNCHANGED <<row, running>>
             /\ \A v \in Users : v # u => request'[v] = request[v]
             /\ \A s \in sessions' : s \in sessions \/ s.user = u
  BY <1>1, <1>6 DEF userNext, authenticateLocalUser, resolveLocalSession, endRequest, bounded
<1>7. CASE markMaintenanceFailed \/ maintenanceRecover
  <2>1. UNCHANGED <<request, running>> /\ sessions' \subseteq sessions
    BY <1>7 DEF markMaintenanceFailed, maintenanceRecover, recoverOffline, portal, bounded
  <2>2. row.state \in Blocked /\ row'.operation = row.operation => row'.state \in Blocked
    BY <1>1, <1>2, <1>7 DEF markMaintenanceFailed, maintenanceRecover, recoverOffline,
       RowType, Blocked
  <2> QED
    BY <2>1, <2>2
<1>8. CASE portalStops
  BY <1>8 DEF portalStops
<1>9. \/ UNCHANGED <<row, sessions, request, running>>
      \/ \E c \in Controllers : claimOperation(c) \/ applyTransition(c)
      \/ \E u \in Users \ {Administrator} : gate(u)
      \/ \E u \in Users : userNext(u)
      \/ markMaintenanceFailed \/ maintenanceRecover
      \/ portalStops
      \/ portalStarts
  BY DEF portalNext, ask, serve, prepareMaintenance, authorizeTransition, batchFails,
     finishTransition, answerLost, migrationBegins, migrationEnds, tick, portal, bounded
<1>10. CASE portalStarts
  BY <1>10 DEF portalStarts, portal
<1>11. CASE \E c \in Controllers : claimOperation(c) \/ applyTransition(c)
  BY <1>4, <1>11
<1>12. CASE \E u \in Users \ {Administrator} : gate(u)
  BY <1>5, <1>12
<1>13. CASE \E u \in Users : userNext(u)
  BY <1>6, <1>13
<1> QED
  BY <1>3, <1>7, <1>8, <1>9, <1>10, <1>11, <1>12, <1>13

\* Behind the gate of the receipt's maintenance nobody gets in, and nobody but
\* the verifier logs the administrator in.
LEMMA PortalQuiet ==
  ASSUME OnlineInv, QuietInv, portalNext
  PROVE  QuietInv'
<1>1. UNCHANGED verification /\ OnlineInv'
  BY PortalStep DEF portalNext
<1>2. receipt # "none" /\ ~Ended' => ~Ended /\ row'.operation = row.operation
  <2>1. bound # 0 => (Ended => row'.operation # bound)
    BY <1>1, PortalKeeps, VerifierAssumption
    DEF OnlineInv, OnlineTypeOK, VerifierOK, portalNext, maintenanceRecover, Next
  <2> QED
    BY <1>1, <2>1 DEF OnlineInv, VerifierOK, Ended, verification
<1>3. /\ \A u \in Users : request[u] = "idle" =>
           \/ request'[u] = "idle"
           \/ running /\ running' /\ GateOpen /\ row' = row /\ u # Administrator
      /\ \A s \in sessions' : s \in sessions \/ request[s.user] # "idle"
      /\ running /\ ~running' => \A u \in Users : request'[u] = "idle"
      /\ row.state \in Blocked /\ row'.operation = row.operation => row'.state \in Blocked
  BY PortalLetsIn
<1>4. (~running)' => \A u \in Users : request'[u] = "idle"
  BY <1>3 DEF QuietInv, QuietOK
<1>5. receipt # "none" /\ ~Ended' => row.state \in Blocked /\ row'.state \in Blocked
  BY <1>2, <1>3 DEF QuietInv, QuietOK
<1>6. receipt # "none" /\ ~Ended' => sessions' = {} /\ \A u \in Users : request'[u] = "idle"
  <2> SUFFICES ASSUME receipt # "none", ~Ended'
               PROVE  sessions' = {} /\ \A u \in Users : request'[u] = "idle"
    OBVIOUS
  <2>1. sessions = {} /\ \A u \in Users : request[u] = "idle"
    BY <1>2, <1>5 DEF QuietInv, QuietOK, RestoredIsQuiet, Ended
  <2>2. ~GateOpen
    BY <1>5 DEF GateOpen, Blocked
  <2>3. \A s \in sessions' : s.user \in Users
    BY <1>1 DEF OnlineInv, Inv, TypeOK
  <2> QED
    BY <1>3, <2>1, <2>2, <2>3
<1>7. QuietOK'
  BY <1>1, <1>4, <1>5, <1>6 DEF QuietOK, RestoredIsQuiet, Ended, verification
<1>8. LoggedOut => LoggedOut'
  BY <1>3, VerifierAssumption DEF LoggedOut
<1>9. request[Administrator] = "idle" => request'[Administrator] = "idle"
  BY <1>3, VerifierAssumption
<1>10. LoginOK'
  BY <1>1, <1>2, <1>8, <1>9 DEF QuietInv, LoginOK, verification
<1> QED
  BY <1>7, <1>10 DEF QuietInv

\* A step of verify that leaves the portal alone.
LEMMA QuietKeeps ==
  ASSUME QuietInv, OnlineInv, OnlineInv', UNCHANGED <<vars, bound>>,
         receipt' # "none" => receipt # "none",
         \/ receipt' \in {"none", "verified"}
         \/ verifier'.step \in BeforeLogin \cup {"recordVerified"}
         \/ verifier'.step = "login" /\ ~verifier'.waiting
         => LoggedOut,
         verifier'.step \in {"audit", "logout", "logoutAfterFailure"} =>
           request[Administrator] = "idle",
         receipt' = "verified" => verifier'.step \in {"none", "recordFailure"}
  PROVE  QuietInv'
<1>1. UNCHANGED <<row, sessions, request, running>>
  BY DEF vars, portal, bounded
<1>2. QuietOK'
  BY <1>1 DEF QuietInv, QuietOK, RestoredIsQuiet, Ended
<1>3. LoggedOut' <=> LoggedOut
  BY <1>1 DEF LoggedOut
<1>4. Ended' <=> Ended
  BY <1>1 DEF Ended
<1>5. ~Ended => LoggedOut
  BY DEF QuietInv, LoginOK
<1>6. LoginOK'
  BY <1>1, <1>3, <1>4, <1>5 DEF LoginOK
<1> QED
  BY <1>2, <1>6 DEF QuietInv

\* The steps of verify that only change what it knows and the receipt.
LEMMA VerifierQuiet ==
  ASSUME OnlineInv, QuietInv, OnlineInv',
         \/ verifyBegins
         \/ firstStatus
         \/ smokeReadsState
         \/ smokeCountsSessions
         \/ transitionAnswered
         \/ finalStatus
         \/ loginAnswered
         \/ readAudit
         \/ verificationFails
         \/ recordVerified
         \/ recordVerificationFailure
         \/ verifierCrashes
  PROVE  QuietInv'
<1> USE DEF At, Continue, NoVerifier, BeforeLogin
<1>1. UNCHANGED <<vars, bound>>
  BY DEF verifyBegins, firstStatus, smokeReadsState, smokeCountsSessions, transitionAnswered,
     finalStatus, loginAnswered, readAudit, verificationFails, recordVerified,
     recordVerificationFailure, verifierCrashes
<1>2. /\ verifier = [step |-> verifier.step, waiting |-> verifier.waiting,
                     first |-> verifier.first, completed |-> verifier.completed]
      /\ verifier.step # "none" => receipt # "none"
  BY DEF OnlineInv, OnlineTypeOK, VerifierOK
<1>3. /\ \/ receipt \in {"none", "verified"}
         \/ ~Ended
         \/ verifier.step \in BeforeLogin \cup {"recordVerified"}
         \/ verifier.step = "login" /\ ~verifier.waiting
         => LoggedOut
      /\ verifier.step \in {"audit", "logout", "logoutAfterFailure"} =>
           request[Administrator] = "idle"
      /\ receipt = "verified" => verifier.step \in {"none", "recordFailure"}
  BY DEF QuietInv, LoginOK
<1>4. CASE verifyBegins
  BY <1>1, <1>3, <1>4, QuietKeeps DEF verifyBegins
<1>5. CASE firstStatus
  <2>1. LoggedOut
    BY <1>3, <1>5 DEF firstStatus, Ended
  <2> QED
    BY <1>1, <1>2, <1>3, <1>5, <2>1, QuietKeeps DEF firstStatus
<1>6. CASE smokeReadsState
  BY <1>1, <1>2, <1>3, <1>6, QuietKeeps DEF smokeReadsState
<1>7. CASE smokeCountsSessions
  <2>1. verifier'.step \in {"start", "exit"}
    BY <1>2, <1>7 DEF smokeCountsSessions
  <2> QED
    BY <1>1, <1>2, <1>3, <1>7, <2>1, QuietKeeps DEF smokeCountsSessions
<1>8. CASE transitionAnswered
  <2>1. verifier.step \in {"start", "exit", "complete"}
    BY <1>8 DEF transitionAnswered
  <2>2. verifier'.step \in {"exit", "complete", "finalStatus"}
    BY <1>2, <1>8 DEF transitionAnswered
  <2> QED
    BY <1>1, <1>3, <1>8, <2>1, <2>2, QuietKeeps DEF transitionAnswered
<1>9. CASE finalStatus
  BY <1>1, <1>2, <1>3, <1>9, QuietKeeps DEF finalStatus
<1>10. CASE loginAnswered
  BY <1>1, <1>2, <1>3, <1>10, QuietKeeps DEF loginAnswered
<1>11. CASE readAudit
  <2>1. verifier'.step \in {"logout", "logoutAfterFailure"}
    BY <1>2, <1>11 DEF readAudit
  <2> QED
    BY <1>1, <1>3, <1>11, <2>1, QuietKeeps DEF readAudit
<1>12. CASE verificationFails
  BY <1>1, <1>2, <1>3, <1>12, QuietKeeps DEF verificationFails
<1>13. CASE recordVerified
  <2>0. verifier.step = "recordVerified"
    BY <1>13 DEF recordVerified
  <2>1. LoggedOut /\ receipt # "none"
    BY <1>2, <1>3, <2>0
  <2>2. verifier'.step \in {"none", "recordFailure"}
    <3>1. CASE verifier' = NoVerifier
      BY <3>1
    <3>2. CASE verifier' = [verifier EXCEPT !.step = "recordFailure", !.waiting = FALSE]
      BY <1>2, <3>2
    <3> QED
      BY <1>13, <3>1, <3>2 DEF recordVerified
  <2> QED
    BY <1>1, <1>13, <2>1, <2>2, QuietKeeps DEF recordVerified
<1>14. CASE recordVerificationFailure
  BY <1>1, <1>2, <1>3, <1>14, QuietKeeps DEF recordVerificationFailure, failurePhase
<1>15. CASE verifierCrashes
  BY <1>1, <1>3, <1>15, QuietKeeps DEF verifierCrashes
<1> QED
  BY <1>4, <1>5, <1>6, <1>7, <1>8, <1>9, <1>10, <1>11, <1>12, <1>13, <1>14, <1>15

\* The replaced database has no sessions and the portal is down.
LEMMA RestoreQuiet ==
  ASSUME OnlineInv, QuietInv, restore
  PROVE  QuietInv'
<1>1. row.state \in Blocked /\ \A u \in Users : request[u] = "idle"
  BY DEF restore, Recoverable, Blocked, QuietInv, QuietOK
<1>2. verifier.step = "none"
  BY DEF restore, OnlineInv, VerifierOK
<1>3. /\ sessions' = {} /\ receipt' = "swapped"
      /\ UNCHANGED <<row, request, running, verifier>>
  BY DEF restore, bounded
<1>4. QuietOK'
  BY <1>1, <1>3 DEF QuietOK, RestoredIsQuiet
<1>5. LoggedOut'
  BY <1>1, <1>3, VerifierAssumption DEF LoggedOut
<1>6. LoginOK'
  BY <1>2, <1>3, <1>5 DEF LoginOK, BeforeLogin
<1> QED
  BY <1>4, <1>6 DEF QuietInv

\* A control request of the verifier.
LEMMA SendTransitionQuiet ==
  ASSUME OnlineInv, QuietInv, sendTransition
  PROVE  QuietInv'
<1>1. /\ verifier.step \in {"start", "exit", "complete"}
      /\ verifier'.step = verifier.step
      /\ UNCHANGED <<row, sessions, request, running, receipt, bound>>
  BY DEF sendTransition, authorizeTransition, portal, bounded, OnlineInv, OnlineTypeOK
<1>2. QuietOK'
  BY <1>1 DEF QuietInv, QuietOK, RestoredIsQuiet, Ended
<1>3. LoggedOut' /\ receipt # "verified"
  BY <1>1 DEF QuietInv, LoginOK, LoggedOut, BeforeLogin
<1>4. LoginOK'
  BY <1>1, <1>3 DEF LoginOK
<1> QED
  BY <1>2, <1>4 DEF QuietInv

\* The login is sent through the open gate: the maintenance has ended.
LEMMA SendLoginQuiet ==
  ASSUME OnlineInv, QuietInv, sendLogin
  PROVE  QuietInv'
<1>1. /\ verifier.step = "login" /\ verifier'.step = "login" /\ verifier'.waiting
      /\ running /\ running' /\ Ended /\ receipt # "none"
      /\ UNCHANGED <<row, sessions, receipt, bound>>
  BY DEF sendLogin, At, gate, bounded, OnlineInv, OnlineTypeOK, VerifierOK, Finishing
<1>2. receipt # "verified"
  BY <1>1 DEF QuietInv, LoginOK
<1>3. QuietOK'
  BY <1>1 DEF QuietOK, RestoredIsQuiet, Ended
<1>4. LoginOK'
  BY <1>1, <1>2 DEF LoginOK, BeforeLogin, Ended
<1> QED
  BY <1>3, <1>4 DEF QuietInv

\* The logout takes the sessions of the administrator, who has no request.
LEMMA LogoutQuiet ==
  ASSUME OnlineInv, QuietInv, logout
  PROVE  QuietInv'
<1>1. /\ verifier.step \in {"logout", "logoutAfterFailure"}
      /\ sessions' = {s \in sessions : s.user # Administrator}
      /\ UNCHANGED <<row, request, running, receipt, bound>>
  BY DEF logout, At, bounded
<1>2. verifier'.step \in {"recordVerified", "recordFailure"}
  BY DEF logout, Continue, OnlineInv, OnlineTypeOK
<1>3. QuietOK'
  BY <1>1 DEF QuietInv, QuietOK, RestoredIsQuiet, Ended
<1>4. LoggedOut' /\ receipt # "verified"
  BY <1>1 DEF QuietInv, LoginOK, LoggedOut
<1>5. LoginOK'
  BY <1>1, <1>2, <1>4 DEF LoginOK
<1> QED
  BY <1>3, <1>5 DEF QuietInv

\* Both invariants hold in every reachable state.
LEMMA QuietInvAlways == OnlineSpec => []QuietInv
<1>1. OnlineInit => QuietInv
  BY VerifierAssumption
  DEF OnlineInit, Init, NoVerifier, QuietInv, QuietOK, LoginOK, LoggedOut, RestoredIsQuiet,
      BeforeLogin
<1>2. OnlineInv /\ OnlineInv' /\ QuietInv /\ [OnlineNext]_onlineVars => QuietInv'
  <2> SUFFICES ASSUME OnlineInv, OnlineInv', QuietInv, [OnlineNext]_onlineVars
               PROVE  QuietInv'
    OBVIOUS
  <2>1. CASE verifyNext
    BY <2>1, VerifierQuiet, SendTransitionQuiet, SendLoginQuiet, LogoutQuiet DEF verifyNext
  <2>2. CASE UNCHANGED onlineVars
    BY <2>2 DEF onlineVars, verification, vars, portal, bounded, QuietInv, QuietOK, LoginOK,
       LoggedOut, RestoredIsQuiet, Ended
  <2> QED
    BY <2>1, <2>2, RestoreQuiet, PortalQuiet DEF OnlineNext
<1> QED
  BY <1>1, <1>2, OnlineInvAlways, PTL DEF OnlineSpec

-----------------------------------------------------------------------------
(* The window with the replacement and the verifier *)

\* The replacement and the verifier do to the portal what its callers may do,
\* or take sessions away.
LEMMA OnlineIsNext ==
  OnlineInv /\ [OnlineNext]_onlineVars =>
    \/ [Next]_vars
    \/ /\ sessions' \subseteq sessions
       /\ UNCHANGED <<row, request, control, migration, running>>
<1> SUFFICES ASSUME OnlineInv, [OnlineNext]_onlineVars
             PROVE  \/ [Next]_vars
                    \/ /\ sessions' \subseteq sessions
                       /\ UNCHANGED <<row, request, control, migration, running>>
  OBVIOUS
<1>1. portalNext => Next
  BY VerifierAssumption DEF portalNext, maintenanceRecover, Next
<1>2. sendTransition => Next
  <2>1. ASSUME sendTransition
        PROVE  /\ authorizeTransition(Cli, verifier.step, bound)
               /\ verifier.step \in Transitions /\ bound \in Operations
    <3>1. bound \in told
      BY <2>1 DEF sendTransition, authorizeTransition
    <3>2. told \subseteq Operations
      BY DEF OnlineInv, Inv, TypeOK
    <3> QED
      BY <2>1, <3>1, <3>2 DEF sendTransition, Transitions
  <2> QED
    BY <2>1, VerifierAssumption DEF Next, ask
<1>3. sendLogin => Next
  BY VerifierAssumption DEF sendLogin, Next
<1>4. restore \/ logout =>
        sessions' \subseteq sessions /\ UNCHANGED <<row, request, control, migration, running>>
  BY DEF restore, logout, bounded
<1>5. verifyNext => sendTransition \/ sendLogin \/ logout \/ UNCHANGED vars
  BY DEF verifyNext, verifyBegins, firstStatus, smokeReadsState, smokeCountsSessions,
     transitionAnswered, finalStatus, loginAnswered, readAudit, verificationFails,
     recordVerified, recordVerificationFailure, verifierCrashes
<1> QED
  BY <1>1, <1>2, <1>3, <1>4, <1>5 DEF OnlineNext, onlineVars

-----------------------------------------------------------------------------
(* The receipt as RecoverySwap sees it *)

\* A verify that has not written its verdict holds a receipt that says `swapped`.
HeldOK ==
  /\ verifier.step \notin {"none", "recordFailure"} => receipt = "swapped"
  /\ verifier.step = "recordFailure" => receipt \in {"swapped", "verified"}

\* The replacement, and what verifySucceeds, verifyFails and
\* recordVerificationFailure of RecoverySwap write when no other command runs.
ReceiptMoves ==
  <<receipt, receipt'>> \in
    {<<"none", "swapped">>, <<"swapped", "verified">>, <<"swapped", "failed">>,
     <<"verified", "failed">>}

LEMMA HeldStep ==
  OnlineInv /\ HeldOK /\ [OnlineNext]_onlineVars => HeldOK' /\ [ReceiptMoves]_receipt
<1> SUFFICES ASSUME OnlineInv, HeldOK, [OnlineNext]_onlineVars
             PROVE  HeldOK' /\ [ReceiptMoves]_receipt
  OBVIOUS
<1> USE DEF HeldOK, ReceiptMoves, At, Continue, NoVerifier
<1>1. verifier.step # "none" => receipt # "none"
  BY DEF OnlineInv, VerifierOK
<1>2. verifier = [step |-> verifier.step, waiting |-> verifier.waiting,
                  first |-> verifier.first, completed |-> verifier.completed]
  BY DEF OnlineInv, OnlineTypeOK
<1>3. CASE restore
  BY <1>1, <1>3 DEF restore
<1>4. CASE verifyBegins
  BY <1>4 DEF verifyBegins
<1>5. CASE recordVerified
  <2>1. receipt = "swapped" /\ receipt' = "verified"
    BY <1>5 DEF recordVerified
  <2>2. verifier'.step \in {"none", "recordFailure"}
    <3>1. CASE verifier' = NoVerifier
      BY <3>1
    <3>2. CASE verifier' = [verifier EXCEPT !.step = "recordFailure", !.waiting = FALSE]
      BY <1>2, <3>2
    <3> QED
      BY <1>5, <3>1, <3>2 DEF recordVerified
  <2> QED
    BY <2>1, <2>2
<1>6. CASE recordVerificationFailure
  <2>1. receipt \in {"swapped", "verified"} /\ receipt' \in {"failed", receipt}
    BY <1>6 DEF recordVerificationFailure, failurePhase
  <2>2. verifier'.step = "none"
    BY <1>6 DEF recordVerificationFailure
  <2> QED
    BY <2>1, <2>2
<1>7. CASE verificationFails
  <2>1. receipt = "swapped" /\ receipt' = receipt
    BY <1>7 DEF verificationFails
  <2>2. verifier'.step = "recordFailure"
    BY <1>2, <1>7 DEF verificationFails
  <2> QED
    BY <2>1, <2>2
<1>8. CASE verifierCrashes
  BY <1>8 DEF verifierCrashes
<1>9. CASE portalNext \/ UNCHANGED onlineVars
  BY <1>9 DEF portalNext, onlineVars, verification
<1>10. CASE \/ firstStatus
            \/ smokeReadsState
            \/ smokeCountsSessions
            \/ sendTransition
            \/ transitionAnswered
            \/ finalStatus
            \/ sendLogin
            \/ loginAnswered
            \/ readAudit
            \/ logout
  <2>1. UNCHANGED receipt /\ verifier.step \notin {"none", "recordFailure"}
    BY <1>10 DEF firstStatus, smokeReadsState, smokeCountsSessions, sendTransition,
       transitionAnswered, finalStatus, sendLogin, loginAnswered, readAudit, logout
  <2> QED
    BY <2>1
<1> QED
  BY <1>3, <1>4, <1>5, <1>6, <1>7, <1>8, <1>9, <1>10 DEF OnlineNext, verifyNext

-----------------------------------------------------------------------------
(* Theorems *)

\* The types of the verifier, its receipt and the portal behind it are right.
THEOREM OnlineTypesAreRight == OnlineSpec => []OnlineTypeOK
BY OnlineInvAlways, PTL DEF OnlineInv

\* Whatever answers are lost, whoever else uses the control endpoints and
\* however often the portal and verify stop: a receipt that says `verified` is
\* of a maintenance that has ended.
THEOREM VerifiedMeansReopened == OnlineSpec => []VerifiedIsReopened
<1>1. OnlineInv => VerifiedIsReopened
  BY DEF OnlineInv, VerifierOK, Ended, VerifiedIsReopened
<1> QED
  BY <1>1, OnlineInvAlways, PTL

\* The portal is as the verifier finds it: no session from before the entry is
\* left behind the closed gate, with the replaced database too.
THEOREM SessionsStayRevoked == OnlineSpec => []OldSessionsRevoked
<1>1. OnlineInv => OldSessionsRevoked
  BY DEF OnlineInv, Inv
<1> QED
  BY <1>1, OnlineInvAlways, PTL

\* From the replacement to the end of the maintenance nobody is logged in and no
\* request runs, with the portal restarted any number of times in between: what
\* verify checks is what was restored.
THEOREM VerifiedWhatWasRestored == OnlineSpec => []RestoredIsQuiet
<1>1. QuietInv => RestoredIsQuiet
  BY DEF QuietInv, QuietOK
<1> QED
  BY <1>1, QuietInvAlways, PTL

\* A receipt that says `verified` is of a run whose own login is over: the
\* administrator has neither a session nor a request that could still make one,
\* although earlier runs were given up or killed at any step.
THEOREM TheTestLoginIsOver == OnlineSpec => []VerifiedIsLoggedOut
<1>1. QuietInv => VerifiedIsLoggedOut
  BY DEF QuietInv, LoginOK, LoggedOut, VerifiedIsLoggedOut
<1> QED
  BY <1>1, QuietInvAlways, PTL

\* The maintenance mode keeps its promise to users and administrators: for any
\* number of overlapping, failing and lost control requests, failing migrations,
\* logins that are under way, expiries, stops and recoveries, and with the
\* replacement and its verifier at work as well, the row, the sessions and the
\* requests go through one maintenance window after another.
THEOREM MaintenanceKeepsTheWindow == Spec \/ OnlineSpec => KeepsTheWindow
<1>1. Spec => KeepsTheWindow
  BY WindowInit, WindowStep, DownKeeps, InvAlways, PTL DEF Spec, KeepsTheWindow, Window!Spec
<1>2. OnlineSpec => KeepsTheWindow
  <2>1. OnlineInit => Window!Init /\ DownOK
    BY WindowInit DEF OnlineInit
  <2>2. OnlineInv /\ OnlineInv' /\ DownOK /\ [OnlineNext]_onlineVars
          => DownOK' /\ [Window!Next]_(Window!vars)
    <3> SUFFICES ASSUME OnlineInv, OnlineInv', DownOK, [OnlineNext]_onlineVars
                 PROVE  DownOK' /\ [Window!Next]_(Window!vars)
      OBVIOUS
    <3>1. CASE [Next]_vars
      BY <3>1, DownKeeps, WindowStep DEF OnlineInv
    <3>2. CASE /\ sessions' \subseteq sessions
               /\ UNCHANGED <<row, request, control, migration, running>>
      <4>1. DownOK'
        BY <3>2 DEF DownOK
      <4>2. LoggedIn' \subseteq LoggedIn /\ UNCHANGED <<Access, Inside, running>>
        BY <3>2 DEF LoggedIn, Access, GateOpen, Readable, Inside
      <4> QED
        BY <4>1, <4>2 DEF Window!Revoke, Window!Next
    <3> QED
      BY <3>1, <3>2, OnlineIsNext
  <2> QED
    BY <2>1, <2>2, OnlineInvAlways, PTL DEF OnlineSpec, KeepsTheWindow, Window!Spec
<1> QED
  BY <1>1, <1>2

\* What SchemaMigration assumes of the maintenance is what the maintenance mode
\* does, with the replacement and its verifier too: whatever requests overlap,
\* `closed` moves from inactive to active, leaving and inactive again, is failed by
\* a migration under way, and ends otherwise only with the portal down.
THEOREM MaintenanceMovesAsAssumed == Spec \/ OnlineSpec => [][ClosedMoves]_Closed
<1>1. Inv /\ [Next]_vars => [ClosedMoves]_Closed
  BY StepMovesClosed
<1>2. Spec => [][ClosedMoves]_Closed
  BY <1>1, InvAlways, PTL DEF Spec
<1>3. OnlineSpec => [][ClosedMoves]_Closed
  <2>1. OnlineInv /\ [OnlineNext]_onlineVars => [ClosedMoves]_Closed
    <3>1. row' = row => Closed' = Closed
      BY DEF Closed
    <3> QED
      BY <1>1, <3>1, OnlineIsNext DEF OnlineInv
  <2> QED
    BY <2>1, OnlineInvAlways, PTL DEF OnlineSpec
<1> QED
  BY <1>2, <1>3

\* The receipt of OnlineVerification moves as RecoverySwap lets it: from the
\* replacement to one verdict of one verify, whose write may have been reported as
\* an error; however many of them are killed or fail, no later one writes over it.
THEOREM ReceiptMovesAsInSwap == OnlineSpec => [][ReceiptMoves]_receipt
<1>1. OnlineInit => HeldOK
  BY DEF OnlineInit, NoVerifier, HeldOK
<1> QED
  BY <1>1, HeldStep, OnlineInvAlways, PTL DEF OnlineSpec
=================================================================================
