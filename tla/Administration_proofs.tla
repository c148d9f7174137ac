----------------------------- MODULE Administration_proofs -----------------------------
(***************************************************************************)
(* Theorems about what administrators change: the accounts, with the login *)
(* and its limit (LocalAccess), and the settings (SettingsLifecycle), for  *)
(* any number of callers, users and drafts.                                *)
(***************************************************************************)
EXTENDS LocalAccess, SettingsLifecycle, TLAPS

(***************************************************************************)
(* The accounts. What a request has read is what is there, as long as no   *)
(* two changes overlap, and then the count before a write still holds when *)
(* it is written.                                                          *)
(***************************************************************************)

VisitorType ==
  [step : {"idle"} \cup LoginSteps \cup ChangeSteps, user : Users \cup {"client"},
   row : AccountRow, change : {"none", "promote", "demote", "disable", "enable"},
   now : 0 .. MaxTime]

\* An account that was never there has not been disabled, and nobody has logged
\* in to it.
KnownAccounts ==
  /\ \A u \in Users : account[u].state = "absent" => ~account[u].disabled
  /\ \A s \in sessions : account[s.user].state # "absent"
  /\ \A c \in Callers :
       /\ visitor[c].step = "insert" => visitor[c].row.state = "present"
       /\ visitor[c].step \in {"verify", "insert"} /\ visitor[c].row.state = "present"
            => account[visitor[c].user].state # "absent"

Another(u) == \E w \in Users \ {u} : ActiveAdmin(w)

\* What a change has read, and what was counted for it.
ChangeOK(c) ==
  LET v == visitor[c]
  IN /\ v.step \in HasRead => Present(v.user)
     /\ v.step \in {"countUpdate", "countDelete", "update", "revokeDelete"} =>
          v.row.admin = account[v.user].admin /\ v.row.disabled = account[v.user].disabled
     /\ \/ v.step \in {"revokeDelete", "clearDeleted", "drop"}
        \/ v.step = "update" /\ Loses(v)
        => (ActiveAdmin(v.user) => Another(v.user))

\* The failures of a subject that reached the limit: the request that counted
\* the last of them is about to block it.
Blocking(s) ==
  \E c \in Callers : \/ s = "client" /\ visitor[c].step = "blockClient"
                     \/ s = visitor[c].user /\ visitor[c].step = "blockUser"

LimitInv ==
  \A s \in Users \cup {"client"} :
    limit[s].failures >= LoginLimit =>
      limit[s].blocked > limit[s].updated \/ Blocking(s) \/ faults > 0

ChangeInv == overlapped \/ (LastAdminProtected /\ \A c \in Callers : ChangeOK(c))

AccessInv == AccessTypeOK /\ KnownAccounts /\ ChangeInv /\ ResetRevokes /\ LimitInv

---------------------------------------------------------------------------------
(* What the steps do to the process and to the request that takes them. *)

LEMMA AccessProcessMoves ==
  ASSUME ProcessTypeOK
  PROVE  /\ UNCHANGED process \/ Arrive \/ Fault \/ Die \/ Tick => ProcessTypeOK'
         /\ Fault => faults' = faults + 1 /\ faults' > 0 /\ clock' = clock
         /\ faults \in Nat /\ crashes \in Nat /\ requests \in Nat /\ clock \in Nat
BY ProcessAssumption DEF ProcessTypeOK, process, Arrive, Fault, Die, Tick

VisitorSteps == {"idle"} \cup LoginSteps \cup ChangeSteps

LEMMA NoVisitorIs ==
  /\ NoVisitor \in VisitorType /\ NoVisitor.step = "idle" /\ NoVisitor.user = "client"
  /\ Absent \in AccountRow /\ NoLimit.failures = 0
<1>1. 0 \in 0 .. MaxTime
  BY ProcessAssumption
<1>2. Absent \in AccountRow
  BY DEF Absent, AccountRow
<1> QED
  BY <1>1, <1>2 DEF NoVisitor, VisitorType, NoLimit

\* What the type invariant says of a request.
LEMMA VisitorIs ==
  ASSUME AccessTypeOK, NEW c \in Callers
  PROVE  /\ visitor \in [Callers -> VisitorType] /\ visitor[c] \in VisitorType
         /\ visitor[c].step \in VisitorSteps /\ visitor[c].user \in Users \cup {"client"}
         /\ visitor[c].row \in AccountRow /\ visitor[c].now \in 0 .. MaxTime
         /\ visitor[c].step # "idle" => visitor[c].user \in Users
<1>1. visitor \in [Callers -> VisitorType] /\ (visitor[c].step # "idle" => visitor[c].user \in Users)
  BY DEF AccessTypeOK, VisitorType
<1>2. visitor[c] \in VisitorType
  BY <1>1
<1> QED
  BY <1>1, <1>2 DEF VisitorType, VisitorSteps

\* The next step keeps what was read.
LEMMA ToIs ==
  ASSUME AccessTypeOK, NEW c \in Callers, NEW step \in VisitorSteps, To(c, step),
         visitor[c].step # "idle"
  PROVE  /\ visitor' \in [Callers -> VisitorType]
         /\ \A d \in Callers \ {c} : visitor'[d] = visitor[d]
         /\ visitor'[c].step = step
         /\ step # "idle" => /\ visitor'[c].user = visitor[c].user /\ visitor'[c].row = visitor[c].row
                             /\ visitor'[c].change = visitor[c].change
                             /\ visitor'[c].now = visitor[c].now
         /\ \A d \in Callers : visitor'[d].step # "idle" => visitor'[d].user \in Users
<1>1. CASE step = "idle"
  BY <1>1, NoVisitorIs, VisitorIs DEF To
<1>2. CASE step # "idle"
  <2> DEFINE v == [visitor[c] EXCEPT !.step = step]
  <2>1. v \in VisitorType
    BY VisitorIs DEF VisitorType, VisitorSteps
  <2>2. /\ v.step = step /\ v.user = visitor[c].user /\ v.row = visitor[c].row
        /\ v.change = visitor[c].change /\ v.now = visitor[c].now
    BY VisitorIs DEF VisitorType
  <2>3. visitor' = [visitor EXCEPT ![c] = v]
    BY <1>2 DEF To
  <2> HIDE DEF v
  <2> QED
    BY <1>2, <2>1, <2>2, <2>3, VisitorIs
<1> QED
  BY <1>1, <1>2

\* The next step keeps only whom the request is about.
LEMMA OnIs ==
  ASSUME AccessTypeOK, NEW c \in Callers, NEW step \in VisitorSteps, On(c, step),
         visitor[c].step # "idle"
  PROVE  /\ visitor' \in [Callers -> VisitorType]
         /\ \A d \in Callers \ {c} : visitor'[d] = visitor[d]
         /\ visitor'[c].step = step
         /\ step # "idle" => visitor'[c].user = visitor[c].user /\ visitor'[c].row = Absent
         /\ \A d \in Callers : visitor'[d].step # "idle" => visitor'[d].user \in Users
<1>1. CASE step = "idle"
  BY <1>1, NoVisitorIs, VisitorIs DEF On
<1>2. CASE step # "idle"
  <2> DEFINE v == [NoVisitor EXCEPT !.step = step, !.user = visitor[c].user]
  <2>1. visitor[c].user \in Users
    BY VisitorIs
  <2>2. v \in VisitorType
    BY <2>1, NoVisitorIs DEF VisitorType, VisitorSteps
  <2>3. v.step = step /\ v.user = visitor[c].user /\ v.row = Absent
    BY DEF NoVisitor
  <2>4. visitor' = [visitor EXCEPT ![c] = v]
    BY <1>2 DEF On
  <2> HIDE DEF v
  <2> QED
    BY <1>2, <2>1, <2>2, <2>3, <2>4, VisitorIs
<1> QED
  BY <1>1, <1>2

\* A failed login goes on to be counted, at the time it failed.
LEMMA FailIs ==
  ASSUME AccessTypeOK, NEW c \in Callers, Fail(c), visitor[c].step # "idle"
  PROVE  /\ visitor' \in [Callers -> VisitorType]
         /\ \A d \in Callers \ {c} : visitor'[d] = visitor[d]
         /\ visitor'[c].step = "failClient" /\ visitor'[c].user = visitor[c].user
         /\ \A d \in Callers : visitor'[d].step # "idle" => visitor'[d].user \in Users
<1> DEFINE v == [NoVisitor EXCEPT !.step = "failClient", !.user = visitor[c].user, !.now = clock]
<1>1. visitor[c].user \in Users /\ clock \in 0 .. MaxTime
  BY VisitorIs DEF AccessTypeOK, ProcessTypeOK
<1>2. v \in VisitorType
  BY <1>1, NoVisitorIs DEF VisitorType, LoginSteps
<1>3. v.step = "failClient" /\ v.user = visitor[c].user
  BY DEF NoVisitor
<1>4. visitor' = [visitor EXCEPT ![c] = v]
  BY DEF Fail
<1> HIDE DEF v
<1> QED
  BY <1>1, <1>2, <1>3, <1>4, VisitorIs

\* A request that is served has read nothing.
LEMMA ServeIs ==
  ASSUME AccessTypeOK, NEW c \in Callers, NEW u \in Users, NEW step \in VisitorSteps,
         NEW change \in {"none", "promote", "demote", "disable", "enable"}, Serve(c, u, step, change)
  PROVE  /\ visitor' \in [Callers -> VisitorType]
         /\ \A d \in Callers \ {c} : visitor'[d] = visitor[d]
         /\ visitor'[c].step = step /\ visitor'[c].user = u
         /\ \A d \in Callers : visitor'[d].step # "idle" => visitor'[d].user \in Users
<1> DEFINE t == IF step = "checkClient" THEN clock ELSE 0
           v == [NoVisitor EXCEPT !.step = step, !.user = u, !.change = change, !.now = t]
<1>1. t \in 0 .. MaxTime
  BY ProcessAssumption DEF AccessTypeOK, ProcessTypeOK
<1> HIDE DEF t
<1>2. v \in VisitorType
  BY <1>1, NoVisitorIs DEF VisitorType, VisitorSteps
<1>3. v.step = step /\ v.user = u
  BY DEF NoVisitor
<1>4. visitor' = [visitor EXCEPT ![c] = v]
  BY DEF Serve, t
<1> HIDE DEF v
<1> QED
  BY <1>2, <1>3, <1>4, VisitorIs

---------------------------------------------------------------------------------
(* What the parts of the invariant need of a step. *)

LEMMA AccessFacts ==
  ASSUME AccessTypeOK
  PROVE  /\ account \in [Users -> AccountRow] /\ faults \in Nat /\ clock \in 0 .. MaxTime
         /\ MaxTime \in Nat /\ ProcessTypeOK
         /\ \A u \in Users : /\ account[u].admin \in BOOLEAN /\ account[u].disabled \in BOOLEAN
                             /\ account[u].password \in Nat
                             /\ account[u].state \in {"absent", "present", "deleted"}
         /\ \A s \in sessions : s.user \in Users
<1>1. account \in [Users -> AccountRow]
  BY DEF AccessTypeOK
<1>2. \A u \in Users : account[u] \in AccountRow
  BY <1>1
<1> QED
  BY <1>1, <1>2, ProcessAssumption DEF AccessTypeOK, ProcessTypeOK, AccountRow

\* A step that leaves the accounts alone, and sends one request to a step that
\* it has read enough for.
LEMMA RequestKeepsChange ==
  ASSUME ChangeInv, NEW c \in Callers, UNCHANGED <<account, overlapped>>,
         \A d \in Callers \ {c} : visitor'[d] = visitor[d],
         overlapped \/ ChangeOK(c)'
  PROVE  ChangeInv'
<1>1. LastAdminProtected => LastAdminProtected'
  BY DEF LastAdminProtected, Present, ActiveAdmin
<1>2. \A d \in Callers \ {c} : ChangeOK(d) => ChangeOK(d)'
  BY DEF ChangeOK, Present, ActiveAdmin, Another, Loses, NextAdmin, NextDisabled
<1> QED
  BY <1>1, <1>2 DEF ChangeInv

LEMMA RequestKeepsKnown ==
  ASSUME KnownAccounts, NEW c \in Callers, UNCHANGED account, sessions' \subseteq sessions,
         \A d \in Callers \ {c} : visitor'[d] = visitor[d],
         visitor'[c].step = "insert" => visitor'[c].row.state = "present",
         visitor'[c].step \in {"verify", "insert"} /\ visitor'[c].row.state = "present"
           => account[visitor'[c].user].state # "absent"
  PROVE  KnownAccounts'
BY DEF KnownAccounts

LEMMA RequestKeepsLimit ==
  ASSUME LimitInv, NEW c \in Callers, UNCHANGED limit, faults \in Nat,
         faults' = faults \/ faults' = faults + 1,
         \A d \in Callers \ {c} : visitor'[d] = visitor[d],
         visitor[c].step \notin {"blockClient", "blockUser"} \/ faults' > 0
  PROVE  LimitInv'
<1>1. CASE faults' > 0
  BY <1>1 DEF LimitInv
<1>2. CASE ~(faults' > 0)
  <2>1. visitor[c].step \notin {"blockClient", "blockUser"} /\ ~(faults > 0)
    BY <1>2
  <2>2. \A s : Blocking(s) => Blocking(s)'
    BY <2>1 DEF Blocking
  <2> QED
    BY <2>1, <2>2 DEF LimitInv
<1> QED
  BY <1>1, <1>2

LEMMA RequestKeepsReset ==
  ASSUME ResetRevokes, NEW c \in Callers, UNCHANGED account, sessions' \subseteq sessions,
         faults \in Nat, faults' = faults \/ faults' = faults + 1,
         \A d \in Callers \ {c} : visitor'[d] = visitor[d],
         visitor[c].step # "revokeReset" \/ faults' > 0
  PROVE  ResetRevokes'
<1>1. CASE faults' > 0
  BY <1>1 DEF ResetRevokes
<1>2. CASE ~(faults' > 0)
  <2>1. visitor[c].step # "revokeReset" /\ ~(faults > 0)
    BY <1>2
  <2>2. \A s \in sessions' :
          \/ s.password = account'[s.user].password \/ ~Present(s.user)'
          \/ s.raced
          \/ \E d \in Callers : visitor'[d].step = "revokeReset" /\ visitor'[d].user = s.user
    BY <2>1 DEF ResetRevokes, Present
  <2> QED
    BY <2>2 DEF ResetRevokes
<1> QED
  BY <1>1, <1>2

\* The types, where only requests and sessions move.
LEMMA RequestKeepsTypes ==
  ASSUME AccessTypeOK, UNCHANGED <<account, limit, overlapped>>, sessions' \subseteq sessions,
         ProcessTypeOK', visitor' \in [Callers -> VisitorType],
         \A d \in Callers : visitor'[d].step # "idle" => visitor'[d].user \in Users
  PROVE  AccessTypeOK'
BY DEF AccessTypeOK, VisitorType

\* A request that only reads, or is refused, or throws.
LEMMA EditorKeeps ==
  ASSUME AccessInv, NEW c \in Callers, UNCHANGED <<account, sessions, limit, overlapped>>,
         ProcessTypeOK', faults' = faults \/ faults' = faults + 1,
         visitor' \in [Callers -> VisitorType],
         \A d \in Callers : visitor'[d].step # "idle" => visitor'[d].user \in Users,
         \A d \in Callers \ {c} : visitor'[d] = visitor[d],
         visitor[c].step \notin {"blockClient", "blockUser", "revokeReset"} \/ faults' > 0,
         visitor'[c].step = "insert" => visitor'[c].row.state = "present",
         visitor'[c].step \in {"verify", "insert"} /\ visitor'[c].row.state = "present"
           => account[visitor'[c].user].state # "absent",
         overlapped \/ ChangeOK(c)'
  PROVE  AccessInv'
<1>1. faults \in Nat /\ sessions' \subseteq sessions
  BY AccessFacts DEF AccessInv
<1>2. AccessTypeOK'
  BY RequestKeepsTypes, <1>1 DEF AccessInv
<1>3. KnownAccounts'
  BY RequestKeepsKnown, <1>1 DEF AccessInv
<1>4. ChangeInv'
  BY RequestKeepsChange DEF AccessInv
<1>5. ResetRevokes'
  BY RequestKeepsReset, <1>1 DEF AccessInv
<1>6. LimitInv'
  BY RequestKeepsLimit, <1>1 DEF AccessInv
<1> QED
  BY <1>2, <1>3, <1>4, <1>5, <1>6 DEF AccessInv

---------------------------------------------------------------------------------
(* The requests that only read. *)

\* At a step without a condition, a request may know what it likes.
FreeSteps == VisitorSteps \ (HasRead \cup {"verify", "insert"})

LEMMA FreeStepIsOK ==
  ASSUME NEW c \in Callers, visitor'[c].step \in FreeSteps
  PROVE  /\ ChangeOK(c)' /\ visitor'[c].step # "insert" /\ visitor'[c].step \notin {"verify", "insert"}
BY DEF ChangeOK, FreeSteps, HasRead

LEMMA ServeKeeps ==
  ASSUME AccessInv, NEW c \in Callers, NEW u \in Users,
         NEW step \in {"checkClient", "readUpdate", "readReset", "readDelete", "revokeUpdate"},
         NEW change \in {"none", "promote", "demote", "disable", "enable"},
         Serve(c, u, step, change)
  PROVE  AccessInv'
<1>1. /\ visitor[c].step = "idle" /\ UNCHANGED <<account, sessions, limit, overlapped>>
      /\ faults' = faults /\ ProcessTypeOK'
  BY AccessFacts, AccessProcessMoves DEF AccessInv, Serve, Arrive
<1>2. step \in VisitorSteps /\ step \in FreeSteps
  BY DEF VisitorSteps, FreeSteps, LoginSteps, ChangeSteps, HasRead
<1>3. /\ visitor' \in [Callers -> VisitorType] /\ \A d \in Callers \ {c} : visitor'[d] = visitor[d]
      /\ visitor'[c].step = step
      /\ \A d \in Callers : visitor'[d].step # "idle" => visitor'[d].user \in Users
  BY <1>2, ServeIs DEF AccessInv
<1>4. ChangeOK(c)' /\ visitor'[c].step \notin {"verify", "insert"}
  BY <1>2, <1>3, FreeStepIsOK
<1> QED
  BY <1>1, <1>3, <1>4, EditorKeeps

\* A step that needs nothing, reached with or without what was read.
LEMMA FreeStepKeeps ==
  ASSUME AccessInv, NEW c \in Callers, UNCHANGED <<account, sessions, limit, overlapped>>,
         ProcessTypeOK', faults' = faults \/ faults' = faults + 1,
         visitor[c].step # "idle",
         visitor[c].step \notin {"blockClient", "blockUser", "revokeReset"} \/ faults' > 0,
         NEW step \in FreeSteps, To(c, step) \/ On(c, step)
  PROVE  AccessInv'
<1>1. /\ visitor' \in [Callers -> VisitorType] /\ \A d \in Callers \ {c} : visitor'[d] = visitor[d]
      /\ visitor'[c].step = step
      /\ \A d \in Callers : visitor'[d].step # "idle" => visitor'[d].user \in Users
  BY ToIs, OnIs DEF AccessInv, FreeSteps
<1>2. ChangeOK(c)' /\ visitor'[c].step \notin {"verify", "insert"}
  BY <1>1, FreeStepIsOK
<1> QED
  BY <1>1, <1>2, EditorKeeps

LEMMA FailKeeps ==
  ASSUME AccessInv, NEW c \in Callers, UNCHANGED <<account, sessions, limit, overlapped>>,
         ProcessTypeOK', faults' = faults \/ faults' = faults + 1,
         visitor[c].step \in {"read", "verify", "insert", "succeed"}, Fail(c)
  PROVE  AccessInv'
<1>1. /\ visitor' \in [Callers -> VisitorType] /\ \A d \in Callers \ {c} : visitor'[d] = visitor[d]
      /\ visitor'[c].step = "failClient"
      /\ \A d \in Callers : visitor'[d].step # "idle" => visitor'[d].user \in Users
  BY FailIs DEF AccessInv
<1>2. ChangeOK(c)' /\ visitor'[c].step \notin {"verify", "insert"}
  BY <1>1, FreeStepIsOK DEF FreeSteps, VisitorSteps, LoginSteps, HasRead
<1> QED
  BY <1>1, <1>2, EditorKeeps

LEMMA ProcessStays ==
  ASSUME AccessInv, UNCHANGED process
  PROVE  ProcessTypeOK' /\ faults' = faults
BY AccessFacts DEF AccessInv, process, ProcessTypeOK

LEMMA CheckLimitKeeps ==
  ASSUME AccessInv, NEW c \in Callers, CheckLimit(c)
  PROVE  AccessInv'
<1>1. /\ UNCHANGED <<account, sessions, limit, overlapped>>
      /\ visitor[c].step \in {"checkClient", "checkUser"}
      /\ To(c, "idle") \/ To(c, "checkUser") \/ On(c, "read")
  BY DEF CheckLimit
<1>2. ProcessTypeOK' /\ faults' = faults
  BY ProcessStays DEF CheckLimit
<1>3. {"idle", "checkUser", "read"} \subseteq FreeSteps
  BY DEF FreeSteps, VisitorSteps, LoginSteps, HasRead
<1> QED
  BY <1>1, <1>2, <1>3, FreeStepKeeps

LEMMA ReadCredentialsKeeps ==
  ASSUME AccessInv, NEW c \in Callers, ReadCredentials(c)
  PROVE  AccessInv'
<1> DEFINE v == [visitor[c] EXCEPT !.step = "verify", !.row = account[visitor[c].user]]
<1>1. /\ UNCHANGED <<account, sessions, limit, overlapped>> /\ visitor[c].step = "read"
      /\ visitor' = [visitor EXCEPT ![c] = v]
  BY DEF ReadCredentials
<1>2. ProcessTypeOK' /\ faults' = faults
  BY ProcessStays DEF ReadCredentials
<1>3. visitor[c].user \in Users /\ account[visitor[c].user] \in AccountRow
  BY <1>1, VisitorIs, AccessFacts DEF AccessInv
<1>4. v \in VisitorType
  BY <1>3, VisitorIs DEF VisitorType, LoginSteps, AccessInv
<1>5. v.step = "verify" /\ v.user = visitor[c].user /\ v.row = account[visitor[c].user]
  BY VisitorIs DEF VisitorType, AccessInv
<1> HIDE DEF v
<1>6. /\ visitor' \in [Callers -> VisitorType] /\ \A d \in Callers \ {c} : visitor'[d] = visitor[d]
      /\ visitor'[c] = v
      /\ \A d \in Callers : visitor'[d].step # "idle" => visitor'[d].user \in Users
  BY <1>1, <1>3, <1>4, <1>5, VisitorIs DEF AccessInv
<1>7. ChangeOK(c)'
  BY <1>5, <1>6 DEF ChangeOK, HasRead
<1>8. visitor'[c].row.state = "present" => account[visitor'[c].user].state # "absent"
  BY <1>5, <1>6
<1> QED
  BY <1>1, <1>2, <1>5, <1>6, <1>7, <1>8, EditorKeeps

LEMMA VerifyPasswordKeeps ==
  ASSUME AccessInv, NEW c \in Callers, VerifyPassword(c)
  PROVE  AccessInv'
<1>1. /\ UNCHANGED <<account, sessions, limit, overlapped>> /\ visitor[c].step = "verify"
      /\ ProcessTypeOK' /\ faults' = faults
  BY ProcessStays DEF VerifyPassword
<1>2. CASE Fail(c)
  BY <1>1, <1>2, FailKeeps
<1>3. CASE visitor[c].row.state = "present" /\ To(c, "insert")
  <2>1. /\ visitor' \in [Callers -> VisitorType] /\ \A d \in Callers \ {c} : visitor'[d] = visitor[d]
        /\ visitor'[c].step = "insert" /\ visitor'[c].user = visitor[c].user
        /\ visitor'[c].row = visitor[c].row
        /\ \A d \in Callers : visitor'[d].step # "idle" => visitor'[d].user \in Users
    BY <1>1, <1>3, ToIs DEF AccessInv, VisitorSteps, LoginSteps
  <2>2. ChangeOK(c)'
    BY <2>1 DEF ChangeOK, HasRead
  <2>3. account[visitor'[c].user].state # "absent"
    BY <1>1, <1>3, <2>1 DEF AccessInv, KnownAccounts
  <2> QED
    BY <1>1, <1>3, <2>1, <2>2, <2>3, EditorKeeps
<1> QED
  BY <1>2, <1>3 DEF VerifyPassword

LEMMA ReadAccountKeeps ==
  ASSUME AccessInv, NEW c \in Callers, ReadAccount(c)
  PROVE  AccessInv'
<1> DEFINE step == AfterRead(visitor[c].step)
           v == [visitor[c] EXCEPT !.step = step, !.row = account[visitor[c].user]]
<1>1. /\ UNCHANGED <<account, sessions, limit, overlapped>>
      /\ visitor[c].step \in {"readUpdate", "readReset", "readDelete"}
      /\ ProcessTypeOK' /\ faults' = faults
  BY ProcessStays DEF ReadAccount
<1>2. CASE ~Present(visitor[c].user)
  <2>1. To(c, "idle") /\ "idle" \in FreeSteps
    BY <1>2 DEF ReadAccount, FreeSteps, VisitorSteps, HasRead
  <2> QED
    BY <1>1, <2>1, FreeStepKeeps
<1>3. CASE Present(visitor[c].user)
  <2>1. step \in {"countUpdate", "reset", "countDelete"}
    BY <1>1 DEF AfterRead
  <2>2. visitor' = [visitor EXCEPT ![c] = v]
    BY <1>1, <1>3 DEF ReadAccount
  <2>3. visitor[c].user \in Users /\ account[visitor[c].user] \in AccountRow
    BY <1>1, VisitorIs, AccessFacts DEF AccessInv
  <2> HIDE DEF step
  <2>4. v \in VisitorType
    BY <2>1, <2>3, VisitorIs DEF VisitorType, ChangeSteps, AccessInv
  <2>5. v.step = step /\ v.user = visitor[c].user /\ v.row = account[visitor[c].user]
    BY VisitorIs DEF VisitorType, AccessInv
  <2> HIDE DEF v
  <2>6. /\ visitor' \in [Callers -> VisitorType] /\ \A d \in Callers \ {c} : visitor'[d] = visitor[d]
        /\ visitor'[c] = v
        /\ \A d \in Callers : visitor'[d].step # "idle" => visitor'[d].user \in Users
    BY <2>2, <2>3, <2>4, <2>5, VisitorIs DEF AccessInv
  <2>7. ChangeOK(c)'
    BY <1>1, <1>3, <2>1, <2>5, <2>6 DEF ChangeOK, HasRead, Present
  <2> QED
    BY <1>1, <2>1, <2>5, <2>6, <2>7, EditorKeeps
<1> QED
  BY <1>2, <1>3

\* Only administrators that another one is counted for lose something.
LEMMA CountAdminsKeeps ==
  ASSUME AccessInv, NEW c \in Callers, CountAdmins(c)
  PROVE  AccessInv'
<1> DEFINE v == visitor[c]
           u == visitor[c].user
<1>1. /\ UNCHANGED <<account, sessions, limit, overlapped>>
      /\ v.step \in {"countUpdate", "countDelete"} /\ v.step \in HasRead
      /\ ProcessTypeOK' /\ faults' = faults
  BY ProcessStays DEF CountAdmins, HasRead
<1>2. CASE To(c, "idle")
  <2>1. "idle" \in FreeSteps
    BY DEF FreeSteps, VisitorSteps, HasRead
  <2> QED
    BY <1>1, <1>2, <2>1, FreeStepKeeps
<1>3. CASE /\ To(c, IF v.step = "countUpdate" THEN "update" ELSE "revokeDelete")
           /\ Loses(v) => Another(u)
  <2> DEFINE next == IF v.step = "countUpdate" THEN "update" ELSE "revokeDelete"
  <2>1. /\ visitor' \in [Callers -> VisitorType] /\ \A d \in Callers \ {c} : visitor'[d] = visitor[d]
        /\ visitor'[c].step = next /\ visitor'[c].user = u /\ visitor'[c].row = v.row
        /\ visitor'[c].change = v.change
        /\ \A d \in Callers : visitor'[d].step # "idle" => visitor'[d].user \in Users
    BY <1>1, <1>3, ToIs DEF AccessInv, VisitorSteps, ChangeSteps
  <2>2. overlapped \/ ChangeOK(c)'
    <3> SUFFICES ASSUME ~overlapped PROVE ChangeOK(c)'
      OBVIOUS
    <3>1. /\ Present(u) /\ v.row.admin = account[u].admin /\ v.row.disabled = account[u].disabled
      BY <1>1 DEF AccessInv, ChangeInv, ChangeOK
    <3>2. \A w : /\ Present(w) => Present(w)' /\ (ActiveAdmin(w)' => ActiveAdmin(w))
                 /\ Another(w) => Another(w)'
      BY <1>1 DEF Present, ActiveAdmin, Another
    <3>3. next = "update" /\ Loses(visitor[c])' => Loses(v)
      BY <2>1 DEF Loses, NextAdmin, NextDisabled
    <3>4. next = "revokeDelete" /\ ActiveAdmin(u) => Loses(v)
      BY <1>1, <3>1 DEF Loses, ActiveAdmin
    <3>5. visitor'[c].step \in {"update", "revokeDelete"}
      BY <1>1, <2>1
    <3>6. Present(u)' /\ (ActiveAdmin(u)' => ActiveAdmin(u)) /\ (Another(u) => Another(u)')
          /\ (Loses(v) => Another(u))
      BY <1>3, <2>1, <3>1, <3>2
    <3> QED
      BY <1>1, <2>1, <3>1, <3>3, <3>4, <3>5, <3>6 DEF ChangeOK
  <2> QED
    BY <1>1, <2>1, <2>2, EditorKeeps
<1> QED
  BY <1>1, <1>2, <1>3 DEF CountAdmins, Another

\* A statement that throws is counted.
LEMMA AccessThrowsKeeps ==
  ASSUME AccessInv, NEW c \in Callers, AccessThrows(c)
  PROVE  AccessInv'
<1>1. /\ UNCHANGED <<account, sessions, limit, overlapped>> /\ visitor[c].step # "idle"
      /\ ProcessTypeOK' /\ faults' = faults + 1 /\ faults' > 0
  BY AccessFacts, AccessProcessMoves DEF AccessInv, AccessThrows
<1>2. CASE To(c, "idle")
  <2>1. "idle" \in FreeSteps
    BY DEF FreeSteps, VisitorSteps, HasRead
  <2> QED
    BY <1>1, <1>2, <2>1, FreeStepKeeps
<1>3. CASE visitor[c].step \in {"read", "insert", "succeed"} /\ Fail(c)
  BY <1>1, <1>3, FailKeeps
<1>4. CASE visitor[c].step = "clearDeleted" /\ On(c, "drop")
  <2>1. /\ visitor' \in [Callers -> VisitorType] /\ \A d \in Callers \ {c} : visitor'[d] = visitor[d]
        /\ visitor'[c].step = "drop" /\ visitor'[c].user = visitor[c].user
        /\ \A d \in Callers : visitor'[d].step # "idle" => visitor'[d].user \in Users
    BY <1>4, OnIs DEF AccessInv, VisitorSteps, ChangeSteps
  <2>2. overlapped \/ ChangeOK(c)'
    BY <1>1, <1>4, <2>1 DEF AccessInv, ChangeInv, ChangeOK, HasRead, Present, ActiveAdmin, Another
  <2> QED
    BY <1>1, <1>4, <2>1, <2>2, EditorKeeps
<1> QED
  BY <1>2, <1>3, <1>4 DEF AccessThrows

---------------------------------------------------------------------------------
(* Sessions begin and end. *)

LEMMA InsertSessionKeeps ==
  ASSUME AccessInv, NEW c \in Callers, InsertSession(c)
  PROVE  AccessInv'
<1> DEFINE u == visitor[c].user
           new == [user |-> u, password |-> visitor[c].row.password,
                   raced |-> visitor[c].row.password # account[u].password]
<1>1. /\ UNCHANGED <<account, limit, overlapped>> /\ visitor[c].step = "insert"
      /\ sessions' = sessions \cup {new} /\ ProcessTypeOK' /\ faults' = faults
  BY ProcessStays DEF InsertSession
<1>2. /\ visitor' \in [Callers -> VisitorType] /\ \A d \in Callers \ {c} : visitor'[d] = visitor[d]
      /\ visitor'[c].step = "succeed"
      /\ \A d \in Callers : visitor'[d].step # "idle" => visitor'[d].user \in Users
  BY <1>1, OnIs DEF InsertSession, AccessInv, VisitorSteps, LoginSteps
<1>3. /\ u \in Users /\ visitor[c].row.password \in Nat /\ account[u].state # "absent"
      /\ ChangeOK(c)' /\ visitor'[c].step \notin {"verify", "insert"} /\ faults \in Nat
  BY <1>1, <1>2, VisitorIs, AccessFacts, FreeStepIsOK
  DEF AccessInv, KnownAccounts, AccountRow, FreeSteps, VisitorSteps, LoginSteps, HasRead
<1>4. /\ new.user = u /\ new.raced \in BOOLEAN /\ new.password \in Nat
      /\ new.password = account[u].password \/ new.raced
  BY <1>3
<1> HIDE DEF new
<1>5. AccessTypeOK'
  BY <1>1, <1>2, <1>3, <1>4 DEF AccessInv, AccessTypeOK, VisitorType
<1>6. KnownAccounts'
  BY <1>1, <1>2, <1>3, <1>4 DEF AccessInv, KnownAccounts
<1>7. ChangeInv'
  BY <1>1, <1>2, <1>3, RequestKeepsChange DEF AccessInv
<1>8. ResetRevokes'
  <2>1. \A d \in Callers : visitor[d].step = "revokeReset" =>
          visitor'[d].step = "revokeReset" /\ visitor'[d].user = visitor[d].user
    BY <1>1, <1>2
  <2> QED
    BY <1>1, <1>4, <2>1 DEF AccessInv, ResetRevokes, Present
<1>9. LimitInv'
  BY <1>1, <1>2, <1>3, RequestKeepsLimit DEF AccessInv
<1> QED
  BY <1>5, <1>6, <1>7, <1>8, <1>9 DEF AccessInv

LEMMA RevokeSessionsKeeps ==
  ASSUME AccessInv, NEW c \in Callers, RevokeSessions(c)
  PROVE  AccessInv'
<1> DEFINE next == AfterRevoke(visitor[c].step)
<1>1. /\ UNCHANGED <<account, limit, overlapped>>
      /\ visitor[c].step \in {"revokeUpdate", "revokeReset", "revokeDelete"}
      /\ sessions' = {s \in sessions : s.user # visitor[c].user} /\ sessions' \subseteq sessions
      /\ ProcessTypeOK' /\ faults' = faults /\ faults \in Nat
  BY ProcessStays, AccessFacts DEF RevokeSessions, AccessInv
<1>2. /\ next \in {"idle", "clear", "clearDeleted"}
      /\ next = "clearDeleted" => visitor[c].step = "revokeDelete"
  BY <1>1 DEF AfterRevoke
<1>3. On(c, next)
  BY DEF RevokeSessions
<1> HIDE DEF next
<1>4. /\ visitor' \in [Callers -> VisitorType] /\ \A d \in Callers \ {c} : visitor'[d] = visitor[d]
      /\ visitor'[c].step = next /\ (next # "idle" => visitor'[c].user = visitor[c].user)
      /\ \A d \in Callers : visitor'[d].step # "idle" => visitor'[d].user \in Users
  BY <1>1, <1>2, <1>3, OnIs DEF AccessInv, VisitorSteps, ChangeSteps
<1>5. AccessTypeOK'
  BY <1>1, <1>4, RequestKeepsTypes DEF AccessInv
<1>6. KnownAccounts'
  BY <1>1, <1>2, <1>4, RequestKeepsKnown DEF AccessInv
<1>7. overlapped \/ ChangeOK(c)'
  BY <1>1, <1>2, <1>4
  DEF AccessInv, ChangeInv, ChangeOK, HasRead, Present, ActiveAdmin, Another
<1>8. ChangeInv'
  BY <1>1, <1>4, <1>7, RequestKeepsChange DEF AccessInv
<1>9. ResetRevokes'
  <2>1. \A s \in sessions' : s \in sessions /\ s.user # visitor[c].user
    BY <1>1
  <2>2. \A s \in sessions', d \in Callers :
          visitor[d].step = "revokeReset" /\ visitor[d].user = s.user =>
            visitor'[d].step = "revokeReset" /\ visitor'[d].user = s.user
    BY <1>4, <2>1
  <2> QED
    BY <1>1, <2>1, <2>2 DEF AccessInv, ResetRevokes, Present
<1>10. LimitInv'
  BY <1>1, <1>4, RequestKeepsLimit DEF AccessInv
<1> QED
  BY <1>5, <1>6, <1>8, <1>9, <1>10 DEF AccessInv

LEMMA EndSessionKeeps ==
  ASSUME AccessInv, EndSession
  PROVE  AccessInv'
<1>1. /\ UNCHANGED <<account, limit, visitor, overlapped>> /\ sessions' \subseteq sessions
      /\ ProcessTypeOK' /\ faults' = faults
  BY AccessFacts, AccessProcessMoves DEF EndSession, AccessInv, Arrive
<1>2. AccessTypeOK'
  BY <1>1, RequestKeepsTypes DEF AccessInv, AccessTypeOK, VisitorType
<1>3. KnownAccounts'
  BY <1>1 DEF AccessInv, KnownAccounts
<1>4. ChangeInv'
  BY <1>1 DEF AccessInv, ChangeInv, ChangeOK, LastAdminProtected, Present, ActiveAdmin, Another,
              Loses, NextAdmin, NextDisabled
<1>5. ResetRevokes'
  BY <1>1 DEF AccessInv, ResetRevokes, Present
<1>6. LimitInv'
  BY <1>1 DEF AccessInv, LimitInv, Blocking
<1> QED
  BY <1>2, <1>3, <1>4, <1>5, <1>6 DEF AccessInv

---------------------------------------------------------------------------------
(* The limit. *)

LimitRow == [failures : Nat, window : 0 .. MaxTime, blocked : 0 .. MaxTime + Cooldown,
             updated : 0 .. MaxTime]

\* A step that writes the limit and goes on to a step of its own.
LEMMA LimitStepKeeps ==
  ASSUME AccessInv, NEW c \in Callers, UNCHANGED <<account, sessions, overlapped, process>>,
         limit' \in [Users \cup {"client"} -> LimitRow], LimitInv',
         visitor[c].step \notin {"idle", "revokeReset"},
         NEW step \in VisitorSteps \ {"verify", "insert"}, To(c, step),
         step \in HasRead => visitor[c].step = "clearDeleted" /\ step = "drop"
  PROVE  AccessInv'
<1>1. /\ visitor' \in [Callers -> VisitorType] /\ \A d \in Callers \ {c} : visitor'[d] = visitor[d]
      /\ visitor'[c].step = step /\ (step # "idle" => visitor'[c].user = visitor[c].user)
      /\ \A d \in Callers : visitor'[d].step # "idle" => visitor'[d].user \in Users
  BY ToIs DEF AccessInv
<1>2. ProcessTypeOK' /\ faults' = faults /\ faults \in Nat /\ sessions' \subseteq sessions
  BY ProcessStays, AccessFacts DEF AccessInv
<1>3. AccessTypeOK'
  BY <1>1, <1>2 DEF AccessInv, AccessTypeOK, VisitorType, LimitRow
<1>4. KnownAccounts'
  BY <1>1, <1>2, RequestKeepsKnown DEF AccessInv
<1>5. overlapped \/ ChangeOK(c)'
  <2>1. CASE step \notin HasRead
    BY <1>1, <2>1 DEF ChangeOK, HasRead
  <2>2. CASE visitor[c].step = "clearDeleted" /\ step = "drop"
    BY <1>1, <2>2 DEF AccessInv, ChangeInv, ChangeOK, HasRead, Present, ActiveAdmin, Another
  <2> QED
    BY <2>1, <2>2
<1>6. ChangeInv'
  BY <1>1, <1>5, RequestKeepsChange DEF AccessInv
<1>7. ResetRevokes'
  BY <1>1, <1>2, RequestKeepsReset DEF AccessInv
<1> QED
  BY <1>3, <1>4, <1>6, <1>7 DEF AccessInv

\* A subject whose row a step does not change for the worse.
LEMMA LimitOf ==
  ASSUME LimitInv, NEW c \in Callers, UNCHANGED process,
         \A d \in Callers \ {c} : visitor'[d] = visitor[d],
         NEW s \in Users \cup {"client"},
         limit'[s] = limit[s] \/ limit'[s].failures < LoginLimit, limit'[s].failures \in Nat,
         ~(s = "client" /\ visitor[c].step = "blockClient"),
         ~(s = visitor[c].user /\ visitor[c].step = "blockUser")
  PROVE  limit'[s].failures >= LoginLimit =>
           limit'[s].blocked > limit'[s].updated \/ Blocking(s)' \/ faults' > 0
<1>1. LoginLimit \in Nat
  BY AccessAssumption
<1>2. Blocking(s) => Blocking(s)'
  BY DEF Blocking
<1> QED
  BY <1>1, <1>2 DEF LimitInv, process

LEMMA ClearLimitKeeps ==
  ASSUME AccessInv, NEW c \in Callers, ClearLimit(c)
  PROVE  AccessInv'
<1> DEFINE next == IF visitor[c].step = "clearDeleted" THEN "drop" ELSE "idle"
<1>1. /\ UNCHANGED <<account, sessions, overlapped, process>> /\ To(c, next)
      /\ visitor[c].step \in {"succeed", "clear", "clearDeleted"}
      /\ limit' = [limit EXCEPT ![visitor[c].user] = NoLimit]
  BY DEF ClearLimit
<1>2. limit \in [Users \cup {"client"} -> LimitRow] /\ NoLimit \in LimitRow
  BY ProcessAssumption, AccessAssumption DEF AccessInv, AccessTypeOK, LimitRow, NoLimit
<1>3. /\ limit' \in [Users \cup {"client"} -> LimitRow]
      /\ \A s \in Users \cup {"client"} : limit'[s] \in {limit[s], NoLimit}
  BY <1>1, <1>2
<1>4. /\ next \in VisitorSteps \ {"verify", "insert"}
      /\ next \in HasRead => visitor[c].step = "clearDeleted" /\ next = "drop"
  BY DEF VisitorSteps, ChangeSteps, HasRead
<1> HIDE DEF next
<1>5. \A d \in Callers \ {c} : visitor'[d] = visitor[d]
  BY <1>1, <1>4, ToIs DEF AccessInv
<1>6. LimitInv'
  <2> SUFFICES ASSUME NEW s \in Users \cup {"client"}
               PROVE  limit'[s].failures >= LoginLimit =>
                        limit'[s].blocked > limit'[s].updated \/ Blocking(s)' \/ faults' > 0
    BY DEF LimitInv
  <2>1. limit'[s] \in LimitRow /\ limit'[s].failures \in Nat
    BY <1>3 DEF LimitRow
  <2>2. limit'[s] = limit[s] \/ limit'[s].failures < LoginLimit
    BY <1>3, AccessAssumption DEF NoLimit
  <2> QED
    BY <1>1, <1>5, <2>1, <2>2, LimitOf DEF AccessInv
<1> QED
  BY <1>1, <1>3, <1>4, <1>6, LimitStepKeeps

\* The last failure that is allowed sends its request to block the subject.
LEMMA CountFailureKeeps ==
  ASSUME AccessInv, NEW c \in Callers, CountFailure(c)
  PROVE  AccessInv'
<1> DEFINE client == visitor[c].step = "failClient"
           subject == IF client THEN "client" ELSE visitor[c].user
           now == visitor[c].now
           kept == [s \in DOMAIN limit |->
                      IF client /\ limit[s].updated < now - Retention THEN NoLimit ELSE limit[s]]
           anew == kept[subject].failures = 0 \/ kept[subject].window <= now - LoginWindow
           failures == IF anew THEN 1 ELSE kept[subject].failures + 1
           row == [failures |-> failures, window |-> IF anew THEN now ELSE kept[subject].window,
                   blocked |-> kept[subject].blocked, updated |-> now]
           step == CASE failures >= LoginLimit -> IF client THEN "blockClient" ELSE "blockUser"
                     [] failures < LoginLimit -> IF client THEN "failUser" ELSE "idle"
<1>1. /\ UNCHANGED <<account, sessions, overlapped, process>>
      /\ visitor[c].step \in {"failClient", "failUser"}
      /\ limit' = [kept EXCEPT ![subject] = row] /\ To(c, step)
  BY DEF CountFailure
<1>2. limit \in [Users \cup {"client"} -> LimitRow] /\ NoLimit \in LimitRow
  BY ProcessAssumption, AccessAssumption DEF AccessInv, AccessTypeOK, LimitRow, NoLimit
<1>3. now \in 0 .. MaxTime /\ subject \in Users \cup {"client"} /\ visitor[c].user \in Users
  BY <1>1, VisitorIs DEF AccessInv
<1>4. /\ kept \in [Users \cup {"client"} -> LimitRow]
      /\ \A s \in Users \cup {"client"} : kept[s] \in {limit[s], NoLimit}
  BY <1>2
<1> HIDE DEF kept
<1>5. /\ kept[subject].failures \in Nat /\ kept[subject].window \in 0 .. MaxTime
      /\ kept[subject].blocked \in 0 .. MaxTime + Cooldown
  BY <1>3, <1>4 DEF LimitRow
<1>6. failures \in Nat
  BY <1>5
<1>7. row \in LimitRow /\ row.failures = failures
  BY <1>3, <1>5, <1>6 DEF LimitRow
<1>8. /\ failures >= LoginLimit => step = IF client THEN "blockClient" ELSE "blockUser"
      /\ step \in {"blockClient", "blockUser", "failUser", "idle"}
  BY <1>6, AccessAssumption
<1> HIDE DEF anew, failures, row, step, now
<1>9. /\ limit' \in [Users \cup {"client"} -> LimitRow] /\ limit'[subject] = row
      /\ \A s \in Users \cup {"client"} : s # subject => limit'[s] \in {limit[s], NoLimit}
  BY <1>1, <1>3, <1>4, <1>7
<1>10. step \in VisitorSteps \ ({"verify", "insert"} \cup HasRead)
  BY <1>8 DEF VisitorSteps, LoginSteps, HasRead
<1>11. /\ \A d \in Callers \ {c} : visitor'[d] = visitor[d]
       /\ visitor'[c].step = step /\ (step # "idle" => visitor'[c].user = visitor[c].user)
  BY <1>1, <1>10, ToIs DEF AccessInv
<1>12. LimitInv'
  <2> SUFFICES ASSUME NEW s \in Users \cup {"client"}
               PROVE  limit'[s].failures >= LoginLimit =>
                        limit'[s].blocked > limit'[s].updated \/ Blocking(s)' \/ faults' > 0
    BY DEF LimitInv
  <2>1. CASE s = subject
    <3> SUFFICES ASSUME failures >= LoginLimit PROVE Blocking(s)'
      BY <1>7, <1>9, <2>1
    <3> QED
      BY <1>8, <1>11, <2>1 DEF Blocking
  <2>2. CASE s # subject
    <3>1. limit'[s] \in LimitRow /\ limit'[s].failures \in Nat
      BY <1>9 DEF LimitRow
    <3>2. limit'[s] = limit[s] \/ limit'[s].failures < LoginLimit
      BY <1>9, <2>2, AccessAssumption DEF NoLimit
    <3> QED
      BY <1>1, <1>11, <3>1, <3>2, LimitOf DEF AccessInv
  <2> QED
    BY <2>1, <2>2
<1> QED
  BY <1>1, <1>9, <1>10, <1>12, LimitStepKeeps

\* The cooldown ends after the failure that started it.
LEMMA BlockSubjectKeeps ==
  ASSUME AccessInv, NEW c \in Callers, BlockSubject(c)
  PROVE  AccessInv'
<1> DEFINE subject == IF visitor[c].step = "blockClient" THEN "client" ELSE visitor[c].user
           now == visitor[c].now
           step == IF subject = "client" THEN "failUser" ELSE "idle"
<1>1. /\ UNCHANGED <<account, sessions, overlapped, process>>
      /\ visitor[c].step \in {"blockClient", "blockUser"} /\ To(c, step)
  BY DEF BlockSubject
<1>2. PICK cooldown \in 1 .. Cooldown :
        limit' = [limit EXCEPT ![subject] =
          IF limit[subject].failures = 0 THEN limit[subject]
          ELSE [limit[subject] EXCEPT
                  !.blocked = IF now + cooldown > limit[subject].blocked THEN now + cooldown
                              ELSE limit[subject].blocked,
                  !.updated = now]]
  BY DEF BlockSubject
<1> DEFINE until == IF now + cooldown > limit[subject].blocked THEN now + cooldown
                    ELSE limit[subject].blocked
           row == [limit[subject] EXCEPT !.blocked = until, !.updated = now]
<1>3. limit \in [Users \cup {"client"} -> LimitRow]
  BY DEF AccessInv, AccessTypeOK, LimitRow
<1>4. /\ now \in 0 .. MaxTime /\ subject \in Users \cup {"client"} /\ visitor[c].user \in Users
      /\ visitor[c].user # "client"
  BY <1>1, VisitorIs, AccessAssumption DEF AccessInv
<1>5. limit[subject] \in LimitRow /\ limit[subject].blocked \in 0 .. MaxTime + Cooldown
  BY <1>3, <1>4 DEF LimitRow
<1>6. until \in 0 .. MaxTime + Cooldown /\ until > now
  BY <1>4, <1>5, ProcessAssumption, AccessAssumption
<1> HIDE DEF until
<1>7. row \in LimitRow /\ row.blocked = until /\ row.updated = now
  BY <1>4, <1>5, <1>6 DEF LimitRow
<1>8. limit' = [limit EXCEPT ![subject] = IF limit[subject].failures = 0 THEN limit[subject] ELSE row]
  BY <1>2 DEF until
<1> HIDE DEF row, now
<1>9. /\ visitor[c].step = "blockClient" => subject = "client"
      /\ visitor[c].step = "blockUser" => subject = visitor[c].user
      /\ step \in {"failUser", "idle"}
  BY <1>1
<1> HIDE DEF step
<1> HIDE DEF subject
<1> DEFINE new == IF limit[subject].failures = 0 THEN limit[subject] ELSE row
<1>10. /\ limit' \in [Users \cup {"client"} -> LimitRow]
       /\ limit'[subject] = row \/ (limit'[subject] = limit[subject] /\ limit[subject].failures = 0)
       /\ \A s \in Users \cup {"client"} : s # subject => limit'[s] = limit[s]
  <2>1. new \in LimitRow /\ new \in {row, limit[subject]} /\ (new # row => limit[subject].failures = 0)
    BY <1>5, <1>7
  <2>2. limit' = [limit EXCEPT ![subject] = new]
    BY <1>8
  <2> HIDE DEF new
  <2> QED
    BY <1>3, <1>4, <2>1, <2>2
<1>11. step \in VisitorSteps \ ({"verify", "insert"} \cup HasRead)
  BY <1>9 DEF VisitorSteps, LoginSteps, HasRead
<1>12. \A d \in Callers \ {c} : visitor'[d] = visitor[d]
  BY <1>1, <1>11, ToIs DEF AccessInv
<1>13. LimitInv'
  <2> SUFFICES ASSUME NEW s \in Users \cup {"client"}
               PROVE  limit'[s].failures >= LoginLimit =>
                        limit'[s].blocked > limit'[s].updated \/ Blocking(s)' \/ faults' > 0
    BY DEF LimitInv
  <2>1. CASE s = subject
    <3>1. CASE limit'[subject] = row
      BY <1>4, <1>6, <1>7, <2>1, <3>1
    <3>2. CASE limit'[subject] = limit[subject] /\ limit[subject].failures = 0
      BY <2>1, <3>2, AccessAssumption
    <3> QED
      BY <1>10, <3>1, <3>2
  <2>2. CASE s # subject
    <3>1. limit'[s] = limit[s] /\ limit'[s].failures \in Nat
      BY <1>10, <2>2 DEF LimitRow
    <3>2. /\ ~(s = "client" /\ visitor[c].step = "blockClient")
          /\ ~(s = visitor[c].user /\ visitor[c].step = "blockUser")
      BY <1>9, <2>2
    <3> QED
      BY <1>1, <1>12, <3>1, <3>2, LimitOf DEF AccessInv
  <2> QED
    BY <2>1, <2>2
<1> QED
  BY <1>1, <1>10, <1>11, <1>13, LimitStepKeeps

---------------------------------------------------------------------------------
(* The steps that write an account. *)

\* Only this account is written, and it was there before, or is still not.
LEMMA AccountKeeps ==
  ASSUME AccessInv, NEW c \in Callers, NEW u \in Users, UNCHANGED <<sessions, limit, process>>,
         account' \in [Users -> AccountRow], \A w \in Users \ {u} : account'[w] = account[w],
         account[u].state # "absent" => account'[u].state # "absent",
         account'[u].state = "absent" => ~account'[u].disabled,
         visitor' \in [Callers -> VisitorType],
         \A d \in Callers : visitor'[d].step # "idle" => visitor'[d].user \in Users,
         \A d \in Callers \ {c} : visitor'[d] = visitor[d],
         visitor[c].step \notin {"blockClient", "blockUser", "revokeReset"},
         visitor'[c].step \notin {"verify", "insert"},
         overlapped' \in BOOLEAN, ChangeInv',
         \/ account'[u].password = account[u].password /\ account'[u].state = account[u].state
         \/ ~Present(u)'
         \/ visitor'[c].step = "revokeReset" /\ visitor'[c].user = u
  PROVE  AccessInv'
<1>1. ProcessTypeOK' /\ faults' = faults /\ faults \in Nat
  BY ProcessStays, AccessFacts DEF AccessInv
<1>2. AccessTypeOK'
  BY <1>1 DEF AccessInv, AccessTypeOK, VisitorType
<1>3. KnownAccounts'
  <2>1. \A w \in Users : /\ account[w].state # "absent" => account'[w].state # "absent"
                         /\ account'[w].state = "absent" => ~account'[w].disabled
    BY DEF AccessInv, KnownAccounts
  <2>2. \A s \in sessions : s.user \in Users
    BY AccessFacts DEF AccessInv
  <2>3. \A d \in Callers : visitor[d].step \in {"verify", "insert"} => visitor[d].user \in Users
    BY VisitorIs DEF AccessInv
  <2> QED
    BY <2>1, <2>2, <2>3 DEF AccessInv, KnownAccounts
<1>4. ResetRevokes'
  <2> SUFFICES ASSUME NEW s \in sessions
               PROVE  \/ s.password = account'[s.user].password \/ ~Present(s.user)'
                      \/ s.raced
                      \/ \E d \in Callers : visitor'[d].step = "revokeReset" /\ visitor'[d].user = s.user
                      \/ faults' > 0
    BY DEF ResetRevokes
  <2>1. s.user \in Users
    BY AccessFacts DEF AccessInv
  <2>2. \/ s.password = account[s.user].password \/ ~Present(s.user)
        \/ s.raced
        \/ \E d \in Callers \ {c} : visitor[d].step = "revokeReset" /\ visitor[d].user = s.user
        \/ faults > 0
    BY DEF AccessInv, ResetRevokes
  <2>3. CASE s.user # u \/ (account'[u].password = account[u].password /\ account'[u].state = account[u].state)
    <3>1. /\ account'[s.user].password = account[s.user].password
          /\ account'[s.user].state = account[s.user].state
      BY <2>1, <2>3
    <3> QED
      BY <1>1, <2>2, <3>1 DEF Present
  <2>4. CASE s.user = u /\ ~(account'[u].password = account[u].password /\ account'[u].state = account[u].state)
    BY <2>4
  <2> QED
    BY <2>3, <2>4
<1>5. LimitInv'
  BY <1>1, RequestKeepsLimit DEF AccessInv
<1> QED
  BY <1>2, <1>3, <1>4, <1>5 DEF AccessInv

\* No other change has read an account: this one leaves another administrator.
LEMMA AloneKeepsChange ==
  ASSUME NEW c \in Callers, Overlaps(c), overlapped \in BOOLEAN,
         \A d \in Callers \ {c} : visitor'[d] = visitor[d],
         visitor'[c].step \notin HasRead,
         overlapped \/ LastAdminProtected'
  PROVE  ChangeInv' /\ overlapped' \in BOOLEAN
<1>1. overlapped' \in BOOLEAN
  BY DEF Overlaps
<1>2. CASE overlapped'
  BY <1>1, <1>2 DEF ChangeInv
<1>3. CASE ~overlapped'
  <2>1. \A d \in Callers : visitor'[d].step \notin HasRead
    BY <1>3 DEF Overlaps
  <2>2. \A d \in Callers : ChangeOK(d)'
    BY <2>1 DEF ChangeOK, HasRead
  <2>3. ~overlapped
    BY <1>3 DEF Overlaps
  <2> QED
    BY <1>1, <2>2, <2>3 DEF ChangeInv
<1> QED
  BY <1>2, <1>3

\* An administrator who does not count any more is not the last one.
LEMMA LastAdminKeeps ==
  ASSUME LastAdminProtected, NEW u \in Users, Present(u),
         \A w \in Users \ {u} : account'[w] = account[w],
         ActiveAdmin(u) => Another(u) \/ ActiveAdmin(u)'
  PROVE  LastAdminProtected'
<1>1. \A w \in Users \ {u} : ActiveAdmin(w) => ActiveAdmin(w)'
  BY DEF ActiveAdmin, Present
<1>2. PICK w \in Users : ActiveAdmin(w)
  BY DEF LastAdminProtected
<1> QED
  BY <1>1, <1>2 DEF LastAdminProtected, Another

LEMMA WriteUpdateKeeps ==
  ASSUME AccessInv, NEW c \in Callers, WriteUpdate(c)
  PROVE  AccessInv'
<1> PICK u \in Users : u = visitor[c].user
  BY VisitorIs DEF AccessInv, WriteUpdate
<1> DEFINE v == visitor[c]
           row == [account[u] EXCEPT !.admin = NextAdmin(v), !.disabled = NextDisabled(v)]
           next == IF NextDisabled(v) THEN "revokeUpdate" ELSE "idle"
<1>1. /\ v.step = "update" /\ Overlaps(c) /\ UNCHANGED <<sessions, limit, process>>
      /\ account' = IF Present(u)
                    THEN [account EXCEPT ![u].admin = NextAdmin(v), ![u].disabled = NextDisabled(v)]
                    ELSE account
      /\ On(c, next)
  BY DEF WriteUpdate
<1>2. u \in Users /\ account \in [Users -> AccountRow] /\ account[u] \in AccountRow
      /\ v.row \in AccountRow /\ overlapped \in BOOLEAN
  BY <1>1, VisitorIs, AccessFacts DEF AccessInv, AccessTypeOK
<1>3. NextAdmin(v) \in BOOLEAN /\ NextDisabled(v) \in BOOLEAN
  BY <1>2 DEF NextAdmin, NextDisabled, AccountRow
<1>4. /\ row \in AccountRow /\ row.state = account[u].state /\ row.password = account[u].password
      /\ row.admin = NextAdmin(v) /\ row.disabled = NextDisabled(v)
  BY <1>2, <1>3 DEF AccountRow
<1>5. account' = IF Present(u) THEN [account EXCEPT ![u] = row] ELSE account
  BY <1>1
<1>6. next \in VisitorSteps /\ next \notin HasRead \cup {"verify", "insert"}
  BY DEF VisitorSteps, ChangeSteps, HasRead
<1> HIDE DEF row, next
<1>7. /\ account' \in [Users -> AccountRow] /\ \A w \in Users \ {u} : account'[w] = account[w]
      /\ account'[u].state = account[u].state /\ account'[u].password = account[u].password
      /\ Present(u) => account'[u] = row
      /\ ~Present(u) => account'[u] = account[u]
  BY <1>2, <1>4, <1>5
<1>8. /\ visitor' \in [Callers -> VisitorType] /\ \A d \in Callers \ {c} : visitor'[d] = visitor[d]
      /\ visitor'[c].step = next
      /\ \A d \in Callers : visitor'[d].step # "idle" => visitor'[d].user \in Users
  BY <1>1, <1>6, OnIs DEF AccessInv
<1>9. account'[u].state = "absent" => ~account'[u].disabled
  BY <1>2, <1>7 DEF AccessInv, KnownAccounts, Present
<1>10. overlapped \/ LastAdminProtected'
  <2> SUFFICES ASSUME ~overlapped PROVE LastAdminProtected'
    OBVIOUS
  <2>1. /\ LastAdminProtected /\ Present(u)
        /\ v.row.admin = account[u].admin /\ v.row.disabled = account[u].disabled
        /\ Loses(v) => (ActiveAdmin(u) => Another(u))
    BY <1>1 DEF AccessInv, ChangeInv, ChangeOK, HasRead
  <2>2. ActiveAdmin(u) /\ ~Loses(v) => ActiveAdmin(u)'
    <3>1. account'[u].state = "present" /\ account'[u].admin = NextAdmin(v)
          /\ account'[u].disabled = NextDisabled(v)
      BY <1>4, <1>7, <2>1 DEF Present
    <3>2. SUFFICES ASSUME account[u].admin, ~account[u].disabled, ~Loses(v)
                   PROVE  account'[u].admin /\ ~account'[u].disabled
      BY <3>1 DEF ActiveAdmin, Present
    <3>3. NextAdmin(v) /\ ~NextDisabled(v)
      BY <2>1, <3>2 DEF Loses
    <3> QED
      BY <1>3, <3>1, <3>3
  <2> QED
    BY <1>2, <1>7, <2>1, <2>2, LastAdminKeeps
<1>11. ChangeInv' /\ overlapped' \in BOOLEAN
  BY <1>1, <1>2, <1>6, <1>8, <1>10, AloneKeepsChange
<1>12. /\ visitor[c].step \notin {"blockClient", "blockUser", "revokeReset"}
       /\ visitor'[c].step \notin {"verify", "insert"}
  BY <1>1, <1>6, <1>8
<1>13. UNCHANGED <<sessions, limit, process>> /\ (account[u].state # "absent" => account'[u].state # "absent")
  BY <1>1, <1>7
<1> QED
  BY <1>7, <1>8, <1>9, <1>11, <1>12, <1>13, AccountKeeps

LEMMA WriteResetKeeps ==
  ASSUME AccessInv, NEW c \in Callers, WriteReset(c)
  PROVE  AccessInv'
<1> PICK u \in Users : u = visitor[c].user
  BY VisitorIs DEF AccessInv, WriteReset
<1> DEFINE row == [account[u] EXCEPT !.password = @ + 1]
<1>1. /\ visitor[c].step = "reset" /\ UNCHANGED <<sessions, limit, overlapped, process>>
      /\ account' = IF Present(u) THEN [account EXCEPT ![u].password = @ + 1] ELSE account
      /\ On(c, "revokeReset")
  BY DEF WriteReset, NewPassword
<1>2. u \in Users /\ account \in [Users -> AccountRow] /\ account[u] \in AccountRow
      /\ overlapped \in BOOLEAN
  BY <1>1, VisitorIs, AccessFacts DEF AccessInv, AccessTypeOK
<1>3. /\ row \in AccountRow /\ row.state = account[u].state
      /\ row.admin = account[u].admin /\ row.disabled = account[u].disabled
  BY <1>2 DEF AccountRow
<1>4. account' = IF Present(u) THEN [account EXCEPT ![u] = row] ELSE account
  BY <1>1
<1> HIDE DEF row
<1>5. /\ account' \in [Users -> AccountRow] /\ \A w \in Users \ {u} : account'[w] = account[w]
      /\ \A w \in Users : /\ account'[w].state = account[w].state
                          /\ account'[w].admin = account[w].admin
                          /\ account'[w].disabled = account[w].disabled
  BY <1>2, <1>3, <1>4
<1>6. "revokeReset" \in VisitorSteps /\ "revokeReset" \notin HasRead
  BY DEF VisitorSteps, ChangeSteps, HasRead
<1>7. /\ visitor' \in [Callers -> VisitorType] /\ \A d \in Callers \ {c} : visitor'[d] = visitor[d]
      /\ visitor'[c].step = "revokeReset" /\ visitor'[c].user = u
      /\ \A d \in Callers : visitor'[d].step # "idle" => visitor'[d].user \in Users
  BY <1>1, <1>6, OnIs DEF AccessInv
<1>8. ChangeInv'
  <2>1. \A w \in Users : /\ Present(w)' = Present(w) /\ ActiveAdmin(w)' = ActiveAdmin(w)
                         /\ Another(w)' = Another(w)
    BY <1>5 DEF Present, ActiveAdmin, Another
  <2>2. LastAdminProtected => LastAdminProtected'
    BY <2>1 DEF LastAdminProtected
  <2>3. \A d \in Callers \ {c} : ChangeOK(d) => ChangeOK(d)'
    <3> SUFFICES ASSUME NEW d \in Callers \ {c}, ChangeOK(d) PROVE ChangeOK(d)'
      OBVIOUS
    <3>1. CASE visitor[d].step \in HasRead
      <4>1. visitor[d].user \in Users
        BY <3>1, VisitorIs DEF AccessInv, HasRead
      <4> QED
        BY <1>5, <1>7, <2>1, <4>1 DEF ChangeOK, Loses, NextAdmin, NextDisabled
    <3>2. CASE visitor[d].step \notin HasRead
      BY <1>7, <3>2 DEF ChangeOK, HasRead
    <3> QED
      BY <3>1, <3>2
  <2>4. ChangeOK(c)'
    BY <1>7 DEF ChangeOK, HasRead
  <2> QED
    BY <1>1, <2>2, <2>3, <2>4 DEF AccessInv, ChangeInv
<1>9. account'[u].state = "absent" => ~account'[u].disabled
  BY <1>2, <1>5 DEF AccessInv, KnownAccounts
<1>10. /\ visitor[c].step \notin {"blockClient", "blockUser", "revokeReset"}
       /\ visitor'[c].step \notin {"verify", "insert"} /\ overlapped' \in BOOLEAN
  BY <1>1, <1>2, <1>7
<1>11. account[u].state # "absent" => account'[u].state # "absent"
  BY <1>5
<1>12. UNCHANGED <<sessions, limit, process>>
  BY <1>1
<1> QED
  BY <1>5, <1>7, <1>8, <1>9, <1>10, <1>11, <1>12, AccountKeeps

LEMMA DropAccountKeeps ==
  ASSUME AccessInv, NEW c \in Callers, DropAccount(c)
  PROVE  AccessInv'
<1> PICK u \in Users : u = visitor[c].user
  BY VisitorIs DEF AccessInv, DropAccount
<1> DEFINE row == [Absent EXCEPT !.state = "deleted"]
<1>1. /\ visitor[c].step = "drop" /\ Overlaps(c) /\ UNCHANGED <<sessions, limit, process>>
      /\ account' = [account EXCEPT ![u] = row] /\ To(c, "idle")
  BY DEF DropAccount
<1>2. u \in Users /\ account \in [Users -> AccountRow] /\ overlapped \in BOOLEAN
  BY <1>1, VisitorIs, AccessFacts DEF AccessInv, AccessTypeOK
<1>3. row \in AccountRow /\ row.state = "deleted"
  BY DEF Absent, AccountRow
<1> HIDE DEF row
<1>4. /\ account' \in [Users -> AccountRow] /\ \A w \in Users \ {u} : account'[w] = account[w]
      /\ account'[u].state = "deleted"
  BY <1>1, <1>2, <1>3
<1>5. "idle" \in VisitorSteps /\ "idle" \notin HasRead
  BY DEF VisitorSteps, HasRead
<1>6. /\ visitor' \in [Callers -> VisitorType] /\ \A d \in Callers \ {c} : visitor'[d] = visitor[d]
      /\ visitor'[c].step = "idle"
      /\ \A d \in Callers : visitor'[d].step # "idle" => visitor'[d].user \in Users
  BY <1>1, <1>5, ToIs DEF AccessInv
<1>7. overlapped \/ LastAdminProtected'
  <2> SUFFICES ASSUME ~overlapped PROVE LastAdminProtected'
    OBVIOUS
  <2>1. LastAdminProtected /\ Present(u) /\ (ActiveAdmin(u) => Another(u))
    BY <1>1 DEF AccessInv, ChangeInv, ChangeOK, HasRead
  <2> QED
    BY <1>2, <1>4, <2>1, LastAdminKeeps
<1>8. ChangeInv' /\ overlapped' \in BOOLEAN
  BY <1>1, <1>2, <1>5, <1>6, <1>7, AloneKeepsChange
<1>9. ~Present(u)'
  BY <1>4 DEF Present
<1> QED
  BY <1>1, <1>2, <1>4, <1>6, <1>8, <1>9, AccountKeeps

\* An account that was never there appears.
LEMMA NewAccountKeeps ==
  ASSUME AccessInv, NEW u \in Users, NEW admin \in BOOLEAN, account[u].state = "absent",
         account' = [account EXCEPT ![u].state = "present", ![u].admin = admin],
         UNCHANGED <<sessions, limit, visitor, overlapped>>,
         ProcessTypeOK', faults' = faults,
         \/ admin /\ \A w \in Users : ~Present(w)
         \/ \E w \in Users : ActiveAdmin(w)
  PROVE  AccessInv'
<1> DEFINE row == [account[u] EXCEPT !.state = "present", !.admin = admin]
<1>1. account \in [Users -> AccountRow] /\ account[u] \in AccountRow
  BY AccessFacts DEF AccessInv
<1>2. /\ row \in AccountRow /\ row.state = "present" /\ row.admin = admin
      /\ row.disabled = account[u].disabled
  BY <1>1 DEF AccountRow
<1>3. account' = [account EXCEPT ![u] = row]
  OBVIOUS
<1> HIDE DEF row
<1>4. /\ account' \in [Users -> AccountRow] /\ \A w \in Users \ {u} : account'[w] = account[w]
      /\ account'[u] = row
  BY <1>1, <1>2, <1>3
<1>5. ~row.disabled
  BY <1>2 DEF AccessInv, KnownAccounts
<1>6. AccessTypeOK'
  BY <1>4 DEF AccessInv, AccessTypeOK
<1>7. KnownAccounts'
  <2>1. \A w \in Users : /\ account[w].state # "absent" => account'[w].state # "absent"
                         /\ account'[w].state = "absent" => ~account'[w].disabled
    BY <1>2, <1>4 DEF AccessInv, KnownAccounts
  <2>2. \A s \in sessions : s.user \in Users
    BY AccessFacts DEF AccessInv
  <2>3. \A d \in Callers : visitor[d].step \in {"verify", "insert"} => visitor[d].user \in Users
    BY VisitorIs DEF AccessInv
  <2> QED
    BY <2>1, <2>2, <2>3 DEF AccessInv, KnownAccounts
<1>8. ResetRevokes'
  <2>1. \A s \in sessions : s.user \in Users /\ s.user # u
    BY AccessFacts DEF AccessInv, KnownAccounts
  <2>2. \A s \in sessions : account'[s.user] = account[s.user]
    BY <1>4, <2>1
  <2> QED
    BY <2>2 DEF AccessInv, ResetRevokes, Present
<1>9. LimitInv'
  BY DEF AccessInv, LimitInv, Blocking
<1>10. ChangeInv'
  <2>1. ~Present(u) /\ ~ActiveAdmin(u)
    BY DEF Present, ActiveAdmin
  <2>2. \A w \in Users : /\ Present(w) => Present(w)' /\ w # u
                         /\ ActiveAdmin(w) => ActiveAdmin(w)' /\ w # u
                         /\ w # u => (ActiveAdmin(w)' => ActiveAdmin(w))
    BY <1>4, <2>1 DEF Present, ActiveAdmin
  <2>3. LastAdminProtected'
    <3>1. CASE admin
      <4>1. ActiveAdmin(u)'
        BY <1>2, <1>4, <1>5, <3>1 DEF ActiveAdmin, Present
      <4> QED
        BY <4>1 DEF LastAdminProtected
    <3>2. CASE \E w \in Users : ActiveAdmin(w)
      BY <2>2, <3>2 DEF LastAdminProtected
    <3> QED
      BY <3>1, <3>2
  <2>4. \A d \in Callers : ChangeOK(d) => ChangeOK(d)'
    <3> SUFFICES ASSUME NEW d \in Callers, ChangeOK(d) PROVE ChangeOK(d)'
      OBVIOUS
    <3>1. CASE visitor[d].step \in HasRead
      <4>1. visitor[d].user \in Users /\ Present(visitor[d].user)
        BY <3>1, VisitorIs DEF AccessInv, HasRead, ChangeOK
      <4>2. /\ account'[visitor[d].user] = account[visitor[d].user]
            /\ ActiveAdmin(visitor[d].user)' => ActiveAdmin(visitor[d].user)
            /\ Another(visitor[d].user) => Another(visitor[d].user)'
        BY <1>4, <2>2, <4>1 DEF Another
      <4> QED
        BY <2>2, <4>1, <4>2 DEF ChangeOK, Loses, NextAdmin, NextDisabled
    <3>2. CASE visitor[d].step \notin HasRead
      BY <3>2 DEF ChangeOK, HasRead
    <3> QED
      BY <3>1, <3>2
  <2> QED
    BY <2>3, <2>4 DEF AccessInv, ChangeInv
<1> QED
  BY <1>6, <1>7, <1>8, <1>9, <1>10 DEF AccessInv

---------------------------------------------------------------------------------
(* The theorems about the accounts. *)

LEMMA AccessInitIs ==
  ASSUME AccessInit
  PROVE  AccessInv
<1>1. visitor = [c \in Callers |-> NoVisitor] /\ overlapped = FALSE
  BY DEF AccessInit
<1>2. ProcessTypeOK /\ 0 \in 0 .. MaxTime /\ 0 \in 0 .. MaxTime + Cooldown
  BY ProcessAssumption, AccessAssumption DEF AccessInit, ProcessInit, ProcessTypeOK
<1>3. NoLimit \in LimitRow
  BY <1>2 DEF NoLimit, LimitRow
<1>4. /\ account \in [Users -> AccountRow]
      /\ \A u \in Users : account[u].password = 0 /\ account[u].disabled = FALSE
  <2>1. ASSUME NEW row \in [state : {"present"}, admin : BOOLEAN, disabled : {FALSE}, password : {0}]
        PROVE  row \in AccountRow /\ row.password = 0 /\ row.disabled = FALSE
    <3>1. /\ row = [state |-> row.state, admin |-> row.admin, disabled |-> row.disabled,
                    password |-> row.password]
          /\ row.state = "present" /\ row.admin \in BOOLEAN /\ row.password = 0
          /\ row.disabled \in {FALSE}
      BY <2>1
    <3>2. row.disabled = FALSE /\ row.disabled \in BOOLEAN
      BY <3>1, Zenon
    <3> QED
      BY <3>1, <3>2 DEF AccountRow
  <2>2. Absent \in AccountRow /\ Absent.password = 0 /\ Absent.disabled = FALSE
    BY NoVisitorIs DEF Absent
  <2> QED
    BY <2>1, <2>2 DEF AccessInit
<1>5. \A s \in sessions : /\ s.user \in Users /\ account[s.user].state = "present" /\ s.password = 0
                          /\ s.raced \in BOOLEAN
  <2> SUFFICES ASSUME NEW s \in sessions
               PROVE  /\ s.user \in Users /\ account[s.user].state = "present" /\ s.password = 0
                      /\ s.raced \in BOOLEAN
    OBVIOUS
  <2>1. PICK u \in Users : Present(u) /\ s = [user |-> u, password |-> 0, raced |-> FALSE]
    BY DEF AccessInit
  <2> QED
    BY <2>1 DEF Present
<1>6. limit \in [Users \cup {"client"} -> LimitRow] /\ limit = [s \in Users \cup {"client"} |-> NoLimit]
  BY <1>3 DEF AccessInit
<1>7. visitor \in [Callers -> VisitorType] /\ \A c \in Callers : visitor[c].step = "idle"
  BY <1>1, NoVisitorIs
<1>8. AccessTypeOK
  <2>1. \A s \in sessions : s.user \in Users /\ s.password \in Nat /\ s.raced \in BOOLEAN
    BY <1>5
  <2>2. overlapped \in BOOLEAN /\ \A c \in Callers : visitor[c].step # "idle" => visitor[c].user \in Users
    BY <1>1, <1>7
  <2> QED
    BY <1>2, <1>4, <1>6, <1>7, <2>1, <2>2 DEF AccessTypeOK, VisitorType, LimitRow
<1>9. KnownAccounts
  BY <1>4, <1>5, <1>7 DEF KnownAccounts
<1>10. ChangeInv
  BY <1>7 DEF AccessInit, ChangeInv, LastAdminProtected, ChangeOK, HasRead
<1>11. ResetRevokes
  BY <1>4, <1>5 DEF ResetRevokes
<1>12. LimitInv
  BY <1>6, NoVisitorIs, AccessAssumption DEF LimitInv
<1> QED
  BY <1>8, <1>9, <1>10, <1>11, <1>12 DEF AccessInv

LEMMA AccessStepKeeps ==
  ASSUME AccessInv, NEW c \in Callers, AccessStep(c)
  PROVE  AccessInv'
BY CheckLimitKeeps, ReadCredentialsKeeps, VerifyPasswordKeeps, InsertSessionKeeps, ClearLimitKeeps,
   CountFailureKeeps, BlockSubjectKeeps, ReadAccountKeeps, CountAdminsKeeps, WriteUpdateKeeps,
   WriteResetKeeps, RevokeSessionsKeeps, DropAccountKeeps DEF AccessStep

LEMMA AccessNextKeeps ==
  ASSUME AccessInv, [AccessNext]_accessVars
  PROVE  AccessInv'
<1>1. ASSUME NEW c \in Callers, AccessStep(c) \/ AccessThrows(c)
      PROVE  AccessInv'
  BY <1>1, AccessStepKeeps, AccessThrowsKeeps
<1>2. ASSUME NEW c \in Callers, NEW u \in Users,
             \/ Login(c, u) \/ UpdateUser(c, u) \/ ResetPassword(c, u)
             \/ DeleteUser(c, u) \/ RevokeUserSessions(c, u)
      PROVE  AccessInv'
  <2>1. PICK step \in {"checkClient", "readUpdate", "readReset", "readDelete", "revokeUpdate"},
             change \in {"none", "promote", "demote", "disable", "enable"} :
          Serve(c, u, step, change)
    BY <1>2 DEF Login, UpdateUser, ResetPassword, DeleteUser, RevokeUserSessions, Change
  <2> QED
    BY <2>1, ServeKeeps
<1>3. ASSUME NEW u \in Users, BootstrapAdmin(u)
      PROVE  AccessInv'
  <2>1. ProcessTypeOK' /\ faults' = faults
    BY <1>3, ProcessStays DEF BootstrapAdmin
  <2> QED
    BY <1>3, <2>1, NewAccountKeeps DEF BootstrapAdmin
<1>4. ASSUME NEW u \in Users, CreateUser(u)
      PROVE  AccessInv'
  <2>1. ProcessTypeOK' /\ faults' = faults
    BY <1>4, AccessFacts, AccessProcessMoves DEF AccessInv, CreateUser, Arrive
  <2>2. \E w \in Users : ActiveAdmin(w)
    BY <1>4, AccessFacts DEF AccessInv, CreateUser, Resolves, ActiveAdmin
  <2> QED
    BY <1>4, <2>1, <2>2, NewAccountKeeps DEF CreateUser
<1>5. CASE EndSession
  BY <1>5, EndSessionKeeps
<1>6. ASSUME UNCHANGED <<account, sessions, limit, visitor, overlapped>>, ProcessTypeOK', faults' = faults
      PROVE  AccessInv'
  <2>1. AccessTypeOK' /\ KnownAccounts'
    BY <1>6 DEF AccessInv, AccessTypeOK, KnownAccounts
  <2>2. ChangeInv'
    BY <1>6 DEF AccessInv, ChangeInv, LastAdminProtected, ChangeOK, Loses, NextAdmin, NextDisabled,
                Another, ActiveAdmin, Present
  <2>3. ResetRevokes' /\ LimitInv'
    BY <1>6 DEF AccessInv, ResetRevokes, Present, LimitInv, Blocking
  <2> QED
    BY <2>1, <2>2, <2>3 DEF AccessInv
<1>7. CASE AccessTick
  <2>1. ProcessTypeOK' /\ faults' = faults
    BY <1>7, AccessFacts, AccessProcessMoves DEF AccessInv, AccessTick, Tick
  <2> QED
    BY <1>6, <1>7, <2>1 DEF AccessTick
<1>8. CASE UNCHANGED accessVars
  BY <1>6, <1>8, ProcessStays DEF accessVars
<1> QED
  BY <1>1, <1>2, <1>3, <1>4, <1>5, <1>7, <1>8 DEF AccessNext

\* The invariant of the accounts holds in every state of every behaviour.
THEOREM AccountsAreSound == AccessSpec => []AccessInv
<1>1. AccessInit => AccessInv
  BY AccessInitIs
<1>2. AccessInv /\ [AccessNext]_accessVars => AccessInv'
  BY AccessNextKeeps
<1> QED
  BY <1>1, <1>2, PTL DEF AccessSpec

\* The types of the accounts, sessions, limits and requests are as declared.
THEOREM AccountsAreTyped == AccessSpec => []AccessTypeOK
<1>1. AccessInv => AccessTypeOK
  BY DEF AccessInv
<1> QED
  BY <1>1, AccountsAreSound, PTL

\* While no account is written between the read of another change and its
\* write, any number of administrators who demote, disable and delete each
\* other leave one who is active.
THEOREM AnAdministratorRemains == AccessSpec => []AdminRemains
<1>1. AccessInv => AdminRemains
  BY DEF AccessInv, ChangeInv, AdminRemains
<1> QED
  BY <1>1, AccountsAreSound, PTL

\* A reset that is through leaves no session of a replaced password, but one
\* whose login had read the account before.
THEOREM ResetsRevoke == AccessSpec => []ResetRevokes
<1>1. AccessInv => ResetRevokes
  BY DEF AccessInv
<1> QED
  BY <1>1, AccountsAreSound, PTL

\* However failures, successes, cooldowns and the retention interleave, a
\* subject whose failures reached the limit is in a cooldown, or the request
\* that is to start it is at it.
THEOREM TheLimitIsEnforced == AccessSpec => []LimitIsEnforced
<1>1. ASSUME AccessInv, NEW s \in Users \cup {"client"}, Blocking(s)
      PROVE  \E c \in Callers : visitor[c].step = IF s = "client" THEN "blockClient" ELSE "blockUser"
  <2>1. PICK c \in Callers : \/ s = "client" /\ visitor[c].step = "blockClient"
                             \/ s = visitor[c].user /\ visitor[c].step = "blockUser"
    BY <1>1 DEF Blocking
  <2>2. visitor[c].step = "blockUser" => visitor[c].user # "client"
    BY <1>1, VisitorIs, AccessAssumption DEF AccessInv
  <2> QED
    BY <2>1, <2>2
<1>2. AccessInv => LimitIsEnforced
  BY <1>1 DEF AccessInv, LimitInv, LimitIsEnforced
<1> QED
  BY <1>2, AccountsAreSound, PTL

---------------------------------------------------------------------------------
(***************************************************************************)
(* The settings. A revision says which write it is, as long as none was    *)
(* stored twice (tied): a request that finds the revision it knows finds   *)
(* the settings it knows (RevisionOK). Then a draft that was committed is  *)
(* left behind for good: its base is not in force, and no application that *)
(* may still roll back would bring it back (Behind); in the same way the   *)
(* change of a draft that is out stays out (Gone).                         *)
(***************************************************************************)

\* An application that has claimed its draft, and one that has committed it.
Holding == {"read", "commit", "refuse", "mark", "revert"}
Done == {"attach", "releaseApplied", "consume", "health", "rollback", "rolledBack",
         "rollbackConflict"}
DraftSteps == {"compare", "outdated", "validate", "snapshot", "claim"} \cup Holding \cup Done

\* From its commit to its rollback, the settings in force may be its own.
Unfinished == {"mark", "attach", "releaseApplied", "consume", "health", "rollback"}
Wrote(c) == editor[c].step \in Unfinished /\ active.by = editor[c].id

\* The settings a draft was made for are not in force, and no rollback brings
\* the settings of the environment back for it.
Behind(d) ==
  /\ active.revision # draft[d].base
  /\ draft[d].base = 0 =>
       \A c \in Callers : Wrote(c) /\ editor[c].draft # d => editor[c].current.revision # 0

\* The change of a draft is not in force, and no rollback brings it back.
Gone(d) == active.a # d /\ \A c \in Callers : Wrote(c) => editor[c].current.a # d

Unseen(d) ==
  active.a # d /\ \A c \in Callers : editor[c].before.a # d /\ editor[c].current.a # d

Sound == ~tied /\ ~stale

ActiveOK ==
  /\ active.by <= requests
  /\ active.revision = 0 => active = Environment

\* What a request knows of itself.
EditorOK(c) ==
  LET e == editor[c]
  IN /\ e.step # "idle" => e.id \in 1 .. requests
     /\ e.step \in DraftSteps => e.draft \in Drafts
     /\ e.step = "snapshot" => e.kind = "apply"
     /\ e.step = "acquire" => /\ e.kind \in {"apply", "put", "sync"}
                              /\ e.kind = "apply" => e.draft \in Drafts
     /\ e.before.revision = 0 => e.before = Environment
     /\ e.current.revision = 0 => e.current = Environment
     /\ e.step \in Unfinished \cup {"putWrite", "putAttach", "putRestore"} => e.revision >= 1

\* ... of its draft.
ClaimOK(c) ==
  LET e == editor[c]
  IN /\ e.step \in Holding => draft[e.draft].status \in {"applying", "conflict"}
     /\ e.step \in Done => draft[e.draft].status = "applied"
     /\ e.step = "revert" => faults > 0
     /\ e.step = "commit" => e.current.revision = draft[e.draft].base

\* ... of the settings in force, as long as no revision is used twice.
RevisionOK(c) ==
  LET e == editor[c]
  IN /\ e.step \in Unfinished /\ active.revision = e.revision => active.by = e.id
     /\ e.step \in {"commit", "syncWrite"} /\ active.revision = e.current.revision => active = e.current
     /\ e.step = "putRestore" => active.revision # e.revision

\* ... of the commits of its draft.
CommitOK(c) ==
  LET e == editor[c]
  IN /\ e.step = "commit" => commits[e.draft].count = 0
     /\ e.step = "read" /\ commits[e.draft].count >= 1 => Behind(e.draft)
     /\ e.step \in Unfinished => e.current.a # e.draft

Apart ==
  \A c, d \in Callers : c # d =>
    /\ editor[c].step # "idle" /\ editor[d].step # "idle" => editor[c].id # editor[d].id
    /\ editor[c].step \in Holding \cup Done /\ editor[d].step \in Holding \cup Done
         => editor[c].draft # editor[d].draft

DraftOK(d) ==
  /\ commits[d].count >= 1 => draft[d].status # "none"
  /\ commits[d].count = 0 => Unseen(d)
SettledDraft(d) ==
  /\ draft[d].status = "applied" =>
       d \in healthy \/ \E c \in Callers : editor[c].step \in Done /\ editor[c].draft = d
  /\ commits[d].count >= 1 => draft[d].status \notin {"draft", "validated", "invalid", "cancelled"}
Once(d) ==
  /\ commits[d].count <= 1
  /\ draft[d].status \in {"draft", "validated", "invalid", "applying"} /\ commits[d].count >= 1 => Behind(d)
Out(d) ==
  \/ draft[d].status = "rolled_back"
  \/ \E c \in Callers : editor[c].step = "rolledBack" /\ editor[c].draft = d

SettingsInv ==
  /\ SettingsTypeOK /\ ActiveOK /\ Apart
  /\ \A c \in Callers : EditorOK(c) /\ ClaimOK(c)
  /\ \A d \in Drafts : DraftOK(d)
  /\ faults + crashes = 0 => \A d \in Drafts : SettledDraft(d)
  /\ ~tied => \A c \in Callers : RevisionOK(c)
  /\ Sound => (\A c \in Callers : CommitOK(c)) /\ \A d \in Drafts : Once(d)
  /\ Sound /\ ~lost => \A d \in Drafts : Out(d) => Gone(d)

SettingsRow ==
  [step : EditorSteps, id : 0 .. MaxRequests, kind : {"none", "apply", "validate", "put", "sync"},
   draft : Drafts \cup {"none"}, before : Settings, current : Settings, revision : Nat,
   attached : BOOLEAN]

---------------------------------------------------------------------------------
(* What the steps do to the request that takes them. *)

LEMMA ProcessGoes ==
  ASSUME ProcessTypeOK, UNCHANGED process \/ Arrive \/ Fault \/ Die \/ Tick
  PROVE  /\ ProcessTypeOK' /\ requests' \in Nat /\ requests' >= requests /\ requests \in Nat
         /\ clock \in Nat /\ faults \in Nat /\ crashes \in Nat
         /\ faults' \in Nat /\ crashes' \in Nat /\ faults' >= faults /\ crashes' >= crashes
         /\ faults' + crashes' = 0 => faults + crashes = 0 /\ ~(faults' > 0)
         /\ faults > 0 => faults' > 0
BY ProcessAssumption DEF ProcessTypeOK, process, Arrive, Fault, Die, Tick

LEMMA EnvironmentIs ==
  /\ Environment \in Settings /\ Environment.revision = 0 /\ Environment.by = 0
  /\ \A d \in Drafts : Environment.a # d
  /\ NoEditor \in SettingsRow /\ NoEditor.step = "idle" /\ NoEditor.id = 0
  /\ NoEditor.before = Environment /\ NoEditor.current = Environment
<1>1. Environment \in Settings
  BY ProcessAssumption DEF Environment, Settings
<1>2. 0 \in 0 .. MaxRequests
  BY ProcessAssumption
<1>3. \A d \in Drafts : Environment.a # d
  BY SettingsAssumption DEF Environment
<1>4. Environment.revision = 0 /\ Environment.by = 0
  BY DEF Environment
<1> HIDE DEF Environment
<1> QED
  BY <1>1, <1>2, <1>3, <1>4 DEF NoEditor, SettingsRow, EditorSteps

\* What the type invariant says of a request.
LEMMA EditorIs ==
  ASSUME SettingsTypeOK, NEW c \in Callers
  PROVE  /\ editor \in [Callers -> SettingsRow] /\ editor[c] \in SettingsRow
         /\ editor[c].step \in EditorSteps /\ editor[c].id \in 0 .. MaxRequests /\ editor[c].id \in Nat
         /\ editor[c].draft \in Drafts \cup {"none"} /\ editor[c].before \in Settings
         /\ editor[c].current \in Settings /\ editor[c].revision \in Nat
         /\ editor[c].before.revision \in Nat /\ editor[c].current.revision \in Nat
<1>1. editor \in [Callers -> SettingsRow]
  BY DEF SettingsTypeOK, SettingsRow
<1>2. editor[c] \in SettingsRow
  BY <1>1
<1>3. /\ editor[c].step \in EditorSteps /\ editor[c].id \in 0 .. MaxRequests
      /\ editor[c].draft \in Drafts \cup {"none"} /\ editor[c].before \in Settings
      /\ editor[c].current \in Settings /\ editor[c].revision \in Nat
  BY <1>2 DEF SettingsRow
<1> QED
  BY <1>1, <1>2, <1>3, ProcessAssumption DEF Settings

\* A request goes on, and is nobody else.
Goes(c) ==
  /\ editor' \in [Callers -> SettingsRow]
  /\ \A d \in Callers \ {c} : editor'[d] = editor[d]
  /\ editor'[c].step # "idle" => editor'[c].id = editor[c].id

\* ... with what it knows,
Knows(c) ==
  /\ editor'[c].id = editor[c].id /\ editor'[c].kind = editor[c].kind
  /\ editor'[c].draft = editor[c].draft /\ editor'[c].before = editor[c].before
  /\ editor'[c].current = editor[c].current /\ editor'[c].revision = editor[c].revision

\* ... or ends, and knows nothing.
Ends(c) ==
  /\ editor'[c].step \in {"idle", "release"} 
  /\ editor'[c].before = Environment /\ editor'[c].current = Environment

LEMMA MoveIs ==
  ASSUME SettingsTypeOK, NEW c \in Callers, NEW step \in EditorSteps, Move(c, step)
  PROVE  /\ Goes(c) /\ editor'[c].step = step
         /\ IF step \in {"idle", "release"} THEN Ends(c) ELSE Knows(c)
<1>1. CASE step = "idle"
  BY <1>1, EnvironmentIs, EditorIs DEF Move, Goes, Ends
<1>2. CASE step = "release"
  <2> DEFINE e == [NoEditor EXCEPT !.step = "release", !.id = editor[c].id]
  <2>1. e \in SettingsRow /\ e.step = "release" /\ e.id = editor[c].id
        /\ e.before = Environment /\ e.current = Environment
    <3> HIDE DEF Environment
    <3>1. editor[c].id \in 0 .. MaxRequests /\ "release" \in EditorSteps /\ Environment \in Settings
      BY EditorIs, EnvironmentIs DEF EditorSteps
    <3> QED
      BY <3>1 DEF NoEditor, SettingsRow
  <2>2. editor' = [editor EXCEPT ![c] = e]
    BY <1>2 DEF Move
  <2> HIDE DEF e
  <2> QED
    BY <1>2, <2>1, <2>2, EditorIs DEF Goes, Ends
<1>3. CASE step \notin {"idle", "release"}
  <2> DEFINE e == [editor[c] EXCEPT !.step = step]
  <2>1. /\ e \in SettingsRow /\ e.step = step /\ e.id = editor[c].id /\ e.kind = editor[c].kind
        /\ e.draft = editor[c].draft /\ e.before = editor[c].before /\ e.current = editor[c].current
        /\ e.revision = editor[c].revision
    BY EditorIs DEF SettingsRow
  <2>2. editor' = [editor EXCEPT ![c] = e]
    BY <1>3 DEF Move
  <2> HIDE DEF e
  <2> QED
    BY <1>3, <2>1, <2>2, EditorIs DEF Goes, Knows
<1> QED
  BY <1>1, <1>2, <1>3

LEMMA RowIs ==
  ASSUME SettingsTypeOK, NEW c \in Callers, NEW e \in SettingsRow, editor' = [editor EXCEPT ![c] = e],
         e.step # "idle" => e.id = editor[c].id
  PROVE  Goes(c) /\ editor'[c] = e
BY EditorIs DEF Goes

---------------------------------------------------------------------------------
(* A step that leaves the settings alone. *)

\* A draft gets a status that the requests about it, and what is known of its
\* commits, allow.
MarkOK(c, d) ==
  LET status == draft'[d].status
  IN /\ draft'[d].base = draft[d].base
     /\ \A x \in Callers \ {c} : editor[x].draft = d =>
          /\ editor[x].step \in Holding => status \in {"applying", "conflict"}
          /\ editor[x].step \in Done => status = "applied"
     /\ status # "none"
     /\ status = "applied" => editor'[c].step \in Done /\ editor'[c].draft = d
     /\ commits[d].count >= 1 =>
          status \notin {"draft", "validated", "invalid", "cancelled"} \/ faults' + crashes' # 0
     /\ Sound /\ status \in {"draft", "validated", "invalid", "applying"} /\ commits[d].count >= 1
          => Behind(d)
     /\ status = "rolled_back" => Out(d)

\* What the others see of a step of c.
SeenOK(c) ==
  /\ editor' \in [Callers -> SettingsRow]
  /\ \A d \in Callers \ {c} : editor'[d] = editor[d]
  /\ editor'[c].step # "idle" => \A d \in Callers \ {c} : editor[d].step # "idle" => editor'[c].id # editor[d].id
  /\ editor'[c].step \in Holding \cup Done =>
       \/ editor[c].step \in Holding \cup Done /\ editor'[c].draft = editor[c].draft
       \/ draft[editor'[c].draft].status = "validated"

LEMMA ApartKeeps ==
  ASSUME Apart, NEW c \in Callers, SeenOK(c), \A d \in Callers : ClaimOK(d)
  PROVE  Apart'
<1> SUFFICES ASSUME NEW x \in Callers, NEW y \in Callers, x # y
             PROVE  /\ editor'[x].step # "idle" /\ editor'[y].step # "idle" => editor'[x].id # editor'[y].id
                    /\ editor'[x].step \in Holding \cup Done /\ editor'[y].step \in Holding \cup Done
                         => editor'[x].draft # editor'[y].draft
  BY DEF Apart
<1>1. ASSUME NEW d \in Callers \ {c}
      PROVE  /\ editor'[c].step # "idle" /\ editor'[d].step # "idle" => editor'[c].id # editor'[d].id
             /\ editor'[c].step \in Holding \cup Done /\ editor'[d].step \in Holding \cup Done
                  => editor'[c].draft # editor'[d].draft
  <2>1. editor[d].step \in Holding \cup Done => draft[editor[d].draft].status # "validated"
    BY DEF ClaimOK
  <2>2. editor'[d] = editor[d]
    BY DEF SeenOK
  <2>3. editor[c].step \in Holding \cup Done /\ editor[d].step \in Holding \cup Done
          => editor[c].draft # editor[d].draft
    BY DEF Apart
  <2> QED
    BY <2>1, <2>2, <2>3 DEF SeenOK
<1>2. CASE x = c
  BY <1>1, <1>2
<1>3. CASE y = c
  BY <1>1, <1>3
<1>4. CASE x # c /\ y # c
  BY <1>4 DEF Apart, SeenOK
<1> QED
  BY <1>2, <1>3, <1>4

LEMMA OtherAccountsKeep ==
  ASSUME NEW c \in Callers, NEW x \in Callers \ {c}, editor'[x] = editor[x], EditorOK(x),
         requests \in Nat, requests' \in Nat, requests' >= requests, editor[x].id \in Nat
  PROVE  EditorOK(x)'
BY DEF EditorOK

\* What its commit allows an application does not grow.
StillWrote(c) ==
  editor'[c].step \in Unfinished =>
    /\ editor[c].step \in Unfinished /\ editor'[c].id = editor[c].id
    /\ editor'[c].draft = editor[c].draft /\ editor'[c].current = editor[c].current

LEMMA BehindStays ==
  ASSUME NEW c \in Callers, active' = active, \A d \in Callers \ {c} : editor'[d] = editor[d],
         StillWrote(c), NEW d \in Drafts, draft'[d].base = draft[d].base
  PROVE  /\ Behind(d) => Behind(d)'
         /\ Gone(d) => Gone(d)'
<1>1. \A x \in Callers : Wrote(x)' => /\ Wrote(x) /\ editor'[x].draft = editor[x].draft
                                      /\ editor'[x].current = editor[x].current
  BY DEF Wrote, StillWrote
<1> QED
  BY <1>1 DEF Behind, Gone

LEMMA ActiveStays ==
  ASSUME SettingsInv, NEW c \in Callers, SettingsTypeOK', active' = active,
         UNCHANGED <<tied, lost, stale>>, healthy \subseteq healthy',
         UNCHANGED process \/ Arrive \/ Fault,
         \A d \in Drafts : commits'[d].count = commits[d].count,
         \A d \in Drafts : draft'[d] = draft[d] \/ MarkOK(c, d),
         SeenOK(c), StillWrote(c),
         editor'[c].before \in {editor[c].before, active, Environment},
         editor'[c].current \in {editor[c].current, active, Environment},
         editor'[c].step # "rolledBack",
         editor[c].step \in Done =>
           \/ editor'[c].step \in Done /\ editor'[c].draft = editor[c].draft
           \/ faults' > 0 \/ editor[c].draft \in healthy'
           \/ draft'[editor[c].draft].status # "applied",
         EditorOK(c)', ClaimOK(c)', ~tied => RevisionOK(c)', Sound => CommitOK(c)'
  PROVE  SettingsInv'
<1>1. /\ requests' \in Nat /\ requests' >= requests /\ requests \in Nat
      /\ faults \in Nat /\ crashes \in Nat /\ faults' \in Nat /\ crashes' \in Nat
      /\ faults' >= faults /\ crashes' >= crashes
      /\ faults' + crashes' = 0 => faults + crashes = 0 /\ ~(faults' > 0)
      /\ faults > 0 => faults' > 0
  BY ProcessGoes DEF SettingsInv, SettingsTypeOK
<1>2. /\ \A d \in Callers \ {c} : editor'[d] = editor[d]
      /\ \A d \in Drafts : draft'[d].base = draft[d].base
  BY DEF SeenOK, MarkOK
<1>3. ActiveOK'
  BY <1>1 DEF SettingsInv, ActiveOK, SettingsTypeOK, Settings
<1>4. Apart'
  BY ApartKeeps DEF SettingsInv
<1>5. \A x \in Callers : EditorOK(x)' /\ ClaimOK(x)'
  <2> SUFFICES ASSUME NEW x \in Callers \ {c} PROVE EditorOK(x)' /\ ClaimOK(x)'
    OBVIOUS
  <2>1. EditorOK(x)'
    BY <1>1, <1>2, EditorIs, OtherAccountsKeep DEF SettingsInv
  <2>2. ClaimOK(x)'
    <3>1. editor[x].step \in Holding \cup Done => editor[x].draft \in Drafts
      BY DEF SettingsInv, EditorOK, DraftSteps
    <3>2. ClaimOK(x) /\ editor'[x] = editor[x] /\ (faults > 0 => faults' > 0)
      BY <1>1, <1>2 DEF SettingsInv
    <3>3. "commit" \in Holding
      BY DEF Holding
    <3> QED
      BY <1>2, <3>1, <3>2, <3>3 DEF ClaimOK, MarkOK
  <2> QED
    BY <2>1, <2>2
<1>6. \A d \in Drafts : DraftOK(d)'
  <2> SUFFICES ASSUME NEW d \in Drafts PROVE DraftOK(d)'
    OBVIOUS
  <2>1. DraftOK(d)
    BY DEF SettingsInv
  <2>2. Unseen(d) => Unseen(d)'
    BY <1>2, EnvironmentIs DEF Unseen
  <2> QED
    BY <2>1, <2>2 DEF DraftOK, MarkOK
<1>7. faults' + crashes' = 0 => \A d \in Drafts : SettledDraft(d)'
  <2> SUFFICES ASSUME faults' + crashes' = 0, NEW d \in Drafts PROVE SettledDraft(d)'
    OBVIOUS
  <2>1. faults + crashes = 0 /\ ~(faults' > 0)
    BY <1>1
  <2>2. SettledDraft(d)
    BY <2>1 DEF SettingsInv
  <2>3. commits'[d].count >= 1 => draft'[d].status \notin {"draft", "validated", "invalid", "cancelled"}
    BY <2>2 DEF SettledDraft, MarkOK
  <2>4. CASE draft'[d] = draft[d]
    <3>1. CASE \E x \in Callers \ {c} : editor[x].step \in Done /\ editor[x].draft = d
      BY <1>2, <2>3, <3>1 DEF SettledDraft
    <3>2. CASE editor[c].step \in Done /\ editor[c].draft = d
      BY <2>1, <2>3, <2>4, <3>2 DEF SettledDraft
    <3> QED
      BY <2>2, <2>3, <2>4, <3>1, <3>2 DEF SettledDraft
  <2>5. CASE MarkOK(c, d)
    BY <2>3, <2>5 DEF SettledDraft, MarkOK
  <2> QED
    BY <2>4, <2>5
<1>8. ~tied' => \A x \in Callers : RevisionOK(x)'
  BY <1>2 DEF SettingsInv, RevisionOK
<1>9. Sound' => (\A x \in Callers : CommitOK(x)') /\ \A d \in Drafts : Once(d)'
  <2> SUFFICES ASSUME Sound PROVE (\A x \in Callers : CommitOK(x)') /\ \A d \in Drafts : Once(d)'
    BY DEF Sound
  <2>1. \A x \in Callers \ {c} : CommitOK(x)'
    <3> SUFFICES ASSUME NEW x \in Callers \ {c} PROVE CommitOK(x)'
      OBVIOUS
    <3>1. CommitOK(x) /\ editor'[x] = editor[x]
      BY <1>2 DEF SettingsInv
    <3>2. editor[x].step \in {"commit", "read"} => editor[x].draft \in Drafts
      BY DEF SettingsInv, EditorOK, DraftSteps, Holding
    <3>3. editor[x].draft \in Drafts => (Behind(editor[x].draft) => Behind(editor[x].draft)')
      BY <1>2, BehindStays DEF Behind
    <3> QED
      BY <3>1, <3>2, <3>3 DEF CommitOK
  <2>2. \A d \in Drafts : Once(d)'
    <3> SUFFICES ASSUME NEW d \in Drafts PROVE Once(d)'
      OBVIOUS
    <3>1. Once(d) /\ (Behind(d) => Behind(d)')
      BY <1>2, BehindStays DEF SettingsInv
    <3> QED
      BY <3>1 DEF Once, MarkOK
  <2> QED
    BY <2>1, <2>2
<1>10. Sound' /\ ~lost' => \A d \in Drafts : Out(d)' => Gone(d)'
  <2> SUFFICES ASSUME Sound, ~lost, NEW d \in Drafts, Out(d)' PROVE Gone(d)'
    BY DEF Sound
  <2>1. Out(d)
    BY <1>2 DEF Out, MarkOK
  <2>2. Gone(d)
    BY <2>1 DEF SettingsInv
  <2> QED
    BY <1>2, <2>2, BehindStays
<1> QED
  BY <1>3, <1>4, <1>5, <1>6, <1>7, <1>8, <1>9, <1>10 DEF SettingsInv

SettingsTypes ==
  /\ draft' \in [Drafts -> [status : {"none", "draft", "validated", "invalid", "applying",
                                      "applied", "conflict", "cancelled", "rolled_back",
                                      "rollback_conflict"},
                            base : Nat]]
  /\ commits' \in [Drafts -> [count : Nat, row : BOOLEAN]]
  /\ source' \in [owner : 0 .. MaxRequests, at : 0 .. MaxTime]
  /\ healthy' \subseteq Drafts

LEMMA TypesStay ==
  ASSUME SettingsTypeOK, UNCHANGED process \/ Arrive \/ Fault, SettingsTypes,
         active' \in Settings, UNCHANGED <<tied, lost, stale>>, editor' \in [Callers -> SettingsRow]
  PROVE  SettingsTypeOK'
<1>1. ProcessTypeOK'
  BY ProcessGoes DEF SettingsTypeOK
<1> QED
  BY <1>1 DEF SettingsTypeOK, SettingsRow, SettingsTypes

LEMMA TypesSame ==
  ASSUME SettingsTypeOK, UNCHANGED <<draft, commits, source, healthy>>
  PROVE  SettingsTypes
BY DEF SettingsTypeOK, SettingsTypes

\* A request that knew something has its own identifier.
LEMMA GoesIsSeen ==
  ASSUME SettingsInv, NEW c \in Callers, editor[c].step # "idle", Goes(c),
         editor'[c].step \in Holding \cup Done =>
           \/ editor[c].step \in Holding \cup Done /\ editor'[c].draft = editor[c].draft
           \/ draft[editor'[c].draft].status = "validated"
  PROVE  SeenOK(c)
BY DEF SettingsInv, Apart, SeenOK, Goes

\* A request that ends, or goes on to release the lock.
LEMMA EndsKeeps ==
  ASSUME SettingsInv, NEW c \in Callers, editor[c].step # "idle", SettingsTypes, active' = active,
         UNCHANGED <<tied, lost, stale>>, healthy \subseteq healthy',
         UNCHANGED process \/ Arrive \/ Fault,
         \A d \in Drafts : commits'[d].count = commits[d].count,
         \A d \in Drafts : draft'[d] = draft[d] \/ MarkOK(c, d),
         NEW step \in {"idle", "release"}, Move(c, step),
         editor[c].step \in Done =>
           \/ faults' > 0 \/ editor[c].draft \in healthy'
           \/ draft'[editor[c].draft].status # "applied"
  PROVE  SettingsInv'
<1>1. Goes(c) /\ editor'[c].step = step /\ Ends(c)
  BY MoveIs DEF SettingsInv, EditorSteps
<1>2. step \notin Holding \cup Done \cup Unfinished \cup DraftSteps
  BY DEF Holding, Done, Unfinished, DraftSteps
<1>3. SeenOK(c) /\ StillWrote(c)
  BY <1>1, <1>2, GoesIsSeen DEF StillWrote
<1>4. SettingsTypeOK'
  BY <1>1, TypesStay DEF SettingsInv, SettingsTypeOK, Goes
<1>5. requests \in Nat /\ requests' \in Nat /\ requests' >= requests
  BY ProcessGoes DEF SettingsInv, SettingsTypeOK
<1>6. EditorOK(c)'
  <2>1. step # "idle" => editor'[c].id = editor[c].id /\ editor[c].id \in 1 .. requests
    BY <1>1 DEF Goes, SettingsInv, EditorOK
  <2> QED
    BY <1>1, <1>2, <1>5, <2>1, EnvironmentIs DEF EditorOK, Ends
<1>7. ClaimOK(c)' /\ RevisionOK(c)' /\ CommitOK(c)'
  BY <1>1, <1>2 DEF ClaimOK, RevisionOK, CommitOK, Holding
<1> QED
  BY <1>1, <1>3, <1>4, <1>6, <1>7, ActiveStays DEF Ends


\* A request that goes on with what it knows, and what is active.
Learns(c) ==
  /\ editor'[c].kind = editor[c].kind /\ editor'[c].draft = editor[c].draft
  /\ editor'[c].before \in {editor[c].before, active}
  /\ editor'[c].current \in {editor[c].current, active}

LEMMA LearnsKeeps ==
  ASSUME SettingsInv, NEW c \in Callers, editor[c].step # "idle", SettingsTypes, active' = active,
         UNCHANGED <<tied, lost, stale>>, healthy \subseteq healthy',
         UNCHANGED process \/ Arrive \/ Fault,
         \A d \in Drafts : commits'[d].count = commits[d].count,
         \A d \in Drafts : draft'[d] = draft[d] \/ MarkOK(c, d),
         NEW step \in EditorSteps, step \notin {"idle", "release", "rolledBack", "snapshot"},
         Goes(c), Learns(c), editor'[c].step = step,
         step \in DraftSteps => editor[c].draft \in Drafts,
         step = "acquire" => /\ editor[c].kind \in {"apply", "put", "sync"}
                             /\ editor[c].kind = "apply" => editor[c].draft \in Drafts,
         step \in Unfinished => /\ editor[c].step \in Unfinished
                                /\ editor'[c].current = editor[c].current
                                /\ editor'[c].revision = editor[c].revision,
         step \in {"putWrite", "putAttach", "putRestore"} => editor'[c].revision >= 1,
         step \in Holding \cup Done =>
           editor[c].step \in Holding \cup Done \/ draft[editor[c].draft].status = "validated",
         editor[c].step \in Done => step \in Done,
         ClaimOK(c)', ~tied => RevisionOK(c)', Sound => CommitOK(c)'
  PROVE  SettingsInv'
<1>1. SeenOK(c) /\ StillWrote(c)
  BY GoesIsSeen DEF StillWrote, Learns, Goes
<1>2. SettingsTypeOK'
  BY TypesStay DEF SettingsInv, SettingsTypeOK, Goes
<1>3. requests \in Nat /\ requests' \in Nat /\ requests' >= requests
  BY ProcessGoes DEF SettingsInv, SettingsTypeOK
<1>4. EditorOK(c)'
  <2>1. EditorOK(c) /\ editor[c].id \in 1 .. requests /\ editor'[c].id = editor[c].id
    BY DEF SettingsInv, EditorOK, Goes
  <2>2. step \in Unfinished => editor'[c].revision >= 1
    BY <2>1 DEF EditorOK
  <2>3. /\ editor'[c].before.revision = 0 => editor'[c].before = Environment
        /\ editor'[c].current.revision = 0 => editor'[c].current = Environment
    BY <2>1 DEF EditorOK, Learns, SettingsInv, ActiveOK
  <2> QED
    BY <1>3, <2>1, <2>2, <2>3 DEF EditorOK, Learns
<1> QED
  BY <1>1, <1>2, <1>4, ActiveStays DEF Learns

LEMMA StepsKnown ==
  ASSUME SettingsInv, NEW c \in Callers
  PROVE  /\ editor[c].step \in DraftSteps => editor[c].draft \in Drafts
         /\ EditorOK(c) /\ ClaimOK(c) /\ (~tied => RevisionOK(c)) /\ (Sound => CommitOK(c))
         /\ SettingsTypeOK /\ ActiveOK
BY DEF SettingsInv, EditorOK

\* At a step without a condition.
LEMMA FreeOK ==
  ASSUME NEW c \in Callers, editor'[c].step \notin Holding \cup Done \cup {"syncWrite", "putRestore"}
  PROVE  ClaimOK(c)' /\ RevisionOK(c)' /\ CommitOK(c)'
BY DEF ClaimOK, RevisionOK, CommitOK, Holding, Done, Unfinished

\* A Move, with nothing else but the lock.
LEMMA MoveKeeps ==
  ASSUME SettingsInv, NEW c \in Callers, editor[c].step # "idle",
         UNCHANGED <<active, draft, commits, healthy, tied, lost, stale>>,
         UNCHANGED process \/ Arrive \/ Fault, source' \in [owner : 0 .. MaxRequests, at : 0 .. MaxTime],
         NEW step \in EditorSteps, Move(c, step),
         step \notin {"rolledBack", "snapshot", "acquire", "putWrite", "putAttach", "commit", "read",
                      "syncWrite"},
         step \in DraftSteps => editor[c].draft \in Drafts,
         step \in Unfinished => editor[c].step \in Unfinished,
         step \in Holding \cup Done => editor[c].step \in Holding \cup Done,
         step \in Done <=> editor[c].step \in Done,
         step = "revert" => faults' > 0,
         step = "putRestore" => editor[c].step = "putAttach" /\ active.revision # editor[c].revision
  PROVE  SettingsInv'
<1>1. SettingsTypes
  BY DEF SettingsInv, SettingsTypeOK, SettingsTypes
<1>2. CASE step \in {"idle", "release"}
  <2>1. editor[c].step \notin Done
    BY <1>2 DEF Done
  <2> QED
    BY <1>1, <1>2, <2>1, EndsKeeps
<1>3. CASE step \notin {"idle", "release"}
  <2>1. Goes(c) /\ editor'[c].step = step /\ Knows(c)
    BY <1>3, MoveIs DEF SettingsInv
  <2>2. Learns(c)
    BY <2>1 DEF Knows, Learns
  <2>3. ClaimOK(c)'
    <3>1. step \in Holding => draft[editor[c].draft].status \in {"applying", "conflict"}
      BY StepsKnown DEF ClaimOK, Holding, Done
    <3>2. step \in Done => draft[editor[c].draft].status = "applied"
      BY StepsKnown DEF ClaimOK, Holding, Done
    <3> QED
      BY <2>1, <3>1, <3>2 DEF ClaimOK, Knows
  <2>4. ~tied => RevisionOK(c)'
    BY <2>1, StepsKnown DEF RevisionOK, Knows
  <2>5. Sound => CommitOK(c)'
    BY <2>1, StepsKnown DEF CommitOK, Knows
  <2>6. step \in {"putWrite", "putAttach", "putRestore"} => editor'[c].revision >= 1
    BY <2>1, StepsKnown DEF EditorOK, Knows
  <2>7. step \in Unfinished => /\ editor[c].step \in Unfinished
                               /\ editor'[c].current = editor[c].current
                               /\ editor'[c].revision = editor[c].revision
    BY <2>1 DEF Knows
  <2> QED
    BY <1>1, <1>3, <2>1, <2>2, <2>3, <2>4, <2>5, <2>6, <2>7, LearnsKeeps
<1> QED
  BY <1>2, <1>3

---------------------------------------------------------------------------------
(* The steps that read, and the lock. *)

LEMMA SettingsFacts ==
  ASSUME SettingsInv
  PROVE  /\ source \in [owner : 0 .. MaxRequests, at : 0 .. MaxTime]
         /\ draft \in [Drafts -> [status : {"none", "draft", "validated", "invalid", "applying",
                                            "applied", "conflict", "cancelled", "rolled_back",
                                            "rollback_conflict"},
                                  base : Nat]]
         /\ commits \in [Drafts -> [count : Nat, row : BOOLEAN]] /\ healthy \subseteq Drafts
         /\ active \in Settings /\ active.revision \in Nat /\ clock \in 0 .. MaxTime /\ clock \in Nat
         /\ tied \in BOOLEAN /\ lost \in BOOLEAN /\ stale \in BOOLEAN
         /\ \A d \in Drafts : draft[d].base \in Nat /\ commits[d].count \in Nat
<1>1. /\ draft \in [Drafts -> [status : {"none", "draft", "validated", "invalid", "applying",
                                         "applied", "conflict", "cancelled", "rolled_back",
                                         "rollback_conflict"},
                               base : Nat]]
      /\ commits \in [Drafts -> [count : Nat, row : BOOLEAN]]
  BY DEF SettingsInv, SettingsTypeOK
<1>2. \A d \in Drafts : draft[d].base \in Nat /\ commits[d].count \in Nat
  BY <1>1
<1> QED
  BY <1>1, <1>2, ProcessAssumption DEF SettingsInv, SettingsTypeOK, ProcessTypeOK, Settings

LEMMA LockSourceKeeps ==
  ASSUME SettingsInv, NEW c \in Callers, LockSource(c)
  PROVE  SettingsInv'
<1>1. /\ editor[c].step = "acquire" /\ UNCHANGED <<active, draft, commits, healthy, tied, lost, stale>>
      /\ UNCHANGED process
  BY DEF LockSource, At, ghosts
<1>2. CASE source' = [owner |-> editor[c].id, at |-> clock] /\ Move(c, FirstStep[editor[c].kind])
  <2>1. /\ source' \in [owner : 0 .. MaxRequests, at : 0 .. MaxTime]
        /\ editor[c].kind \in {"apply", "put", "sync"}
        /\ editor[c].kind = "apply" => editor[c].draft \in Drafts
    <3>1. editor[c].id \in 0 .. MaxRequests /\ clock \in 0 .. MaxTime
      BY EditorIs, SettingsFacts DEF SettingsInv
    <3>2. EditorOK(c)
      BY StepsKnown
    <3>3. source' \in [owner : 0 .. MaxRequests, at : 0 .. MaxTime]
      BY <1>2, <3>1
    <3>4. /\ editor[c].kind \in {"apply", "put", "sync"}
          /\ editor[c].kind = "apply" => editor[c].draft \in Drafts
      BY <1>1, <3>2 DEF EditorOK
    <3> QED
      BY <3>3, <3>4
  <2>2. PICK step \in {"claim", "putBefore", "syncRead"} :
          FirstStep[editor[c].kind] = step /\ (step = "claim" => editor[c].draft \in Drafts)
    BY <2>1 DEF FirstStep
  <2>3. /\ step \in EditorSteps /\ step \notin Unfinished \cup Holding \cup Done
        /\ editor[c].step \notin Done
        /\ step # "claim" => step \notin DraftSteps
    BY <1>1 DEF EditorSteps, Locked, Unfinished, Holding, Done, DraftSteps
  <2> QED
    BY <1>1, <1>2, <2>1, <2>2, <2>3, MoveKeeps
<1>3. CASE source' = source /\ Move(c, "idle")
  BY <1>1, <1>3, SettingsFacts, MoveKeeps DEF EditorSteps, Unfinished, Holding, Done, DraftSteps
<1> QED
  BY <1>2, <1>3 DEF LockSource

LEMMA UnlockSourceKeeps ==
  ASSUME SettingsInv, NEW c \in Callers, UnlockSource(c)
  PROVE  SettingsInv'
<1> DEFINE step == IF At(c, "release") THEN "idle" ELSE "consume"
<1>1. /\ editor[c].step \in {"release", "releaseApplied"}
      /\ UNCHANGED <<active, draft, commits, healthy, tied, lost, stale>> /\ UNCHANGED process
      /\ Move(c, step)
  BY DEF UnlockSource, ghosts
<1>2. source' \in [owner : 0 .. MaxRequests, at : 0 .. MaxTime]
  BY SettingsFacts, ProcessAssumption DEF UnlockSource
<1>3. /\ step \in EditorSteps /\ step \in {"idle", "consume"}
      /\ step \in DraftSteps => editor[c].draft \in Drafts
      /\ step \in Unfinished => editor[c].step \in Unfinished
      /\ step \in Holding \cup Done => editor[c].step \in Holding \cup Done
      /\ step \in Done <=> editor[c].step \in Done
  BY <1>1, StepsKnown DEF EditorSteps, At, DraftSteps, Unfinished, Holding, Done
<1> QED
  BY <1>1, <1>2, <1>3, MoveKeeps

LEMMA CompareRevisionKeeps ==
  ASSUME SettingsInv, NEW c \in Callers, CompareRevision(c)
  PROVE  SettingsInv'
<1> DEFINE step == IF active.revision = draft[editor[c].draft].base THEN "validate" ELSE "outdated"
<1>1. /\ editor[c].step = "compare" /\ Move(c, step)
      /\ UNCHANGED <<active, draft, commits, source, healthy, tied, lost, stale>> /\ UNCHANGED process
  BY DEF CompareRevision, At, rows, ghosts
<1>2. /\ step \in EditorSteps /\ step \in {"validate", "outdated"} /\ editor[c].draft \in Drafts
      /\ step \notin Unfinished \cup Holding \cup Done /\ editor[c].step \notin Done
  BY <1>1, StepsKnown DEF EditorSteps, DraftSteps, Unfinished, Holding, Done
<1> QED
  BY <1>1, <1>2, SettingsFacts, MoveKeeps

LEMMA PutAttachKeeps ==
  ASSUME SettingsInv, NEW c \in Callers, PutAttach(c)
  PROVE  SettingsInv'
<1> DEFINE step == IF active.revision = editor[c].revision THEN "release" ELSE "putRestore"
<1>1. /\ editor[c].step = "putAttach" /\ Move(c, step)
      /\ UNCHANGED <<active, draft, commits, source, healthy, tied, lost, stale>> /\ UNCHANGED process
  BY DEF PutAttach, At, rows, ghosts
<1>2. /\ step \in EditorSteps /\ step \in {"release", "putRestore"}
      /\ step \notin DraftSteps \cup Unfinished \cup Holding \cup Done /\ editor[c].step \notin Done
  BY <1>1, StepsKnown DEF EditorSteps, Locked, DraftSteps, Unfinished, Holding, Done
<1>3. step = "putRestore" => active.revision # editor[c].revision
  OBVIOUS
<1> QED
  BY <1>1, <1>2, <1>3, SettingsFacts, MoveKeeps


\* What a request that reads keeps of what it knows.
LEMMA ReadIs ==
  ASSUME SettingsInv, NEW c \in Callers, NEW e \in SettingsRow,
         editor' = [editor EXCEPT ![c] = e],
         e.id = editor[c].id, e.kind = editor[c].kind, e.draft = editor[c].draft,
         e.before \in {editor[c].before, active}, e.current \in {editor[c].current, active}
  PROVE  Goes(c) /\ Learns(c) /\ editor'[c] = e
BY RowIs DEF SettingsInv, Learns

LEMMA SnapshotKeeps ==
  ASSUME SettingsInv, NEW c \in Callers, Snapshot(c)
  PROVE  SettingsInv'
<1> DEFINE e == [editor[c] EXCEPT !.step = "acquire", !.before = active]
<1>1. /\ editor[c].step = "snapshot" /\ editor' = [editor EXCEPT ![c] = e] /\ UNCHANGED process
      /\ UNCHANGED <<active, draft, commits, source, healthy, tied, lost, stale>>
  BY DEF Snapshot, At, rows, ghosts
<1>2. "acquire" \in EditorSteps /\ "snapshot" \in DraftSteps /\ active \in Settings
  BY SettingsFacts DEF EditorSteps, DraftSteps
<1>3. /\ e \in SettingsRow /\ e.step = "acquire" /\ e.id = editor[c].id /\ e.kind = editor[c].kind
      /\ e.draft = editor[c].draft /\ e.before = active /\ e.current = editor[c].current
  BY <1>2, EditorIs DEF SettingsInv, SettingsRow
<1> HIDE DEF e
<1>4. Goes(c) /\ Learns(c) /\ editor'[c] = e
  BY <1>1, <1>3, ReadIs
<1>5. /\ "acquire" \notin DraftSteps \cup Unfinished \cup Holding \cup Done \cup {"syncWrite", "putRestore"}
      /\ editor[c].step \notin Done
  BY <1>1 DEF DraftSteps, Unfinished, Holding, Done
<1>6. editor[c].kind = "apply" /\ editor[c].draft \in Drafts
  BY <1>1, <1>2, StepsKnown DEF EditorOK
<1> QED
  BY <1>1, <1>2, <1>3, <1>4, <1>5, <1>6, FreeOK, TypesSame, LearnsKeeps DEF SettingsInv

LEMMA PutBeforeKeeps ==
  ASSUME SettingsInv, NEW c \in Callers, PutBefore(c)
  PROVE  SettingsInv'
<1> DEFINE e == [editor[c] EXCEPT !.step = "putRead", !.before = active]
<1>1. /\ editor[c].step = "putBefore" /\ editor' = [editor EXCEPT ![c] = e] /\ UNCHANGED process
      /\ UNCHANGED <<active, draft, commits, source, healthy, tied, lost, stale>>
  BY DEF PutBefore, At, rows, ghosts
<1>2. "putRead" \in EditorSteps /\ active \in Settings
  BY SettingsFacts DEF EditorSteps, Locked
<1>3. /\ e \in SettingsRow /\ e.step = "putRead" /\ e.id = editor[c].id /\ e.kind = editor[c].kind
      /\ e.draft = editor[c].draft /\ e.before = active /\ e.current = editor[c].current
  BY <1>2, EditorIs DEF SettingsInv, SettingsRow
<1> HIDE DEF e
<1>4. Goes(c) /\ Learns(c) /\ editor'[c] = e
  BY <1>1, <1>3, ReadIs
<1>5. /\ "putRead" \notin DraftSteps \cup Unfinished \cup Holding \cup Done \cup {"syncWrite", "putRestore"}
      /\ editor[c].step \notin Done
  BY <1>1 DEF DraftSteps, Unfinished, Holding, Done
<1> QED
  BY <1>1, <1>2, <1>3, <1>4, <1>5, FreeOK, TypesSame, LearnsKeeps DEF SettingsInv

LEMMA PutReadKeeps ==
  ASSUME SettingsInv, NEW c \in Callers, PutRead(c)
  PROVE  SettingsInv'
<1> DEFINE e == [editor[c] EXCEPT !.step = "putWrite", !.current = active, !.revision = Now]
<1>1. /\ editor[c].step = "putRead" /\ editor' = [editor EXCEPT ![c] = e] /\ UNCHANGED process
      /\ UNCHANGED <<active, draft, commits, source, healthy, tied, lost, stale>>
  BY DEF PutRead, At, rows, ghosts
<1>2. "putWrite" \in EditorSteps /\ active \in Settings /\ Now \in Nat /\ Now >= 1
  BY SettingsFacts DEF EditorSteps, Locked, Now
<1>3. /\ e \in SettingsRow /\ e.step = "putWrite" /\ e.id = editor[c].id /\ e.kind = editor[c].kind
      /\ e.draft = editor[c].draft /\ e.before = editor[c].before /\ e.current = active
      /\ e.revision = Now
  BY <1>2, EditorIs DEF SettingsInv, SettingsRow
<1> HIDE DEF e
<1>4. Goes(c) /\ Learns(c) /\ editor'[c] = e
  BY <1>1, <1>3, ReadIs
<1>5. /\ "putWrite" \notin DraftSteps \cup Unfinished \cup Holding \cup Done \cup {"syncWrite", "putRestore"}
      /\ editor[c].step \notin Done
  BY <1>1 DEF DraftSteps, Unfinished, Holding, Done
<1> QED
  BY <1>1, <1>2, <1>3, <1>4, <1>5, FreeOK, TypesSame, LearnsKeeps DEF SettingsInv

LEMMA SyncReadKeeps ==
  ASSUME SettingsInv, NEW c \in Callers, SyncRead(c)
  PROVE  SettingsInv'
<1> DEFINE e == [editor[c] EXCEPT !.step = "syncWrite", !.current = active]
<1>1. /\ editor[c].step = "syncRead" /\ UNCHANGED process
      /\ UNCHANGED <<active, draft, commits, source, healthy, tied, lost, stale>>
  BY DEF SyncRead, At, rows, ghosts
<1>2. "syncWrite" \in EditorSteps /\ "release" \in EditorSteps /\ active \in Settings
  BY SettingsFacts DEF EditorSteps, Locked
<1>3. CASE editor' = [editor EXCEPT ![c] = e]
  <2>1. /\ e \in SettingsRow /\ e.step = "syncWrite" /\ e.id = editor[c].id /\ e.kind = editor[c].kind
        /\ e.draft = editor[c].draft /\ e.before = editor[c].before /\ e.current = active
    BY <1>2, EditorIs DEF SettingsInv, SettingsRow
  <2> HIDE DEF e
  <2>2. Goes(c) /\ Learns(c) /\ editor'[c] = e
    BY <1>3, <2>1, ReadIs
  <2>3. /\ "syncWrite" \notin DraftSteps \cup Unfinished \cup Holding \cup Done
        /\ editor[c].step \notin Done
    BY <1>1 DEF DraftSteps, Unfinished, Holding, Done
  <2>4. ClaimOK(c)' /\ RevisionOK(c)' /\ CommitOK(c)'
    BY <1>1, <2>1, <2>2, <2>3 DEF ClaimOK, RevisionOK, CommitOK, Holding
  <2> QED
    BY <1>1, <1>2, <2>1, <2>2, <2>3, <2>4, TypesSame, LearnsKeeps DEF SettingsInv
<1>4. CASE Move(c, "release")
  BY <1>1, <1>2, <1>4, SettingsFacts, MoveKeeps DEF DraftSteps, Unfinished, Holding, Done
<1> QED
  BY <1>3, <1>4 DEF SyncRead

\* A draft that was committed is not committed to what it was made for.
LEMMA ReadActiveKeeps ==
  ASSUME SettingsInv, NEW c \in Callers, ReadActive(c)
  PROVE  SettingsInv'
<1> DEFINE e == [editor[c] EXCEPT !.step = "commit", !.current = active]
<1>1. /\ editor[c].step = "read" /\ UNCHANGED process
      /\ UNCHANGED <<active, draft, commits, source, healthy, tied, lost, stale>>
  BY DEF ReadActive, At, rows, ghosts
<1>2. "commit" \in EditorSteps /\ "refuse" \in EditorSteps /\ active \in Settings
  BY SettingsFacts DEF EditorSteps
<1>3. /\ editor[c].draft \in Drafts /\ draft[editor[c].draft].status \in {"applying", "conflict"}
      /\ editor[c].step \in Holding /\ editor[c].step \notin Done
  BY <1>1, StepsKnown DEF DraftSteps, ClaimOK, Holding, Done
<1>4. CASE active.revision = draft[editor[c].draft].base /\ editor' = [editor EXCEPT ![c] = e]
  <2>1. /\ e \in SettingsRow /\ e.step = "commit" /\ e.id = editor[c].id /\ e.kind = editor[c].kind
        /\ e.draft = editor[c].draft /\ e.before = editor[c].before /\ e.current = active
    BY <1>2, EditorIs DEF SettingsInv, SettingsRow
  <2> HIDE DEF e
  <2>2. Goes(c) /\ Learns(c) /\ editor'[c] = e
    BY <1>4, <2>1, ReadIs
  <2>3. "commit" \in Holding /\ "commit" \notin Unfinished \cup Done
    BY DEF Unfinished, Holding, Done
  <2>4. ClaimOK(c)'
    BY <1>1, <1>3, <1>4, <2>1, <2>2, <2>3 DEF ClaimOK
  <2>5. RevisionOK(c)'
    BY <1>1, <2>1, <2>2, <2>3 DEF RevisionOK
  <2>6. Sound => CommitOK(c)'
    <3>1. Sound => ~(commits[editor[c].draft].count >= 1)
      BY <1>1, <1>4, StepsKnown DEF CommitOK, Behind
    <3>2. Sound => commits[editor[c].draft].count = 0
      BY <1>3, <3>1, SettingsFacts
    <3> QED
      BY <1>1, <2>1, <2>2, <2>3, <3>2 DEF CommitOK
  <2> QED
    BY <1>1, <1>2, <1>3, <2>1, <2>2, <2>3, <2>4, <2>5, <2>6, TypesSame, LearnsKeeps DEF SettingsInv
<1>5. CASE Move(c, "refuse")
  BY <1>1, <1>2, <1>3, <1>5, SettingsFacts, MoveKeeps DEF Unfinished, Holding, Done
<1> QED
  BY <1>4, <1>5 DEF ReadActive

LEMMA AttachOverridesKeeps ==
  ASSUME SettingsInv, NEW c \in Callers, AttachOverrides(c)
  PROVE  SettingsInv'
<1> DEFINE attached == active.revision = editor[c].revision
           e == [editor[c] EXCEPT !.step = "releaseApplied", !.attached = attached]
<1>1. /\ editor[c].step = "attach" /\ editor' = [editor EXCEPT ![c] = e] /\ UNCHANGED process
      /\ UNCHANGED <<active, draft, commits, source, healthy, tied, lost, stale>>
  BY DEF AttachOverrides, At, rows, ghosts
<1>2. "releaseApplied" \in EditorSteps /\ attached \in BOOLEAN
  BY DEF EditorSteps
<1> HIDE DEF attached
<1>3. /\ e \in SettingsRow /\ e.step = "releaseApplied" /\ e.id = editor[c].id
      /\ e.kind = editor[c].kind /\ e.draft = editor[c].draft /\ e.before = editor[c].before
      /\ e.current = editor[c].current /\ e.revision = editor[c].revision
  BY <1>2, EditorIs DEF SettingsInv, SettingsRow
<1> HIDE DEF e
<1>4. Goes(c) /\ Learns(c) /\ editor'[c] = e
  BY <1>1, <1>3, ReadIs
<1>5. /\ "releaseApplied" \in Unfinished /\ "releaseApplied" \in Done /\ "releaseApplied" \notin Holding
      /\ editor[c].step \in Unfinished /\ editor[c].step \in Done /\ editor[c].step \in DraftSteps
  BY <1>1 DEF DraftSteps, Unfinished, Holding, Done
<1>6. editor[c].draft \in Drafts
  BY <1>5, StepsKnown
<1>7. ClaimOK(c)'
  BY <1>1, <1>3, <1>4, <1>5, StepsKnown DEF ClaimOK
<1>8. ~tied => RevisionOK(c)'
  BY <1>1, <1>3, <1>4, <1>5, StepsKnown DEF RevisionOK
<1>9. Sound => CommitOK(c)'
  BY <1>1, <1>3, <1>4, <1>5, StepsKnown DEF CommitOK
<1> QED
  BY <1>1, <1>2, <1>3, <1>4, <1>5, <1>6, <1>7, <1>8, <1>9, TypesSame, LearnsKeeps DEF SettingsInv

---------------------------------------------------------------------------------
(* The steps that write the status of a draft. *)

DraftStatuses == {"none", "draft", "validated", "invalid", "applying", "applied", "conflict", "cancelled",
             "rolled_back", "rollback_conflict"}

LEMMA MarkIs ==
  ASSUME SettingsInv, NEW k \in Drafts, NEW status \in DraftStatuses, Mark(k, status)
  PROVE  /\ draft' \in [Drafts -> [status : DraftStatuses, base : Nat]]
         /\ \A d \in Drafts \ {k} : draft'[d] = draft[d]
         /\ draft'[k].status = status /\ draft'[k].base = draft[k].base
         /\ \A d \in Drafts : draft'[d].base = draft[d].base
<1> DEFINE row == [draft[k] EXCEPT !.status = status]
<1>1. draft \in [Drafts -> [status : DraftStatuses, base : Nat]]
  BY SettingsFacts DEF DraftStatuses
<1>2. draft[k] \in [status : DraftStatuses, base : Nat]
  BY <1>1
<1>3. row \in [status : DraftStatuses, base : Nat] /\ row.status = status /\ row.base = draft[k].base
  BY <1>2
<1>4. draft' = [draft EXCEPT ![k] = row]
  BY DEF Mark
<1> HIDE DEF row
<1> QED
  BY <1>1, <1>3, <1>4

LEMMA MarkTypes ==
  ASSUME SettingsInv, draft' \in [Drafts -> [status : DraftStatuses, base : Nat]],
         UNCHANGED <<commits, source, healthy>>
  PROVE  SettingsTypes
BY SettingsFacts DEF SettingsTypes, DraftStatuses

\* Nobody else holds the draft of an application.
LEMMA AccountAlone ==
  ASSUME SettingsInv, NEW c \in Callers, editor[c].step \in Holding \cup Done, NEW x \in Callers \ {c},
         editor[x].draft = editor[c].draft
  PROVE  editor[x].step \notin Holding \cup Done
BY DEF SettingsInv, Apart

\* A status that nobody who holds the draft minds, and that is not of a draft
\* that is still to be applied.
LEMMA EndMarkOK ==
  ASSUME SettingsInv, NEW c \in Callers, NEW d \in Drafts, draft'[d].base = draft[d].base,
         draft'[d].status \in {"conflict", "rolled_back", "rollback_conflict"},
         \A x \in Callers \ {c} : editor[x].draft = d =>
           /\ editor[x].step \in Holding => draft'[d].status = "conflict"
           /\ editor[x].step \notin Done,
         draft'[d].status = "rolled_back" => Out(d)
  PROVE  MarkOK(c, d)
BY DEF MarkOK

LEMMA MarkOutdatedKeeps ==
  ASSUME SettingsInv, NEW c \in Callers, MarkOutdated(c)
  PROVE  SettingsInv'
<1> DEFINE k == editor[c].draft
<1>1. /\ editor[c].step = "outdated" /\ Move(c, "idle") /\ UNCHANGED process
      /\ UNCHANGED <<active, commits, source, healthy, tied, lost, stale>>
  BY DEF MarkOutdated, At, ghosts
<1>2. k \in Drafts /\ editor[c].step \notin Done /\ "idle" \in EditorSteps
  BY <1>1, StepsKnown DEF DraftSteps, Done, EditorSteps
<1>3. CASE draft' = draft
  BY <1>1, <1>2, <1>3, TypesSame, EndsKeeps DEF SettingsInv
<1>4. CASE draft[k].status \notin {"applied", "cancelled"} /\ Mark(k, "conflict")
  <2>1. "conflict" \in DraftStatuses
    BY DEF DraftStatuses
  <2>2. /\ draft' \in [Drafts -> [status : DraftStatuses, base : Nat]]
        /\ \A d \in Drafts \ {k} : draft'[d] = draft[d]
        /\ draft'[k].status = "conflict" /\ draft'[k].base = draft[k].base
    BY <1>2, <1>4, <2>1, MarkIs
  <2>3. \A x \in Callers : editor[x].step \in Done => editor[x].draft # k
    BY <1>4, StepsKnown DEF ClaimOK
  <2>4. MarkOK(c, k)
    BY <1>2, <2>2, <2>3, EndMarkOK
  <2> QED
    BY <1>1, <1>2, <2>2, <2>4, MarkTypes, EndsKeeps
<1> QED
  BY <1>3, <1>4 DEF MarkOutdated

LEMMA StoreValidationKeeps ==
  ASSUME SettingsInv, NEW c \in Callers, StoreValidation(c)
  PROVE  SettingsInv'
<1> DEFINE k == editor[c].draft
<1>1. /\ editor[c].step = "validate" /\ Move(c, "idle") /\ UNCHANGED process
      /\ UNCHANGED <<active, commits, source, healthy, tied, lost, stale>>
  BY DEF StoreValidation, At, ghosts
<1>2. k \in Drafts /\ editor[c].step \notin Done /\ "idle" \in EditorSteps
  BY <1>1, StepsKnown DEF DraftSteps, Done, EditorSteps
<1>3. CASE draft' = draft
  BY <1>1, <1>2, <1>3, TypesSame, EndsKeeps DEF SettingsInv
<1>4. CASE /\ draft[k].status \in {"draft", "invalid", "validated"}
           /\ \E status \in {"validated", "invalid"} : Mark(k, status)
  <2>1. PICK status \in {"validated", "invalid"} : Mark(k, status)
    BY <1>4
  <2>2. status \in DraftStatuses
    BY DEF DraftStatuses
  <2>3. /\ draft' \in [Drafts -> [status : DraftStatuses, base : Nat]]
        /\ \A d \in Drafts \ {k} : draft'[d] = draft[d]
        /\ draft'[k].status = status /\ draft'[k].base = draft[k].base
    BY <1>2, <2>1, <2>2, MarkIs
  <2>4. \A x \in Callers : editor[x].step \in Holding \cup Done => editor[x].draft # k
    BY <1>4, StepsKnown DEF ClaimOK
  <2>5. commits[k].count >= 1 => faults' + crashes' # 0
    <3>1. commits[k].count >= 1 => faults + crashes # 0
      BY <1>2, <1>4 DEF SettingsInv, SettledDraft
    <3> QED
      BY <1>1, <3>1 DEF process
  <2>6. Sound /\ commits[k].count >= 1 => Behind(k)
    BY <1>2, <1>4 DEF SettingsInv, Once
  <2>7. MarkOK(c, k)
    BY <2>3, <2>4, <2>5, <2>6 DEF MarkOK
  <2> QED
    BY <1>1, <1>2, <2>3, <2>7, MarkTypes, EndsKeeps
<1> QED
  BY <1>3, <1>4 DEF StoreValidation

LEMMA ClaimDraftKeeps ==
  ASSUME SettingsInv, NEW c \in Callers, ClaimDraft(c)
  PROVE  SettingsInv'
<1> DEFINE k == editor[c].draft
<1>1. /\ editor[c].step = "claim" /\ UNCHANGED process
      /\ UNCHANGED <<active, commits, source, healthy, tied, lost, stale>>
  BY DEF ClaimDraft, At, ghosts
<1>2. /\ k \in Drafts /\ editor[c].step \notin Done \cup Holding \cup Unfinished
      /\ "read" \in EditorSteps /\ "release" \in EditorSteps
  BY <1>1, StepsKnown DEF DraftSteps, Done, Holding, Unfinished, EditorSteps
<1>3. CASE draft' = draft /\ Move(c, "release")
  BY <1>1, <1>2, <1>3, TypesSame, EndsKeeps DEF SettingsInv
<1>4. CASE draft[k].status = "validated" /\ Mark(k, "applying") /\ Move(c, "read")
  <2>1. "applying" \in DraftStatuses
    BY DEF DraftStatuses
  <2>2. /\ draft' \in [Drafts -> [status : DraftStatuses, base : Nat]]
        /\ \A d \in Drafts \ {k} : draft'[d] = draft[d]
        /\ draft'[k].status = "applying" /\ draft'[k].base = draft[k].base
    BY <1>2, <1>4, <2>1, MarkIs
  <2>3. \A x \in Callers : editor[x].step \in Holding \cup Done => editor[x].draft # k
    BY <1>4, StepsKnown DEF ClaimOK
  <2>4. Sound /\ commits[k].count >= 1 => Behind(k)
    BY <1>2, <1>4 DEF SettingsInv, Once
  <2>5. MarkOK(c, k)
    BY <2>2, <2>3, <2>4 DEF MarkOK
  <2>6. Goes(c) /\ editor'[c].step = "read" /\ Knows(c) /\ Learns(c)
    BY <1>2, <1>4, MoveIs DEF SettingsInv, Knows, Learns
  <2>7. "read" \in Holding /\ "read" \in DraftSteps /\ "read" \notin Unfinished \cup Done
    BY DEF Holding, Unfinished, Done, DraftSteps
  <2>8. ClaimOK(c)' /\ RevisionOK(c)'
    BY <2>2, <2>6, <2>7 DEF ClaimOK, RevisionOK, Knows
  <2>9. Sound => CommitOK(c)'
    <3>1. StillWrote(c)
      BY <2>6, <2>7 DEF StillWrote
    <3>2. PICK d \in Drafts : d = k
      BY <1>2
    <3>3. Behind(d) => Behind(d)'
      BY <1>1, <2>2, <2>6, <3>1, <3>2, BehindStays DEF Goes
    <3>4. editor'[c].draft = d /\ commits' = commits
      BY <1>1, <2>6, <3>2 DEF Knows
    <3> QED
      BY <2>4, <2>6, <2>7, <3>2, <3>3, <3>4 DEF CommitOK
  <2> QED
    BY <1>1, <1>2, <1>4, <2>2, <2>5, <2>6, <2>7, <2>8, <2>9, MarkTypes, LearnsKeeps
<1> QED
  BY <1>3, <1>4 DEF ClaimDraft

LEMMA RefuseDraftKeeps ==
  ASSUME SettingsInv, NEW c \in Callers, RefuseDraft(c)
  PROVE  SettingsInv'
<1> DEFINE k == editor[c].draft
<1>1. /\ editor[c].step = "refuse" /\ Mark(k, "conflict") /\ Move(c, "release") /\ UNCHANGED process
      /\ UNCHANGED <<active, commits, source, healthy, tied, lost, stale>>
  BY DEF RefuseDraft, At, ghosts
<1>2. /\ k \in Drafts /\ editor[c].step \in Holding /\ editor[c].step \notin Done
      /\ "release" \in EditorSteps /\ "conflict" \in DraftStatuses
  BY <1>1, StepsKnown DEF DraftSteps, Done, Holding, EditorSteps, DraftStatuses
<1>3. /\ draft' \in [Drafts -> [status : DraftStatuses, base : Nat]]
      /\ \A d \in Drafts \ {k} : draft'[d] = draft[d]
      /\ draft'[k].status = "conflict" /\ draft'[k].base = draft[k].base
  BY <1>1, <1>2, MarkIs
<1>4. MarkOK(c, k)
  BY <1>2, <1>3, AccountAlone, EndMarkOK
<1> QED
  BY <1>1, <1>2, <1>3, <1>4, MarkTypes, EndsKeeps

LEMMA MarkRolledBackKeeps ==
  ASSUME SettingsInv, NEW c \in Callers, MarkRolledBack(c)
  PROVE  SettingsInv'
<1> DEFINE k == editor[c].draft
           status == IF At(c, "rolledBack") THEN "rolled_back" ELSE "rollback_conflict"
<1>1. /\ editor[c].step \in {"rolledBack", "rollbackConflict"} /\ Mark(k, status) /\ Move(c, "idle")
      /\ UNCHANGED process /\ UNCHANGED <<active, commits, source, healthy, tied, lost, stale>>
  BY DEF MarkRolledBack, ghosts
<1>2. /\ k \in Drafts /\ editor[c].step \in Done /\ "idle" \in EditorSteps
      /\ status \in DraftStatuses /\ status \in {"rolled_back", "rollback_conflict"}
  BY <1>1, StepsKnown DEF DraftSteps, Done, EditorSteps, DraftStatuses
<1>3. status = "rolled_back" => Out(k)
  BY DEF Out, At
<1> HIDE DEF status
<1>4. /\ draft' \in [Drafts -> [status : DraftStatuses, base : Nat]]
      /\ \A d \in Drafts \ {k} : draft'[d] = draft[d]
      /\ draft'[k].status = status /\ draft'[k].base = draft[k].base
  BY <1>1, <1>2, MarkIs
<1>5. MarkOK(c, k)
  BY <1>2, <1>3, <1>4, AccountAlone, EndMarkOK
<1> QED
  BY <1>1, <1>2, <1>4, <1>5, MarkTypes, EndsKeeps

LEMMA MarkAppliedKeeps ==
  ASSUME SettingsInv, NEW c \in Callers, MarkApplied(c)
  PROVE  SettingsInv'
<1> DEFINE k == editor[c].draft
<1>1. /\ editor[c].step = "mark" /\ Mark(k, "applied") /\ Move(c, "attach") /\ UNCHANGED process
      /\ UNCHANGED <<active, commits, source, healthy, tied, lost, stale>>
  BY DEF MarkApplied, At, ghosts
<1>2. /\ k \in Drafts /\ editor[c].step \in Holding /\ editor[c].step \in Unfinished
      /\ editor[c].step \notin Done /\ "attach" \in EditorSteps /\ "applied" \in DraftStatuses
      /\ "attach" \in Done /\ "attach" \in Unfinished /\ "attach" \notin Holding
  BY <1>1, StepsKnown DEF DraftSteps, Done, Holding, Unfinished, EditorSteps, Locked, DraftStatuses
<1>3. /\ draft' \in [Drafts -> [status : DraftStatuses, base : Nat]]
      /\ \A d \in Drafts \ {k} : draft'[d] = draft[d]
      /\ draft'[k].status = "applied" /\ draft'[k].base = draft[k].base
  BY <1>1, <1>2, MarkIs
<1>4. Goes(c) /\ editor'[c].step = "attach" /\ Knows(c) /\ Learns(c)
  BY <1>1, <1>2, MoveIs DEF SettingsInv, Knows, Learns
<1>5. MarkOK(c, k)
  BY <1>2, <1>3, <1>4, AccountAlone DEF MarkOK, Knows
<1>6. ClaimOK(c)'
  BY <1>2, <1>3, <1>4 DEF ClaimOK, Knows
<1>7. ~tied => RevisionOK(c)'
  BY <1>1, <1>2, <1>4, StepsKnown DEF RevisionOK, Knows
<1>8. Sound => CommitOK(c)'
  BY <1>1, <1>2, <1>4, StepsKnown DEF CommitOK, Knows
<1> QED
  BY <1>1, <1>2, <1>3, <1>4, <1>5, <1>6, <1>7, <1>8, MarkTypes, LearnsKeeps DEF Knows

LEMMA GiveBackKeeps ==
  ASSUME SettingsInv, NEW c \in Callers, GiveBack(c)
  PROVE  SettingsInv'
<1> DEFINE k == editor[c].draft
<1>1. /\ editor[c].step = "revert" /\ Move(c, "release") /\ UNCHANGED process
      /\ UNCHANGED <<active, commits, source, healthy, tied, lost, stale>>
  BY DEF GiveBack, At, ghosts
<1>2. /\ k \in Drafts /\ editor[c].step \in Holding /\ editor[c].step \notin Done
      /\ "release" \in EditorSteps /\ faults > 0
  BY <1>1, StepsKnown DEF DraftSteps, Done, Holding, EditorSteps, ClaimOK
<1>3. CASE draft' = draft
  BY <1>1, <1>2, <1>3, TypesSame, EndsKeeps DEF SettingsInv
<1>4. CASE draft[k].status = "applying" /\ Mark(k, "validated")
  <2>1. "validated" \in DraftStatuses
    BY DEF DraftStatuses
  <2>2. /\ draft' \in [Drafts -> [status : DraftStatuses, base : Nat]]
        /\ \A d \in Drafts \ {k} : draft'[d] = draft[d]
        /\ draft'[k].status = "validated" /\ draft'[k].base = draft[k].base
    BY <1>2, <1>4, <2>1, MarkIs
  <2>3. faults' + crashes' # 0
    BY <1>1, <1>2 DEF process, SettingsInv, SettingsTypeOK, ProcessTypeOK
  <2>4. Sound /\ commits[k].count >= 1 => Behind(k)
    BY <1>2, <1>4 DEF SettingsInv, Once
  <2>5. MarkOK(c, k)
    BY <1>2, <2>2, <2>3, <2>4, AccountAlone DEF MarkOK
  <2> QED
    BY <1>1, <1>2, <2>2, <2>5, MarkTypes, EndsKeeps
<1> QED
  BY <1>3, <1>4 DEF GiveBack

---------------------------------------------------------------------------------
(* The health check, failures, and requests that arrive. *)

LEMMA ConsumeCommitKeeps ==
  ASSUME SettingsInv, NEW c \in Callers, ConsumeCommit(c)
  PROVE  SettingsInv'
<1> DEFINE k == editor[c].draft
           step == IF commits[k].row THEN "health" ELSE "rollbackConflict"
           row == [commits[k] EXCEPT !.row = FALSE]
<1>1. /\ editor[c].step = "consume" /\ commits' = [commits EXCEPT ![k] = row] /\ Move(c, step)
      /\ UNCHANGED process /\ UNCHANGED <<active, draft, source, healthy, tied, lost, stale>>
  BY DEF ConsumeCommit, At, ghosts
<1>2. /\ k \in Drafts /\ editor[c].step \in Done /\ editor[c].step \in Unfinished
      /\ editor[c].step \in DraftSteps
  BY <1>1, StepsKnown DEF DraftSteps, Done, Unfinished
<1>3. /\ step \in EditorSteps /\ step \in Done /\ step \in {"health", "rollbackConflict"}
      /\ step \notin Holding
  BY DEF EditorSteps, Done, Holding
<1> HIDE DEF step
<1>4. /\ commits' \in [Drafts -> [count : Nat, row : BOOLEAN]]
      /\ \A d \in Drafts : commits'[d].count = commits[d].count
  <2>1. commits \in [Drafts -> [count : Nat, row : BOOLEAN]]
    BY SettingsFacts
  <2>2. row \in [count : Nat, row : BOOLEAN] /\ row.count = commits[k].count
    BY <1>2, <2>1
  <2> HIDE DEF row
  <2> QED
    BY <1>1, <1>2, <2>1, <2>2
<1>5. SettingsTypes
  BY <1>1, <1>4, SettingsFacts DEF SettingsTypes
<1>6. Goes(c) /\ editor'[c].step = step /\ Knows(c) /\ Learns(c)
  BY <1>1, <1>3, MoveIs DEF SettingsInv, Knows, Learns
<1>7. ClaimOK(c)'
  BY <1>1, <1>2, <1>3, <1>6, StepsKnown DEF ClaimOK, Knows
<1>8. ~tied => RevisionOK(c)'
  BY <1>1, <1>2, <1>3, <1>6, StepsKnown DEF RevisionOK, Knows
<1>9. Sound => CommitOK(c)'
  BY <1>1, <1>2, <1>3, <1>6, StepsKnown DEF CommitOK, Knows
<1> QED
  BY <1>1, <1>2, <1>3, <1>4, <1>5, <1>6, <1>7, <1>8, <1>9, LearnsKeeps DEF Knows

LEMMA CheckHealthKeeps ==
  ASSUME SettingsInv, NEW c \in Callers, CheckHealth(c)
  PROVE  SettingsInv'
<1> DEFINE k == editor[c].draft
<1>1. /\ editor[c].step = "health" /\ UNCHANGED process
      /\ UNCHANGED <<active, draft, commits, source, tied, lost, stale>>
  BY DEF CheckHealth, At, rows
<1>2. /\ k \in Drafts /\ editor[c].step \in Done
      /\ "idle" \in EditorSteps /\ "rollback" \in EditorSteps /\ "rollback" \in Done
      /\ "rollback" \in Unfinished /\ editor[c].step \in Unfinished
  BY <1>1, StepsKnown DEF DraftSteps, Done, Unfinished, EditorSteps
<1>3. CASE Move(c, "idle") /\ healthy' = healthy \cup {k}
  <2>1. SettingsTypes /\ healthy \subseteq healthy' /\ k \in healthy'
    BY <1>1, <1>2, <1>3, SettingsFacts DEF SettingsTypes
  <2> QED
    BY <1>1, <1>2, <1>3, <2>1, EndsKeeps
<1>4. CASE Move(c, "rollback") /\ healthy' = healthy
  BY <1>1, <1>2, <1>4, SettingsFacts, MoveKeeps
<1> QED
  BY <1>3, <1>4 DEF CheckHealth

LEMMA SettingsThrowsKeeps ==
  ASSUME SettingsInv, NEW c \in Callers, SettingsThrows(c)
  PROVE  SettingsInv'
<1>1. /\ editor[c].step # "idle" /\ Fault
      /\ UNCHANGED <<active, draft, commits, source, healthy, tied, lost, stale>>
  BY DEF SettingsThrows, rows, ghosts
<1>2. faults' > 0
  BY <1>1 DEF Fault, SettingsInv, SettingsTypeOK, ProcessTypeOK
<1>3. {"idle", "release", "acquire", "revert", "consume"} \subseteq EditorSteps
  BY DEF EditorSteps, Locked
<1>4. CASE editor[c].step = "snapshot" /\ Move(c, "acquire")
  <2>1. Goes(c) /\ editor'[c].step = "acquire" /\ Learns(c)
    BY <1>3, <1>4, MoveIs DEF SettingsInv, Knows, Learns
  <2>2. editor[c].kind = "apply" /\ editor[c].draft \in Drafts
    BY <1>4, StepsKnown DEF EditorOK, DraftSteps
  <2>3. /\ "acquire" \notin DraftSteps \cup Unfinished \cup Holding \cup Done \cup {"syncWrite", "putRestore"}
        /\ editor[c].step \notin Done
    BY <1>4 DEF DraftSteps, Unfinished, Holding, Done
  <2> QED
    BY <1>1, <1>3, <2>1, <2>2, <2>3, FreeOK, TypesSame, LearnsKeeps DEF SettingsInv
<1>5. CASE editor[c].step \in {"read", "commit", "refuse", "mark"} /\ Move(c, "revert")
  <2>1. /\ editor[c].step \in Holding /\ editor[c].step \in DraftSteps /\ editor[c].step \notin Done
        /\ "revert" \in Holding /\ "revert" \notin Done \cup Unfinished
    BY <1>5 DEF DraftSteps, Unfinished, Holding, Done
  <2> QED
    BY <1>1, <1>2, <1>3, <1>5, <2>1, StepsKnown, SettingsFacts, MoveKeeps
<1>6. CASE editor[c].step = "releaseApplied" /\ Move(c, "consume")
  <2>1. /\ editor[c].step \in Done /\ editor[c].step \in DraftSteps /\ editor[c].step \in Unfinished
        /\ "consume" \in Done /\ "consume" \notin Holding
    BY <1>6 DEF DraftSteps, Unfinished, Holding, Done
  <2> QED
    BY <1>1, <1>2, <1>3, <1>6, <2>1, StepsKnown, SettingsFacts, MoveKeeps
<1>7. ASSUME NEW step \in {"idle", "release"}, Move(c, step)
      PROVE  SettingsInv'
  BY <1>1, <1>2, <1>7, TypesSame, EndsKeeps DEF SettingsInv
<1> QED
  BY <1>4, <1>5, <1>6, <1>7 DEF SettingsThrows, At

\* A request arrives with an identifier that nobody has.
LEMMA OpenEditorKeeps ==
  ASSUME SettingsInv, NEW c \in Callers, NEW kind \in {"apply", "validate", "put", "sync"},
         NEW d \in Drafts \cup {"none"}, NEW step \in {"compare", "snapshot", "acquire"},
         Open(c, kind, d, step),
         step # "acquire" => d \in Drafts,
         step = "snapshot" => kind = "apply",
         step = "acquire" => kind \in {"put", "sync"}
  PROVE  SettingsInv'
<1> DEFINE e == [NoEditor EXCEPT !.step = step, !.id = requests + 1, !.kind = kind, !.draft = d]
<1>1. /\ editor[c].step = "idle" /\ Arrive /\ editor' = [editor EXCEPT ![c] = e]
      /\ UNCHANGED <<active, draft, commits, source, healthy, tied, lost, stale>>
  BY DEF Open, At, rows, ghosts
<1>2. /\ requests \in Nat /\ requests' = requests + 1 /\ requests + 1 \in 0 .. MaxRequests
      /\ requests' \in Nat
  BY <1>1, ProcessAssumption DEF Arrive, SettingsInv, SettingsTypeOK, ProcessTypeOK
<1>3. step \in EditorSteps /\ step \notin Holding \cup Done \cup Unfinished
      /\ step \notin {"syncWrite", "putRestore", "putWrite", "putAttach", "idle", "rolledBack"}
      /\ editor[c].step \notin Done /\ (step = "acquire" => step \notin DraftSteps)
  BY <1>1 DEF EditorSteps, Holding, Done, Unfinished, DraftSteps
<1>4. /\ e \in SettingsRow /\ e.step = step /\ e.id = requests + 1 /\ e.kind = kind /\ e.draft = d
      /\ e.before = Environment /\ e.current = Environment
  <2>1. NoEditor \in SettingsRow /\ NoEditor.before = Environment /\ NoEditor.current = Environment
    BY EnvironmentIs
  <2> HIDE DEF NoEditor
  <2> QED
    BY <1>2, <1>3, <2>1 DEF SettingsRow
<1> HIDE DEF e
<1>5. /\ editor' \in [Callers -> SettingsRow] /\ \A x \in Callers \ {c} : editor'[x] = editor[x]
      /\ editor'[c] = e
  BY <1>1, <1>4, EditorIs DEF SettingsInv
<1>6. \A x \in Callers : editor[x].step # "idle" => editor[x].id # requests + 1
  BY <1>2, StepsKnown DEF EditorOK
<1>7. SeenOK(c) /\ StillWrote(c)
  BY <1>3, <1>4, <1>5, <1>6 DEF SeenOK, StillWrote
<1>8. SettingsTypeOK'
  BY <1>1, <1>5, TypesSame, TypesStay DEF SettingsInv, SettingsTypeOK
<1>9. EditorOK(c)'
  <2>1. /\ editor'[c].step = step /\ editor'[c].kind = kind /\ editor'[c].draft = d
        /\ editor'[c].before = Environment /\ editor'[c].current = Environment
    BY <1>4, <1>5
  <2>2. editor'[c].id \in 1 .. requests'
    BY <1>2, <1>4, <1>5
  <2> QED
    BY <1>3, <2>1, <2>2 DEF EditorOK
<1>10. ClaimOK(c)' /\ RevisionOK(c)' /\ CommitOK(c)'
  BY <1>3, <1>4, <1>5, FreeOK
<1> QED
  BY <1>1, <1>3, <1>4, <1>5, <1>7, <1>8, <1>9, <1>10, ActiveStays

\* Only drafts change, and a draft that changes is none that anyone has claimed.
LEMMA DraftKeeps ==
  ASSUME SettingsInv, NEW k \in Drafts, Arrive, draft' \in [Drafts -> [status : DraftStatuses, base : Nat]],
         UNCHANGED <<active, commits, source, editor, healthy, tied, lost, stale>>,
         \A d \in Drafts \ {k} : draft'[d] = draft[d],
         \/ draft[k].status = "none" /\ draft'[k].status = "draft"
         \/ /\ draft[k].status \in {"draft", "validated", "invalid"}
            /\ draft'[k].status = "cancelled"
  PROVE  SettingsInv'
<1>1. /\ requests' \in Nat /\ requests' >= requests /\ requests \in Nat
      /\ faults' = faults /\ crashes' = crashes /\ ProcessTypeOK'
  BY ProcessGoes DEF SettingsInv, SettingsTypeOK, Arrive
<1>2. SettingsTypeOK'
  BY <1>1, SettingsFacts DEF SettingsInv, SettingsTypeOK, DraftStatuses
<1>3. ActiveOK' /\ Apart'
  BY <1>1, SettingsFacts DEF SettingsInv, ActiveOK, Apart, SettingsTypeOK, Settings
<1>4. \A x \in Callers : editor[x].step \in Holding \cup Done => editor[x].draft # k
  BY StepsKnown DEF ClaimOK
<1>5. \A x \in Callers : EditorOK(x)' /\ ClaimOK(x)'
  <2> SUFFICES ASSUME NEW x \in Callers PROVE EditorOK(x)' /\ ClaimOK(x)'
    OBVIOUS
  <2>1. EditorOK(x)'
    BY <1>1, StepsKnown, EditorIs DEF SettingsInv, EditorOK
  <2>2. editor[x].step \in Holding \cup Done => editor[x].draft \in Drafts \ {k}
    BY <1>4, StepsKnown DEF DraftSteps
  <2>3. "commit" \in Holding
    BY DEF Holding
  <2> QED
    BY <1>1, <2>1, <2>2, <2>3, StepsKnown DEF ClaimOK
<1>6. commits[k].count >= 1 => draft[k].status # "none"
  BY DEF SettingsInv, DraftOK
<1>7. \A d \in Drafts : DraftOK(d)'
  BY DEF SettingsInv, DraftOK, Unseen
<1>8. faults' + crashes' = 0 => \A d \in Drafts : SettledDraft(d)'
  <2> SUFFICES ASSUME faults + crashes = 0, NEW d \in Drafts PROVE SettledDraft(d)'
    BY <1>1
  <2>1. SettledDraft(d)
    BY DEF SettingsInv
  <2>2. CASE d # k
    BY <2>1, <2>2 DEF SettledDraft
  <2>3. CASE d = k
    BY <1>6, <2>1, <2>3 DEF SettledDraft
  <2> QED
    BY <2>2, <2>3
<1>9. ~tied' => \A x \in Callers : RevisionOK(x)'
  BY DEF SettingsInv, RevisionOK
<1>10. \A d \in Drafts \ {k} : (Behind(d) => Behind(d)') /\ (Out(d)' => Out(d))
  BY DEF Behind, Wrote, Out
<1>11. Sound' => (\A x \in Callers : CommitOK(x)') /\ \A d \in Drafts : Once(d)'
  <2> SUFFICES ASSUME Sound PROVE (\A x \in Callers : CommitOK(x)') /\ \A d \in Drafts : Once(d)'
    BY DEF Sound
  <2>1. ASSUME NEW x \in Callers PROVE CommitOK(x)'
    <3>1. editor[x].step = "read" => editor[x].draft \in Drafts \ {k}
      BY <1>4, StepsKnown DEF DraftSteps, Holding
    <3> QED
      BY <1>10, <3>1, StepsKnown DEF CommitOK
  <2>2. ASSUME NEW d \in Drafts PROVE Once(d)'
    <3>1. Once(d)
      BY DEF SettingsInv
    <3>2. CASE d # k
      BY <1>10, <3>1, <3>2 DEF Once
    <3>3. CASE d = k
      BY <1>6, <3>1, <3>3 DEF Once
    <3> QED
      BY <3>2, <3>3
  <2> QED
    BY <2>1, <2>2
<1>12. Sound' /\ ~lost' => \A d \in Drafts : Out(d)' => Gone(d)'
  <2> SUFFICES ASSUME Sound, ~lost, NEW d \in Drafts, Out(d)' PROVE Gone(d)'
    BY DEF Sound
  <2>1. d # k
    BY <1>4 DEF Out, Done
  <2>2. Gone(d)
    BY <1>10, <2>1 DEF SettingsInv
  <2> QED
    BY <2>2 DEF Gone, Wrote
<1> QED
  BY <1>2, <1>3, <1>5, <1>7, <1>8, <1>9, <1>11, <1>12 DEF SettingsInv

LEMMA DraftStepsKeep ==
  ASSUME SettingsInv, NEW k \in Drafts, CreateDraft(k) \/ CancelDraft(k)
  PROVE  SettingsInv'
<1>1. draft \in [Drafts -> [status : DraftStatuses, base : Nat]] /\ active.revision \in Nat
  BY SettingsFacts DEF DraftStatuses
<1>2. /\ Arrive /\ UNCHANGED <<active, commits, source, editor, healthy, tied, lost, stale>>
  BY DEF CreateDraft, CancelDraft, ghosts
<1>3. CASE CreateDraft(k)
  <2> DEFINE new == [status |-> "draft", base |-> active.revision]
  <2>1. draft' = [draft EXCEPT ![k] = new] /\ draft[k].status = "none"
    BY <1>3 DEF CreateDraft
  <2>2. new \in [status : DraftStatuses, base : Nat] /\ new.status = "draft"
    BY <1>1 DEF DraftStatuses
  <2> HIDE DEF new
  <2>3. /\ draft' \in [Drafts -> [status : DraftStatuses, base : Nat]]
        /\ \A d \in Drafts \ {k} : draft'[d] = draft[d]
        /\ draft'[k].status = "draft"
    BY <1>1, <2>1, <2>2
  <2> QED
    BY <1>2, <2>1, <2>3, DraftKeeps
<1>4. CASE CancelDraft(k)
  <2>1. Mark(k, "cancelled") /\ draft[k].status \in {"draft", "validated", "invalid"}
    BY <1>4 DEF CancelDraft
  <2>2. "cancelled" \in DraftStatuses
    BY DEF DraftStatuses
  <2>3. /\ draft' \in [Drafts -> [status : DraftStatuses, base : Nat]]
        /\ \A d \in Drafts \ {k} : draft'[d] = draft[d]
        /\ draft'[k].status = "cancelled"
    BY <2>1, <2>2, MarkIs
  <2> QED
    BY <1>2, <2>1, <2>3, DraftKeeps
<1> QED
  BY <1>3, <1>4

LEMMA SettingsDiesKeeps ==
  ASSUME SettingsInv, SettingsDies
  PROVE  SettingsInv'
<1>1. /\ Die /\ editor' = [c \in Callers |-> NoEditor]
      /\ UNCHANGED <<active, draft, commits, source, healthy, tied, lost, stale>>
  BY DEF SettingsDies, rows, ghosts
<1>2. /\ requests' = requests /\ ProcessTypeOK' /\ faults' + crashes' # 0
  BY <1>1, ProcessAssumption DEF Die, SettingsInv, SettingsTypeOK, ProcessTypeOK
<1>3. /\ editor' \in [Callers -> SettingsRow]
      /\ \A c \in Callers : /\ editor'[c].step = "idle" /\ editor'[c].before = Environment
                            /\ editor'[c].current = Environment
  BY <1>1, EnvironmentIs
<1>4. "idle" \notin Holding \cup Done \cup Unfinished \cup DraftSteps
  BY DEF Holding, Done, Unfinished, DraftSteps
<1>5. SettingsTypeOK'
  BY <1>1, <1>2, <1>3 DEF SettingsInv, SettingsTypeOK, SettingsRow
<1>6. ActiveOK' /\ Apart'
  BY <1>1, <1>2, <1>3, <1>4 DEF SettingsInv, ActiveOK, Apart
<1>7. \A c \in Callers : EditorOK(c)' /\ ClaimOK(c)' /\ RevisionOK(c)' /\ CommitOK(c)'
  BY <1>3, <1>4 DEF EditorOK, ClaimOK, RevisionOK, CommitOK, Holding
<1>8. \A d \in Drafts : Environment.a # d
  BY EnvironmentIs
<1>9. \A d \in Drafts : DraftOK(d)'
  BY <1>1, <1>3, <1>8 DEF SettingsInv, DraftOK, Unseen
<1>10. \A c \in Callers : ~Wrote(c)'
  BY <1>3, <1>4 DEF Wrote
<1>11. \A d \in Drafts : (Behind(d) => Behind(d)') /\ (Gone(d) => Gone(d)') /\ (Out(d)' => Out(d))
  BY <1>1, <1>3, <1>10 DEF Behind, Gone, Out
<1>12. Sound' => \A d \in Drafts : Once(d)'
  BY <1>1, <1>11 DEF SettingsInv, Sound, Once
<1>13. Sound' /\ ~lost' => \A d \in Drafts : Out(d)' => Gone(d)'
  BY <1>1, <1>11 DEF SettingsInv, Sound
<1> QED
  BY <1>2, <1>5, <1>6, <1>7, <1>9, <1>12, <1>13 DEF SettingsInv

LEMMA SettingsStutter ==
  ASSUME SettingsInv, UNCHANGED <<active, draft, commits, source, editor, healthy, tied, lost, stale>>,
         UNCHANGED process \/ Tick
  PROVE  SettingsInv'
<1>1. /\ ProcessTypeOK' /\ requests' = requests /\ faults' = faults /\ crashes' = crashes
  BY ProcessGoes DEF process, Tick, SettingsInv, SettingsTypeOK
<1>2. SettingsTypeOK' /\ ActiveOK' /\ Apart'
  BY <1>1 DEF SettingsInv, SettingsTypeOK, ActiveOK, Apart
<1>3. \A c \in Callers : EditorOK(c)' /\ ClaimOK(c)'
  BY <1>1 DEF SettingsInv, EditorOK, ClaimOK
<1>4. \A d \in Drafts : DraftOK(d)' /\ (SettledDraft(d) => SettledDraft(d)')
  BY DEF SettingsInv, DraftOK, Unseen, SettledDraft
<1>5. \A d \in Drafts : (Behind(d) => Behind(d)') /\ (Gone(d) => Gone(d)') /\ (Out(d)' => Out(d))
  BY DEF Behind, Gone, Out, Wrote
<1>6. ~tied' => \A c \in Callers : RevisionOK(c)'
  BY DEF SettingsInv, RevisionOK
<1>7. Sound' => (\A c \in Callers : CommitOK(c)') /\ \A d \in Drafts : Once(d)'
  <2> SUFFICES ASSUME Sound PROVE (\A c \in Callers : CommitOK(c)') /\ \A d \in Drafts : Once(d)'
    BY DEF Sound
  <2>1. \A d \in Drafts : Once(d)'
    BY <1>5 DEF SettingsInv, Once
  <2>2. \A c \in Callers : CommitOK(c)'
    BY <1>5, StepsKnown DEF CommitOK, DraftSteps, Holding
  <2> QED
    BY <2>1, <2>2
<1>8. Sound' /\ ~lost' => \A d \in Drafts : Out(d)' => Gone(d)'
  BY <1>5 DEF SettingsInv, Sound
<1> QED
  BY <1>1, <1>2, <1>3, <1>4, <1>6, <1>7, <1>8 DEF SettingsInv

---------------------------------------------------------------------------------
(* The steps that write the settings. *)

\* A revision that no other request and no draft refers to.
FreshLimit(c, revision) ==
  /\ revision >= 1
  /\ \A x \in Callers \ {c} : revision # editor[x].revision /\ revision # editor[x].current.revision
  /\ \A d \in Drafts : draft[d].base # revision

LEMMA TiesIs ==
  ASSUME SettingsInv, NEW c \in Callers, NEW revision \in Nat, revision >= 1, Ties(c, revision)
  PROVE  /\ tied' \in BOOLEAN /\ (tied => tied')
         /\ ~tied' => FreshLimit(c, revision)
BY SettingsFacts DEF Ties, FreshLimit

\* What the others know stays true, when the revision is new to them.
LEMMA WriteKeepsRevision ==
  ASSUME NEW c \in Callers, NEW x \in Callers \ {c}, editor'[x] = editor[x], EditorOK(x),
         active'.revision \in Nat, active' = Environment \/ FreshLimit(c, active'.revision)
  PROVE  RevisionOK(x)'
<1>1. CASE active' = Environment
  <2>1. active'.revision = 0
    BY <1>1, EnvironmentIs
  <2> QED
    BY <1>1, <2>1 DEF RevisionOK, EditorOK
<1>2. CASE FreshLimit(c, active'.revision)
  BY <1>2 DEF RevisionOK, FreshLimit
<1> QED
  BY <1>1, <1>2

\* After a write that is no commit, no application has settings in force.
LEMMA NobodyWrote ==
  ASSUME SettingsInv, NEW c \in Callers, editor[c].step # "idle", Goes(c),
         editor'[c].step \notin Unfinished, active'.by \in {0, editor[c].id}
  PROVE  \A x \in Callers : ~Wrote(x)'
<1> SUFFICES ASSUME NEW x \in Callers \ {c}, editor[x].step \in Unfinished, active'.by = editor[x].id
             PROVE  FALSE
  BY DEF Goes, Wrote
<1>1. editor[x].step # "idle"
  BY DEF Unfinished
<1>2. editor[x].id \in 1 .. requests
  BY <1>1, StepsKnown DEF EditorOK
<1>3. editor[x].id # editor[c].id
  BY <1>1 DEF SettingsInv, Apart
<1> QED
  BY <1>2, <1>3, ProcessGoes DEF SettingsInv

\* A write that is no commit.
LEMMA WriteKeeps ==
  ASSUME SettingsInv, NEW c \in Callers, editor[c].step # "idle",
         UNCHANGED <<draft, commits, source, healthy>>, UNCHANGED process,
         NEW step \in EditorSteps, Move(c, step),
         step \in {"rolledBack", "putAttach", "release"},
         active' \in Settings, active'.by \in {0, editor[c].id},
         active'.revision = 0 => active' = Environment,
         active'.a \in {active.a, editor[c].before.a, editor[c].current.a},
         step = "putAttach" => editor[c].revision >= 1,
         step = "rolledBack" => editor[c].step = "rollback",
         editor[c].step \in Done => step \in Done,
         tied' \in BOOLEAN, lost' \in BOOLEAN, stale' \in BOOLEAN,
         tied => tied', lost => lost', stale => stale',
         ~tied' => active' = Environment \/ FreshLimit(c, active'.revision),
         Sound' => \A d \in Drafts :
           /\ draft[d].status \in {"draft", "validated", "invalid", "applying"}
              \/ \E x \in Callers \ {c} : editor[x].step = "read" /\ editor[x].draft = d
           /\ commits[d].count >= 1
           => active'.revision # draft[d].base,
         Sound' /\ ~lost' => \A d \in Drafts : Out(d)' => active'.a # d
  PROVE  SettingsInv'
<1>1. Goes(c) /\ editor'[c].step = step /\ IF step = "release" THEN Ends(c) ELSE Knows(c)
  BY MoveIs DEF SettingsInv
<1>2. /\ step \notin Unfinished \cup Holding /\ step # "idle"
      /\ step # "rolledBack" => step \notin DraftSteps \cup Done
      /\ editor[c].step = "rollback" => editor[c].step \in Done /\ editor[c].step \in DraftSteps
      /\ "read" \in Holding /\ "read" \in DraftSteps /\ "commit" \in Holding /\ "commit" \in DraftSteps
  BY DEF Unfinished, Holding, Done, DraftSteps
<1>3. /\ ProcessTypeOK' /\ requests' = requests /\ faults' = faults /\ crashes' = crashes
  BY ProcessGoes DEF process, SettingsInv, SettingsTypeOK
<1>4. SettingsTypeOK'
  BY <1>1, <1>3 DEF SettingsInv, SettingsTypeOK, SettingsRow, Goes
<1>5. ActiveOK'
  <2>1. editor[c].id \in 1 .. requests /\ requests \in Nat
    BY StepsKnown DEF EditorOK, SettingsTypeOK, ProcessTypeOK
  <2> QED
    BY <1>3, <2>1 DEF ActiveOK
<1>6. SeenOK(c)
  BY <1>1, <1>2, GoesIsSeen DEF Knows
<1>7. Apart'
  BY <1>6, ApartKeeps DEF SettingsInv
<1>8. ASSUME NEW x \in Callers \ {c} PROVE editor'[x] = editor[x] /\ EditorOK(x)' /\ ClaimOK(x)'
  <2>1. editor'[x] = editor[x]
    BY <1>1 DEF Goes
  <2> QED
    BY <1>3, <2>1, StepsKnown DEF EditorOK, ClaimOK
<1>9. EditorOK(c)'
  <2>1. EditorOK(c) /\ editor'[c].id = editor[c].id
    BY <1>1, <1>2, StepsKnown DEF Goes
  <2>2. CASE step = "release"
    BY <1>1, <1>2, <1>3, <2>1, <2>2, EnvironmentIs DEF EditorOK, Ends
  <2>3. CASE step # "release"
    BY <1>1, <1>2, <1>3, <2>1, <2>3 DEF EditorOK, Knows
  <2> QED
    BY <2>2, <2>3
<1>10. ClaimOK(c)' /\ RevisionOK(c)' /\ CommitOK(c)'
  <2>1. step = "rolledBack" => editor'[c].draft = editor[c].draft /\ draft[editor[c].draft].status = "applied"
    BY <1>1, <1>2, StepsKnown DEF ClaimOK, Knows
  <2> QED
    BY <1>1, <1>2, <2>1 DEF ClaimOK, RevisionOK, CommitOK
<1>11. \A x \in Callers : ~Wrote(x)'
  BY <1>1, <1>2, NobodyWrote
<1>12. \A d \in Drafts : DraftOK(d)'
  <2> SUFFICES ASSUME NEW d \in Drafts, Unseen(d) PROVE Unseen(d)'
    BY DEF SettingsInv, DraftOK
  <2>1. active'.a # d
    BY DEF Unseen
  <2>2. /\ editor'[c].before \in {Environment, editor[c].before}
        /\ editor'[c].current \in {Environment, editor[c].current}
    BY <1>1 DEF Ends, Knows
  <2> QED
    BY <1>8, <2>1, <2>2, EnvironmentIs DEF Unseen
<1>13. ASSUME faults' + crashes' = 0, NEW d \in Drafts PROVE SettledDraft(d)'
  <2>1. SettledDraft(d)
    BY <1>3, <1>13 DEF SettingsInv
  <2>2. ASSUME NEW x \in Callers, editor[x].step \in Done
        PROVE  editor'[x].step \in Done /\ editor'[x].draft = editor[x].draft
    BY <1>1, <1>2, <1>8, <2>2 DEF Knows
  <2> QED
    BY <2>1, <2>2 DEF SettledDraft
<1>14. ASSUME ~tied', NEW x \in Callers PROVE RevisionOK(x)'
  <2>1. active'.revision \in Nat
    BY DEF Settings
  <2> QED
    BY <1>8, <1>10, <1>14, <2>1, StepsKnown, WriteKeepsRevision
<1>15. ASSUME Sound' PROVE (\A x \in Callers : CommitOK(x)') /\ \A d \in Drafts : Once(d)'
  <2>1. Sound
    BY <1>15 DEF Sound
  <2>2. \A d \in Drafts : active'.revision # draft[d].base => Behind(d)'
    BY <1>11 DEF Behind
  <2>3. ASSUME NEW x \in Callers \ {c} PROVE CommitOK(x)'
    <3>1. CommitOK(x) /\ editor'[x] = editor[x]
      BY <1>8, <2>1, StepsKnown
    <3>2. editor[x].step = "read" => editor[x].draft \in Drafts
      BY <1>2, StepsKnown
    <3>3. editor[x].step = "read" /\ commits[editor[x].draft].count >= 1
            => active'.revision # draft[editor[x].draft].base
      BY <1>15, <3>2
    <3>4. ASSUME NEW d \in Drafts, editor[x].draft = d, editor[x].step = "read", commits[d].count >= 1
          PROVE  Behind(d)'
      BY <2>2, <3>3, <3>4
    <3> QED
      BY <3>1, <3>2, <3>4 DEF CommitOK
  <2>4. ASSUME NEW d \in Drafts PROVE Once(d)'
    BY <1>15, <2>1, <2>2 DEF SettingsInv, Once
  <2> QED
    BY <1>10, <2>3, <2>4
<1>16. ASSUME Sound', ~lost', NEW d \in Drafts, Out(d)' PROVE Gone(d)'
  BY <1>11, <1>16 DEF Gone
<1> QED
  BY <1>4, <1>5, <1>7, <1>8, <1>9, <1>10, <1>12, <1>13, <1>14, <1>15, <1>16 DEF SettingsInv

LEMMA EditorParts ==
  ASSUME SettingsInv, NEW c \in Callers
  PROVE  /\ editor[c].before.a \in Drafts \cup {"stored", "env"}
         /\ editor[c].current.a \in Drafts \cup {"stored", "env"}
         /\ active.a \in Drafts \cup {"stored", "env"}
         /\ editor[c].before.b \in {"stored", "env", "put"}
         /\ editor[c].current.b \in {"stored", "env", "put"}
         /\ editor[c].id \in 0 .. MaxRequests /\ editor[c].revision \in Nat
         /\ editor[c].before.revision \in Nat /\ editor[c].current.revision \in Nat
BY EditorIs, SettingsFacts DEF SettingsInv, Settings

\* Drafts that are still to be applied do not refer to a revision that is new.
LEMMA FreshIsBehind ==
  ASSUME NEW c, NEW revision, FreshLimit(c, revision)
  PROVE  \A d \in Drafts : revision # draft[d].base
BY DEF FreshLimit

\* A draft is out before a step that rolls back no other.
LEMMA OutBefore ==
  ASSUME NEW c \in Callers, Goes(c), draft' = draft, editor'[c].step # "rolledBack",
         NEW d \in Drafts, Out(d)'
  PROVE  Out(d)
BY DEF Out, Goes

LEMMA PutWriteKeeps ==
  ASSUME SettingsInv, NEW c \in Callers, PutWrite(c)
  PROVE  SettingsInv'
<1> DEFINE r == editor[c].revision
           next == [revision |-> r, a |-> editor[c].current.a, b |-> "put", by |-> editor[c].id]
<1>1. /\ editor[c].step = "putWrite" /\ active' = next /\ Ties(c, r) /\ Move(c, "putAttach")
      /\ lost' = (lost \/ editor[c].current.a # active.a) /\ UNCHANGED process
      /\ UNCHANGED <<draft, commits, source, healthy, stale>>
  BY DEF PutWrite, At
<1>2. r \in Nat /\ r >= 1 /\ "putAttach" \in EditorSteps /\ editor[c].step \notin Done
  BY <1>1, StepsKnown, EditorParts DEF EditorOK, EditorSteps, Locked, Done
<1>3. /\ next \in Settings /\ next.a = editor[c].current.a /\ next.by = editor[c].id
      /\ next.revision = r
  BY <1>2, EditorParts DEF Settings
<1> HIDE DEF next
<1>4. /\ tied' \in BOOLEAN /\ (tied => tied') /\ (~tied' => FreshLimit(c, r)) /\ lost' \in BOOLEAN
      /\ stale' \in BOOLEAN /\ (lost => lost') /\ (stale => stale')
  BY <1>1, <1>2, TiesIs, SettingsFacts
<1>5. Sound' => \A d \in Drafts : active'.revision # draft[d].base
  BY <1>1, <1>3, <1>4, FreshIsBehind DEF Sound
<1>6. ASSUME Sound', ~lost', NEW d \in Drafts, Out(d)' PROVE active'.a # d
  <2>1. Goes(c) /\ editor'[c].step = "putAttach"
    BY <1>1, <1>2, MoveIs DEF SettingsInv
  <2>2. Out(d) /\ Sound /\ ~lost /\ active.a = editor[c].current.a
    BY <1>1, <1>4, <1>6, <2>1, OutBefore DEF Sound
  <2>3. active.a # d
    BY <2>2 DEF SettingsInv, Gone
  <2> QED
    BY <1>1, <1>3, <2>2, <2>3
<1> QED
  BY <1>1, <1>2, <1>3, <1>4, <1>5, <1>6, WriteKeeps

LEMMA SyncWriteKeeps ==
  ASSUME SettingsInv, NEW c \in Callers, SyncWrite(c)
  PROVE  SettingsInv'
<1> DEFINE next == Stored(editor[c].current.revision, editor[c].current.a, "env", editor[c].id)
<1>1. /\ editor[c].step = "syncWrite" /\ Move(c, "release") /\ UNCHANGED process
      /\ UNCHANGED <<draft, commits, source, healthy, lost, stale>>
  BY DEF SyncWrite, At
<1>2. "release" \in EditorSteps /\ editor[c].step \notin Done
  BY <1>1 DEF EditorSteps, Done
<1>3. /\ next \in Settings /\ next.a = editor[c].current.a /\ next.by = editor[c].id
      /\ next.revision \in Nat /\ next.revision >= 1
  <2>1. PICK new \in Nat : /\ new > editor[c].current.revision /\ new >= 1
                           /\ next = [revision |-> new, a |-> editor[c].current.a, b |-> "env",
                                      by |-> editor[c].id]
    BY EditorParts, SettingsFacts DEF Stored, Now
  <2> HIDE DEF next
  <2> QED
    BY <2>1, EditorParts DEF Settings
<1>4. CASE active' = active /\ tied' = tied
  BY <1>1, <1>2, <1>4, SettingsFacts, MoveKeeps DEF DraftSteps, Unfinished, Holding, Done
<1>5. CASE active.revision = editor[c].current.revision /\ active' = next /\ Ties(c, next.revision)
  <2> HIDE DEF next
  <2>1. /\ tied' \in BOOLEAN /\ (tied => tied') /\ (~tied' => FreshLimit(c, next.revision))
        /\ lost' \in BOOLEAN /\ stale' \in BOOLEAN
    BY <1>1, <1>3, <1>5, TiesIs, SettingsFacts
  <2>2. Sound' => \A d \in Drafts : active'.revision # draft[d].base
    BY <1>5, <2>1, FreshIsBehind DEF Sound
  <2>3. ASSUME Sound', ~lost', NEW d \in Drafts, Out(d)' PROVE active'.a # d
    <3>1. Goes(c) /\ editor'[c].step = "release"
      BY <1>1, <1>2, MoveIs DEF SettingsInv
    <3>2. Out(d) /\ Sound /\ ~lost
      BY <1>1, <2>1, <2>3, <3>1, OutBefore DEF Sound
    <3>3. active.a # d
      BY <3>2 DEF SettingsInv, Gone
    <3>4. active = editor[c].current
      BY <1>1, <1>5, <3>2, StepsKnown DEF RevisionOK, Sound
    <3> QED
      BY <1>3, <1>5, <3>3, <3>4
  <2> QED
    BY <1>1, <1>2, <1>3, <1>5, <2>1, <2>2, <2>3, WriteKeeps
<1> QED
  BY <1>4, <1>5 DEF SyncWrite

\* A restoration that finds the revision of the write it takes back.
LEMMA RestoreIs ==
  ASSUME SettingsInv, NEW c \in Callers, Restore(c), editor[c].step # "idle"
  PROVE  /\ active' \in Settings /\ active'.by \in {0, editor[c].id}
         /\ active'.revision = 0 => active' = Environment
         /\ active'.a = editor[c].before.a
         /\ tied' \in BOOLEAN /\ (tied => tied')
         /\ ~tied' => active' = Environment \/ FreshLimit(c, active'.revision)
         /\ active' = Environment \/ active'.revision >= 1
         /\ active' = Environment => editor[c].before.revision = 0 \/ active'.revision >= 1
<1> DEFINE next == Stored(editor[c].revision, editor[c].before.a, editor[c].before.b, editor[c].id)
<1>1. CASE editor[c].before.revision = 0 /\ active' = Environment /\ tied' = tied
  <2>1. editor[c].before = Environment
    BY <1>1, StepsKnown DEF EditorOK
  <2> QED
    BY <1>1, <2>1, EnvironmentIs, SettingsFacts
<1>2. CASE active' = next /\ Ties(c, next.revision)
  <2>1. /\ next \in Settings /\ next.a = editor[c].before.a /\ next.by = editor[c].id
        /\ next.revision \in Nat /\ next.revision >= 1
    <3>1. PICK new \in Nat : /\ new > editor[c].revision /\ new >= 1
                             /\ next = [revision |-> new, a |-> editor[c].before.a,
                                        b |-> editor[c].before.b, by |-> editor[c].id]
      BY EditorParts, SettingsFacts DEF Stored, Now
    <3> HIDE DEF next
    <3> QED
      BY <3>1, EditorParts DEF Settings
  <2> HIDE DEF next
  <2>2. tied' \in BOOLEAN /\ (tied => tied') /\ (~tied' => FreshLimit(c, next.revision))
    BY <1>2, <2>1, TiesIs
  <2>3. active' = next
    BY <1>2
  <2>4. ~tied' => FreshLimit(c, active'.revision)
    BY <2>2, <2>3
  <2> QED
    BY <2>1, <2>2, <2>3, <2>4
<1> QED
  BY <1>1, <1>2 DEF Restore

LEMMA PutRestoreKeeps ==
  ASSUME SettingsInv, NEW c \in Callers, PutRestore(c)
  PROVE  SettingsInv'
<1>1. /\ editor[c].step = "putRestore" /\ Move(c, "release") /\ UNCHANGED process
      /\ UNCHANGED <<draft, commits, source, healthy, lost, stale>>
  BY DEF PutRestore, At
<1>2. "release" \in EditorSteps /\ editor[c].step \notin Done
  BY <1>1 DEF EditorSteps, Done
<1>3. CASE active' = active /\ tied' = tied
  BY <1>1, <1>2, <1>3, SettingsFacts, MoveKeeps DEF DraftSteps, Unfinished, Holding, Done
<1>4. CASE active.revision = editor[c].revision /\ Restore(c)
  <2>1. tied
    BY <1>1, <1>4, StepsKnown DEF RevisionOK
  <2>2. /\ active' \in Settings /\ active'.by \in {0, editor[c].id}
        /\ active'.revision = 0 => active' = Environment
        /\ active'.a = editor[c].before.a /\ tied' \in BOOLEAN /\ tied'
    BY <1>1, <1>4, <2>1, RestoreIs
  <2>3. ~Sound' /\ lost' \in BOOLEAN /\ stale' \in BOOLEAN
    BY <1>1, <2>2, SettingsFacts DEF Sound
  <2> QED
    BY <1>1, <1>2, <2>2, <2>3, WriteKeeps
<1> QED
  BY <1>3, <1>4 DEF PutRestore

\* A rollback restores what its application replaced, which is not what a
\* draft that was committed was made for, and not a change that is out.
LEMMA RollbackSnapshotKeeps ==
  ASSUME SettingsInv, NEW c \in Callers, RollbackSnapshot(c)
  PROVE  SettingsInv'
<1>1. /\ editor[c].step = "rollback" /\ UNCHANGED process
      /\ UNCHANGED <<draft, commits, source, healthy, lost>>
  BY DEF RollbackSnapshot, At
<1>2. /\ "rolledBack" \in EditorSteps /\ "rollbackConflict" \in EditorSteps /\ "rollback" \notin Holding
      /\ editor[c].step \in Done /\ editor[c].step \in DraftSteps /\ editor[c].step \in Unfinished
      /\ "rolledBack" \in Done /\ "rollbackConflict" \in Done /\ "rollbackConflict" \notin Unfinished
  BY <1>1 DEF EditorSteps, Done, DraftSteps, Unfinished, Holding
<1>3. CASE active' = active /\ tied' = tied /\ stale' = stale /\ Move(c, "rollbackConflict")
  BY <1>1, <1>2, <1>3, SettingsFacts, StepsKnown, MoveKeeps
<1>4. CASE /\ active.revision = editor[c].revision /\ Restore(c) /\ Move(c, "rolledBack")
           /\ stale' = (stale \/ editor[c].before # editor[c].current)
  <2>1. /\ active' \in Settings /\ active'.by \in {0, editor[c].id}
        /\ active'.revision = 0 => active' = Environment
        /\ active'.a = editor[c].before.a /\ tied' \in BOOLEAN /\ (tied => tied')
        /\ ~tied' => active' = Environment \/ FreshLimit(c, active'.revision)
        /\ active' = Environment => editor[c].before.revision = 0 \/ active'.revision >= 1
    BY <1>1, <1>4, RestoreIs
  <2>2. /\ lost' \in BOOLEAN /\ stale' \in BOOLEAN /\ (lost => lost') /\ (stale => stale')
    BY <1>1, <1>4, SettingsFacts
  <2>3. Sound' => /\ Sound /\ editor[c].before = editor[c].current /\ active.by = editor[c].id
                  /\ Wrote(c)
    BY <1>1, <1>2, <1>4, <2>1, <2>2, StepsKnown DEF Sound, RevisionOK, Wrote
  <2>4. ASSUME Sound', NEW d \in Drafts, commits[d].count >= 1,
               \/ draft[d].status \in {"draft", "validated", "invalid", "applying"}
               \/ \E x \in Callers \ {c} : editor[x].step = "read" /\ editor[x].draft = d
        PROVE  active'.revision # draft[d].base
    <3>1. CASE active' = Environment
      <4>1. active'.revision = 0 /\ editor[c].current.revision = 0
        BY <2>1, <2>3, <2>4, <3>1, EnvironmentIs
      <4>2. Behind(d)
        BY <2>3, <2>4, StepsKnown DEF SettingsInv, Once, CommitOK
      <4>3. editor[c].draft # d
        <5>1. draft[editor[c].draft].status = "applied"
          BY <1>2, StepsKnown DEF ClaimOK
        <5>2. CASE \E x \in Callers \ {c} : editor[x].step = "read" /\ editor[x].draft = d
          BY <1>2, <5>2, AccountAlone DEF Holding
        <5> QED
          BY <2>4, <5>1, <5>2
      <4> QED
        BY <2>3, <2>4, <4>1, <4>2, <4>3 DEF Behind
    <3>2. CASE FreshLimit(c, active'.revision)
      BY <3>2 DEF FreshLimit
    <3> QED
      BY <2>1, <2>4, <3>1, <3>2 DEF Sound
  <2>5. ASSUME Sound', ~lost', NEW d \in Drafts, Out(d)' PROVE active'.a # d
    <3>1. Goes(c) /\ Knows(c)
      BY <1>2, <1>4, MoveIs DEF SettingsInv
    <3>2. CASE editor[c].draft = d
      <4>1. editor[c].current.a # editor[c].draft
        BY <1>2, <2>3, <2>5, StepsKnown DEF CommitOK
      <4> QED
        BY <2>1, <2>3, <2>5, <3>2, <4>1
    <3>3. CASE editor[c].draft # d
      <4>1. Out(d)
        BY <1>1, <2>5, <3>1, <3>3 DEF Out, Goes, Knows
      <4>2. Gone(d)
        BY <1>1, <2>3, <2>5, <4>1 DEF SettingsInv
      <4> QED
        BY <2>1, <2>3, <2>5, <4>2 DEF Gone
    <3> QED
      BY <3>2, <3>3
  <2> QED
    BY <1>1, <1>2, <1>4, <2>1, <2>2, <2>4, <2>5, WriteKeeps
<1> QED
  BY <1>3, <1>4 DEF RollbackSnapshot

\* A commit is the first one of its draft: its draft was not committed before,
\* and nothing that is out was read by it.
LEMMA CommitDraftKeeps ==
  ASSUME SettingsInv, NEW c \in Callers, CommitDraft(c)
  PROVE  SettingsInv'
<1> DEFINE k == editor[c].draft
           next == Stored(editor[c].current.revision, k, editor[c].current.b, editor[c].id)
           e == [editor[c] EXCEPT !.step = "mark", !.revision = next.revision]
           row == [count |-> commits[k].count + 1, row |-> TRUE]
<1>1. editor[c].step = "commit" /\ UNCHANGED <<draft, source, lost, stale>> /\ UNCHANGED process
  BY DEF CommitDraft, At
<1>2. /\ "commit" \in Holding /\ "commit" \in DraftSteps /\ "mark" \in Holding /\ "mark" \in Unfinished
      /\ "mark" \in EditorSteps /\ "refuse" \in EditorSteps /\ "commit" \notin Done \cup Unfinished
      /\ "mark" \notin Done /\ "read" \in Holding /\ "read" \in DraftSteps /\ "rolledBack" \in Done
      /\ "rolledBack" \in DraftSteps
  BY DEF Holding, Done, DraftSteps, Unfinished, EditorSteps
<1>3. /\ k \in Drafts /\ draft[k].status \in {"applying", "conflict"}
      /\ editor[c].current.revision = draft[k].base
  BY <1>1, <1>2, StepsKnown DEF ClaimOK
<1>4. CASE Move(c, "refuse") /\ UNCHANGED <<active, commits, healthy, tied>>
  BY <1>1, <1>2, <1>3, <1>4, SettingsFacts, MoveKeeps DEF Unfinished, Holding, Done
<1>5. CASE /\ active.revision = editor[c].current.revision /\ active' = next /\ Ties(c, next.revision)
           /\ commits' = [commits EXCEPT ![k] = row] /\ healthy' = healthy \ {k}
           /\ editor' = [editor EXCEPT ![c] = e]
  <2>1. /\ next \in Settings /\ next.a = k /\ next.by = editor[c].id
        /\ next.revision \in Nat /\ next.revision >= 1
    <3>1. PICK new \in Nat : /\ new >= 1
                             /\ next = [revision |-> new, a |-> k, b |-> editor[c].current.b,
                                        by |-> editor[c].id]
      BY EditorParts, SettingsFacts DEF Stored, Now
    <3> HIDE DEF next
    <3> QED
      BY <1>3, <3>1, EditorParts DEF Settings
  <2> HIDE DEF next
  <2>2. /\ e \in SettingsRow /\ e.step = "mark" /\ e.id = editor[c].id /\ e.kind = editor[c].kind
        /\ e.draft = k /\ e.before = editor[c].before /\ e.current = editor[c].current
        /\ e.revision = next.revision
    BY <1>2, <2>1, EditorIs DEF SettingsInv, SettingsRow
  <2> HIDE DEF e
  <2>3. /\ tied' \in BOOLEAN /\ (tied => tied') /\ (~tied' => FreshLimit(c, next.revision))
    BY <1>5, <2>1, TiesIs
  <2>4. /\ commits' \in [Drafts -> [count : Nat, row : BOOLEAN]]
        /\ commits'[k].count = commits[k].count + 1
        /\ \A d \in Drafts \ {k} : commits'[d] = commits[d]
    <3>1. row \in [count : Nat, row : BOOLEAN] /\ row.count = commits[k].count + 1
      BY <1>3, SettingsFacts
    <3> HIDE DEF row
    <3> QED
      BY <1>3, <1>5, <3>1, SettingsFacts
  <2>5. Goes(c) /\ editor'[c] = e
    BY <1>5, <2>2, RowIs DEF SettingsInv
  <2>6. /\ ProcessTypeOK' /\ requests' = requests /\ faults' = faults /\ crashes' = crashes
    BY <1>1, ProcessGoes DEF process, SettingsInv, SettingsTypeOK
  <2>7. SettingsTypeOK'
    BY <1>1, <1>5, <2>1, <2>3, <2>4, <2>5, <2>6
    DEF SettingsInv, SettingsTypeOK, SettingsRow, Goes
  <2>8. ActiveOK'
    <3>1. editor[c].id \in 1 .. requests /\ requests \in Nat
      BY <1>1, StepsKnown DEF EditorOK, SettingsTypeOK, ProcessTypeOK
    <3> QED
      BY <1>5, <2>1, <2>6, <3>1 DEF ActiveOK
  <2>9. SeenOK(c)
    BY <1>1, <1>2, <2>2, <2>5, GoesIsSeen
  <2>10. Apart'
    BY <2>9, ApartKeeps DEF SettingsInv
  <2>11. ASSUME NEW x \in Callers \ {c} PROVE editor'[x] = editor[x] /\ EditorOK(x)' /\ ClaimOK(x)'
    <3>1. editor'[x] = editor[x]
      BY <2>5 DEF Goes
    <3> QED
      BY <1>1, <2>6, <3>1, StepsKnown DEF EditorOK, ClaimOK
  <2>12. EditorOK(c)' /\ ClaimOK(c)' /\ RevisionOK(c)'
    <3>1. EditorOK(c)
      BY StepsKnown
    <3>2. EditorOK(c)'
      BY <1>1, <1>2, <1>3, <2>1, <2>2, <2>5, <2>6, <3>1 DEF EditorOK
    <3>3. ClaimOK(c)'
      BY <1>1, <1>2, <1>3, <2>2, <2>5 DEF ClaimOK
    <3>4. RevisionOK(c)'
      BY <1>5, <2>1, <2>2, <2>5 DEF RevisionOK
    <3> QED
      BY <3>2, <3>3, <3>4
  <2>13. ASSUME NEW d \in Drafts PROVE DraftOK(d)'
    <3>1. CASE d = k
      BY <1>1, <1>3, <2>4, <3>1, SettingsFacts DEF DraftOK
    <3>2. CASE d # k
      <4>1. Unseen(d) => Unseen(d)'
        BY <1>5, <2>1, <2>2, <2>5, <2>11, <3>2 DEF Unseen
      <4> QED
        BY <1>1, <2>4, <3>2, <4>1 DEF SettingsInv, DraftOK
    <3> QED
      BY <3>1, <3>2
  <2>14. ASSUME faults' + crashes' = 0, NEW d \in Drafts PROVE SettledDraft(d)'
    <3>1. CASE d = k
      BY <1>1, <1>3, <3>1 DEF SettledDraft
    <3>2. CASE d # k
      <4>1. SettledDraft(d)
        BY <2>6, <2>14 DEF SettingsInv
      <4>2. ASSUME NEW x \in Callers, editor[x].step \in Done
            PROVE  editor'[x].step \in Done /\ editor'[x].draft = editor[x].draft
        BY <1>1, <1>2, <2>11, <4>2
      <4> QED
        BY <1>1, <1>5, <2>4, <3>2, <4>1, <4>2 DEF SettledDraft
    <3> QED
      BY <3>1, <3>2
  <2>15. ASSUME ~tied', NEW x \in Callers PROVE RevisionOK(x)'
    BY <1>5, <2>1, <2>3, <2>11, <2>12, <2>15, StepsKnown, WriteKeepsRevision
  <2>16. ASSUME NEW x \in Callers \ {c} PROVE ~Wrote(x)'
    <3> SUFFICES ASSUME editor[x].step \in Unfinished, active'.by = editor[x].id PROVE FALSE
      BY <2>11 DEF Wrote
    <3>1. editor[x].step # "idle"
      BY DEF Unfinished
    <3> QED
      BY <1>1, <1>5, <2>1, <3>1 DEF SettingsInv, Apart
  <2>17. /\ Wrote(c)' => editor'[c].draft = k /\ editor'[c].current = editor[c].current
         /\ editor'[c].step = "mark" /\ active'.a = k
    BY <1>5, <2>1, <2>2, <2>5
  <2>18. ASSUME Sound', NEW d \in Drafts, d = k \/ Behind(d) PROVE Behind(d)'
    <3>1. active'.revision # draft'[d].base
      BY <1>1, <1>5, <2>3, <2>18 DEF Sound, FreshLimit
    <3>2. draft'[d].base = 0 /\ d # k => editor[c].current.revision # 0
      BY <1>1, <1>5, <2>18 DEF Behind
    <3> QED
      BY <2>16, <2>17, <3>1, <3>2 DEF Behind
  <2>19. ASSUME Sound' PROVE (\A x \in Callers : CommitOK(x)') /\ \A d \in Drafts : Once(d)'
    <3>1. Sound
      BY <1>1, <2>3, <2>19 DEF Sound
    <3>2. commits[k].count = 0
      BY <1>1, <3>1, StepsKnown DEF CommitOK
    <3>3. CommitOK(c)'
      <4>1. editor[c].current.a # k
        BY <1>3, <3>2 DEF SettingsInv, DraftOK, Unseen
      <4> QED
        BY <2>2, <2>5, <4>1 DEF CommitOK
    <3>4. ASSUME NEW x \in Callers \ {c} PROVE CommitOK(x)'
      <4>1. CommitOK(x) /\ editor'[x] = editor[x]
        BY <2>11, <3>1, StepsKnown
      <4>2. editor[x].step \in {"read", "commit"} => editor[x].draft \in Drafts \ {k}
        BY <1>1, <1>2, AccountAlone, StepsKnown
      <4>3. ASSUME NEW d \in Drafts, editor[x].draft = d, editor[x].step = "read", commits[d].count >= 1
            PROVE  Behind(d)'
        BY <2>18, <2>19, <4>1, <4>3 DEF CommitOK
      <4> QED
        BY <2>4, <4>1, <4>2, <4>3 DEF CommitOK
    <3>5. ASSUME NEW d \in Drafts PROVE Once(d)'
      <4>1. CASE d = k
        BY <2>4, <2>18, <2>19, <3>2, <4>1 DEF Once
      <4>2. CASE d # k
        BY <1>1, <2>4, <2>18, <2>19, <3>1, <4>2 DEF SettingsInv, Once
      <4> QED
        BY <4>1, <4>2
    <3> QED
      BY <3>3, <3>4, <3>5
  <2>20. ASSUME Sound', ~lost', NEW d \in Drafts, Out(d)' PROVE Gone(d)'
    <3>1. Sound /\ ~lost /\ ~tied
      BY <1>1, <2>3, <2>20 DEF Sound
    <3>2. Out(d)
      BY <1>1, <2>5, <2>17, <2>20, OutBefore
    <3>3. d # k
      <4>1. CASE \E x \in Callers : editor[x].step = "rolledBack" /\ editor[x].draft = d
        BY <1>1, <1>2, <4>1, AccountAlone
      <4> QED
        BY <1>3, <3>2, <4>1 DEF Out
    <3>4. active.a # d /\ editor[c].current.a # d
      BY <1>1, <1>5, <3>1, <3>2, StepsKnown DEF SettingsInv, Gone, RevisionOK
    <3> QED
      BY <2>16, <2>17, <3>3, <3>4 DEF Gone
  <2> QED
    BY <2>7, <2>8, <2>10, <2>11, <2>12, <2>13, <2>14, <2>15, <2>19, <2>20 DEF SettingsInv
<1> QED
  BY <1>1, <1>4, <1>5 DEF CommitDraft

---------------------------------------------------------------------------------
(* What holds of the settings. *)

LEMMA SettingsInitOK ==
  ASSUME SettingsInit
  PROVE  SettingsInv
<1>1. /\ active \in Settings /\ active.by = 0 /\ active.revision \in Nat
      /\ active.revision = 0 => active = Environment
      /\ \A d \in Drafts : active.a # d
  <2>1. CASE active = Environment
    BY <2>1, EnvironmentIs DEF Settings
  <2>2. CASE active = [revision |-> 1, a |-> "stored", b |-> "stored", by |-> 0]
    BY <2>2, ProcessAssumption, SettingsAssumption DEF Settings
  <2> QED
    BY <2>1, <2>2 DEF SettingsInit
<1>2. /\ editor \in [Callers -> SettingsRow]
      /\ \A c \in Callers : /\ editor[c].step = "idle" /\ editor[c].before = Environment
                            /\ editor[c].current = Environment
  BY EnvironmentIs DEF SettingsInit
<1>3. /\ draft \in [Drafts -> [status : DraftStatuses, base : Nat]]
      /\ \A d \in Drafts : draft[d].status \in {"none", "validated"}
  BY <1>1 DEF SettingsInit, DraftStatuses
<1>4. /\ commits \in [Drafts -> [count : Nat, row : BOOLEAN]]
      /\ \A d \in Drafts : commits[d].count = 0
  BY DEF SettingsInit
<1>5. ProcessTypeOK /\ requests = 0 /\ source \in [owner : 0 .. MaxRequests, at : 0 .. MaxTime]
  BY ProcessAssumption DEF SettingsInit, ProcessInit, ProcessTypeOK
<1>6. SettingsTypeOK
  BY <1>1, <1>2, <1>3, <1>4, <1>5 DEF SettingsInit, SettingsTypeOK, SettingsRow, DraftStatuses
<1>7. "idle" \notin Holding \cup Done \cup Unfinished \cup DraftSteps
  BY DEF Holding, Done, Unfinished, DraftSteps
<1>8. \A c \in Callers : EditorOK(c) /\ ClaimOK(c) /\ RevisionOK(c) /\ CommitOK(c)
  BY <1>2, <1>7 DEF EditorOK, ClaimOK, RevisionOK, CommitOK, Holding
<1>9. ActiveOK /\ Apart
  BY <1>1, <1>2, <1>5, <1>7 DEF ActiveOK, Apart
<1>10. \A d \in Drafts : DraftOK(d) /\ SettledDraft(d) /\ Once(d) /\ ~Out(d)
  BY <1>1, <1>2, <1>3, <1>4, EnvironmentIs DEF DraftOK, Unseen, SettledDraft, Once, Out
<1> QED
  BY <1>6, <1>8, <1>9, <1>10 DEF SettingsInv

LEMMA SettingsNextKeeps ==
  ASSUME SettingsInv, [SettingsNext]_settingsVars
  PROVE  SettingsInv'
<1>1. ASSUME NEW c \in Callers, ApplyStep(c) PROVE SettingsInv'
  BY <1>1, SnapshotKeeps, ClaimDraftKeeps, ReadActiveKeeps, CommitDraftKeeps, RefuseDraftKeeps,
     MarkAppliedKeeps, AttachOverridesKeeps, ConsumeCommitKeeps, CheckHealthKeeps,
     RollbackSnapshotKeeps, MarkRolledBackKeeps, GiveBackKeeps DEF ApplyStep
<1>2. ASSUME NEW c \in Callers, WriteStep(c) PROVE SettingsInv'
  BY <1>2, LockSourceKeeps, UnlockSourceKeeps, CompareRevisionKeeps, MarkOutdatedKeeps,
     StoreValidationKeeps, PutBeforeKeeps, PutReadKeeps, PutWriteKeeps, PutAttachKeeps,
     PutRestoreKeeps, SyncReadKeeps, SyncWriteKeeps DEF WriteStep
<1>3. ASSUME NEW c \in Callers, PutSettings(c) \/ Synchronize(c) PROVE SettingsInv'
  BY <1>3, OpenEditorKeeps DEF PutSettings, Synchronize
<1>4. ASSUME NEW c \in Callers, NEW d \in Drafts, Validate(c, d) \/ Apply(c, d) PROVE SettingsInv'
  BY <1>4, OpenEditorKeeps DEF Validate, Apply
<1>5. CASE SettingsTick \/ UNCHANGED settingsVars
  BY <1>5, SettingsStutter DEF SettingsTick, settingsVars, rows, ghosts
<1> QED
  BY <1>1, <1>2, <1>3, <1>4, <1>5, SettingsThrowsKeeps, DraftStepsKeep, SettingsDiesKeeps
  DEF SettingsNext

\* What the requests know of the settings in force, of the drafts and of each
\* other stays true under every step, whatever the requests, their number and
\* the faults: the lock that keeps them apart may expire at any time.
THEOREM SettingsAreSound == SettingsSpec => []SettingsInv
<1> QED
  BY SettingsInitOK, SettingsNextKeeps, PTL DEF SettingsSpec

\* The row, the drafts and the requests are of their types.
THEOREM SettingsAreTyped == SettingsSpec => []SettingsTypeOK
<1>1. SettingsInv => SettingsTypeOK
  BY DEF SettingsInv
<1> QED
  BY <1>1, SettingsAreSound, PTL

\* A draft that was committed is not committed again.
THEOREM DraftsAreCommittedOnce == SettingsSpec => []CommittedOnce
<1>1. SettingsInv => CommittedOnce
  BY SettingsFacts DEF SettingsInv, Sound, Once, CommittedOnce
<1> QED
  BY <1>1, SettingsAreSound, PTL

\* The change of a draft that was rolled back is not in force.
THEOREM RolledBackStaysOut == SettingsSpec => []RolledBackIsOut
<1>1. SettingsInv => RolledBackIsOut
  BY SettingsFacts DEF SettingsInv, Sound, Out, Gone, RolledBackIsOut
<1> QED
  BY <1>1, SettingsAreSound, PTL

\* The status of a draft between applications says what became of it.
THEOREM StatusesAreTrue == SettingsSpec => []FinalStatusIsTrue
<1>1. ASSUME SettingsInv PROVE FinalStatusIsTrue
  <2> SUFFICES ASSUME NEW d \in Drafts, \A c \in Callers : editor[c].draft # d, ~(faults + crashes > 0)
               PROVE  /\ draft[d].status = "applied" => d \in healthy
                      /\ draft[d].status = "cancelled" => commits[d].count = 0
    BY DEF FinalStatusIsTrue
  <2>1. faults + crashes = 0
    BY <1>1 DEF SettingsInv, SettingsTypeOK, ProcessTypeOK
  <2>2. SettledDraft(d)
    BY <1>1, <2>1 DEF SettingsInv
  <2>3. commits[d].count \in Nat
    BY <1>1, SettingsFacts
  <2> QED
    BY <2>2, <2>3 DEF SettledDraft
<1> QED
  BY <1>1, SettingsAreSound, PTL

\* A request moves nobody but itself.
LEMMA OthersWait ==
  ASSUME SettingsTypeOK, NEW c \in Callers, NEW x \in Callers \ {c},
         ApplyStep(x) \/ WriteStep(x) \/ SettingsThrows(x) \/ PutSettings(x) \/ Synchronize(x)
         \/ \E d \in Drafts : Validate(x, d) \/ Apply(x, d)
  PROVE  editor'[c] = editor[c]
<1>1. \A e : editor' = [editor EXCEPT ![x] = e] => editor'[c] = editor[c]
  BY EditorIs
<1>2. CASE ApplyStep(x)
  BY <1>1, <1>2 DEF ApplyStep, Snapshot, ClaimDraft, ReadActive, CommitDraft, RefuseDraft, MarkApplied,
     AttachOverrides, ConsumeCommit, CheckHealth, RollbackSnapshot, MarkRolledBack, GiveBack, Move
<1>3. CASE WriteStep(x)
  BY <1>1, <1>3 DEF WriteStep, LockSource, UnlockSource, CompareRevision, MarkOutdated,
     StoreValidation, PutBefore, PutRead, PutWrite, PutAttach, PutRestore, SyncRead, SyncWrite, Move
<1>4. CASE SettingsThrows(x)
  BY <1>1, <1>4 DEF SettingsThrows, Move
<1>5. CASE \/ PutSettings(x) \/ Synchronize(x)
           \/ \E d \in Drafts : Validate(x, d) \/ Apply(x, d)
  BY <1>1, <1>5 DEF PutSettings, Synchronize, Validate, Apply, Open
<1> QED
  BY <1>2, <1>3, <1>4, <1>5

\* A rollback replaces the settings its own application wrote: it finds their
\* revision in force, and no other write has it.
LEMMA RollbackOwns ==
  ASSUME SettingsInv, [SettingsNext]_settingsVars, NEW c \in Callers, editor[c].step = "rollback",
         editor'[c].step = "rolledBack"
  PROVE  active.by = editor[c].id \/ tied
<1>1. editor \in [Callers -> SettingsRow] /\ SettingsTypeOK
  BY EditorIs DEF SettingsInv
<1>2. "rollbackConflict" \in EditorSteps /\ "idle" \in EditorSteps
  BY DEF EditorSteps
<1>3. CASE RollbackSnapshot(c)
  <2>1. CASE active.revision = editor[c].revision
    BY <2>1, StepsKnown DEF RevisionOK, Unfinished
  <2>2. CASE active.revision # editor[c].revision
    BY <1>1, <1>2, <1>3, <2>2, MoveIs DEF RollbackSnapshot
  <2> QED
    BY <2>1, <2>2
<1>4. CASE SettingsThrows(c)
  BY <1>1, <1>2, <1>4, MoveIs DEF SettingsThrows, At, Locked
<1>5. ASSUME ApplyStep(c) \/ WriteStep(c) \/ PutSettings(c) \/ Synchronize(c)
             \/ \E d \in Drafts : Validate(c, d) \/ Apply(c, d)
      PROVE  RollbackSnapshot(c)
  BY <1>5 DEF ApplyStep, Snapshot, ClaimDraft, ReadActive, CommitDraft, RefuseDraft, MarkApplied,
     AttachOverrides, ConsumeCommit, CheckHealth, MarkRolledBack, GiveBack, WriteStep, LockSource,
     UnlockSource, CompareRevision, MarkOutdated, StoreValidation, PutBefore, PutRead, PutWrite,
     PutAttach, PutRestore, SyncRead, SyncWrite, PutSettings, Synchronize, Validate, Apply, Open, At
<1>6. editor'[c].step # editor[c].step
  OBVIOUS
<1>7. CASE SettingsDies
  BY <1>7, EnvironmentIs DEF SettingsDies
<1>8. ~\E d \in Drafts : CreateDraft(d) \/ CancelDraft(d)
  BY <1>6 DEF CreateDraft, CancelDraft
<1>9. ~SettingsTick /\ ~UNCHANGED settingsVars
  BY <1>6 DEF SettingsTick, settingsVars
<1> QED
  BY <1>1, <1>3, <1>4, <1>5, <1>6, <1>7, <1>8, <1>9, OthersWait DEF SettingsNext

\* An automatic rollback replaces nobody else's settings.
THEOREM RollbacksAreOwn == SettingsSpec => RollbackIsOwn
<1>1. SettingsInv /\ [SettingsNext]_settingsVars
      => [\A c \in Callers : At(c, "rollback") /\ editor'[c].step = "rolledBack"
                               => active.by = editor[c].id \/ tied]_settingsVars
  BY RollbackOwns DEF At
<1> QED
  BY <1>1, SettingsAreSound, PTL DEF SettingsSpec, RollbackIsOwn
===================================================================================
