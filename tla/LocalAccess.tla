-------------------------------- MODULE LocalAccess --------------------------------
(***************************************************************************)
(* The local accounts of the portal: their sessions, the login with its    *)
(* rate limit, and the changes administrators make to accounts. A login    *)
(* and a change are each several statements with a slow key derivation in  *)
(* between; nothing locks an account.                                      *)
(*                                                                         *)
(* A user is one id with one username, which is not used again after the   *)
(* account is deleted. A password is the count of its resets, and the      *)
(* sessions of one user made with one password are one.                    *)
(***************************************************************************)
EXTENDS PortalProcess

CONSTANTS Users,
          LoginLimit,  \* failures that start a cooldown
          LoginWindow, \* after which failures are counted anew
          Cooldown,    \* bound: cooldowns with their growth and jitter
          Retention    \* after which a row nobody updated is swept

ASSUME AccessAssumption ==
  /\ LoginLimit \in Nat \ {0} /\ LoginWindow \in Nat /\ Cooldown \in Nat \ {0}
  /\ Retention \in Nat /\ "client" \notin Users

VARIABLES
  account,    \* portal_users
  sessions,   \* portal_sessions
  limit,      \* portal_login_rate_limits, of the client and of each username
  visitor,    \* the request of each caller
  overlapped  \* ghost: an account was written while another change had read one

accessVars == <<account, sessions, limit, visitor, overlapped, process>>

Absent == [state |-> "absent", admin |-> FALSE, disabled |-> FALSE, password |-> 0]
NoLimit == [failures |-> 0, window |-> 0, blocked |-> 0, updated |-> 0]
NoVisitor == [step |-> "idle", user |-> "client", row |-> Absent, change |-> "none", now |-> 0]

Present(u) == account[u].state = "present"
ActiveAdmin(u) == Present(u) /\ account[u].admin /\ ~account[u].disabled

\* resolveLocalSession: the account is joined and must not be disabled.
Resolves(s) == Present(s.user) /\ ~account[s.user].disabled

\* A new portal, or one with an administrator; everyone may be logged in.
AccessInit ==
  /\ ProcessInit
  /\ account \in [Users -> {Absent} \cup
       [state : {"present"}, admin : BOOLEAN, disabled : {FALSE}, password : {0}]]
  /\ (\E u \in Users : Present(u)) => \E u \in Users : ActiveAdmin(u)
  /\ sessions = {[user |-> u, password |-> 0, raced |-> FALSE] : u \in {v \in Users : Present(v)}}
  /\ limit = [s \in Users \cup {"client"} |-> NoLimit]
  /\ visitor = [c \in Callers |-> NoVisitor]
  /\ overlapped = FALSE

\* The next statement, with what the request has read, or with only its user.
To(c, step) ==
  visitor' = [visitor EXCEPT ![c] = IF step = "idle" THEN NoVisitor ELSE [@ EXCEPT !.step = step]]
On(c, step) ==
  visitor' = [visitor EXCEPT
    ![c] = IF step = "idle" THEN NoVisitor ELSE [NoVisitor EXCEPT !.step = step, !.user = visitor[c].user]]

Serve(c, u, step, change) ==
  /\ visitor[c].step = "idle"
  /\ Arrive
  /\ visitor' = [visitor EXCEPT
       ![c] = [NoVisitor EXCEPT !.step = step, !.user = u, !.change = change,
                             !.now = IF step = "checkClient" THEN clock ELSE 0]]
  /\ UNCHANGED <<account, sessions, limit, overlapped>>

\* The first request of a portal without users creates the configured one; a
\* second one that saw no users either fails on the unique username.
BootstrapAdmin(u) ==
  /\ \A v \in Users : ~Present(v)
  /\ account[u].state = "absent"
  /\ account' = [account EXCEPT ![u].state = "present", ![u].admin = TRUE]
  /\ UNCHANGED <<sessions, limit, visitor, overlapped, process>>

---------------------------------------------------------------------------------
(* The login. *)

Login(c, u) == Serve(c, u, "checkClient", "none")

CheckLimit(c) ==
  /\ visitor[c].step \in {"checkClient", "checkUser"}
  /\ LET client == visitor[c].step = "checkClient"
         row == limit[IF client THEN "client" ELSE visitor[c].user]
     IN \/ row.blocked > visitor[c].now /\ To(c, "idle")
        \/ row.blocked <= visitor[c].now /\ client /\ To(c, "checkUser")
        \/ row.blocked <= visitor[c].now /\ ~client /\ On(c, "read")
  /\ UNCHANGED <<account, sessions, limit, overlapped, process>>

ReadCredentials(c) ==
  /\ visitor[c].step = "read"
  /\ visitor' = [visitor EXCEPT ![c].step = "verify", ![c].row = account[visitor[c].user]]
  /\ UNCHANGED <<account, sessions, limit, overlapped, process>>

Fail(c) ==
  visitor' = [visitor EXCEPT ![c] = [NoVisitor EXCEPT !.step = "failClient",
                                                      !.user = visitor[c].user, !.now = clock]]

\* The key derivation, with the row that was read; it takes its time, and the
\* right password of that row may be given or not.
VerifyPassword(c) ==
  /\ visitor[c].step = "verify"
  /\ \/ visitor[c].row.state = "present" /\ ~visitor[c].row.disabled /\ To(c, "insert")
     \/ Fail(c)
  /\ UNCHANGED <<account, sessions, limit, overlapped, process>>

\* The account is not looked at again. (The time of the login, written next,
\* is left out; when that throws the login counts as failed.)
InsertSession(c) ==
  /\ visitor[c].step = "insert"
  /\ sessions' = sessions \cup
       {[user |-> visitor[c].user, password |-> visitor[c].row.password,
         raced |-> visitor[c].row.password # account[visitor[c].user].password]}
  /\ On(c, "succeed")
  /\ UNCHANGED <<account, limit, overlapped, process>>

\* recordLoginSuccess and clearLoginRateLimitForUsername.
ClearLimit(c) ==
  /\ visitor[c].step \in {"succeed", "clear", "clearDeleted"}
  /\ limit' = [limit EXCEPT ![visitor[c].user] = NoLimit]
  /\ To(c, IF visitor[c].step = "clearDeleted" THEN "drop" ELSE "idle")
  /\ UNCHANGED <<account, sessions, overlapped, process>>

\* The retention, once per failure, and the upsert of one subject: failures of
\* an old window are forgotten, a cooldown is not.
CountFailure(c) ==
  /\ visitor[c].step \in {"failClient", "failUser"}
  /\ LET client == visitor[c].step = "failClient"
         subject == IF client THEN "client" ELSE visitor[c].user
         now == visitor[c].now
         kept == [s \in DOMAIN limit |->
                    IF client /\ limit[s].updated < now - Retention THEN NoLimit ELSE limit[s]]
         old == kept[subject]
         anew == old.failures = 0 \/ old.window <= now - LoginWindow
         failures == IF anew THEN 1 ELSE old.failures + 1
     IN /\ limit' = [kept EXCEPT ![subject] =
                       [failures |-> failures, window |-> IF anew THEN now ELSE old.window,
                        blocked |-> old.blocked, updated |-> now]]
        /\ To(c, CASE failures >= LoginLimit -> IF client THEN "blockClient" ELSE "blockUser"
                   [] failures < LoginLimit -> IF client THEN "failUser" ELSE "idle")
  /\ UNCHANGED <<account, sessions, overlapped, process>>

\* Slip: the row is stored as blocked until the failure itself.
BlockLess(c) ==
  /\ visitor[c].step \in {"blockClient", "blockUser"}
  /\ LET subject == IF visitor[c].step = "blockClient" THEN "client" ELSE visitor[c].user
     IN /\ limit' = [limit EXCEPT ![subject].blocked = visitor[c].now]
        /\ To(c, IF subject = "client" THEN "failUser" ELSE "idle")
  /\ UNCHANGED <<account, sessions, overlapped, process>>

\* The second statement: it blocks the row that is there, if one is.
BlockSubject(c) ==
  /\ visitor[c].step \in {"blockClient", "blockUser"}
  /\ LET subject == IF visitor[c].step = "blockClient" THEN "client" ELSE visitor[c].user
         row == limit[subject]
     IN /\ \E cooldown \in 1 .. Cooldown :
             LET until == visitor[c].now + cooldown
             IN limit' = [limit EXCEPT ![subject] =
                  IF row.failures = 0 THEN row
                  ELSE [row EXCEPT !.blocked = IF until > @ THEN until ELSE @,
                                   !.updated = visitor[c].now]]
        /\ To(c, IF subject = "client" THEN "failUser" ELSE "idle")
  /\ UNCHANGED <<account, sessions, overlapped, process>>

---------------------------------------------------------------------------------
(* Changes by an administrator. *)

ChangeSteps == {"readUpdate", "readReset", "readDelete", "countUpdate", "countDelete",
                "update", "reset", "revokeUpdate", "revokeReset", "revokeDelete", "clear",
                "clearDeleted", "drop"}

\* requireAdmin: a session of an active administrator; nobody disables, demotes
\* or deletes the account of the own session.
Change(c, u, step, change) ==
  /\ \E s \in sessions :
       /\ Resolves(s) /\ account[s.user].admin
       /\ s.user = u => step # "readDelete" /\ change \notin {"demote", "disable"}
  /\ Serve(c, u, step, change)

\* A request changes the role or the flag here, or neither, only the name.
UpdateUser(c, u) ==
  \E change \in {"none", "promote", "demote", "disable", "enable"} :
    Change(c, u, "readUpdate", change)
ResetPassword(c, u) == Change(c, u, "readReset", "none")
DeleteUser(c, u) == Change(c, u, "readDelete", "none")
RevokeUserSessions(c, u) == Change(c, u, "revokeUpdate", "none")

CreateUser(u) ==
  /\ \E s \in sessions : Resolves(s) /\ account[s.user].admin
  /\ account[u].state = "absent"
  /\ Arrive
  /\ \E admin \in BOOLEAN :
       account' = [account EXCEPT ![u].state = "present", ![u].admin = admin]
  /\ UNCHANGED <<sessions, limit, visitor, overlapped>>

AfterRead(step) == [readUpdate |-> "countUpdate", readReset |-> "reset", readDelete |-> "countDelete"][step]

ReadAccount(c) ==
  /\ visitor[c].step \in {"readUpdate", "readReset", "readDelete"}
  /\ IF Present(visitor[c].user)
     THEN visitor' = [visitor EXCEPT ![c].step = AfterRead(@), ![c].row = account[visitor[c].user]]
     ELSE To(c, "idle")
  /\ UNCHANGED <<account, sessions, limit, overlapped, process>>

\* What an update writes: both columns, from the row it read.
NextAdmin(v) == v.change = "promote" \/ (v.row.admin /\ v.change # "demote")
NextDisabled(v) == v.change = "disable" \/ (v.row.disabled /\ v.change # "enable")

\* An administrator loses the role, the access or the account.
Loses(v) == v.row.admin /\ (v.step = "countDelete" \/ ~NextAdmin(v) \/ NextDisabled(v))

\* Slip: the account itself is counted.
CountAll(c) ==
  /\ visitor[c].step \in {"countUpdate", "countDelete"}
  /\ To(c, IF Loses(visitor[c]) /\ \A u \in Users : ~ActiveAdmin(u) THEN "idle"
           ELSE IF visitor[c].step = "countUpdate" THEN "update" ELSE "revokeDelete")
  /\ UNCHANGED <<account, sessions, limit, overlapped, process>>

\* ... only if another administrator is active at this moment.
CountAdmins(c) ==
  /\ visitor[c].step \in {"countUpdate", "countDelete"}
  /\ To(c, IF Loses(visitor[c]) /\ \A u \in Users \ {visitor[c].user} : ~ActiveAdmin(u)
           THEN "idle"
           ELSE IF visitor[c].step = "countUpdate" THEN "update" ELSE "revokeDelete")
  /\ UNCHANGED <<account, sessions, limit, overlapped, process>>

HasRead == {"countUpdate", "countDelete", "update", "revokeDelete", "clearDeleted", "drop"}
Overlaps(c) ==
  overlapped' = (overlapped \/ \E d \in Callers \ {c} : visitor[d].step \in HasRead)

WriteUpdate(c) ==
  /\ visitor[c].step = "update"
  /\ account' = IF Present(visitor[c].user)
                THEN [account EXCEPT ![visitor[c].user].admin = NextAdmin(visitor[c]),
                                     ![visitor[c].user].disabled = NextDisabled(visitor[c])]
                ELSE account
  /\ On(c, IF NextDisabled(visitor[c]) THEN "revokeUpdate" ELSE "idle")
  /\ Overlaps(c)
  /\ UNCHANGED <<sessions, limit, process>>

NewPassword(u) ==
  IF Present(u) THEN [account EXCEPT ![u].password = @ + 1] ELSE account

\* Slip: the sessions of the old password are kept.
WriteAndKeep(c) ==
  /\ visitor[c].step = "reset"
  /\ account' = NewPassword(visitor[c].user)
  /\ On(c, "clear")
  /\ UNCHANGED <<sessions, limit, overlapped, process>>

WriteReset(c) ==
  /\ visitor[c].step = "reset"
  /\ account' = NewPassword(visitor[c].user)
  /\ On(c, "revokeReset")
  /\ UNCHANGED <<sessions, limit, overlapped, process>>

AfterRevoke(step) ==
  [revokeUpdate |-> "idle", revokeReset |-> "clear", revokeDelete |-> "clearDeleted"][step]

RevokeSessions(c) ==
  /\ visitor[c].step \in {"revokeUpdate", "revokeReset", "revokeDelete"}
  /\ sessions' = {s \in sessions : s.user # visitor[c].user}
  /\ On(c, AfterRevoke(visitor[c].step))
  /\ UNCHANGED <<account, limit, overlapped, process>>

DropAccount(c) ==
  /\ visitor[c].step = "drop"
  /\ account' = [account EXCEPT ![visitor[c].user] = [Absent EXCEPT !.state = "deleted"]]
  /\ To(c, "idle")
  /\ Overlaps(c)
  /\ UNCHANGED <<sessions, limit, process>>

\* A logout, or one session an administrator revokes.
EndSession ==
  /\ Arrive
  /\ \E s \in sessions : sessions' = sessions \ {s}
  /\ UNCHANGED <<account, limit, visitor, overlapped>>

---------------------------------------------------------------------------------
(* Failures. *)

\* An exception of the authentication is counted as a failed login; one of the
\* cleanup of a deleted account is ignored; any other ends the request, as the
\* death of the process does everywhere.
AccessThrows(c) ==
  /\ visitor[c].step # "idle"
  /\ Fault
  /\ \/ To(c, "idle")
     \/ visitor[c].step \in {"read", "insert", "succeed"} /\ Fail(c)
     \/ visitor[c].step = "clearDeleted" /\ On(c, "drop")
  /\ UNCHANGED <<account, sessions, limit, overlapped>>

AccessTick == Tick /\ UNCHANGED <<account, sessions, limit, visitor, overlapped>>

AccessStep(c) ==
  \/ CheckLimit(c) \/ ReadCredentials(c) \/ VerifyPassword(c)
  \/ InsertSession(c) \/ ClearLimit(c)
  \/ CountFailure(c) \/ BlockSubject(c)
  \/ ReadAccount(c) \/ CountAdmins(c) \/ WriteUpdate(c) \/ WriteReset(c)
  \/ RevokeSessions(c) \/ DropAccount(c)

AccessNext ==
  \/ \E c \in Callers :
       \/ AccessStep(c) \/ AccessThrows(c)
       \/ \E u \in Users : \/ Login(c, u) \/ UpdateUser(c, u) \/ ResetPassword(c, u)
                           \/ DeleteUser(c, u) \/ RevokeUserSessions(c, u)
  \/ \E u \in Users : BootstrapAdmin(u) \/ CreateUser(u)
  \/ EndSession
  \/ AccessTick

AccessSpec == AccessInit /\ [][AccessNext]_accessVars

---------------------------------------------------------------------------------
(* Properties. *)

LoginSteps == {"checkClient", "checkUser", "read", "verify", "insert", "succeed",
               "failClient", "blockClient", "failUser", "blockUser"}
AccountRow == [state : {"absent", "present", "deleted"}, admin : BOOLEAN,
               disabled : BOOLEAN, password : Nat]

\* Types.
AccessTypeOK ==
  /\ ProcessTypeOK
  /\ account \in [Users -> AccountRow]
  /\ \A s \in sessions : s.user \in Users /\ s.password \in Nat /\ s.raced \in BOOLEAN
  /\ limit \in [Users \cup {"client"} ->
       [failures : Nat, window : 0 .. MaxTime, blocked : 0 .. MaxTime + Cooldown,
        updated : 0 .. MaxTime]]
  /\ visitor \in [Callers ->
       [step : {"idle"} \cup LoginSteps \cup ChangeSteps, user : Users \cup {"client"},
        row : AccountRow, change : {"none", "promote", "demote", "disable", "enable"},
        now : 0 .. MaxTime]]
  /\ \A c \in Callers : visitor[c].step # "idle" => visitor[c].user \in Users
  /\ overlapped \in BOOLEAN

\* administrator/README.md:71: the last active administrator is protected.
LastAdminProtected == (\E u \in Users : Present(u)) => \E u \in Users : ActiveAdmin(u)

\* The count before the write protects the last administrator, also from two
\* administrators who demote or delete each other, as long as no account is
\* written between the read of another change and its write.
AdminRemains == overlapped \/ LastAdminProtected

\* A session made with a password that was replaced since is gone once the
\* reset is through, unless its login had read the account before the reset
\* and inserted the session after it.
ResetRevokes ==
  \A s \in sessions :
    \/ s.password = account[s.user].password \/ ~Present(s.user)
    \/ s.raced
    \/ \E c \in Callers : visitor[c].step = "revokeReset" /\ visitor[c].user = s.user
    \/ faults > 0

\* Failures that reached the limit are followed by a cooldown longer than the
\* last of them, although the counting and the blocking are two statements
\* that other failures, a success and a new window come between.
LimitIsEnforced ==
  \A s \in Users \cup {"client"} :
    limit[s].failures >= LoginLimit =>
      \/ limit[s].blocked > limit[s].updated
      \/ \E c \in Callers : visitor[c].step = IF s = "client" THEN "blockClient" ELSE "blockUser"
      \/ faults > 0
===================================================================================
