------------------------------ MODULE SelectiveRestore ------------------------------
(***************************************************************************)
(* The selective restore of production tables from an encrypted backup.    *)
(* The preparation exports the tables that would be replaced into a        *)
(* recovery document the administrator keeps, checks the document against  *)
(* the tables, and stages the operation for some minutes. The commitment   *)
(* checks document and tables again and replaces the tables in one batch,  *)
(* whose first statement claims the stage. The tables are read one at a    *)
(* time, while the portal goes on writing them.                            *)
(*                                                                         *)
(* The content of a table is a number, 0 of an empty one. Documents are    *)
(* bound to their stage by hashes, so a stage holds its documents. What    *)
(* the isolated test of the backup and the validation of schema, actor,    *)
(* secret and approval token can do is refuse, at any step.                *)
(***************************************************************************)
EXTENDS PortalProcess

CONSTANTS MaxTable,   \* the tables of the selected domains are 1 .. MaxTable
          Cleared,    \* portal_sessions, which is emptied and not restored
          MaxContent, \* bound: contents of a table
          Lifetime    \* of a stage

Tables == 1 .. MaxTable

ASSUME RestoreAssumption ==
  /\ MaxTable \in Nat \ {0} /\ Cleared \subseteq Tables
  /\ MaxContent \in Nat /\ Lifetime \in Nat \ {0}

VARIABLES
  data,     \* the tables of the selected domains
  stage,    \* portal_backup_restore_stages, by the request that made it
  restorer  \* the request of each caller

restoreVars == <<data, stage, restorer, process>>

Contents == [Tables -> 0 .. MaxContent]
\* What a backup brings back: nothing of a cleared table.
Backups == {b \in Contents : \A t \in Cleared : b[t] = 0}
Blank == [t \in Tables |-> 0]
NoStage == [status |-> "none", expires |-> 0, document |-> Blank, backup |-> Blank]
NoRestorer == [step |-> "idle", stage |-> 0, now |-> 0, table |-> 1, copy |-> Blank]

RestoreInit ==
  /\ ProcessInit
  /\ data = Blank
  /\ stage = [s \in 1 .. MaxRequests |-> NoStage]
  /\ restorer = [c \in Callers |-> NoRestorer]

OpenRestore(c, step, s) ==
  /\ restorer[c].step = "idle"
  /\ Arrive
  /\ restorer' = [restorer EXCEPT ![c] = [NoRestorer EXCEPT
       !.step = step, !.stage = s, !.now = IF step = "load" THEN clock ELSE 0]]
  /\ UNCHANGED <<data, stage>>

\* The request goes on with the next table, or after the last one with a step.
NextTable(c, r, step) ==
  restorer' = [restorer EXCEPT ![c] =
    IF r.table < MaxTable THEN [r EXCEPT !.table = @ + 1] ELSE [r EXCEPT !.table = 1, !.step = step]]

CloseRestore(c) == restorer' = [restorer EXCEPT ![c] = NoRestorer]

---------------------------------------------------------------------------------
(* The preparation. *)

PrepareRestore(c) == OpenRestore(c, "export", requests + 1)

ExportTable(c) ==
  /\ restorer[c].step = "export"
  /\ NextTable(c, [restorer[c] EXCEPT !.copy[restorer[c].table] = data[restorer[c].table]], "verify")
  /\ UNCHANGED <<data, stage, process>>

\* verifySelectiveRecoveryPoint: each table is as in the document.
VerifyTable(c) ==
  /\ restorer[c].step \in {"verify", "check"}
  /\ IF data[restorer[c].table] = restorer[c].copy[restorer[c].table]
     THEN NextTable(c, restorer[c], IF restorer[c].step = "verify" THEN "stage" ELSE "write")
     ELSE CloseRestore(c)
  /\ UNCHANGED <<data, stage, process>>

StageRestore(c, backup) ==
  /\ restorer[c].step = "stage"
  /\ stage' = [stage EXCEPT ![restorer[c].stage] =
       [status |-> "prepared", expires |-> clock + Lifetime,
        document |-> restorer[c].copy, backup |-> backup]]
  /\ CloseRestore(c)
  /\ UNCHANGED <<data, process>>

---------------------------------------------------------------------------------
(* The commitment and the cancellation. *)

Prepared(s, now) == stage[s].status = "prepared" /\ stage[s].expires > now

CommitRestore(c, s) == OpenRestore(c, "load", s)

LoadStage(c) ==
  /\ restorer[c].step = "load"
  /\ LET s == restorer[c].stage
     IN IF Prepared(s, restorer[c].now)
        THEN restorer' = [restorer EXCEPT ![c].step = "check", ![c].copy = stage[s].document]
        ELSE CloseRestore(c)
  /\ UNCHANGED <<data, stage, process>>

\* The batch: every statement after the claim depends on the claimed stage.
ReplaceIf(c, claimed) ==
  /\ restorer[c].step = "write"
  /\ LET s == restorer[c].stage
     IN IF claimed
        THEN /\ data' = stage[s].backup
             /\ stage' = [stage EXCEPT ![s].status = "committed"]
        ELSE UNCHANGED <<data, stage>>
  /\ CloseRestore(c)
  /\ UNCHANGED process

\* Slip: the tables were verified before, and are not compared by the claim.
ReplaceVerified(c) == ReplaceIf(c, Prepared(restorer[c].stage, restorer[c].now))

\* The claim compares every table with the document, at the time the request
\* arrived.
ReplaceTables(c) ==
  ReplaceIf(c, /\ Prepared(restorer[c].stage, restorer[c].now)
               /\ \A t \in Tables : data[t] = restorer[c].copy[t])

CancelRestore(s) ==
  /\ Prepared(s, clock)
  /\ Arrive
  /\ stage' = [stage EXCEPT ![s].status = "cancelled"]
  /\ UNCHANGED <<data, restorer>>

---------------------------------------------------------------------------------

\* A check refuses, a statement throws, or the process dies.
RestoreRefused(c) ==
  /\ restorer[c].step # "idle"
  /\ CloseRestore(c)
  /\ UNCHANGED <<data, stage, process>>

\* The rest of the portal writes a table.
PortalWrites(t, v) ==
  /\ v # data[t]
  /\ data' = [data EXCEPT ![t] = v]
  /\ UNCHANGED <<stage, restorer, process>>

RestoreTick == Tick /\ UNCHANGED <<data, stage, restorer>>

RestoreStep(c) ==
  \/ PrepareRestore(c) \/ ExportTable(c) \/ VerifyTable(c)
  \/ \E backup \in Backups : StageRestore(c, backup)
  \/ \E s \in 1 .. requests : CommitRestore(c, s)
  \/ LoadStage(c) \/ ReplaceTables(c) \/ RestoreRefused(c)

RestoreNext ==
  \/ \E c \in Callers : RestoreStep(c)
  \/ \E s \in 1 .. MaxRequests : CancelRestore(s)
  \/ \E t \in Tables, v \in 0 .. MaxContent : PortalWrites(t, v)
  \/ RestoreTick

RestoreSpec == RestoreInit /\ [][RestoreNext]_restoreVars

---------------------------------------------------------------------------------
(* Properties. *)

RestoreTypeOK ==
  /\ data \in Contents
  /\ stage \in [1 .. MaxRequests ->
       [status : {"none", "prepared", "cancelled", "committed"}, expires : 0 .. MaxTime + Lifetime,
        document : Contents, backup : Backups]]
  /\ restorer \in [Callers ->
       [step : {"idle", "export", "verify", "stage", "load", "check", "write"},
        stage : 0 .. MaxRequests, now : 0 .. MaxTime, table : Tables, copy : Contents]]

\* A restore replaces exactly what its administrator can get back. The document
\* was exported and verified table by table, minutes ago, while logins,
\* settings, runs and other restores went on writing the tables; the batch that
\* replaces them happens once per stage, never for a cancelled one, and only in
\* a state equal to that document in every table.
RestoreIsRecoverable ==
  [][\A s \in 1 .. MaxRequests :
       stage[s].status # "committed" /\ stage'[s].status = "committed"
       => /\ stage[s].status = "prepared"
          /\ data = stage[s].document
          /\ data' = stage[s].backup]_restoreVars
===================================================================================
