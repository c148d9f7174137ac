------------------------------ MODULE SchemaMigration ------------------------------
(***************************************************************************)
(* The schema of the portal's database and its two writers: the startup    *)
(* path that applies automatic migrations before any request is served,    *)
(* and the operator's apply and reconcile requests for controlled ones,    *)
(* under maintenance. They exclude each other by a lock row with a time to *)
(* live, which a slow owner can lose without noticing.                     *)
(*                                                                         *)
(* A migration is its version. It creates tables in one batch, which       *)
(* CREATE TABLE IF NOT EXISTS makes repeatable, and indexes and triggers   *)
(* in a second batch with its journal row, whose primary key is the        *)
(* version: a version is journaled exactly when it is complete. An         *)
(* inspection of the schema finds no drift other than what these batches   *)
(* have not created yet.                                                   *)
(***************************************************************************)
EXTENDS PortalProcess

CONSTANTS Latest,     \* the registry has the versions 1 .. Latest
          Automatic,  \* the first ones are automatic, the others controlled
          Ttl,        \* lockTtlMs
          Attempts,   \* maxLockAttempts
          Wiring      \* is the quick check given a database: see Healthy

ASSUME MigrationAssumption ==
  /\ Latest \in Nat \ {0}
  /\ Automatic \in 1 .. Latest
  /\ Ttl \in Nat \ {0}
  /\ Attempts \in Nat \ {0}
  /\ Wiring \in (SUBSET BOOLEAN) \ {{}}

VARIABLES
  infrastructure,  \* the journal and lock tables exist
  journal,         \* versions in portal_schema_migrations
  tables,          \* versions whose tables exist
  lock,            \* the row of portal_schema_lock
  operation,       \* the row of portal_migration_operations
  closed,          \* the state of maintenance
  migrator,        \* the migration request of each caller
  wired,           \* see Healthy
  stolen           \* ghost: a lock was taken from a request that still runs

schema == <<infrastructure, journal, tables>>
migrationVars ==
  <<schema, lock, operation, closed, migrator, wired, stolen, process>>

Versions == 1 .. Latest
NoLock == [owner |-> 0, at |-> 0]
NoOperation == [state |-> "none", id |-> 0, from |-> 0, applied |-> 0]

NoMigrator ==
  [step |-> "idle", kind |-> "ensure", id |-> 0, tries |-> 0, at |-> 0,
   from |-> 0, version |-> 0, row |-> NoOperation, verdict |-> "none", late |-> 0]

\* A fresh database, or one an earlier release left, which the operator may
\* have stopped under maintenance.
MigrationInit ==
  /\ ProcessInit
  /\ \E base \in 0 .. Automatic :
       /\ infrastructure = (base > 0)
       /\ journal = 1 .. base
       /\ tables = 1 .. base
       /\ closed \in IF base = 0 THEN {"inactive"} ELSE {"inactive", "active"}
  /\ lock = NoLock
  /\ operation = NoOperation
  /\ migrator = [c \in Callers |-> NoMigrator]
  /\ wired \in Wiring
  /\ stolen = FALSE

---------------------------------------------------------------------------------
(* What an inspection of the schema finds. *)

Current == CHOOSE n \in 0 .. Latest : journal = 1 .. n

AutomaticDone == 1 .. Automatic \subseteq journal

\* Without a journal table the inspection fails before it knows a version. The
\* canonical snapshot has the tables and the indexes of version 1.
SchemaState ==
  CASE ~infrastructure -> "failed"
    [] infrastructure /\ 1 \notin journal -> "incompatible"
    [] 1 \in journal /\ AutomaticDone /\ journal # Versions -> "pending"
    [] OTHER -> "ready"

\* The startup path inspects first, and goes on in two cases only: the schema
\* is ready with automatic versions left, or it could not be inspected.
EnsureProceeds ==
  \/ SchemaState = "ready" /\ ~AutomaticDone
  \/ SchemaState = "failed"

\* Slip: a pending controlled migration does not close the gate.
OpenGate == SchemaState \in {"ready", "pending"} /\ AutomaticDone

\* The ordinary API and the maintenance endpoints wait behind this gate.
SchemaGate == SchemaState = "ready" /\ AutomaticDone

\* The handlers pass the quick check the environment, not a database handle,
\* so that it answers "unavailable"; the tests inject one that answers.
Healthy == wired

\* Only controlled versions are pending, and nothing of them exists yet.
PlanAllowed == AutomaticDone /\ journal # Versions /\ tables = journal

LockBlocks == lock.owner # 0 /\ clock - lock.at <= Ttl

---------------------------------------------------------------------------------
(* Requests. *)

Goto(c, step) ==
  migrator' = [migrator EXCEPT
    ![c] = IF step = "idle" THEN NoMigrator ELSE [@ EXCEPT !.step = step]]

\* The steps at which a request of this kind has set acquired, and those at
\* which an apply has a running operation to mark as failed.
Migrating == {"open", "tables", "guard", "commit", "confirm", "final", "complete"}
Acquired == Migrating \cup {"journal", "locked", "begin", "classify", "mark"}

\* Where an exception takes the request: the catch and finally blocks.
Thrown(r) ==
  CASE r.kind = "apply" /\ r.step \in Migrating -> "failing"
    [] r.step = "failing" -> "marking"
    [] r.step = "marking" -> "release"
    [] r.step \in Acquired /\ ~(r.kind = "apply" /\ r.step \in Migrating) -> "release"
    [] OTHER -> "idle"

Throw(c) == Goto(c, Thrown(migrator[c]))

Start(c, kind, step) ==
  /\ migrator[c].step = "idle"
  /\ Arrive
  /\ migrator' = [migrator EXCEPT
       ![c] = [NoMigrator EXCEPT !.kind = kind, !.step = step, !.id = requests']]
  /\ UNCHANGED <<schema, lock, operation, closed, wired, stolen>>

\* Any request of the ordinary API: the gate runs the startup path before it.
StartEnsure(c) == EnsureProceeds /\ Start(c, "ensure", "prepare")

\* verifyMaintenance, once: the state may change at every later await.
StartApply(c) == closed = "active" /\ Start(c, "apply", "plan")
StartReconcile(c) == closed \in {"active", "failed"} /\ Start(c, "reconcile", "load")

PrepareInfrastructure(c) ==
  /\ migrator[c].step = "prepare"
  /\ infrastructure' = TRUE
  /\ Goto(c, "acquire")
  /\ UNCHANGED <<journal, tables, lock, operation, closed, wired, stolen, process>>

InspectPlan(c) ==
  /\ migrator[c].step = "plan"
  /\ IF PlanAllowed /\ ~LockBlocks
     THEN migrator' = [migrator EXCEPT ![c].step = "previous", ![c].from = Current]
     ELSE Goto(c, "idle")
  /\ UNCHANGED <<schema, lock, operation, closed, wired, stolen, process>>

\* The apply refuses a running or failed operation; the reconciliation needs one.
LoadOperation(c) ==
  /\ migrator[c].step \in {"previous", "load"}
  /\ IF (operation.state \in {"running", "failed"}) = (migrator[c].kind = "reconcile")
     THEN migrator' = [migrator EXCEPT
            ![c].step = "acquire",
            ![c].row = IF migrator[c].kind = "reconcile" THEN operation ELSE NoOperation]
     ELSE Goto(c, "idle")
  /\ UNCHANGED <<schema, lock, operation, closed, wired, stolen, process>>

---------------------------------------------------------------------------------
(* The lock. *)

\* DELETE ... WHERE acquired_at < now - ttl.
SweepLock(c) ==
  /\ migrator[c].step = "acquire"
  /\ migrator' = [migrator EXCEPT ![c].step = "insert", ![c].at = clock]
  /\ IF lock.owner # 0 /\ lock.at < clock - Ttl
     THEN /\ lock' = NoLock
          /\ stolen' = (stolen \/ \E d \in Callers : migrator[d].id = lock.owner
                                                       /\ migrator[d].step # "idle")
     ELSE UNCHANGED <<lock, stolen>>
  /\ UNCHANGED <<schema, operation, closed, wired, process>>

AfterAcquire(kind) ==
  CASE kind = "ensure" -> "journal"
    [] kind = "apply" -> "locked"
    [] kind = "reconcile" -> "classify"

\* The request has the lock, and is done with the time and the count of its
\* attempts.
Enter(c) ==
  /\ lock' = [owner |-> migrator[c].id, at |-> migrator[c].at]
  /\ migrator' = [migrator EXCEPT
       ![c] = [@ EXCEPT !.step = AfterAcquire(migrator[c].kind), !.at = 0, !.tries = 0]]

\* Slip: the attempt that failed is not counted.
InsertOnceMore(c) ==
  /\ migrator[c].step = "insert"
  /\ IF lock = NoLock THEN Enter(c)
     ELSE /\ lock' = lock
          /\ IF migrator[c].tries < Attempts
             THEN migrator' = [migrator EXCEPT ![c].step = "acquire", ![c].tries = @ + 1]
             ELSE Goto(c, "idle")
  /\ UNCHANGED <<schema, operation, closed, wired, stolen, process>>

\* INSERT OR IGNORE with the time read before the DELETE; the next attempt.
InsertLock(c) ==
  /\ migrator[c].step = "insert"
  /\ \/ lock = NoLock /\ Enter(c)
     \/ /\ lock # NoLock
        /\ migrator[c].tries + 1 < Attempts
        /\ migrator' = [migrator EXCEPT ![c].step = "acquire", ![c].tries = @ + 1]
        /\ UNCHANGED lock
     \/ /\ lock # NoLock
        /\ migrator[c].tries + 1 >= Attempts
        /\ Goto(c, "idle")
        /\ UNCHANGED lock
  /\ UNCHANGED <<schema, operation, closed, wired, stolen, process>>

\* The last version a request of this kind applies.
Last(kind) == IF kind = "ensure" THEN Automatic ELSE Latest

\* The statement a renewal protects. The inspections between two renewals
\* find what the batch before them created.
AfterRenewal(r) ==
  CASE r.step = "open" -> "tables"
    [] r.step = "guard" -> "commit"
    [] r.step = "confirm" /\ r.version < Last(r.kind) -> "tables"
    [] r.step = "confirm" /\ r.version >= Last(r.kind) ->
         IF r.kind = "ensure" THEN "release" ELSE "final"

\* Slip: the answer of the UPDATE is not looked at.
RenewBlindly(c) ==
  /\ migrator[c].step \in {"open", "guard", "confirm"}
  /\ migrator' = [migrator EXCEPT
       ![c].step = AfterRenewal(migrator[c]),
       ![c].version = IF migrator[c].step = "confirm" /\ @ < Last(migrator[c].kind)
                      THEN @ + 1 ELSE @]
  /\ lock' = IF lock.owner = migrator[c].id THEN [lock EXCEPT !.at = clock] ELSE lock
  /\ UNCHANGED <<schema, operation, closed, wired, stolen, process>>

\* UPDATE ... WHERE owner: a renewal after the expiry succeeds as long as
\* nobody swept the row. After the last batch of a version it is followed by
\* the first renewal of the next one.
RenewLock(c) ==
  /\ migrator[c].step \in {"open", "guard", "confirm"}
  /\ IF lock.owner = migrator[c].id
     THEN /\ lock' = [lock EXCEPT !.at = clock]
          /\ migrator' = [migrator EXCEPT
               ![c].step = AfterRenewal(migrator[c]),
               ![c].version = IF migrator[c].step = "confirm" /\ @ < Last(migrator[c].kind)
                              THEN @ + 1 ELSE @]
     ELSE /\ Throw(c)
          /\ UNCHANGED lock
  /\ UNCHANGED <<schema, operation, closed, wired, stolen, process>>

\* DELETE ... WHERE owner.
ReleaseLock(c) ==
  /\ migrator[c].step = "release"
  /\ lock' = IF lock.owner = migrator[c].id THEN NoLock ELSE lock
  /\ Goto(c, "idle")
  /\ UNCHANGED <<schema, operation, closed, wired, stolen, process>>

---------------------------------------------------------------------------------
(* The migrations. *)

\* The journal is read once, under the lock, and must be a prefix of the
\* automatic versions; the versions it lacks are applied in order.
ReadJournal(c) ==
  /\ migrator[c].step = "journal"
  /\ IF Current < Automatic
     THEN migrator' = [migrator EXCEPT ![c].step = "open", ![c].version = Current + 1]
     ELSE Goto(c, "release")
  /\ UNCHANGED <<schema, lock, operation, closed, wired, stolen, process>>

\* The preflight again, between two renewals: the plan must be the same.
LockedPreflight(c) ==
  /\ migrator[c].step = "locked"
  /\ IF lock.owner = migrator[c].id /\ PlanAllowed /\ Current = migrator[c].from
     THEN /\ lock' = [lock EXCEPT !.at = clock]
          /\ Goto(c, "begin")
     ELSE /\ Throw(c)
          /\ UNCHANGED lock
  /\ UNCHANGED <<schema, operation, closed, wired, stolen, process>>

\* INSERT ... ON CONFLICT DO UPDATE WHERE the last operation is finished.
BeginOperation(c) ==
  /\ migrator[c].step = "begin"
  /\ IF operation.state \in {"none", "succeeded", "reconciled", "interrupted"}
     THEN /\ operation' = [state |-> "running", id |-> migrator[c].id,
                           from |-> migrator[c].from, applied |-> 0]
          /\ migrator' = [migrator EXCEPT ![c].step = "open",
                                          ![c].version = migrator[c].from + 1]
     ELSE /\ Throw(c)
          /\ UNCHANGED operation
  /\ UNCHANGED <<schema, lock, closed, wired, stolen, process>>

\* A batch was executed, by the owner of the lock or by one who lost it.
Batched(c) == IF lock.owner = migrator[c].id THEN migrator[c].late ELSE migrator[c].late + 1

CreateTables(c) ==
  /\ migrator[c].step = "tables"
  /\ tables' = tables \cup {migrator[c].version}
  /\ migrator' = [migrator EXCEPT ![c].step = "guard", ![c].late = Batched(c)]
  /\ UNCHANGED <<infrastructure, journal, lock, operation, closed, wired, stolen, process>>

\* The progress of an operation is the count of its versions.
Counted(c) ==
  /\ migrator[c].kind = "apply"
  /\ operation.state = "running"
  /\ operation.id = migrator[c].id
  /\ operation.applied = migrator[c].version - migrator[c].from - 1

\* Slip: the version is stored where the count is meant.
CommitVersion(c) ==
  /\ migrator[c].step = "commit"
  /\ migrator[c].version \notin journal
  /\ journal' = journal \cup {migrator[c].version}
  /\ operation' = IF Counted(c)
                  THEN [operation EXCEPT !.applied = migrator[c].version]
                  ELSE operation
  /\ migrator' = [migrator EXCEPT ![c].late = Batched(c), ![c].step = "confirm"]
  /\ UNCHANGED <<infrastructure, tables, lock, closed, wired, stolen, process>>

\* One batch: the rest of the schema, the journal row, and for an apply the
\* guarded progress, whose count is looked at after the batch is committed. A
\* journaled version breaks the primary key and the batch.
CommitMigration(c) ==
  /\ migrator[c].step = "commit"
  /\ IF migrator[c].version \in journal
     THEN /\ Throw(c)
          /\ UNCHANGED <<journal, operation>>
     ELSE /\ journal' = journal \cup {migrator[c].version}
          /\ operation' = IF Counted(c)
                          THEN [operation EXCEPT !.applied = @ + 1]
                          ELSE operation
          /\ migrator' = [migrator EXCEPT
               ![c].late = Batched(c),
               ![c].step = IF migrator[c].kind = "ensure" \/ Counted(c)
                           THEN "confirm" ELSE "failing"]
  /\ UNCHANGED <<infrastructure, tables, lock, closed, wired, stolen, process>>

\* The final inspection and the quick check, without another renewal.
VerifyFinal(c) ==
  /\ migrator[c].step = "final"
  /\ IF SchemaState = "ready" /\ journal = Versions /\ Healthy
     THEN Goto(c, "complete")
     ELSE Throw(c)
  /\ UNCHANGED <<schema, lock, operation, closed, wired, stolen, process>>

CompleteOperation(c) ==
  /\ migrator[c].step = "complete"
  /\ IF operation.state = "running" /\ operation.id = migrator[c].id
     THEN /\ operation' = [operation EXCEPT !.state = "succeeded",
                                            !.applied = Latest - operation.from]
          /\ Goto(c, "release")
     ELSE /\ Throw(c)
          /\ UNCHANGED operation
  /\ UNCHANGED <<schema, lock, closed, wired, stolen, process>>

\* The catch block of an apply: its error is stored if the operation is its
\* own, and maintenance fails whoever's it is.
FailOperation(c) ==
  /\ migrator[c].step = "failing"
  /\ operation' = IF operation.state = "running" /\ operation.id = migrator[c].id
                  THEN [operation EXCEPT !.state = "failed"] ELSE operation
  /\ Goto(c, "marking")
  /\ UNCHANGED <<schema, lock, closed, wired, stolen, process>>

MarkMaintenanceFailed(c) ==
  /\ migrator[c].step = "marking"
  /\ closed' = IF closed \in {"active", "leaving"} THEN "failed" ELSE closed
  /\ Goto(c, "release")
  /\ UNCHANGED <<schema, lock, operation, wired, stolen, process>>

---------------------------------------------------------------------------------
(* The reconciliation. *)

\* Slip: a schema at its target or before it is reconciled.
OptimisticVerdict(row) ==
  IF Healthy /\ SchemaState \in {"ready", "pending"} THEN "reconciled" ELSE "restore"

\* Slip: what the operation counted is not looked at, nor where it began.
HastyVerdict(row) ==
  CASE Healthy /\ SchemaState = "ready" /\ journal = Versions -> "reconciled"
    [] Healthy /\ SchemaState = "pending" -> "interrupted"
    [] OTHER -> "restore"

\* From the journal and the row read before the lock; tables without a journal
\* row are not looked at.
Verdict(row) ==
  CASE Healthy /\ SchemaState = "ready" /\ journal = Versions -> "reconciled"
    [] Healthy /\ SchemaState = "pending" /\ Current = row.from /\ row.applied = 0 ->
         "interrupted"
    [] OTHER -> "restore"

Classify(c) ==
  /\ migrator[c].step = "classify"
  /\ migrator' = [migrator EXCEPT ![c].step = "mark",
                                  ![c].verdict = Verdict(migrator[c].row)]
  /\ UNCHANGED <<schema, lock, operation, closed, wired, stolen, process>>

\* markMigrationReconciled, markMigrationInterrupted, failMigrationOperation:
\* guarded by the operation id, and the last one by the running state.
MarkReconciliation(c) ==
  /\ migrator[c].step = "mark"
  /\ LET verdict == migrator[c].verdict
         own == operation.id = migrator[c].row.id
         open == own /\ operation.state \in {"running", "failed"}
     IN operation' =
          CASE verdict = "reconciled" /\ open ->
                 [operation EXCEPT !.state = "reconciled",
                                   !.applied = Latest - operation.from]
            [] verdict = "interrupted" /\ open ->
                 [operation EXCEPT !.state = "interrupted"]
            [] verdict = "restore" /\ own /\ operation.state = "running" ->
                 [operation EXCEPT !.state = "failed"]
            [] OTHER -> operation
  /\ Goto(c, "release")
  /\ UNCHANGED <<schema, lock, closed, wired, stolen, process>>

---------------------------------------------------------------------------------
(* The rest of the portal, and what goes wrong. *)

\* The maintenance endpoints, themselves behind the schema gate. A maintenance that
\* is left does not become active again: that takes another one. MaintenanceMode has
\* the steps in between.
MoveMaintenance ==
  /\ SchemaGate
  /\ \/ closed = "inactive" /\ closed' = "active"
     \/ closed = "active" /\ closed' = "leaving"
     \/ closed = "leaving" /\ closed' = "inactive"
  /\ UNCHANGED <<schema, lock, operation, migrator, wired, stolen, process>>

StatementThrows(c) ==
  /\ migrator[c].step # "idle"
  /\ Fault
  /\ Throw(c)
  /\ UNCHANGED <<schema, lock, operation, closed, wired, stolen>>

PortalDies ==
  /\ Die
  /\ migrator' = [c \in Callers |-> NoMigrator]
  /\ UNCHANGED <<schema, lock, operation, closed, wired, stolen>>

MigrationTick ==
  /\ Tick
  /\ UNCHANGED <<schema, lock, operation, closed, migrator, wired, stolen>>

MigrationStart(c) == StartEnsure(c) \/ StartApply(c) \/ StartReconcile(c)

MigrationStep(c) ==
  \/ PrepareInfrastructure(c) \/ InspectPlan(c) \/ LoadOperation(c)
  \/ SweepLock(c) \/ InsertLock(c) \/ RenewLock(c) \/ ReleaseLock(c)
  \/ ReadJournal(c) \/ LockedPreflight(c) \/ BeginOperation(c)
  \/ CreateTables(c) \/ CommitMigration(c) \/ VerifyFinal(c)
  \/ CompleteOperation(c) \/ FailOperation(c) \/ MarkMaintenanceFailed(c)
  \/ Classify(c) \/ MarkReconciliation(c)

MigrationNext ==
  \/ \E c \in Callers : MigrationStart(c) \/ MigrationStep(c) \/ StatementThrows(c)
  \/ MoveMaintenance
  \/ PortalDies
  \/ MigrationTick

MigrationSpec == MigrationInit /\ [][MigrationNext]_migrationVars

---------------------------------------------------------------------------------
(* Properties. *)

OperationRow ==
  [state : {"none", "running", "succeeded", "failed", "interrupted", "reconciled"},
   id : 0 .. MaxRequests, from : 0 .. Latest, applied : 0 .. Latest]

\* Types: the rows and the requests have the columns and the fields the code
\* reads, and an operation never counts past the last version.
MigrationTypeOK ==
  /\ ProcessTypeOK
  /\ infrastructure \in BOOLEAN
  /\ journal \subseteq Versions
  /\ tables \subseteq Versions
  /\ lock \in [owner : 0 .. MaxRequests, at : 0 .. MaxTime]
  /\ operation \in OperationRow
  /\ operation.from + operation.applied <= Latest
  /\ closed \in {"inactive", "active", "leaving", "failed"}
  /\ migrator \in [Callers ->
       [step : Acquired \cup {"idle", "prepare", "plan", "previous", "load", "acquire",
                              "insert", "failing", "marking", "release"},
        kind : {"ensure", "apply", "reconcile"}, id : 0 .. MaxRequests,
        tries : 0 .. Attempts - 1, at : 0 .. MaxTime, from : 0 .. Latest,
        version : 0 .. Latest, row : OperationRow,
        verdict : {"none", "reconciled", "interrupted", "restore"}, late : Nat]]
  /\ wired \in BOOLEAN
  /\ stolen \in BOOLEAN

\* The operation row never runs ahead of the journal: every version it counts
\* is journaled, whatever crashed and whoever took the lock. While the lock was
\* never taken from a living request, a running operation is not behind it
\* either, so that its count can be trusted after a crash.
ProgressIsJournaled ==
  /\ 1 .. (operation.from + operation.applied) \subseteq journal
  /\ ~stolen /\ operation.state = "running" =>
       journal = 1 .. (operation.from + operation.applied)

\* A succeeded or reconciled operation leaves the complete schema, although
\* the final checks run without a renewal of the lock.
FinishedIsComplete ==
  operation.state \in {"succeeded", "reconciled"} => journal = Versions

\* An operation is called interrupted, which admits a new one, only if it
\* journaled nothing; but for the batch of a request whose lock was taken.
InterruptedIsUntouched ==
  operation.state = "interrupted" => stolen \/ journal = 1 .. operation.from

\* A request that lost its lock executes at most the one batch it was about
\* to: the renewal after it ends the migration.
LateBatchesOnce == \A c \in Callers : migrator[c].late <= 1

\* A controlled migration is committed only while the portal is closed,
\* although maintenance is verified once, at the start of the apply.
ControlledUnderMaintenance ==
  [][\A v \in journal' \ journal : v > Automatic => closed # "inactive"]_migrationVars

\* However requests, operators, thefts of the lock and deaths overlap, the schema
\* goes up one version at a time, controlled ones behind a closed portal that
\* opens only with the last one, and what is recorded as complete is.
Upgrades == INSTANCE SchemaUpgrade WITH
  version <- Current,
  open <- closed = "inactive",
  verdict <- CASE operation.state = "none" -> "none"
               [] operation.state = "running" -> "running"
               [] operation.state \in {"failed", "interrupted"} -> "incomplete"
               [] OTHER -> "complete"
UpgradesInOrder == Upgrades!Spec
===================================================================================
