# Verification of the FreeIPA administration portal

The portal is a self-hosted dashboard in TypeScript: a Worker-style HTTP
application over one SQLite database, a small Node runtime that serves and
schedules it, and an offline recovery tool that replaces that database. This
directory holds TLA+ modules that model parts of it, configurations that
model-check them with TLC, and proofs that TLAPS checks.

## The system

| Part | State it keeps | Operations | Talks to |
|---|---|---|---|
| Offline recovery (`src/recovery/`) | a receipt file with a phase; the live database file and its candidate, retained, failed and temporary siblings; an encrypted recovery point; a lock file | `backup-current`, `restore`, `verify`, `rollback`, `maintenance-recover` | the file system; the running portal over loopback HTTP |
| Maintenance mode (`src/recovery/maintenance/`, `worker/maintenance-*`) | one row: state, operation, controller secret, expiry | prepare, enter, verify, exit, complete, cancel; a gate before every request and scheduled run | every HTTP entry; storage migration; recovery |
| Storage migration (`src/storage/migration/`, `db/`) | schema journal, migration lock row, operation row | preflight, apply, reconcile | maintenance mode |
| Backup and selective restore (`src/backup/`) | staged restore row, recovery point | export, preview, stage, commit, cancel | the database |
| Operation approvals (`src/operations/approvals/`) | request rows, decision rows | create, decide, cancel, claim, finish; expiry on read | operations HTTP entry, XYOps |
| Operations and runs (`src/operations/`, `worker/operations-*`) | catalogue cache, run journal | run, watch, cancel | XYOps |
| Local authentication (`src/auth/`, `login-rate-limit.ts`) | users, sessions, failure counters | bootstrap, login, logout, revoke, update, delete | every HTTP entry |
| Settings lifecycle (`worker/settings-*`) | drafts, active settings | validate, activate, reset | integrations |
| Runtime (`runtime/`) | active scheduled run, open resources | start, runNow, stop, shutdown | the application, the database |
| Catalogue synchronisation (`worker/secure-entry.ts`, `xyops-catalog-runtime.ts`) | snapshot, history, lock row, rows of the runs | open the catalogue, synchronise by hand or by the timer | XYOps |
| Dependency health (`worker/dependency-health.ts`) | cached snapshot and the probe in flight, in memory | poll | FreeIPA, XYOps |
| FreeIPA changes (`worker/freeipa-*.ts`) | the lanes of a bulk request; rows in the log of runs | single change, bulk change | FreeIPA |
| HTTP entries, FreeIPA/XYOps clients | none that lasts | request routing | remote services |
| User interface, build, deployment | none relevant here | | |

### What is hard in it

* *Crashes and power losses* between the steps of the offline swap, of a
  migration, of an approved execution. Files and receipt are separate, and a
  rename is durable only after its directory was fsynced.
* *Concurrent processes*: `verify` runs without the lock the other recovery
  commands take; the portal may be started while the tool works; several
  administrators decide on one request; a migration lock can be stolen from an
  owner that is only slow.
* *Checks separated from the writes they guard* by an await: last administrator,
  migration progress, approval counts, the maintenance gate, the tables a restore
  replaces, the settings a rollback replaces, the state of a run.
* *Errors that are not failures, and answers that are not successes*: a receipt write that
  reports an error may have replaced the receipt; a 2xx answer of XYOps need not have started
  a job, a successful one of FreeIPA need not have changed every member.

* *A time to live in place of ownership*: the migration lock, the settings lock,
  an approval, a staged restore and a login cooldown all end by the clock, under
  a request that still works with them.
* *Answers of another system*: XYOps may start a job and not say so, answer late,
  or know a job by another state than the log does; FreeIPA may carry out a change
  and not say so.
* *Work shared between requests*: a health probe that several requests wait for, and the
  lanes of a bulk request that take users from one cursor.

`PROJECT.json` lists each of these at the line where it bites, with the
properties that cover it, or with the reason why none does.

## Modules

| Module | Models | Role |
|---|---|---|
| `RecoverySwap` | `recovery-swap.ts`, `recovery-reconcile.ts`, `recovery-candidate.ts`, `recovery-receipt.ts`, `recovery-point.ts`, the verify handler | the core: receipt and directory of one offline replacement |
| `DatabaseReplacement` | | abstract specification: what the portal is served, and the verdict |
| `RecoveryCli` | `recovery-command-handlers.ts`, `recovery-discovery.ts` | `RecoverySwap` as the command line starts it |
| `RecoverySwap_proofs` | | inductive invariants and theorems about `RecoverySwap`, the refinement of `DatabaseReplacement`; the command line only narrows its operations |
| `MaintenanceMode` | `maintenance-repository.ts`, `maintenance-mode-gate.ts`, `maintenance-control-entry.ts`, `recovery-maintenance.ts`, the parts of `local-auth.ts` and of the migration that touch the row or the sessions | the maintenance row and everybody who moves it or looks at it |
| `OnlineVerification` | `recovery-online-verification.ts`, `maintenance-verification-smoke.ts`, the verify handler | extends `MaintenanceMode` by the verify command and its receipt |
| `MaintenanceWindow` | | abstract specification: whom the portal lets in, who was let in, who has a session |
| `MCMaintenance` | | `MaintenanceMode` and `OnlineVerification` on small instances |
| `Maintenance_proofs` | | inductive invariants and theorems about `MaintenanceMode` and `OnlineVerification`, the refinement of `MaintenanceWindow`, what the two have in common with `SchemaMigration` and `RecoverySwap` |
| `PortalProcess` | the Node.js process and its D1-like database, as the handlers use them | clock, arrival of requests, exceptions, death of the process; extended by all modules below |
| `SchemaMigration` | `storage/migration/`, `db/portal-migrations.ts`, `portal-migration-lock.ts`, `portal-controlled-migrations.ts` | startup, controlled apply and reconciliation of the schema |
| `SchemaUpgrade` | | abstract specification: the version of the schema, whether the portal is open, and what is recorded |
| `ApprovalGate` | `operations/approvals/approval-gates.ts`, the approval routes of `operations-http-entry.ts` | one approval row from the request to the outcome of its execution |
| `ApprovedLaunch` | | abstract specification: a launch, its votes, the jobs it started and what was told of it |
| `LocalAccess` | `auth/local-auth.ts`, `login-rate-limit.ts`, the auth routes of `secure-entry.ts` | accounts, sessions, logins, the limit |
| `SettingsLifecycle` | `worker/settings-*` | drafts, the lock, application, health check, rollback, direct writes, synchronisation |
| `SelectiveRestore` | `backup/backup-selective-*` | recovery document, stage, commitment |
| `OperationRuns` | `operations/xyops/xyops-run-runtime.ts`, `operation-runs*.ts`, the run routes | the log of runs against the jobs of XYOps |
| `RuntimeLifecycle` | `runtime/*.mjs` | start, requests and their tasks, timer, stop |
| `CatalogSync` | `worker/secure-entry.ts` (synchronisation), `xyops-catalog-runtime.ts` | the catalogue with its lock |
| `DependencyHealth` | `worker/dependency-health.ts` | cache and shared probe |
| `DirectoryActions` | `worker/freeipa-http-entry.ts`, `freeipa-rpc.ts` | FreeIPA changes, one at a time and in bulk |
| `MCPortal` | | the ten components from `SchemaMigration` on, on small instances, for two runs |
| `ApprovalGate_proofs`, `SelectiveRestore_proofs` | | inductive invariants and theorems, each about the module of its name; the refinement of `ApprovedLaunch` |
| `Startup_proofs` | | the same about `RuntimeLifecycle` and `SchemaMigration`; the refinement of `SchemaUpgrade` |
| `Administration_proofs` | | the same about `LocalAccess` and `SettingsLifecycle` |
| `Integrations_proofs` | | the same about `CatalogSync`, `DependencyHealth`, `DirectoryActions` and `OperationRuns` |
| `Portal_proofs` | | what `MCPortal` explores is what the theorems are about, and its type invariant |

### RecoverySwap

*State.* `files` maps the five paths of the database directory to the database
that is there; `images` is the set of directories a power loss may leave: all
since the last fsync of the directory. `receipt` and `receiptImages` are the same
pair for the receipt's phase. A database is one of four names and a number of
writes of the portal (`edits`), so two files have the same SHA-256 in the code
exactly when they have the same name and no different writes here. `pointMatches`
is whether the recovery point decrypts to the bytes the receipt names; it is
chosen at the start, because SQLite's backup of a database is a logical copy
and not a byte copy, and the code only notices at rollback. `cmd` is the locked
command that runs with its next step; `verifier` is the verify that runs.

*Actions.* One action per stretch of code between two system calls that change
the disk, in the order of the code, named after the function and the step:
`swapBegin` (all checks of `swapRecoveryCandidate`), `swapRecordStart`,
`swapRenameLive`, `swapRenameCandidate`, `swapFsync`, `swapRecordEnd`; likewise
`reconcile...` and `rollback...`, the latter with `rollbackInspect`, `rollbackPutBack` and
`rollbackDiscard` for the catch block. An inspection there that fails counts as one that finds
nothing (`recovery-swap.ts:393-394`), so that the rename may go over a live database that was not
seen; the history variable `overwrote` remembers it. Each step may fail (`Fails`) as the
system call may. `WriteReceipt` has three outcomes: done; an error with the
old receipt in place; an error with the new receipt in place, because the rename
worked and the fsync of its directory did not. `verifyBegin` ... are the steps of
the verify handler, `recordVerificationFailure` with its stale copy of the receipt.
`portalWrites` and `portalCreates` are the portal, which may be started at any
moment no command runs and then writes to the live database or, finding none,
creates one. `candidateVanishes`, `processCrash` and `powerLoss` are the rest of
the surroundings.

*Abstractions and assumptions.*
* A power loss leaves a prefix of the directory operations since the last fsync
  (journalled file systems keep the order of renames in one directory). File
  contents are on disk: the code fsyncs the candidate (`recovery-swap.ts:272`)
  and the rollback source (`:360`) before the rename.
* The paths given to the commands are always the same five, as the guide asks
  ("с теми же paths"); `--failed` and `--recovery-temp` could be chosen anew.
* While a command runs the portal does not write: the guide asks for a stopped
  dashboard. Between commands it may do anything.
* `Next` has one command at a time, verify included, as the guide runs them;
  `OverlapNext` drops that for verify, which the lock does not cover.
* Clock steps are left out: `reconcileRecoveryReceipt` refuses to write a receipt
  not later than the last one, and the clock may have been set back.
* The candidate's content is the choice between a candidate that passes its
  checks and one that is removed.

### DatabaseReplacement

`serving` is what the portal is served (the original, the replacement, a foreign
database, nothing) and `verdict` what the receipt asserts (open, replaced,
restored). Work on the database happens only while the verdict is open, and a
verdict is given only over the matching database. `RecoverySwap!ReplacesAtomically`
is this specification under the mapping of live file and receipt phase. A rollback gives its verdict
when it ends, and none when its catch block has overwritten the restored database: until then
`rolled_back` may be in place although its write reported an error. Writes of
the portal are stutters: they do not change which database is served.

### RecoveryCli

`restoreHandler` runs the preflight first: `discoverPortalDatabase` must find one
portal database in the data root, at the path and with the hash in the receipt.
Candidate, retained original and failed database are in the same directory
and are portal databases, so they count. Everything else is `RecoverySwap`.

### MaintenanceMode

*State.* `row` is the row of `portal_maintenance_state`: its state, operation,
expiry, whether `created_at` is set, and which of three values
`verification_json` has. `sessions` holds who is logged in and, as a history, during
which operation the session was made. `request` is the ordinary request of each
user, `control` the control request of each controller with the answer it got,
`migration` the operation a migration was started under.

*Actions.* The awaits of the code are where one action ends and the next begins. A
control request is `prepareMaintenance` or `authorizeTransition` (time, row,
checks), then, after the hash of the secret, `claimOperation` or `applyTransition`
(the batch with the guarded UPDATE, with enter's second statement that revokes
the sessions), then `finishTransition` (the row is read again and answered). In
between `batchFails` and `answerLost`. An ordinary request is `gate`, then a login
(`authenticateLocalUser`) or a session found (`resolveLocalSession`) and its end.
`markMaintenanceFailed` and `recoverOffline` are the writers that bypass the control
endpoints. `portalStops` ends every request under way.

*Abstractions.* An operation's id and its secret are created and stored together
and are one number; a request with a wrong secret changes nothing but the audit log
and is left out. A controller may only use an operation whose secret an answer
carried to somebody (`told`). Between two reads of one database statement batches
are atomic, which SQLite gives. The gate's allow-list (status, control endpoints)
is the division into ordinary and control requests. The clock only goes on.

### MaintenanceWindow

`access` says whom the portal lets in: everybody ("open"), nobody new ("closing", while the
maintenance is prepared), nobody ("closed", with everybody logged out as it begins), nobody although
its checks are accepted, or nobody after a recovery from outside. `inside` is who was let in and has
not ended, `loggedIn` who has a session. The maintenance ends by being withdrawn before it began, by
accepted checks, or with the portal down. `MaintenanceMode!KeepsTheWindow` is this specification under
the mapping of the row, the requests and the sessions; rows, secrets, expiries, the requests of the
controllers and their answers are stutters.

### OnlineVerification

The controller `Cli` and the user `Administrator` are the verify command. `verifier` is
its next request, `receipt` the phase on disk, `bound` the operation it names. A
request may be refused, fail or time out at any point (`verificationFails`), while
the portal goes on with it: `control` and `request` belong to `MaintenanceMode`
and are not reset. `restore` stands for the commands up to `swapped`, which
`RecoverySwap` has in full; its share here is that the candidate keeps the
maintenance row and loses the sessions. The receipts after a rollback are not
in this module: `rolled_back` is `RecoverySwap`'s.

### PortalProcess

The online components share one process. A *caller* is a place for a request under
way; its record has a `step`, the statement the request executes next, and what the
handler has read into its variables so far. An action is one statement of the
database (or one batch, which is a transaction) with the synchronous code up to the
next await, so the interleavings of the model are those of the event loop. `Arrive`
numbers the requests; `Fault` is a statement that throws, which takes the
request where the handler's catch and finally blocks take it; `Crash` is a death
of the process, which ends all requests and leaves the database. Requests, clock,
faults and crashes are bounded by constants. Each module's `...Tick` lets time pass
at any moment.

### SchemaMigration

*State.* `journal` and `tables` are the versions whose journal row, and whose tables,
exist; `lock` the lock row with the time it was taken; `operation` the row of the
controlled operation (state, first version, number applied); `closed` the state of
maintenance as far as it matters here. `wired` is whether the quick check is given
a database: the handlers hand it the environment instead (below), so both values
are explored. `stolen` is a ghost: a lock was taken from a request that still ran.

*Actions.* `StartEnsure` is the startup path in front of an ordinary request,
`StartApply` and `StartReconcile` the operator's. Then statement by statement: sweep
and insertion of the lock with its attempts (`SweepLock`, `InsertLock`), its renewals
(`RenewLock`), the two batches of a version with the guarded progress update between
them (`CreateTables`, `CommitVersion`, `CommitMigration`), the final checks without
a renewal (`VerifyFinal`), the catch block (`FailOperation`, `MarkMaintenanceFailed`)
and the release. `Classify` and `MarkReconciliation` are the reconciliation.
`MoveMaintenance` is the maintenance, which may end under a running apply.

*Abstractions.* A migration is its number; drift other than an unfinished version is
out, and so are the comparison of snapshots and the SQL. The backup counts as
fresh, and two requests that share one preflight in flight are two requests.
`MaintenanceMode` has the maintenance in full.

`SchemaUpgrade` is what remains of it without locks, batches and requests: a version that goes up one
by one, a portal that is closed while a controlled version is added and opens only with the last one,
and a verdict that says "complete" only of a complete schema.

### ApprovalGate

*State.* One row `approval`, the decisions by approver, the current `policy`, the requests
under way, and `launches`, how many jobs were started for the row.

*Actions.* `RequestRun` to `CreateApproval`; `Decide` to `InsertDecision`,
`CountApprovals`, `ApproveApproval` or `RejectApproval`; cancellation; `Execute` to
`ClaimExecution` (the guarded UPDATE), `CheckExecution` (policy and catalogue are looked
at again), `LaunchJob`, `SaveRun`, `FinishExecution`. Every read expires an overdue
row first (`Read`). `LaunchJob` has the outcomes of the call to XYOps: any 2xx answer, which the
code takes for a launch (`executed`), a refusal with 409 or 429 (`failed`), another error or no
answer (`unknown`). Only the refusal says that no job was started; with the others XYOps may have
started one or not.

`ApprovedLaunch` is what remains of it without requests, statements and times: a launch that is granted
by as many votes as it needs, taken by one executor, started at most once, and told once and for all,
`failed` only when nothing was started. That `executed` means a job is not part of it: the code
does not establish it.

### LocalAccess

*State.* `account`, `sessions` (by user and by the password they were made with), the
`limit` rows of users and of the client address, and `visitor`, the request of each caller.
Ghosts: `overlapped`, an account was written between the read of another change
and its write; `raced` of a session, its login had read the account before a reset.

*Actions.* The bootstrap; the login with the two limit checks, the read of the credentials,
the slow verification, the session, and on failure the count and the block of each
limit; update, reset, deletion and revocation, each as read, count of the
administrators, write, deletion of the sessions; creation.

### SettingsLifecycle

*State.* `active` is the row of the settings, a revision and two fields, with a note who wrote
it; `draft` and `commits` the drafts and their commit rows; `source` the lock.
Ghosts: `healthy`, the drafts found healthy; `tied`, a write stored a revision that another request
or a draft refers to; `lost`, a direct write stored a field it had read before
another write; `stale`, a rollback restored other settings than its application replaced.

*Actions.* `Validate` to `StoreValidation`; `Apply` with its snapshot, claim, commit, the
mark, the attachment of overrides, the consumption of the commit row, and, after the lock
is released, the health check and the rollback; the direct write `PutSettings` and
`Synchronize`, each under the lock; exceptions with what the finally blocks give back.

### SelectiveRestore

`data` is the content of each table, `stage` the staged operations with the recovery
document they are bound to, `restorer` the requests. The preparation exports
(`ExportTable`) and verifies (`VerifyTable`) table by table while `PortalWrites` goes on;
the commitment verifies again and replaces everything in one batch,
`ReplaceTables`, whose claim compares the tables once more. Approval token, isolated test
and validation can only refuse, which `RestoreRefused` may do at every step.

### OperationRuns

*State.* `job` is XYOps' side, `row` the log with its notification and result, `operator` the
requests: launch, stop, and the synchronisation that opening the log starts.

*Actions.* `StartJob` is the call of the launch, whatever came of it at XYOps: a 2xx answer is saved with
the status it tells, or as active without one, and with or without an identifier
(a row without one is not `linked`: it has a name of its own, `LOCAL-...`, and can neither be stopped
nor brought up to date); an answer with an error is saved as failed (`refused`), with an identifier
if it has one; no answer, like an exception, leads to the catch block (`CatchLaunch`). That writes a
second row of a failed run, whatever `SaveRow`, `NotifyRun` and `SaveReplay` wrote before; it is the
field `caught`, since it has neither job nor parameters and nothing else touches it. The synchronisation
(`ListRuns`, `ListResults`, `FetchActive`, `FetchDetails`, `ApplyAnswer`) reads all rows, asks
for the active jobs and then for the details of the rest, and writes whole rows from what it read at
first; answers may be missing.

*Assumptions about XYOps.* The identifier and the status in the answer to a launch are those of the job it
started for it, and an identifier names a job; it refuses to abort a job that is over, and calls an
aborted one failed or cancelled.

### RuntimeLifecycle

`phase` is the next step of the process, of its start, of its stop or of the cleanup of a failed
start. `handler` is what the request of each client does, apart from what the client
waits for: a client may leave while its handler goes on, and a handler may leave a task.
`scheduler` is the timer with its one run.

### CatalogSync

*State.* `snapshot`, `history`, `syncLock` (the time it was acquired) and `syncRow` are the rows of
the four tables; `upstream` is the version of the catalogue XYOps serves; `reader` is the
request of each caller.

*Actions.* A synchronisation takes its start time, then `ExpireSyncLock`, `AcquireSyncLock`,
`SaveSkipped` or `SaveStarted`, the catalogue itself (`ReadSnapshot`, `FetchCatalog`,
`SaveSnapshot`, `SaveHistory`), which opening it (`OpenCatalog`) shares without a lock,
and `ReleaseSyncLock`, `SaveOutcome`. The lock is deleted by the time it was taken,
not by an owner. `SyncThrows` takes the request where the code does: the first write of
the run's row is outside the try block and leaves the lock where it is.

*Abstractions.* A catalogue is its version. The contents of the history, the audit event and
the limits on the number of rows are left out.

### DependencyHealth

*State.* `cachedSnapshot` and `inFlightProbe` are the module's two variables of the
same names, `probe` the probe each caller started, `poll` its request.

*Actions.* `DecideHealth` is the synchronous stretch that answers from the cache, joins the probe
in flight or starts one, and fixes the snapshot the new one falls back to; then
`ProbeAnswered`, `CacheProbe` (then) and `ProbeEnds` (finally) are microtasks of their own. Which
services answer is chosen freely. The classification of a failure, and the settings a
probe uses, are left out.

### DirectoryActions

*State.* `bulk` is the request of each caller with its cursor, `lane` its lanes, `user` what
happened to each user of the list: how often the RPC was sent, the answer to it (a history variable), the
run's row, the result. What FreeIPA did is not in the model, since the answer does not tell: the code takes
HTTP ok without a top-level error for success (`freeipa-rpc.ts:37-39`, `:62-63`) and does not
look for the members that a group command names in `result.failed`.

*Actions.* `TakeUser` reads and moves the cursor in one synchronous step; `ReadDirectorySettings`,
`CallFreeIpa` and `SaveDirectoryRun` are `handleFreeIpaAction`, whose catch block also catches the failure to
write the row of a successful run (`DirectoryThrows`): a change that was made is then
logged as failed. A throw in that catch block ends the lane and, by Promise.all, the
answer, while the other lanes go on. A single change is a list of one.

## Runs

| Run | Question | Bounds |
|---|---|---|
| `MCRecoveryPower` | Can failing calls, crashes, power losses and a late verify lose the original, or separate receipt and directory? Does a failed rollback leave a database? Can an interrupted swap be told apart? | `OverlapSpec`; 3 crashes or power losses, 3 failing calls, 2 writes per database; 380,741 states |
| `MCRecoverySwap` | Do commands follow the phase table? Do verdict and served database agree (refinement)? Is the retained original exact? | `Spec`; 3 process crashes, 3 failing calls, 2 writes per database; 26,584 states |
| `FindSwapDurable` | finding | 1 power loss or crash, 1 failing call |
| `FindRollbackContinues` | finding | 1 process crash |
| `FindTerminalPhases` | finding | none: two commands overlap |
| `FindRestoreRerun` | finding | 1 process crash |
| `MCMaintenance` | Do answers tell what was done? Can a transition happen twice? Do sessions survive the entry? Is it one maintenance window after another (refinement)? Does a closed portal come to rest? Is `verified` true of the maintenance and of the test login? Does anybody use the replaced database before? | behaviours without verification: 2 controllers, 1 user, and 2 of: an operation, a stop, a tick with a time to live of 1; with verification: the verifier and an operator, the administrator and a user, up to 2 operations and 2 stops, 3 together; 488,698 states |
| `FindOfflineRecovery` | finding | 1 operation, 1 stop |
| `FindPostComplete` | finding | 1 operation, 1 stop |
| `MCPortalAdmin` | Do the components in which several people decide about the same thing (approvals, accounts, settings) hold their promises under overlapping requests, exceptions, deaths of the process and the clock? | 2 callers, 2 users or approvers, 2 drafts, 1 fault or crash; the rest below; 408,930 states |
| `MCPortal` | Do the other online components (migration, restore, runs, runtime, catalogue, health, FreeIPA)? | 2 callers, 1 fault or crash; the rest below; 898,258 states |
| `FindLastAdmin` | finding | 2 users, 2 overlapping changes |

Why the bounds are enough: a replacement has one receipt and one directory, and
all phases are reached without any fault. A crash returns to `Idle`, so that two
crashes already give a crash during the repair of a crash, and a third one comes after the
repair; two failing calls give a failure inside the catch block of a failure (so that it
overwrites what it could not see), and the third one a failing receipt or rename after it. One write distinguishes an untouched database
from one the portal used, and a second one two of its uses. What the proofs
cover does not depend on the bounds at all.

For the maintenance: two controllers give every pair of overlapping requests, each
with the three awaits of the other in between; a third one only repeats what the
second does, and the proofs cover any number. Two operations give a request of an
old operation against the row of a new one. One tick expires a prepared
operation between the check and the UPDATE. With the verification the clock stands
(an expiry cannot touch an entered operation); the replacement takes an operation and a stop.
Operations, stops and ticks share a bound (`EventBound`): a second maintenance, a second
stop and a tick each meet everything a first maintenance and its requests do, but not each other. Which
request is late, and for which operation, does not depend on why time passed or the portal
was down, and the safety properties are theorems without any bound.

`MCPortalAdmin` and `MCPortal` check one component per behaviour (`subject`), chosen at the start: the
components of the portal have different tables and different requests, and
their product would only multiply their states. Two callers give every overlap of two
requests at every await; a third request at once is left to the proofs. Bounds that
belong to single subjects are in `RequestBound`, `TimeBound` and `FailureBound`:

* migration: 3 versions of which 1 is automatic, so that a controlled apply has
  a version to stop after and one to go on with; 3 requests (an apply, another
  owner of the lock, a reconciliation or a second apply), a time to live of 1 and
  a clock to 2, the least at which a lock is older than that; 2 attempts;
* approvals: 2 approvers and policies that need none, one or two; 5 requests
  (request, two decisions, two executions); 1 tick past a window of 1;
* access: 2 users, a limit of 2 failures, a window and cooldown of 1; 3 requests, or 2 and
  a failure;
* settings: 2 drafts, so that two applications overlap, or 1 draft against direct writes and
  synchronisations; 3 requests, or 2 and a failure; a lock that one tick expires. While both
  drafts are there, the clock stands: with one draft it does not;
* restore: 2 tables of which 1 is cleared, contents 0 and 1, a lifetime of 1;
* runs: 3 requests (launches, stops and synchronisations), or 2 and a failure. Of 3, at most
  two are launches, and the second one is answered with success and an identifier (`PlainLaunches`):
  every answer and its catch block are met in the first one, and runs meet only in a synchronisation;
* runtime: 4 requests of clients;
* catalogue: 3 requests, so that a lock that was left behind or taken over meets another
  synchronisation; a time to live of 0 that one tick expires; one change of the catalogue,
  where there are 2 requests: what is fetched has no influence on the lock;
* health: 2 services, 4 requests and a clock to 2 with a cache of 1, so that a second probe
  is cached after a first one and a third poll sees it;
* FreeIPA: one request of up to 3 users in 2 lanes, so that a lane takes a second user
  while the other still works; requests share nothing.

Callers, users, approvers and drafts are interchangeable, and no property tells them apart, so
that they are symmetry sets; the runs check no liveness. The components that are not the
subject keep the one state they start in, and `View` leaves them out when states are compared.
One fault or one crash per behaviour (`FailureBound`) is enough for what the properties say, since
each excuses what a failure does or speaks of the state after one; a third request to accounts, settings
or runs takes its place.

Deadlock is not checked: an offline replacement ends (`verified`, `rolled_back`), the
surroundings are bounded, and so are the requests of the portal.

### Properties

* `OriginalSurvives`: every directory that may be left holds the original, except after the catch
  block of a rollback has renamed over a live database it could not inspect, which takes two
  failing calls; without them it holds through any number of crashes.
* `CrashConsistent`: every *pair* of receipt and directory a power loss may leave
  agrees on the early phases and, with the same exception, on `rolled_back`.
* `CommandsFollowPhases`: the locked commands move the receipt on disk along
  `phaseTransitions`, although each judges by the copy it loaded.
* `RollbackLeavesDatabase`: a rollback that ends by itself leaves a live
  database, unless a second call failed in its catch block.
* `SwappedAgrees`: `swapped`, `verified` and `post_complete_failed` stand beside
  the exchanged files, across process crashes. Under power losses this is false
  (`FindSwapDurable`), which is why this run has none.
* `RetainedIsExact`: what lies under the rollback name has the hash in the receipt.
* `ReplacesAtomically`: refinement of `DatabaseReplacement`.
* `InterruptedSwapIsRecognised`: wherever a crash or a power loss stops a swap or its reconciliation, the
  files still tell `classifyRecoveryFilesystem` what to do. Excepted is what comes from outside: the
  portal that wrote to or created a database meanwhile, and a candidate that was lost. (That the
  operator gets there is another matter: `FindRestoreRerun`.)
* `AnswersTellTruth`: `ok` means that this request moved its operation's row, a
  refusal that it moved nothing.
* `TransitionsHappenOnce`: one request per transition and operation has effect.
* `OldSessionsRevoked`: behind a closed gate every session was made since the
  entry, by a request the gate had let through before.
* `KeepsTheWindow`: refinement of `MaintenanceWindow`. It contains that no restart, no clock and no
  request of an earlier operation reopens a closed portal (`NoSilentReopening`, proved by itself),
  that the entry leaves nobody logged in, and that nobody is let in until the end.
* `RequestsDrain`: a portal that stays closed comes to rest.
* `VerifiedIsReopened`, `VerifiedIsLoggedOut`: `verified` is true of the maintenance
  and leaves no test login, not even one that was given up and still runs.
* `RestoredIsQuiet`: between the replacement and the end of the maintenance
  nobody is logged in and nothing runs. It holds because the replacement needs a
  stopped portal; after `enter` alone it does not.

* `ProgressIsJournaled`: the operation row never counts a version that is not journaled;
  it is exact while running, as long as no lock was taken from a living request.
* `FinishedIsComplete`: succeeded and reconciled leave the complete schema.
* `InterruptedIsUntouched`: what is called interrupted has journaled nothing, but for the late
  batch of a request whose lock was taken.
* `LateBatchesOnce`: such a request gets one batch through and no second one.
* `UpgradesInOrder`: refinement of `SchemaUpgrade`. It contains that no controlled version is committed
  while the portal is open (`ControlledUnderMaintenance`, proved by itself).
* `LaunchIsApproved`: at most one job is started for a row, after enough approvals, also when XYOps'
  answer leaves open whether there is one.
* `FailedWasNotLaunched`: a row that reads "failed" started nothing, so that asking again does not start
  the job twice; what is not known is "unknown" or "executed".
* `StuckOnlyAfterFailure`: a claimed row without executor is there only after a failure.
* `PendingIsUndecided`: a row with a rejection or with enough approvals does not stay pending,
  unless a failure ended the request that was to move it.
* `LaunchesAsApproved`: refinement of `ApprovedLaunch`. It contains that a settled row does not change any
  more (`FinalIsFinal`, proved by itself).
* `AdminRemains`: counting protects the last administrator as long as no account is written
  between the read of another change and its write (`FindLastAdmin` has what happens then).
* `ResetRevokes`: after a password reset no session of the old password is left, but for a
  login that overlapped the reset.
* `LimitIsEnforced`: as many failures as the limit are followed by a cooldown.
* `CommittedOnce`: a draft is committed once, through given-back locks and retries. The two exceptions
  are cases the code does not exclude and the ghosts name: a revision that was used
  twice, and a rollback to a snapshot that was stale.
* `RollbackIsOwn`: a rollback, which holds no lock, replaces its own application's settings only.
* `RolledBackIsOut`: the change of a rolled back draft is not in force, with these exceptions and that of
  a direct write that had read it before.
* `FinalStatusIsTrue`: an applied draft was healthy, a cancelled one was never committed.
* `RestoreIsRecoverable`: a restore replaces exactly the content its recovery document holds.
* `FinishedRunFinishedJob`: a row, linked or not, and a notification that say a run ended are of a job
  that does not run, a stored result is of a job that ended, and a success is that job's, in
  whatever order answers are applied. Excepted are a launch that XYOps answered with an error, which the
  code calls failed, and the second row of the catch block: their job may run.
* `DatabaseOutlivesWork`: a handler, a task or a scheduled run never finds the database closed, but
  for one whose client had left.
* `SyncsExclusive`: two synchronisations run at once only when one of them is older than the
  time to live of the lock, whatever was released late or left behind.
* `HealthGoesForward`: while the process lives, neither the snapshot shown nor any service's last
  success goes back, however polls and probes overlap.
* `BulkAnswerIsTrue`: no user of a list is sent to FreeIPA twice, an answered list has a result for
  each, and what is called successful was sent, was answered with success and is logged so; what is
  refused was neither sent nor logged.

The types of all modules are theorems. The runs check `PortalTypeOK` only, the types of the ten
components of `MCPortal`.

*Fairness.* `OverlapSpec` of `RecoverySwap` has weak fairness of `commandNext` and `verifyNext`: a
started command runs on unless it crashes, which the event loop gives. No passing run depends on it;
it makes the counterexample of `FindTerminalPhases` one of a system that goes on. That the operator
reaches the reconciliation is not assumed, and is not so (`FindRestoreRerun`).
`RequestsEnd` of `MaintenanceMode` is weak fairness of `userNext`: a request that was let
through ends, which the event loop and the timeouts of outbound calls give. It
assumes nothing of controllers, logins or the operator.
The properties of `MCPortalAdmin` and `MCPortal` are safety and need no fairness: the liveness of these
components is what the code does not give (a claimed approval whose executor dies stays
claimed; a run is brought up to date only when somebody opens the log).

### Findings

1. `FindSwapDurable`: the `continue_verification` branch of the reconciliation
   (`recovery-reconcile.ts:300-317`) writes `swapped` without the directory fsync
   the design orders before it; a power loss then leaves `swapped` beside the
   original database.
2. `FindRollbackContinues`: the guide has a rollback in `rollback_started`
   continued; the code accepts no command in that phase
   (`recovery-swap.ts:60`).
3. `FindTerminalPhases`: verify holds no lock and writes from a stale copy, so
   that it overwrites, or is overwritten by, the receipt of a rollback.
4. `FindRestoreRerun`: after a crash between the renames the guide has `restore`
   repeated; its preflight finds more than one database, or none at the live path,
   and refuses. The reconciliation is unreachable from the command line.

5. `FindOfflineRecovery`: `maintenance-recover` leaves `created_at` and an unknown
   key in `verification_json` (`recovery-maintenance.ts:196-199`). The portal rejects such
   a row (`maintenance-repository.ts:199`, `:231`), so the gate stays closed after a
   recovery that reported success. A new prepare, which does not read the row
   first, followed by cancel, clears it.
6. `FindPostComplete`: `post_complete_failed` is written only for an error that no
   execution throws; every failure after `complete` is recorded as `failed`.

7. `FindLastAdmin`: the guide promises that the last active administrator is protected
   (`docs/guide/administrator/README.md:71`); the count and the write are two
   statements (`local-auth.ts:203`, `:208`, `:227`, `:230`), so that two administrators
   who demote, disable or delete each other may leave none.

Met while reading the maintenance, without a run: an operation that expires in
`entering` admits neither enter nor cancel nor the offline recovery
(`maintenance-repository.ts:368`, `:482`; `recovery-local-adapters.ts:221`), and
`prepare` wants `inactive`, so that the row can only be changed by hand; a lost
secret in `entering` or `exiting` has no way out for the same reason, although
`MAINTENANCE_MODE.md` sends it to the offline recovery; requests that passed the gate
go on after `enter` (the document promises that it stops them), and a login among
them makes verify's session count fail until the session goes; a migration
looks at the maintenance once, at its start, and marks whatever operation is in
place at its end.

Met while reading the swap, without a run: the swap does not reverse its first
rename when the second fails, as the design says (`...full-restore-design.md:398`,
`recovery-swap.ts:301-305`; the reconciliation would finish the swap instead); the
crash between the rename of `restore_original` and its `failed` receipt
(`recovery-reconcile.ts:289-296`) leaves a directory the classification
calls ambiguous; the recovery point's hash is that of a SQLite backup, the
rollback demands that of the live file (`recovery-point.ts:591`,
`recovery-swap.ts:351`); a rollback takes no recovery point of the failed database
(design, line 438); a failed integrity check after the decryption leaves the
decrypted file, which blocks the next rollback (`recovery-swap.ts:147-153`, `:337`); the catch
block of a rollback takes an inspection that failed for a missing file
(`recovery-swap.ts:393-394`), so that a failing fsync or receipt followed by a failing inspection of live
has the failed database renamed over the restored one (`:396`), possibly with `rolled_back` on disk:
after a rollback from the retained original that was the last copy outside the recovery point. The
model has these steps, and `OriginalSurvives`, `CrashConsistent` and `ReplacesAtomically` hold up to
them.

Met while reading the online components, without a run:

* the quick check of a controlled migration is called with the environment, not with a
  database handle (`storage-migration-apply.ts:160`,
  `storage-migration-apply-context.ts:226`; the preflight wraps a handle,
  `storage-migration-preflight.ts`), so that outside the tests an apply ends in
  `verification_failed` and a reconciliation in "restore required"; the model has
  both (`wired`);
* an apply that dies after the tables of a version and before its journal row is
  `interrupted`, but the next preflight finds the tables as drift and blocks; and while a
  controlled migration is pending, the maintenance endpoints behind the schema
  gate answer 503;
* a synchronisation may write a late "active" over a stopped run
  (`xyops-run-runtime.ts:159`), healed by the next one; an aborted job that XYOps reports
  as failed makes the row "failed" while its notification says "cancelled"; a crash
  between the row and its notification loses the notification; a launch that is not answered, or
  answered with an error, is saved as failed although the job may run, in the second case with stored
  parameters, so that it may be launched again (`operations-http-entry.ts:207`); the catch block of a
  launch adds a second failed row (`:221`) to the one that was already written;
* every 2xx answer to a launch is taken for a launch, without the look at a result code that the
  abort has (`operations-http-entry.ts:199-218`, `:603`), and one without an identifier gets a
  `LOCAL-` row that stays active (`:213`), so that an approval may read "executed" without a job,
  other than `docs/integrations/APPROVAL_GATES.md:62` has it;
* a group member that FreeIPA did not add or remove is named in `result.failed`, which the client does not
  read (`freeipa-rpc.ts:62`): the change is answered and logged as successful, where
  `docs/FREEIPA_USER_BULK.md:67` shows `ok: false`;
* a rollback restores what was read before the lock was taken
  (`settings-lifecycle-root-entry.ts:230`). When it holds the change of another application that is
  rolled back to the environment in between, which deletes the row and so returns to
  revision 0, a draft made for revision 0 is still applied; when its own health check fails, its
  rollback brings the other's failed change back into force, while the page says
  "Рабочая конфигурация восстановлена автоматически" (`app/settings/integrations/page.tsx:137`). A
  first read that fails counts as "no settings", so that the rollback deletes the row (`:109`).
  The ghost `stale` marks these cases. They came to light when `RolledBackIsOut` and
  `CommittedOnce` could not be proved as they were: the run had one draft then, and
  the counterexamples need two;
* a direct write does not compare the revision (`settings-http.ts:197`) and may store again what a
  rollback took back;
* a login that overlaps a password reset leaves a session of the old password
  (`local-auth.ts:233`), one that overlaps a restore a session of a replaced account;
* a commitment of a restore compares its stage's expiry with the time the request arrived;
* a claimed approval whose executor died stays in `executing`, and no code ends it
  (`approval-gates.ts:502`);
* the closing server waits for connections and tasks but not for handlers, so that a
  handler whose client left goes on with a closed database, other than
  `docs/adr/ADR-0001-production-runtime.md:283-286` has it; the time limit of the stop
  rejects while the cleanup goes on, which only sets the exit code;
* `FREEIPA_USER_BULK.md` promises a result for each login of a partial execution; when a
  run's row cannot be written in the catch block of `handleFreeIpaAction`, the lane rejects, and the
  client gets an error without results while the other lanes go on;
* an exception in the first write of a synchronisation's row (`secure-entry.ts:282`, before the
  try block) leaves its lock until the time to live is over; with three or more
  callers, two synchronisations of the same start time may both take the lock once a third
  one was released late or expired, which `SyncsExclusive` allows as long as one is
  expired;
* a change of the catalogue whose history cannot be written is in no history, because
  the snapshot was replaced before; opening the catalogue, without the lock, may put an older snapshot
  over a newer one; a synchronisation that stored its catalogue is recorded as failed
  when the policies cannot be read afterwards;
* a health answer that joins a probe, or comes from the cache, may be one of older settings,
  and one called fresh with an age of 0 may have been observed earlier;
* settings that cannot be read in the middle of a list are replaced by those of the environment, so
  that the rest of the list may go to another server.

## Proofs

`RecoverySwap_proofs` proves, for every value of the constants (any number of
crashes, power losses, failing calls and writes, with and without power losses), whether or not the
operator keeps to one command at a time (`Spec` and `OverlapSpec`, where a verify that waits for the
portal writes its verdict over the receipt of a command that began since):

* `TypesAreRight`: `Spec \/ OverlapSpec => []TypeOK`
* `OriginalAlwaysSurvives`: `Spec \/ OverlapSpec => []OriginalSurvives`
* `CrashesStayConsistent`: `Spec \/ OverlapSpec => []CrashConsistent`
* `RollbacksLeaveDatabase`: `Spec \/ OverlapSpec => RollbackLeavesDatabase`
* `InterruptedSwapsAreRecognised`: `Spec \/ OverlapSpec => []InterruptedSwapIsRecognised`
* `RetainedIsTheOriginal`: `~PowerMayFail => (Spec \/ OverlapSpec => []RetainedIsExact)`

and where the phase of the receipt is what it says, with one command at a time:

* `CommandsKeepToPhases`: `Spec => CommandsFollowPhases`
* `SwappedMeansExchanged`: `~PowerMayFail => (Spec => []SwappedAgrees)`
* `ReplacementIsAtomic`: `~PowerMayFail => (Spec => ReplacesAtomically)`, the refinement
* `CliImplementsOperations`: `CliSpec => Spec`, so that all these hold of the command line too
  (`CliOriginalSurvives`)

The only assumption is `SwapAssumption`, the types of the constants. Three of them have the
premise that no power loss happens: process crashes, any number of them, do. Without it
`SwappedAgrees` is false (`FindSwapDurable`), and with it the verdict of the refinement. Under an
overlap the last group is false: that is the finding `FindTerminalPhases`. What it does not cost is the
original database.

`Maintenance_proofs` proves, for any number of controllers, users, operations,
ticks and stops:

* `TypesAreRight`: `Spec => []TypeOK`
* `AnswersAreTrue`: `Spec => []AnswersTellTruth`
* `EachTransitionOnce`: `Spec => []TransitionsHappenOnce`
* `SessionsAreRevoked`: `Spec => []OldSessionsRevoked`
* `OnlyVerifiedReopens`: `Spec => NoSilentReopening`
* `MaintenanceKeepsTheWindow`: `Spec \/ OnlineSpec => KeepsTheWindow`, the refinement
* `MaintenanceMovesAsAssumed`: `Spec \/ OnlineSpec => [][ClosedMoves]_Closed`; `Closed` is what
  `SchemaMigration` has of the row, `ClosedMoves` the moves it lets its surroundings make. What that
  model assumes of the maintenance is what this one does, but for the recovery with the portal
  down, which comes with another database and so ends what that model is about.

and with the replacement and the verify command at work:

* `OnlineTypesAreRight`: `OnlineSpec => []OnlineTypeOK`
* `VerifiedMeansReopened`: `OnlineSpec => []VerifiedIsReopened`
* `TheTestLoginIsOver`: `OnlineSpec => []VerifiedIsLoggedOut`
* `VerifiedWhatWasRestored`: `OnlineSpec => []RestoredIsQuiet`
* `SessionsStayRevoked`: `OnlineSpec => []OldSessionsRevoked`
* `ReceiptMovesAsInSwap`: `OnlineSpec => [][ReceiptMoves]_receipt`: the replacement and one verdict of one verify,
  as `RecoverySwap` has them, and no later one over it.

They rest on `MaintenanceAssumption` and `VerifierAssumption`, types of the constants.

About the online components, for any number of callers, requests, approvers, tables,
contents, faults and crashes, and any clock:

* `ApprovalGate_proofs`: `LaunchesAreApproved`, `FailedMeansNotLaunched`,
  `OnlyFailuresLeaveClaims`, `DecisionsAreCarriedOut` (`[]` of `LaunchIsApproved`,
  `FailedWasNotLaunched`, `StuckOnlyAfterFailure`, `PendingIsUndecided`), `ApprovalsAreTyped`,
  `SettledRowsStay` (`ApprovalSpec => FinalIsFinal`) and the refinement `LaunchesImplementApproval`
  (`ApprovalSpec => LaunchesAsApproved`);
* `SelectiveRestore_proofs`: `RestoreTypesAreRight` and `RestoreReplacesDocument`
  (`RestoreSpec => RestoreIsRecoverable`);
* `Startup_proofs`: `WorkEndsBeforeDatabase` (`LifeSpec => []DatabaseOutlivesWork`) and `LifeIsTyped`; of the
  migrations `MigrationsAreTyped`, `ProgressIsTrue`, `FinishedOperationsAreComplete`,
  `InterruptedOperationsDidNothing`, `LateRequestsStop` (`MigrationSpec => []` of
  `MigrationTypeOK`, `ProgressIsJournaled`, `FinishedIsComplete`, `InterruptedIsUntouched`,
  `LateBatchesOnce`), `ControlledMigrationsUnderMaintenance`
  (`MigrationSpec => ControlledUnderMaintenance`) and the refinement `MigrationsUpgradeInOrder`
  (`MigrationSpec => UpgradesInOrder`);
* `Administration_proofs`: `AccountsAreTyped`, `AnAdministratorRemains`, `ResetsRevoke`,
  `TheLimitIsEnforced` (`AccessSpec => []` of `AccessTypeOK`, `AdminRemains`, `ResetRevokes`,
  `LimitIsEnforced`); `SettingsAreTyped`, `DraftsAreCommittedOnce`, `RolledBackStaysOut`,
  `StatusesAreTrue` (`SettingsSpec => []` of `SettingsTypeOK`, `CommittedOnce`,
  `RolledBackIsOut`, `FinalStatusIsTrue`) and `RollbacksAreOwn` (`SettingsSpec => RollbackIsOwn`);
* `Integrations_proofs`: `SyncsAreExclusive` (`SyncSpec => []SyncsExclusive`),
  `HealthAlwaysGoesForward` (`HealthSpec => HealthGoesForward`), `BulkAnswersAreTrue`
  (`DirectorySpec => []BulkAnswerIsTrue`), `FinishedMeansEnded`
  (`RunsSpec => []FinishedRunFinishedJob`), and the types `SyncsAreTyped`, `HealthIsTyped`,
  `BulksAreTyped`, `RunsAreTyped`;
* `Portal_proofs`: `PortalRunsItsSubject`, a behaviour of `PortalSpec` is one of the component that is its
  subject, and `PortalIsTyped` (`PortalSpec => []PortalTypeOK`).

They assume the types of the constants (`ProcessAssumption`, `ApprovalAssumption` with a
finite set of approvers, `MigrationAssumption`, `AccessAssumption`, `SettingsAssumption`,
`RestoreAssumption`, `SyncAssumption`, `HealthAssumption`, `DirectoryAssumption`,
`SubjectsAssumption`). The theorems are about each component's own specification.
`PortalRunsItsSubject` carries them to what the runs of `MCPortal` check: the bounds of those runs
take steps away and add none.

*Argument for the maintenance.* `TransitionsHappenOnce` is not inductive: a request
whose UPDATE is still to come could find the row in the state it starts from
although another one has moved it already. `Passed` excludes that: a row that still
names the operation some request moved is *beyond* that move (`Beyond`, the states
reachable from it), and no action starts beyond itself. A new operation has a
number above all moved ones. `RequestOK` ties a request's step and answer to what it
moved, `RowOK` the operation to the state and `exiting` to accepted checks, which is
all `NoSilentReopening` needs. The verifier's invariant adds what its request
under way is about, so that `Passed` of a complete that was answered with success
says the maintenance of the receipt has ended; it stays so because later operations
have other numbers. `QuietInv`, a second invariant on top of it, has the other two properties. A
stopped portal has no requests, so that the replacement starts quietly, and the
receipt's row does not go back behind the entry, so that the gate stays shut until it has moved to another
operation (`QuietOK`). The test login is over before the first one, at every step up to the
login, and from the logout on (`LoginOK`); a run that was given up in between leaves it, but
the next one cannot pass its first status answer, because the maintenance has ended.

The refinement `KeepsTheWindow` needs `RowOK` (an exiting row has accepted checks, so that "accepted" is what
the row says), and `DownOK`: while the portal is down no request and no migration is under way, so that
only the recovery moves the row then. Each transition that changes the row is the step of the
window that its action names, since the guarded UPDATE asks for the state it starts from; the second statement of a
late enter, which may find its operation entered by somebody else, only revokes once more. The
replacement and the verifier add no move of their own (`OnlineIsNext`): they call the portal
as its callers do, or take sessions away.

*Argument for the replacement.* None of the three is inductive alone. `Inv` adds: `StepOK`, what holds
of the disk at each step of a command (before a rename its target is free;
before the rename that takes the live database away no power loss may bring back a
phase that binds the directory (`BindingPhases`); at `recordEnd` of a rollback the directory is on
disk); `Slots`, the candidate and temporary names only hold the file made for
them, in *all* directories that may be left, so that renames over a leftover never
hit the original (the one exception, a catch block that did not see live, is `overwrote`, and
`FailuresOK` counts the two failing calls it takes); and `VerifierOK`, verify waits only once the early phases are gone for good, and
fails only into a phase that says so. It does *not* say what phase the receipt is in while a command
runs, which is why it survives a late verify: whatever verify writes is neither early nor
`rolled_back`, and after those the directory owes the receipt nothing. `Inv` goes through
the actions one by one and through the conjuncts under each action (`NextInv`). That a rollback
which took the live database away has one to put back (`LiveOK`), and that the retained original is
the one the receipt names (`RetainedOK`), rest on it alone. So does what an interrupted swap leaves:
while `swap_started` may be found on disk, the directory has one of the four shapes a swap and its
reconciliation go through (`SwapShape`), for a rollback renames only when that phase is gone for
good (`RecognisedOK`); the classification knows those shapes.

What the phase says of the disk needs one command at a time. `CommandInv` adds what a running
command knows of the receipt (`PhaseOK`): it is in the phase the command found or wrote, because the
lock keeps other commands away and `verify`, which has none, does not write while one
runs. Without power losses `FilesInv` goes on: every file has one name, and `swapped` says the
exchange is done (`SwappedAgrees`, which needs `FilesOK` and the other way round). The refinement
maps the live file to what is served and the phase to the verdict; a step that writes a verdict
finds the matching file at the live name, and no step moves that file while a verdict stands, except
the rollback, which withdraws the verdict in the phase it records before its first rename.

*Argument for the approvals.* That one job is started at most needs all of `GateInv`: only
one request is between the claim and the outcome (`Exclusive`), because only the guarded
UPDATE leads there and no other statement leaves `executing`; until its launch nothing was
launched (`ActorOK`), and after it the row is in a state from which nothing is claimed
(`RowOK`). `CarriedOn` is the converse for the two liveness-like promises: whoever inserts
the decision that settles the row, or claims it, is still there to write the outcome, or a
failure is on record. The count of approvals only grows, which is why a count read
before the write is still good for it; that lemma is about cardinalities. The refinement of
`ApprovedLaunch` maps the row's status to the stage and the job counter to the starts. It needs
`GateInv` where a statement acts on what was read before: a grant on a count that still
holds, a start by the one executor the claim admitted, and "executed" or "failed" by what that
executor saw of XYOps.

*Argument for the runs.* A status may be `Told` when the job justifies it: the job does not run if it
is final, and succeeded if it says so; it is `Vouched` for when the job even ended. Jobs and links only
go forward, so that what was true of the job when it was read stays true until it is written, however
late. The invariant says that whatever a synchronisation or a stop carries about a run (the
answers, the row about to be written) is vouched for and about linked rows. A launch
carries what it was told (`MayTell`, which lets an answer with an error say "failed" of a job that
runs), and it is alone with a run that is not linked yet (`RunAlone`).

*Argument for the restore.* `RestoreIsRecoverable` follows from the claim once a request that
checks or writes holds its stage's document (`RequestOK`); that a stage's document
never changes needs that the request that prepares a stage is alone with it (`Alone`).

*Argument for the runtime.* The invariant lists by phase which resources are open (`OpenOK`), what
a handler may still do (`HandlerOK`: once the connections are closed nobody waits, then
every task of an answered request is in `draining`, then none is left), and that the scheduler
is off from its stop on (`SchedulerOK`).

*Argument for the integrations.* A synchronisation that believes it has the lock either finds its own
start time in it or is expired (`SyncInv`): the lock goes to another only when its start time
is older than the time to live, and a release only deletes the lock of its own time. Two
that are not expired would then have the same start time in the lock, which the invariant
excludes by the insertion that takes a free lock only. For the health, at most one probe is
between its start and its end, that of `inFlightProbe`, and its snapshot is not behind
the cached one. For the lists, every user before the cursor has a result or exactly one lane that works
for it, and those from the cursor on are untouched; whatever a lane does concerns its own user.

*Argument for the migrations.* `MigrationInv` has two layers. What needs no lock holds always:
the journal is an initial segment and only grows, so that what a request read of it stays true
(`JournalOK`), and operation rows are told apart by the number of the request that began them
(`RowOK`, `Distinct`). What needs the lock holds as long as no lock was taken from a living
request (`~stolen`): its owner is alone, so that the operation's count is exact between its
batches (`AloneOK`, `ProgressOK`). `LateOK` counts what a request does after it lost its lock: a
late batch is only committed between a renewal and the next one, which fails, and a
number that is not the owner's never becomes it again. The refinement of `SchemaUpgrade` needs the first
layer only: the version is the length of the journal, also for late batches; a reconciliation or an end
calls the operation complete after it saw the last version, and the journal only grows; and the
maintenance endpoints are behind the schema gate, so that the portal reopens with the last version.

*Argument for the accounts.* `ChangeInv` says what a change has counted: while no account is written
between another change's read and write, the row it read is the one that is there and the
other administrator it counted is there (`ChangeOK`), so that its write leaves one. `LimitInv` names the
request that counted the last failure and is about to block (`Blocking`): no cooldown can be
missing without it. `ResetRevokes` is nearly inductive; `KnownAccounts` excludes a session or a
login of an account that was never there.

*Argument for the settings.* A revision says which write it is, as long as none is used twice: a
request that finds the revision it knows finds the settings it knows (`RevisionOK`), which is
`RollbackIsOwn`. Two applications never hold one draft (`Apart`, through the claim). A draft that
was committed is left behind (`Behind`): the settings it was made for are not in force, and no
application that may still roll back would bring them back, since what it restores is what it replaced
unless its snapshot is stale. So neither a failed mark nor a lock given back commits it again. `Gone` is
the same for the change of a draft that was rolled back, and `Settled` follows a draft from its
status to the request that is to change it, for `FinalStatusIsTrue`.

*Argument for the composition.* `MCPortal` lets one component move per behaviour. Its next-state
relation is the subject's with bounds as further conjuncts and everything else unchanged, so a step is one of the
subject's or a stutter (`StepIsOfSubject`), and the subject never changes. `PortalTypeOK` then follows from the
ten type theorems.

*Only model-checked*: `RequestsDrain`, which is liveness under fairness
and out of the prover's reach. Every safety property of a passing run is a theorem.

## Plan

Built: the offline replacement with its command line, the maintenance with the online
verification, the ten online components of `MCPortal`, and four abstract specifications
(`DatabaseReplacement`, `MaintenanceWindow`, `SchemaUpgrade`, `ApprovedLaunch`) with their refinements
proved. Where two modules model the same row or file (`MaintenanceMode` and `SchemaMigration` the
maintenance, `OnlineVerification` and `RecoverySwap` the receipt), theorems say that the one moves as the other
assumes. Left: an abstract specification of the settings (one change in force, or the one
before it), whose exceptions the ghosts of `SettingsLifecycle` name, and the content of the recovery
candidate.

## Not modelled

* Cryptography, SQL text, backup formats and their projection, input validation, HTTP routing
  and response shapes, the user interface, build and deployment: conversions or
  presentation, without a state other parts depend on. Nothing the
  user interface holds outlives a page.
* The comparison of the database with the registry (`portal-migrations.ts:380-527`): the models
  take what it finds out, not how it does.
* The audit log: insertions that nothing reads back into a decision, apart from verify's check
  that its own entries are there, which `OnlineVerification` has.
* FreeIPA and XYOps clients (login, retries, decoding): outbound calls, which appear where a
  component makes them, as the choice between their outcomes.
* The reset of overridden settings, the history of revisions and their retention.
* The closing of the HTTP server failing, and the time limit of the stop.
