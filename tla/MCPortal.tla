---------------------------------- MODULE MCPortal ----------------------------------
(***************************************************************************)
(* The online components of the portal on small instances. They keep their *)
(* state in different tables and in requests of their own, so each         *)
(* behaviour is one of one component, the subject; the others stay as they *)
(* start. Clock, requests, faults and crashes are bounded per subject.     *)
(***************************************************************************)
EXTENDS SchemaMigration, ApprovalGate, LocalAccess, SettingsLifecycle,
        SelectiveRestore, OperationRuns, RuntimeLifecycle, CatalogSync,
        DependencyHealth, DirectoryActions, TLC

CONSTANTS Subjects  \* the components to check

ASSUME SubjectsAssumption ==
  Subjects \subseteq {"migration", "approvals", "access", "settings", "restore", "runs",
                     "life", "catalog", "health", "directory"}

VARIABLES subject

migrationOnly == <<schema, lock, operation, closed, migrator, wired, stolen>>
approvalOnly == <<approval, decision, policy, actor, launches>>
accessOnly == <<account, sessions, limit, visitor, overlapped>>
settingsOnly == <<rows, editor, ghosts>>
restoreOnly == <<data, stage, restorer>>
runsOnly == <<job, row, operator>>
lifeOnly == <<phase, open, failed, handler, scheduler, draining>>
catalogOnly == <<upstream, snapshot, history, syncLock, syncRow, reader>>
healthOnly == <<cachedSnapshot, inFlightProbe, probe, poll>>
directoryOnly == <<bulk, lane, user>>

vars == <<subject, process, migrationOnly, approvalOnly, accessOnly, settingsOnly,
          restoreOnly, runsOnly, lifeOnly, catalogOnly, healthOnly, directoryOnly>>

\* Locks expire only at time 2, which is explored where a migration can succeed.
\* The clock stands while there are two drafts, and a catalogue that changes has
\* two requests. Accounts and settings have two and a failure, or three.
SecondDraft == \A d \in Drafts : draft[d].status # "none"
RequestBound == [migration |-> 3, approvals |-> 5, access |-> 3, settings |-> 3,
                 restore |-> 3, runs |-> 3, life |-> 4,
                 catalog |-> IF upstream = 0 THEN 3 ELSE 2, health |-> 4, directory |-> 1]
TimeBound == [migration |-> IF wired THEN 2 ELSE 1, approvals |-> 1, access |-> 1,
              settings |-> IF SecondDraft THEN 0 ELSE 1, restore |-> 1, runs |-> 0,
              life |-> 0, catalog |-> 1, health |-> 2, directory |-> 0]
FailureBound == IF subject \in {"access", "settings", "runs"} /\ requests > 2 THEN 0 ELSE 1

\* Of three requests for runs at most two are launches, and the answer to the
\* second of them is a success with an identifier.
RunLaunched(r) == row[r] # NoRow \/ \E c \in Callers : operator[c].kind = "launch" /\ operator[c].run = r
PlainLaunches ==
  subject = "runs" /\ requests > 2 =>
    /\ \E r \in 1 .. 3 : ~RunLaunched(r)
    /\ \A r \in 2 .. 3 : row[r] = NoRow \/ (row[r].linked /\ ~row[r].refused /\ ~row[r].caught)
    /\ \A c \in Callers : operator[c].kind = "launch" /\ operator[c].run > 1 =>
         \/ operator[c].step \notin {"save", "catch"}
         \/ operator[c].linked /\ ~operator[c].refused

WithinBounds ==
  /\ requests <= RequestBound[subject]
  /\ clock <= TimeBound[subject]
  /\ faults + crashes <= FailureBound
  /\ PlainLaunches

Init ==
  /\ subject \in Subjects
  /\ MigrationInit /\ (subject = "migration" \/ (journal = {} /\ wired))
  /\ ApprovalInit /\ (subject = "approvals" \/ policy = 1)
  /\ AccessInit /\ (subject = "access" \/ \A u \in Users : account[u] = Absent)
  /\ SettingsInit
  /\ subject = "settings" \/ (active = Environment /\ \A d \in Drafts : draft[d].status = "none")
  /\ RestoreInit /\ RunsInit /\ LifeInit /\ SyncInit /\ HealthInit /\ DirectoryInit

\* A step of the subject, which leaves the others alone.
Only(s) ==
  /\ subject = s /\ subject' = s
  /\ s # "migration" => UNCHANGED migrationOnly
  /\ s # "approvals" => UNCHANGED approvalOnly
  /\ s # "access" => UNCHANGED accessOnly
  /\ s # "settings" => UNCHANGED settingsOnly
  /\ s # "restore" => UNCHANGED restoreOnly
  /\ s # "runs" => UNCHANGED runsOnly
  /\ s # "life" => UNCHANGED lifeOnly
  /\ s # "catalog" => UNCHANGED catalogOnly
  /\ s # "health" => UNCHANGED healthOnly
  /\ s # "directory" => UNCHANGED directoryOnly

Next ==
  /\ \/ Only("migration") /\ MigrationNext
     \/ Only("approvals") /\ ApprovalNext
     \/ Only("access") /\ AccessNext
     \/ Only("settings") /\ SettingsNext
     \/ Only("restore") /\ RestoreNext
     \/ Only("runs") /\ RunsNext
     \/ Only("life") /\ LifeNext
     \/ Only("catalog") /\ SyncNext
     \/ Only("health") /\ HealthNext
     \/ Only("directory") /\ DirectoryNext
  /\ WithinBounds'

PortalSpec == Init /\ [][Next]_vars

\* Interchangeable values, and what tells two states apart: the other components
\* are as they started.
Symmetry == Permutations(Callers) \cup Permutations(Users)
              \cup Permutations(Approvers) \cup Permutations(Drafts)

View ==
  <<subject, process,
    CASE subject = "migration" -> migrationOnly
      [] subject = "approvals" -> approvalOnly
      [] subject = "access" -> accessOnly
      [] subject = "settings" -> settingsOnly
      [] subject = "restore" -> restoreOnly
      [] subject = "runs" -> runsOnly
      [] subject = "life" -> lifeOnly
      [] subject = "catalog" -> catalogOnly
      [] subject = "health" -> healthOnly
      [] subject = "directory" -> directoryOnly>>

\* Every component keeps its variables in the sets its module declares. Each
\* part is also a theorem, or part of an inductive invariant, of its component.
PortalTypeOK ==
  /\ ProcessTypeOK
  /\ subject = "migration" => MigrationTypeOK
  /\ subject = "approvals" => ApprovalTypeOK
  /\ subject = "access" => AccessTypeOK
  /\ subject = "settings" => SettingsTypeOK
  /\ subject = "restore" => RestoreTypeOK
  /\ subject = "runs" => RunsTypeOK
  /\ subject = "life" => LifeTypeOK
  /\ subject = "catalog" => SyncTypeOK
  /\ subject = "health" => HealthTypeOK
  /\ subject = "directory" => DirectoryTypeOK
===================================================================================
