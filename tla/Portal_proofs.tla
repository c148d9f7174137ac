------------------------------- MODULE Portal_proofs -------------------------------
(***************************************************************************)
(* The specification the runs of MCPortal check, and the specifications of *)
(* the components the theorems are about. A behaviour of PortalSpec is one *)
(* of the component that is its subject, so what the proof modules show of *)
(* a component, for every value of its constants, holds of what those runs *)
(* explore; and the type invariant of the whole follows from the parts'.   *)
(***************************************************************************)
EXTENDS MCPortal, Startup_proofs, Administration_proofs, ApprovalGate_proofs,
        Integrations_proofs, SelectiveRestore_proofs

\* The bounds of the runs take steps away and add none, and a step is one of the
\* component that is the subject, which it keeps.
LEMMA StepIsOfSubject ==
  ASSUME [Next]_vars
  PROVE  /\ subject' = subject
         /\ subject = "migration" => [MigrationNext]_migrationVars
         /\ subject = "approvals" => [ApprovalNext]_approvalVars
         /\ subject = "access" => [AccessNext]_accessVars
         /\ subject = "settings" => [SettingsNext]_settingsVars
         /\ subject = "restore" => [RestoreNext]_restoreVars
         /\ subject = "runs" => [RunsNext]_runVars
         /\ subject = "life" => [LifeNext]_lifeVars
         /\ subject = "catalog" => [SyncNext]_syncVars
         /\ subject = "health" => [HealthNext]_healthVars
         /\ subject = "directory" => [DirectoryNext]_directoryVars
<1>1. CASE Next
  <2>1. PICK s \in {"migration", "approvals", "access", "settings", "restore", "runs",
                   "life", "catalog", "health", "directory"} : Only(s)
    BY <1>1 DEF Next
  <2>2. subject = s /\ subject' = s
    BY <2>1 DEF Only
  <2>3. subject = "migration" => MigrationNext
    BY <1>1 DEF Next, Only
  <2>4. subject = "approvals" => ApprovalNext
    BY <1>1 DEF Next, Only
  <2>5. subject = "access" => AccessNext
    BY <1>1 DEF Next, Only
  <2>6. subject = "settings" => SettingsNext
    BY <1>1 DEF Next, Only
  <2>7. subject = "restore" => RestoreNext
    BY <1>1 DEF Next, Only
  <2>8. subject = "runs" => RunsNext
    BY <1>1 DEF Next, Only
  <2>9. subject = "life" => LifeNext
    BY <1>1 DEF Next, Only
  <2>10. subject = "catalog" => SyncNext
    BY <1>1 DEF Next, Only
  <2>11. subject = "health" => HealthNext
    BY <1>1 DEF Next, Only
  <2>12. subject = "directory" => DirectoryNext
    BY <1>1 DEF Next, Only
  <2> QED
    BY <2>2, <2>3, <2>4, <2>5, <2>6, <2>7, <2>8, <2>9, <2>10, <2>11, <2>12
<1>2. CASE UNCHANGED vars
  BY <1>2 DEF vars, process, schema, rows, ghosts,
     migrationVars, migrationOnly, approvalVars, approvalOnly, accessVars, accessOnly,
     settingsVars, settingsOnly, restoreVars, restoreOnly, runVars, runsOnly, lifeVars,
     lifeOnly, syncVars, catalogOnly, healthVars, healthOnly, directoryVars, directoryOnly
<1> QED
  BY <1>1, <1>2

---------------------------------------------------------------------------------

\* A behaviour with a component for its subject keeps it, and is one of that component's
\* specification, whatever its Subjects, constants and bounds are.
THEOREM PortalRunsItsSubject ==
  PortalSpec =>
    /\ subject = "migration" => [](subject = "migration") /\ MigrationSpec
    /\ subject = "approvals" => [](subject = "approvals") /\ ApprovalSpec
    /\ subject = "access" => [](subject = "access") /\ AccessSpec
    /\ subject = "settings" => [](subject = "settings") /\ SettingsSpec
    /\ subject = "restore" => [](subject = "restore") /\ RestoreSpec
    /\ subject = "runs" => [](subject = "runs") /\ RunsSpec
    /\ subject = "life" => [](subject = "life") /\ LifeSpec
    /\ subject = "catalog" => [](subject = "catalog") /\ SyncSpec
    /\ subject = "health" => [](subject = "health") /\ HealthSpec
    /\ subject = "directory" => [](subject = "directory") /\ DirectorySpec
<1>1. Init => MigrationInit /\ ApprovalInit /\ AccessInit /\ SettingsInit /\ RestoreInit /\ RunsInit /\ LifeInit /\ SyncInit /\ HealthInit /\ DirectoryInit
  BY DEF Init
<1>2. subject = "migration" /\ [Next]_vars => (subject = "migration")' /\ [MigrationNext]_migrationVars
  BY StepIsOfSubject
<1>3. subject = "approvals" /\ [Next]_vars => (subject = "approvals")' /\ [ApprovalNext]_approvalVars
  BY StepIsOfSubject
<1>4. subject = "access" /\ [Next]_vars => (subject = "access")' /\ [AccessNext]_accessVars
  BY StepIsOfSubject
<1>5. subject = "settings" /\ [Next]_vars => (subject = "settings")' /\ [SettingsNext]_settingsVars
  BY StepIsOfSubject
<1>6. subject = "restore" /\ [Next]_vars => (subject = "restore")' /\ [RestoreNext]_restoreVars
  BY StepIsOfSubject
<1>7. subject = "runs" /\ [Next]_vars => (subject = "runs")' /\ [RunsNext]_runVars
  BY StepIsOfSubject
<1>8. subject = "life" /\ [Next]_vars => (subject = "life")' /\ [LifeNext]_lifeVars
  BY StepIsOfSubject
<1>9. subject = "catalog" /\ [Next]_vars => (subject = "catalog")' /\ [SyncNext]_syncVars
  BY StepIsOfSubject
<1>10. subject = "health" /\ [Next]_vars => (subject = "health")' /\ [HealthNext]_healthVars
  BY StepIsOfSubject
<1>11. subject = "directory" /\ [Next]_vars => (subject = "directory")' /\ [DirectoryNext]_directoryVars
  BY StepIsOfSubject
<1> QED
  BY <1>1, <1>2, <1>3, <1>4, <1>5, <1>6, <1>7, <1>8, <1>9, <1>10, <1>11, PTL
     DEF PortalSpec, MigrationSpec, ApprovalSpec, AccessSpec, SettingsSpec, RestoreSpec, RunsSpec, LifeSpec, SyncSpec, HealthSpec, DirectorySpec

\* Whatever component a behaviour is of, its variables and the process's stay in the sets
\* its module declares.
THEOREM PortalIsTyped == PortalSpec => []PortalTypeOK
<1>1. Init => \/ subject = "migration"
              \/ subject = "approvals"
              \/ subject = "access"
              \/ subject = "settings"
              \/ subject = "restore"
              \/ subject = "runs"
              \/ subject = "life"
              \/ subject = "catalog"
              \/ subject = "health"
              \/ subject = "directory"
  BY SubjectsAssumption DEF Init
<1>2. subject = "migration" /\ MigrationTypeOK => PortalTypeOK
  BY DEF PortalTypeOK, MigrationTypeOK
<1>3. subject = "approvals" /\ ApprovalTypeOK => PortalTypeOK
  BY DEF PortalTypeOK, ApprovalTypeOK
<1>4. subject = "access" /\ AccessTypeOK => PortalTypeOK
  BY DEF PortalTypeOK, AccessTypeOK
<1>5. subject = "settings" /\ SettingsTypeOK => PortalTypeOK
  BY DEF PortalTypeOK, SettingsTypeOK
<1>6. subject = "restore" /\ ProcessTypeOK /\ RestoreTypeOK => PortalTypeOK
  BY DEF PortalTypeOK
<1>7. subject = "runs" /\ ProcessTypeOK /\ RunsTypeOK => PortalTypeOK
  BY DEF PortalTypeOK
<1>8. subject = "life" /\ ProcessTypeOK /\ LifeTypeOK => PortalTypeOK
  BY DEF PortalTypeOK
<1>9. subject = "catalog" /\ ProcessTypeOK /\ SyncTypeOK => PortalTypeOK
  BY DEF PortalTypeOK
<1>10. subject = "health" /\ ProcessTypeOK /\ HealthTypeOK => PortalTypeOK
  BY DEF PortalTypeOK
<1>11. subject = "directory" /\ ProcessTypeOK /\ DirectoryTypeOK => PortalTypeOK
  BY DEF PortalTypeOK
<1> QED
  BY <1>1, <1>2, <1>3, <1>4, <1>5, <1>6, <1>7, <1>8, <1>9, <1>10, <1>11, PortalRunsItsSubject,
     MigrationsAreTyped, ApprovalsAreTyped, AccountsAreTyped, SettingsAreTyped, RestoreTypesAreRight, RunsAreTyped, LifeIsTyped, SyncsAreTyped, HealthIsTyped, BulksAreTyped, PTL
     DEF PortalSpec
===================================================================================
