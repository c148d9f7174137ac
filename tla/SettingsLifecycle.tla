----------------------------- MODULE SettingsLifecycle -----------------------------
(***************************************************************************)
(* The integration settings: one row that drafts are applied to, with a    *)
(* health check and an automatic rollback, that administrators also write  *)
(* directly, and that is brought up to date with the environment. A lock   *)
(* with a time to live keeps an application, a direct write and a          *)
(* synchronisation apart; the health check and the rollback run after its  *)
(* release. The row's revision is the time of the write, at least one more *)
(* than the last one for every writer but the direct one.                  *)
(*                                                                         *)
(* The settings are two fields: drafts change "a", direct writes "b", and  *)
(* each write stores both. The reset of overridden fields, the history of  *)
(* revisions and the audit, which these handlers only write, are left out. *)
(***************************************************************************)
EXTENDS PortalProcess

CONSTANTS Drafts, LockTtl

ASSUME SettingsAssumption == LockTtl \in Nat /\ Drafts \cap {"stored", "env"} = {}

VARIABLES
  active,     \* app_settings; revision 0 is no row
  draft,      \* portal_settings_drafts
  commits,    \* portal_settings_apply_commits: how often each draft was committed,
              \* and whether its row is still there
  source,     \* portal_settings_source_lock; owner 0 is no row
  editor,     \* the request of each caller
  healthy,    \* ghost: the drafts whose last health check succeeded
  tied,       \* ghost: a write stored a revision that a request or a draft refers to
  lost,       \* ghost: a direct write overwrote a change of "a" it had not read
  stale       \* ghost: a rollback restored other settings than its application replaced

settingsVars == <<active, draft, commits, source, editor, healthy, tied, lost, stale, process>>
rows == <<active, draft, commits, source>>
ghosts == <<healthy, tied, lost, stale>>

Environment == [revision |-> 0, a |-> "env", b |-> "env", by |-> 0]
NoEditor == [step |-> "idle", id |-> 0, kind |-> "none", draft |-> "none",
             before |-> Environment, current |-> Environment, revision |-> 0, attached |-> TRUE]

\* Settings of the environment, or a row whose inherited field "b" is of an
\* earlier environment; a draft may have been validated for them.
SettingsInit ==
  /\ ProcessInit
  /\ active \in {Environment, [revision |-> 1, a |-> "stored", b |-> "stored", by |-> 0]}
  /\ draft \in [Drafts -> [status : {"none", "validated"}, base : {active.revision}]]
  /\ commits = [d \in Drafts |-> [count |-> 0, row |-> FALSE]]
  /\ source = [owner |-> 0, at |-> 0]
  /\ editor = [c \in Callers |-> NoEditor]
  /\ healthy = {} /\ tied = FALSE /\ lost = FALSE /\ stale = FALSE

At(c, step) == editor[c].step = step
Move(c, step) ==
  editor' = [editor EXCEPT ![c] =
    CASE step = "idle" -> NoEditor
      [] step = "release" -> [NoEditor EXCEPT !.step = step, !.id = editor[c].id]
      [] OTHER -> [@ EXCEPT !.step = step]]

Open(c, kind, d, step) ==
  /\ At(c, "idle")
  /\ Arrive
  /\ editor' = [editor EXCEPT ![c] = [NoEditor EXCEPT
       !.step = step, !.id = requests + 1, !.kind = kind, !.draft = d]]
  /\ UNCHANGED <<rows, ghosts>>

Mark(d, status) == draft' = [draft EXCEPT ![d].status = status]

Now == clock + 1

\* What a guarded writer stores over the settings of a revision.
Stored(revision, a, b, by) ==
  [revision |-> IF Now > revision + 1 THEN Now ELSE revision + 1, a |-> a, b |-> b, by |-> by]

\* A write of c ties when the revision it stores is one of another request, or
\* the one a draft was made for.
Ties(c, revision) ==
  tied' = \/ tied
          \/ \E d \in Callers \ {c} : revision \in {editor[d].revision, editor[d].current.revision}
          \/ \E d \in Drafts : draft[d].base = revision

---------------------------------------------------------------------------------
(* The lock of everything that writes the settings. *)

FirstStep == [apply |-> "claim", put |-> "putBefore", sync |-> "syncRead"]

LockSource(c) ==
  /\ At(c, "acquire")
  /\ IF source.owner = 0 \/ source.at < clock - LockTtl
     THEN /\ source' = [owner |-> editor[c].id, at |-> clock]
          /\ Move(c, FirstStep[editor[c].kind])
     ELSE source' = source /\ Move(c, "idle")
  /\ UNCHANGED <<active, draft, commits, ghosts, process>>

\* Only an application that committed goes on, with the health check.
UnlockSource(c) ==
  /\ editor[c].step \in {"release", "releaseApplied"}
  /\ source' = IF source.owner = editor[c].id THEN [source EXCEPT !.owner = 0] ELSE source
  /\ Move(c, IF At(c, "release") THEN "idle" ELSE "consume")
  /\ UNCHANGED <<active, draft, commits, ghosts, process>>

---------------------------------------------------------------------------------
(* Drafts. *)

CreateDraft(d) ==
  /\ draft[d].status = "none"
  /\ Arrive
  /\ draft' = [draft EXCEPT ![d] = [status |-> "draft", base |-> active.revision]]
  /\ UNCHANGED <<active, commits, source, editor, ghosts>>

CancelDraft(d) ==
  /\ draft[d].status \in {"draft", "validated", "invalid"}
  /\ Arrive
  /\ Mark(d, "cancelled")
  /\ UNCHANGED <<active, commits, source, editor, ghosts>>

Validate(c, d) ==
  /\ draft[d].status \in {"draft", "invalid", "validated"}
  /\ Open(c, "validate", d, "compare")

CompareRevision(c) ==
  /\ At(c, "compare")
  /\ Move(c, IF active.revision = draft[editor[c].draft].base THEN "validate" ELSE "outdated")
  /\ UNCHANGED <<rows, ghosts, process>>

\* Not guarded by the status the validation began with.
MarkOutdated(c) ==
  /\ At(c, "outdated")
  /\ IF draft[editor[c].draft].status \in {"applied", "cancelled"}
     THEN draft' = draft
     ELSE Mark(editor[c].draft, "conflict")
  /\ Move(c, "idle")
  /\ UNCHANGED <<active, commits, source, ghosts, process>>

\* The tests of the services are over, with either result.
StoreValidation(c) ==
  /\ At(c, "validate")
  /\ IF draft[editor[c].draft].status \in {"draft", "invalid", "validated"}
     THEN \E status \in {"validated", "invalid"} : Mark(editor[c].draft, status)
     ELSE draft' = draft
  /\ Move(c, "idle")
  /\ UNCHANGED <<active, commits, source, ghosts, process>>

---------------------------------------------------------------------------------
(* The application of a draft. *)

Apply(c, d) == draft[d].status # "none" /\ Open(c, "apply", d, "snapshot")

\* The settings a rollback will restore, read before the lock.
Snapshot(c) ==
  /\ At(c, "snapshot")
  /\ editor' = [editor EXCEPT ![c].step = "acquire", ![c].before = active]
  /\ UNCHANGED <<rows, ghosts, process>>

ClaimDraft(c) ==
  /\ At(c, "claim")
  /\ IF draft[editor[c].draft].status = "validated"
     THEN Mark(editor[c].draft, "applying") /\ Move(c, "read")
     ELSE draft' = draft /\ Move(c, "release")
  /\ UNCHANGED <<active, commits, source, ghosts, process>>

\* Slip: the draft is applied to whatever is active.
ReadAny(c) ==
  /\ At(c, "read")
  /\ editor' = [editor EXCEPT ![c].step = "commit", ![c].current = active]
  /\ UNCHANGED <<rows, ghosts, process>>

ReadActive(c) ==
  /\ At(c, "read")
  /\ IF active.revision = draft[editor[c].draft].base
     THEN editor' = [editor EXCEPT ![c].step = "commit", ![c].current = active]
     ELSE Move(c, "refuse")
  /\ UNCHANGED <<rows, ghosts, process>>

\* One batch: the settings, if their revision is the one that was read, and
\* the row of the commit, if the settings were written. What was replaced is
\* kept, for the ghosts.
CommitDraft(c) ==
  /\ At(c, "commit")
  /\ LET e == editor[c]
         next == Stored(e.current.revision, e.draft, e.current.b, e.id)
     IN IF active.revision = e.current.revision
        THEN /\ active' = next
             /\ commits' = [commits EXCEPT ![e.draft] = [count |-> @.count + 1, row |-> TRUE]]
             /\ healthy' = healthy \ {e.draft}
             /\ editor' = [editor EXCEPT ![c].step = "mark", ![c].revision = next.revision]
             /\ Ties(c, next.revision)
        ELSE UNCHANGED <<active, commits, healthy, tied>> /\ Move(c, "refuse")
  /\ UNCHANGED <<draft, source, lost, stale, process>>

RefuseDraft(c) ==
  /\ At(c, "refuse")
  /\ Mark(editor[c].draft, "conflict")
  /\ Move(c, "release")
  /\ UNCHANGED <<active, commits, source, ghosts, process>>

MarkApplied(c) ==
  /\ At(c, "mark")
  /\ Mark(editor[c].draft, "applied")
  /\ Move(c, "attach")
  /\ UNCHANGED <<active, commits, source, ghosts, process>>

\* The names of the overridden fields join the settings, unless they changed.
AttachOverrides(c) ==
  /\ At(c, "attach")
  /\ editor' = [editor EXCEPT ![c].step = "releaseApplied",
                  ![c].attached = active.revision = editor[c].revision]
  /\ UNCHANGED <<rows, ghosts, process>>

ConsumeCommit(c) ==
  /\ At(c, "consume")
  /\ commits' = [commits EXCEPT ![editor[c].draft].row = FALSE]
  /\ Move(c, IF commits[editor[c].draft].row THEN "health" ELSE "rollbackConflict")
  /\ UNCHANGED <<active, draft, source, ghosts, process>>

\* Slip: the result of the services alone decides.
CheckServices(c) ==
  /\ At(c, "health")
  /\ \/ Move(c, "idle") /\ healthy' = IF editor[c].attached
                                      THEN healthy \cup {editor[c].draft} ELSE healthy
     \/ Move(c, "rollback") /\ healthy' = healthy
  /\ UNCHANGED <<rows, tied, lost, stale, process>>

CheckHealth(c) ==
  /\ At(c, "health")
  /\ \/ editor[c].attached /\ Move(c, "idle") /\ healthy' = healthy \cup {editor[c].draft}
     \/ Move(c, "rollback") /\ healthy' = healthy
  /\ UNCHANGED <<rows, tied, lost, stale, process>>

\* What was active before becomes active again, or the row is deleted.
Restore(c) ==
  LET e == editor[c]
      next == Stored(e.revision, e.before.a, e.before.b, e.id)
  IN IF e.before.revision = 0 THEN active' = Environment /\ tied' = tied
     ELSE active' = next /\ Ties(c, next.revision)

\* Slip: the settings are restored over whatever is active.
RollbackAny(c) ==
  /\ At(c, "rollback")
  /\ Restore(c)
  /\ Move(c, "rolledBack")
  /\ UNCHANGED <<draft, commits, source, healthy, lost, stale, process>>

\* Slip: the settings that are restored are read after the application.
RollbackToCurrent(c) ==
  /\ At(c, "rollback")
  /\ LET e == editor[c]
     IN IF active.revision = e.revision
        THEN active' = Stored(e.revision, active.a, active.b, e.id) /\ Move(c, "rolledBack")
        ELSE active' = active /\ Move(c, "rollbackConflict")
  /\ UNCHANGED <<draft, commits, source, ghosts, process>>

RollbackSnapshot(c) ==
  /\ At(c, "rollback")
  /\ LET e == editor[c]
     IN IF active.revision = e.revision
        THEN /\ Restore(c)
             /\ Move(c, "rolledBack")
             /\ stale' = (stale \/ e.before # e.current)
        ELSE UNCHANGED <<active, tied, stale>> /\ Move(c, "rollbackConflict")
  /\ UNCHANGED <<draft, commits, source, healthy, lost, process>>

MarkRolledBack(c) ==
  /\ editor[c].step \in {"rolledBack", "rollbackConflict"}
  /\ Mark(editor[c].draft, IF At(c, "rolledBack") THEN "rolled_back" ELSE "rollback_conflict")
  /\ Move(c, "idle")
  /\ UNCHANGED <<active, commits, source, ghosts, process>>

---------------------------------------------------------------------------------
(* A direct write, and the synchronisation with the environment. *)

PutSettings(c) == Open(c, "put", "none", "acquire")
Synchronize(c) == Open(c, "sync", "none", "acquire")

PutBefore(c) ==
  /\ At(c, "putBefore")
  /\ editor' = [editor EXCEPT ![c].step = "putRead", ![c].before = active]
  /\ UNCHANGED <<rows, ghosts, process>>

\* The settings the request is merged with, and the time of the merge.
PutRead(c) ==
  /\ At(c, "putRead")
  /\ editor' = [editor EXCEPT ![c].step = "putWrite", ![c].current = active, ![c].revision = Now]
  /\ UNCHANGED <<rows, ghosts, process>>

\* An upsert without a condition.
PutWrite(c) ==
  /\ At(c, "putWrite")
  /\ LET e == editor[c]
     IN /\ active' = [revision |-> e.revision, a |-> e.current.a, b |-> "put", by |-> e.id]
        /\ Ties(c, e.revision)
        /\ lost' = (lost \/ e.current.a # active.a)
  /\ Move(c, "putAttach")
  /\ UNCHANGED <<draft, commits, source, healthy, stale, process>>

PutAttach(c) ==
  /\ At(c, "putAttach")
  /\ Move(c, IF active.revision = editor[c].revision THEN "release" ELSE "putRestore")
  /\ UNCHANGED <<rows, ghosts, process>>

PutRestore(c) ==
  /\ At(c, "putRestore")
  /\ IF active.revision = editor[c].revision THEN Restore(c) ELSE UNCHANGED <<active, tied>>
  /\ Move(c, "release")
  /\ UNCHANGED <<draft, commits, source, healthy, lost, stale, process>>

\* Something is written only if an inherited field is not the environment's.
SyncRead(c) ==
  /\ At(c, "syncRead")
  /\ IF active.revision # 0 /\ active.b = "stored"
     THEN editor' = [editor EXCEPT ![c].step = "syncWrite", ![c].current = active]
     ELSE Move(c, "release")
  /\ UNCHANGED <<rows, ghosts, process>>

SyncWrite(c) ==
  /\ At(c, "syncWrite")
  /\ LET e == editor[c]
         next == Stored(e.current.revision, e.current.a, "env", e.id)
     IN IF active.revision = e.current.revision
        THEN active' = next /\ Ties(c, next.revision)
        ELSE UNCHANGED <<active, tied>>
  /\ Move(c, "release")
  /\ UNCHANGED <<draft, commits, source, healthy, lost, stale, process>>

---------------------------------------------------------------------------------
(* Failures. *)

Locked == {"claim", "revert", "attach", "putBefore", "putRead", "putWrite", "putAttach",
           "putRestore", "syncRead", "syncWrite"}

\* The first snapshot that fails counts as no settings; a failure between the
\* claim and the mark gives the draft back; one under the lock releases it; the
\* release itself is tried once.
SettingsThrows(c) ==
  /\ editor[c].step # "idle"
  /\ Fault
  /\ CASE At(c, "snapshot") -> Move(c, "acquire")
       [] editor[c].step \in {"read", "commit", "refuse", "mark"} -> Move(c, "revert")
       [] editor[c].step \in Locked -> Move(c, "release")
       [] At(c, "releaseApplied") -> Move(c, "consume")
       [] OTHER -> Move(c, "idle")
  /\ UNCHANGED <<rows, ghosts>>

GiveBack(c) ==
  /\ At(c, "revert")
  /\ IF draft[editor[c].draft].status = "applying"
     THEN Mark(editor[c].draft, "validated") ELSE draft' = draft
  /\ Move(c, "release")
  /\ UNCHANGED <<active, commits, source, ghosts, process>>

SettingsDies ==
  /\ Die
  /\ editor' = [c \in Callers |-> NoEditor]
  /\ UNCHANGED <<rows, ghosts>>

SettingsTick == Tick /\ UNCHANGED <<rows, editor, ghosts>>

ApplyStep(c) ==
  \/ Snapshot(c) \/ ClaimDraft(c) \/ ReadActive(c) \/ CommitDraft(c) \/ RefuseDraft(c)
  \/ MarkApplied(c) \/ AttachOverrides(c) \/ ConsumeCommit(c) \/ CheckHealth(c)
  \/ RollbackSnapshot(c) \/ MarkRolledBack(c) \/ GiveBack(c)

WriteStep(c) ==
  \/ LockSource(c) \/ UnlockSource(c) \/ CompareRevision(c) \/ MarkOutdated(c)
  \/ StoreValidation(c) \/ PutBefore(c) \/ PutRead(c) \/ PutWrite(c) \/ PutAttach(c)
  \/ PutRestore(c) \/ SyncRead(c) \/ SyncWrite(c)

SettingsNext ==
  \/ \E c \in Callers :
       \/ ApplyStep(c) \/ WriteStep(c) \/ SettingsThrows(c)
       \/ PutSettings(c) \/ Synchronize(c)
       \/ \E d \in Drafts : Validate(c, d) \/ Apply(c, d)
  \/ \E d \in Drafts : CreateDraft(d) \/ CancelDraft(d)
  \/ SettingsDies
  \/ SettingsTick

SettingsSpec == SettingsInit /\ [][SettingsNext]_settingsVars

---------------------------------------------------------------------------------
(* Properties. *)

Settings == [revision : Nat, a : Drafts \cup {"stored", "env"}, b : {"stored", "env", "put"},
             by : 0 .. MaxRequests]
EditorSteps == {"idle", "acquire", "release", "releaseApplied", "compare", "outdated", "validate",
                "snapshot", "read", "commit", "refuse", "mark", "consume", "health", "rollback",
                "rolledBack", "rollbackConflict"} \cup Locked

\* Types.
SettingsTypeOK ==
  /\ ProcessTypeOK
  /\ active \in Settings
  /\ draft \in [Drafts -> [status : {"none", "draft", "validated", "invalid", "applying",
                                     "applied", "conflict", "cancelled", "rolled_back",
                                     "rollback_conflict"},
                           base : Nat]]
  /\ commits \in [Drafts -> [count : Nat, row : BOOLEAN]]
  /\ source \in [owner : 0 .. MaxRequests, at : 0 .. MaxTime]
  /\ editor \in [Callers ->
       [step : EditorSteps, id : 0 .. MaxRequests, kind : {"none", "apply", "validate", "put", "sync"},
        draft : Drafts \cup {"none"}, before : Settings, current : Settings, revision : Nat,
        attached : BOOLEAN]]
  /\ healthy \subseteq Drafts /\ tied \in BOOLEAN /\ lost \in BOOLEAN /\ stale \in BOOLEAN

\* The changes of a draft are committed once, also when the mark after the
\* commit fails, gives the draft back as validated, and it is applied again;
\* unless a revision was used again, or the rollback of another application
\* took the settings back behind it.
CommittedOnce == \A d \in Drafts : commits[d].count <= 1 \/ tied \/ stale

\* An automatic rollback, which runs without the lock, replaces the settings
\* its own application wrote and nobody else's.
RollbackIsOwn ==
  [][\A c \in Callers :
       At(c, "rollback") /\ editor'[c].step = "rolledBack"
         => active.by = editor[c].id \/ tied]_settingsVars

\* The change of a draft that was rolled back is not in force, unless a direct
\* write or the snapshot of another application had read it before the rollback
\* and stored it again after.
RolledBackIsOut ==
  \A d \in Drafts : draft[d].status = "rolled_back" => active.a # d \/ lost \/ stale \/ tied

\* Between applications, a draft that counts as applied was found healthy, and
\* one that counts as cancelled was never committed.
FinalStatusIsTrue ==
  \A d \in Drafts :
    \/ \E c \in Callers : editor[c].draft = d
    \/ faults + crashes > 0
    \/ /\ draft[d].status = "applied" => d \in healthy
       /\ draft[d].status = "cancelled" => commits[d].count = 0
===================================================================================
