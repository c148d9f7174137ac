--------------------------------- MODULE CatalogSync ---------------------------------
(***************************************************************************)
(* The catalogue of XYOps processes. Opening the catalogue fetches it from *)
(* XYOps, stores it as the current snapshot and the differences from the   *)
(* snapshot read before as history. A synchronisation, by an administrator *)
(* or the timer, does the same under a lock that may be taken over after   *)
(* its time to live, and keeps a row about itself; opening the catalogue   *)
(* takes no lock.                                                          *)
(*                                                                         *)
(* A catalogue is its version; -1 is none. What a version contains, the    *)
(* audit event of a synchronisation, and the limits of 50 rows and 30      *)
(* history entries are left out.                                           *)
(***************************************************************************)
EXTENDS PortalProcess

CONSTANTS SyncTtl,    \* XYOPS_CATALOG_SYNC_LOCK_TTL_SECONDS
          MaxVersion  \* bound: changes of the catalogue in XYOps

ASSUME SyncAssumption == SyncTtl \in Nat /\ MaxVersion \in Nat

VARIABLES
  upstream,  \* external: the version of the catalogue XYOps serves
  snapshot,  \* xyops_catalog_snapshot: its version
  history,   \* xyops_catalog_history: the versions with an entry
  syncLock,  \* xyops_catalog_sync_lock: acquired_at, -1 without a row
  syncRow,   \* xyops_catalog_sync_runs: the status of each run
  reader     \* the request of each caller

syncVars == <<upstream, snapshot, history, syncLock, syncRow, reader, process>>

None == -1
CatalogVersions == 0 .. MaxVersion
Outcomes == {"success", "failed", "skipped"}
NewReader(step, kind, run, started) ==
  [step |-> step, kind |-> kind, run |-> run, started |-> started,
   previous |-> None, fetched |-> None, status |-> "running"]
NoReader == NewReader("idle", "none", 0, 0)

SyncInit ==
  /\ ProcessInit
  /\ upstream = 0 /\ snapshot = None /\ history = {}
  /\ syncLock = None
  /\ syncRow = [r \in 1 .. MaxRequests |-> "none"]
  /\ reader = [c \in Callers |-> NoReader]

Reads(c, step) == reader[c].step = step

ReadsOn(c, step) ==
  reader' = [reader EXCEPT ![c] = IF step = "idle" THEN NoReader ELSE [@ EXCEPT !.step = step]]

\* portalCatalog has returned or thrown; a catalogue is then filtered by the
\* policies, and when these cannot be read the request fails all the same.
CatalogEnds(c, status) ==
  \E outcome \in {status, "failed"} :
    reader' = [reader EXCEPT
      ![c] = IF @.kind = "open" THEN NoReader
                                ELSE [@ EXCEPT !.step = "release", !.status = outcome]]

---------------------------------------------------------------------------------
(* runCatalogSynchronization, up to the catalogue. *)

OpenCatalog(c) ==
  /\ Reads(c, "idle") /\ Arrive
  /\ reader' = [reader EXCEPT ![c] = NewReader("read", "open", 0, 0)]
  /\ UNCHANGED <<upstream, snapshot, history, syncLock, syncRow>>

StartSync(c) ==
  /\ Reads(c, "idle") /\ Arrive
  /\ reader' = [reader EXCEPT ![c] = NewReader("expire", "sync", requests + 1, clock)]
  /\ UNCHANGED <<upstream, snapshot, history, syncLock, syncRow>>

\* DELETE ... WHERE acquired_at < startedAt - ttl.
ExpireSyncLock(c) ==
  /\ Reads(c, "expire")
  /\ syncLock' = IF syncLock < reader[c].started - SyncTtl THEN None ELSE syncLock
  /\ ReadsOn(c, "acquire")
  /\ UNCHANGED <<upstream, snapshot, history, syncRow, process>>

\* INSERT OR IGNORE, with the time the run began.
AcquireSyncLock(c) ==
  /\ Reads(c, "acquire")
  /\ IF syncLock = None THEN syncLock' = reader[c].started /\ ReadsOn(c, "start")
                        ELSE syncLock' = syncLock /\ ReadsOn(c, "skip")
  /\ UNCHANGED <<upstream, snapshot, history, syncRow, process>>

SaveSkipped(c) ==
  /\ Reads(c, "skip")
  /\ syncRow' = [syncRow EXCEPT ![reader[c].run] = "skipped"]
  /\ ReadsOn(c, "idle")
  /\ UNCHANGED <<upstream, snapshot, history, syncLock, process>>

SaveStarted(c) ==
  /\ Reads(c, "start")
  /\ syncRow' = [syncRow EXCEPT ![reader[c].run] = "running"]
  /\ ReadsOn(c, "read")
  /\ UNCHANGED <<upstream, snapshot, history, syncLock, process>>

---------------------------------------------------------------------------------
(* portalCatalog. *)

\* Demo mode answers at once; a snapshot that cannot be read counts as none;
\* without XYOps the snapshot is the answer, which fails a synchronisation.
ReadSnapshot(c) ==
  /\ Reads(c, "read")
  /\ \/ CatalogEnds(c, "skipped")
     \/ \E previous \in {snapshot, None} :
          \/ CatalogEnds(c, IF previous = None THEN "skipped" ELSE "failed")
          \/ reader' = [reader EXCEPT ![c].step = "fetch", ![c].previous = previous]
  /\ UNCHANGED <<upstream, snapshot, history, syncLock, syncRow, process>>

\* get_events: the catalogue of that moment, or a failure, when the snapshot
\* is served instead.
FetchCatalog(c) ==
  /\ Reads(c, "fetch")
  /\ \/ reader' = [reader EXCEPT ![c].step = "snapshot", ![c].fetched = upstream]
     \/ CatalogEnds(c, "failed")
  /\ UNCHANGED <<upstream, snapshot, history, syncLock, syncRow, process>>

SaveSnapshot(c) ==
  /\ Reads(c, "snapshot")
  /\ snapshot' = reader[c].fetched
  /\ IF reader[c].previous # reader[c].fetched THEN ReadsOn(c, "history")
                                               ELSE CatalogEnds(c, "success")
  /\ UNCHANGED <<upstream, history, syncLock, syncRow, process>>

SaveHistory(c) ==
  /\ Reads(c, "history")
  /\ history' = history \cup {reader[c].fetched}
  /\ CatalogEnds(c, "success")
  /\ UNCHANGED <<upstream, snapshot, syncLock, syncRow, process>>

---------------------------------------------------------------------------------
(* runCatalogSynchronization, its end. *)

\* Slip: the lock is deleted whoever has it.
ReleaseAnyLock(c) ==
  /\ Reads(c, "release")
  /\ syncLock' = None
  /\ ReadsOn(c, "record")
  /\ UNCHANGED <<upstream, snapshot, history, syncRow, process>>

\* DELETE ... WHERE acquired_at = startedAt.
ReleaseSyncLock(c) ==
  /\ Reads(c, "release")
  /\ syncLock' = IF syncLock = reader[c].started THEN None ELSE syncLock
  /\ ReadsOn(c, "record")
  /\ UNCHANGED <<upstream, snapshot, history, syncRow, process>>

SaveOutcome(c) ==
  /\ Reads(c, "record")
  /\ syncRow' = [syncRow EXCEPT ![reader[c].run] = reader[c].status]
  /\ ReadsOn(c, "idle")
  /\ UNCHANGED <<upstream, snapshot, history, syncLock, process>>

---------------------------------------------------------------------------------

CatalogChanges ==
  /\ upstream < MaxVersion
  /\ upstream' = upstream + 1
  /\ UNCHANGED <<snapshot, history, syncLock, syncRow, reader, process>>

\* A statement throws: when the catalogue is stored the synchronisation fails
\* and goes on to its end; before the catalogue, which keeps a lock just taken,
\* and in its end, it is over.
SyncThrows(c) ==
  /\ reader[c].step \notin {"idle", "read", "fetch"}
  /\ Fault
  /\ IF reader[c].step \in {"snapshot", "history"} THEN CatalogEnds(c, "failed")
                                                   ELSE ReadsOn(c, "idle")
  /\ UNCHANGED <<upstream, snapshot, history, syncLock, syncRow>>

SyncProcessDies ==
  /\ Die
  /\ reader' = [c \in Callers |-> NoReader]
  /\ UNCHANGED <<upstream, snapshot, history, syncLock, syncRow>>

SyncTick == Tick /\ UNCHANGED <<upstream, snapshot, history, syncLock, syncRow, reader>>

SyncStep(c) ==
  \/ OpenCatalog(c) \/ StartSync(c) \/ ExpireSyncLock(c) \/ AcquireSyncLock(c)
  \/ SaveSkipped(c) \/ SaveStarted(c) \/ ReadSnapshot(c) \/ FetchCatalog(c)
  \/ SaveSnapshot(c) \/ SaveHistory(c) \/ ReleaseSyncLock(c) \/ SaveOutcome(c)
  \/ SyncThrows(c)

SyncNext ==
  \/ \E c \in Callers : SyncStep(c)
  \/ CatalogChanges \/ SyncProcessDies \/ SyncTick

SyncSpec == SyncInit /\ [][SyncNext]_syncVars

---------------------------------------------------------------------------------
(* Properties. *)

ReaderType ==
  [step : {"idle", "expire", "acquire", "skip", "start", "read", "fetch", "snapshot", "history",
           "release", "record"},
   kind : {"none", "open", "sync"}, run : 0 .. MaxRequests, started : 0 .. MaxTime,
   previous : CatalogVersions \cup {None}, fetched : CatalogVersions \cup {None},
   status : {"running"} \cup Outcomes]

SyncTypeOK ==
  /\ upstream \in CatalogVersions
  /\ snapshot \in CatalogVersions \cup {None}
  /\ history \subseteq CatalogVersions
  /\ syncLock \in {None} \cup 0 .. MaxTime
  /\ syncRow \in [1 .. MaxRequests -> {"none", "running"} \cup Outcomes]
  /\ reader \in [Callers -> ReaderType]

\* The synchronisations that have the lock, as far as they know.
Synchronising(c) ==
  /\ reader[c].kind = "sync"
  /\ reader[c].step \in {"start", "read", "fetch", "snapshot", "history", "release"}

SyncExpired(c) == reader[c].started + SyncTtl < clock

\* docs/integrations/CATALOG_SYNC.md:7, "A D1 lock prevents overlapping
\* synchronizations": two run at the same time only when one of them began
\* longer than the time to live ago, whatever was taken over, released late or
\* left behind by a run that threw or died.
SyncsExclusive ==
  \A c, d \in Callers :
    c # d /\ Synchronising(c) /\ Synchronising(d) => SyncExpired(c) \/ SyncExpired(d)
===================================================================================
