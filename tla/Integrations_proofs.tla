------------------------------ MODULE Integrations_proofs ------------------------------
(***************************************************************************)
(* Theorems about the portal's dealings with XYOps and FreeIPA, for any    *)
(* number of callers, runs, services, users and lanes: synchronisations     *)
(* exclude each other, the health shown does not go back, a bulk answer is *)
(* true, and what the log of runs calls finished, is finished.             *)
(***************************************************************************)
EXTENDS OperationRuns, CatalogSync, DependencyHealth, DirectoryActions, TLAPS

(***************************************************************************)
(* The catalogue. A synchronisation that is not older than the time to     *)
(* live has the lock, so that nobody can take it.                          *)
(***************************************************************************)

\* What the proof needs of a request: an idle one is of no kind, and only a
\* synchronisation has a lock to release.
SyncReaderFields ==
  [step : {"idle", "expire", "acquire", "skip", "start", "read", "fetch", "snapshot", "history",
           "release", "record"},
   kind : {"none", "open", "sync"}, run : Int, started : Nat,
   previous : Int, fetched : Int, status : {"running", "success", "failed", "skipped"}]

SyncReader == {r \in SyncReaderFields : /\ r.kind = "none" => r.step = "idle"
                                        /\ r.step = "release" => r.kind = "sync"}

HasLock(c) == Synchronising(c) => SyncExpired(c) \/ syncLock = reader[c].started

SyncInv ==
  /\ clock \in Nat /\ requests \in Nat /\ upstream \in Int /\ snapshot \in Int /\ syncLock \in Int
  /\ reader \in [Callers -> SyncReader]
  /\ \A c \in Callers : reader[c].started <= clock
  /\ \A c \in Callers : HasLock(c)
  /\ SyncsExclusive

\* A request that begins is a request.
LEMMA NewReaderType ==
  ASSUME NEW step \in {"idle", "expire", "read"}, NEW kind \in {"none", "open", "sync"},
         NEW run \in Int, NEW started \in Nat, kind = "none" => step = "idle"
  PROVE  LET r == NewReader(step, kind, run, started)
         IN r \in SyncReader /\ r.step = step /\ r.kind = kind /\ r.started = started
<1> DEFINE r == NewReader(step, kind, run, started)
<1>1. r \in SyncReaderFields /\ r.step = step /\ r.kind = kind /\ r.started = started
  BY DEF NewReader, SyncReaderFields, None
<1> QED
  BY <1>1 DEF SyncReader

\* No request is one, too.
LEMMA NoReaderType == NoReader \in SyncReader /\ NoReader.kind = "none" /\ NoReader.started = 0
  BY NewReaderType DEF NoReader

\* A step of one caller that leaves the lock to those who have it.
LEMMA ReaderMoves ==
  ASSUME SyncInv, NEW c \in Callers, NEW next \in SyncReader,
         reader' = [reader EXCEPT ![c] = next],
         next.started <= clock,
         Synchronising(c)' => /\ Synchronising(c) \/ syncLock = None
                              /\ syncLock' = next.started \/ SyncExpired(c)'
                              /\ Synchronising(c) => next.started = reader[c].started,
         \A d \in Callers \ {c} : Synchronising(d) /\ syncLock = reader[d].started
             => syncLock' = syncLock \/ SyncExpired(d),
         clock' = clock, requests' \in Nat, upstream' \in Int, snapshot' \in Int, syncLock' \in Int
  PROVE  SyncInv'
<1>1. /\ reader' \in [Callers -> SyncReader] /\ reader'[c] = next
      /\ \A d \in Callers \ {c} : reader'[d] = reader[d]
  BY DEF SyncInv
<1>2. \A d \in Callers \ {c} : /\ Synchronising(d)' = Synchronising(d)
                               /\ SyncExpired(d)' = SyncExpired(d)
  BY <1>1 DEF Synchronising, SyncExpired
<1>3. \A d \in Callers : reader'[d].started <= clock'
  BY <1>1 DEF SyncInv
<1>4. HasLock(c)'
  BY <1>1 DEF HasLock
<1>5. \A d \in Callers \ {c} : HasLock(d)'
  BY <1>1, <1>2 DEF SyncInv, HasLock
<1>6. ASSUME NEW d \in Callers \ {c}, Synchronising(c)', Synchronising(d)'
      PROVE  SyncExpired(c)' \/ SyncExpired(d)'
  <2>1. Synchronising(d) /\ HasLock(d) /\ SyncExpired(d)' = SyncExpired(d)
    BY <1>2, <1>6 DEF SyncInv
  <2>2. CASE Synchronising(c)
    BY <1>1, <1>6, <2>1, <2>2 DEF SyncInv, SyncsExclusive, SyncExpired
  <2>3. CASE syncLock = None
    <3>1. reader[d].started \in Nat
      BY DEF SyncInv, SyncReader, SyncReaderFields
    <3> QED
      BY <2>1, <2>3, <3>1 DEF HasLock, None
  <2> QED
    BY <1>6, <2>2, <2>3
<1>7. SyncsExclusive'
  <2> SUFFICES ASSUME NEW d \in Callers, NEW e \in Callers, d # e,
                      Synchronising(d)', Synchronising(e)'
               PROVE  SyncExpired(d)' \/ SyncExpired(e)'
    BY DEF SyncsExclusive
  <2> QED
    BY <1>2, <1>6 DEF SyncInv, SyncsExclusive
<1> QED
  BY <1>1, <1>3, <1>4, <1>5, <1>7 DEF SyncInv
\* A step that moves no caller and no lock; time only makes more runs expire.
LEMMA ReadersStay ==
  ASSUME SyncInv, reader' = reader, syncLock' = syncLock,
         clock' \in Nat, clock' >= clock, requests' \in Nat, upstream' \in Int, snapshot' \in Int
  PROVE  SyncInv'
<1>1. \A c \in Callers : Synchronising(c)' = Synchronising(c) /\ (SyncExpired(c) => SyncExpired(c)')
  <2> SUFFICES ASSUME NEW c \in Callers
               PROVE  Synchronising(c)' = Synchronising(c) /\ (SyncExpired(c) => SyncExpired(c)')
    OBVIOUS
  <2>1. reader[c].started \in Nat /\ SyncTtl \in Nat /\ clock \in Nat
    BY SyncAssumption DEF SyncInv, SyncReader, SyncReaderFields
  <2> QED
    BY <2>1 DEF Synchronising, SyncExpired
<1>2. \A c \in Callers : reader[c].started \in Nat /\ reader[c].started <= clock'
  BY DEF SyncInv, SyncReader, SyncReaderFields
<1>3. \A c \in Callers : HasLock(c)'
  BY <1>1 DEF SyncInv, HasLock
<1>4. SyncsExclusive'
  BY <1>1 DEF SyncInv, SyncsExclusive
<1> QED
  BY <1>2, <1>3, <1>4 DEF SyncInv

\* The invariant holds at the start.
LEMMA SyncInvHolds == SyncInit => SyncInv
<1> SUFFICES ASSUME SyncInit PROVE SyncInv
  OBVIOUS
<1>1. /\ reader \in [Callers -> SyncReader]
      /\ \A c \in Callers : reader[c].started = 0 /\ reader[c].kind = "none"
  BY NoReaderType DEF SyncInit
<1>2. \A c \in Callers : ~Synchronising(c)
  BY <1>1 DEF Synchronising
<1>3. clock = 0 /\ requests = 0 /\ upstream = 0 /\ snapshot = -1 /\ syncLock = -1
  BY DEF SyncInit, ProcessInit, None
<1> QED
  BY <1>1, <1>2, <1>3 DEF SyncInv, HasLock, SyncsExclusive

\* A request begins, or ends at once: it has no lock.
LEMMA ReaderWithoutLock ==
  ASSUME SyncInv, NEW c \in Callers, NEW next \in SyncReader,
         reader' = [reader EXCEPT ![c] = next], next.started <= clock,
         next.kind # "sync" \/ next.step \in {"idle", "expire", "acquire", "skip", "record"},
         syncLock' = syncLock, clock' = clock, requests' \in Nat, upstream' \in Int,
         snapshot' \in Int
  PROVE  SyncInv'
<1>1. reader'[c] = next
  BY DEF SyncInv
<1>2. ~Synchronising(c)'
  BY <1>1 DEF Synchronising
<1>3. syncLock' \in Int
  BY DEF SyncInv
<1> QED
  BY <1>2, <1>3, ReaderMoves

\* The handler goes on to its next statement, with the lock or without.
LEMMA ReaderGoesOn ==
  ASSUME SyncInv, NEW c \in Callers, NEW next \in SyncReader,
         reader' = [reader EXCEPT ![c] = next],
         next.started = reader[c].started,
         Synchronising(c)' => Synchronising(c),
         syncLock' = syncLock, clock' = clock, requests' \in Nat, upstream' \in Int,
         snapshot' \in Int
  PROVE  SyncInv'
<1>1. reader'[c] = next /\ syncLock' \in Int /\ next.started <= clock
  BY DEF SyncInv
<1>2. Synchronising(c)' => syncLock' = next.started \/ SyncExpired(c)'
  BY <1>1 DEF SyncInv, HasLock, SyncExpired
<1> QED
  BY <1>1, <1>2, ReaderMoves

\* portalCatalog ends.
LEMMA CatalogEndsKeeps ==
  ASSUME SyncInv, NEW c \in Callers, NEW status \in {"running", "success", "failed", "skipped"},
         reader[c].step \in {"read", "fetch", "snapshot", "history"},
         CatalogEnds(c, status),
         syncLock' = syncLock, clock' = clock, requests' \in Nat, upstream' \in Int,
         snapshot' \in Int
  PROVE  SyncInv'
<1>1. reader \in [Callers -> SyncReader] /\ reader[c] \in SyncReader /\ 0 <= clock
  BY DEF SyncInv
<1>2. CASE reader[c].kind = "open"
  <2>1. reader' = [reader EXCEPT ![c] = NoReader]
    BY <1>1, <1>2 DEF CatalogEnds
  <2> QED
    BY <1>1, <2>1, NoReaderType, ReaderWithoutLock
<1>3. CASE reader[c].kind # "open"
  <2>0. PICK outcome \in {status, "failed"} :
          reader' = [reader EXCEPT
            ![c] = IF @.kind = "open" THEN NoReader
                                      ELSE [@ EXCEPT !.step = "release", !.status = outcome]]
    BY DEF CatalogEnds
  <2> DEFINE next == [reader[c] EXCEPT !.step = "release", !.status = outcome]
  <2>1. /\ next \in SyncReader /\ next.started = reader[c].started
        /\ next.kind = reader[c].kind
    <3>1. reader[c] \in SyncReaderFields /\ reader[c].kind = "sync"
      BY <1>1, <1>3 DEF SyncReader, SyncReaderFields
    <3>2. /\ next \in SyncReaderFields /\ next.step = "release"
          /\ next.kind = reader[c].kind /\ next.started = reader[c].started
      BY <3>1 DEF SyncReaderFields
    <3> QED
      BY <3>1, <3>2 DEF SyncReader
  <2>2. reader' = [reader EXCEPT ![c] = next]
    BY <1>1, <1>3, <2>0
  <2> HIDE DEF next
  <2>3. Synchronising(c)' => Synchronising(c)
    BY <1>1, <2>1, <2>2 DEF Synchronising
  <2> QED
    BY <2>1, <2>2, <2>3, ReaderGoesOn
<1> QED
  BY <1>2, <1>3

\* A request moves to a step, or is over.
LEMMA ReadsOnNext ==
  ASSUME SyncInv, NEW c \in Callers, NEW step \in {"acquire", "start", "skip", "read", "history",
         "record", "idle"}, ReadsOn(c, step), reader[c].step # "idle"
  PROVE  \E next \in SyncReader :
           /\ reader' = [reader EXCEPT ![c] = next]
           /\ step = "idle" => next = NoReader
           /\ step # "idle" => /\ next.step = step /\ next.kind = reader[c].kind
                               /\ next.started = reader[c].started
<1>1. reader \in [Callers -> SyncReader] /\ reader[c] \in SyncReader
  BY DEF SyncInv
<1>2. CASE step = "idle"
  BY <1>1, <1>2, NoReaderType DEF ReadsOn
<1>3. CASE step # "idle"
  <2> DEFINE next == [reader[c] EXCEPT !.step = step]
  <2>1. /\ next \in SyncReader /\ next.step = step /\ next.kind = reader[c].kind
        /\ next.started = reader[c].started
    BY <1>1 DEF SyncReader, SyncReaderFields
  <2>2. reader' = [reader EXCEPT ![c] = next]
    BY <1>1, <1>3 DEF ReadsOn
  <2> QED
    BY <1>3, <2>1, <2>2
<1> QED
  BY <1>2, <1>3
\* Every step of a caller keeps the invariant.
LEMMA SyncStepKeeps ==
  ASSUME SyncInv, NEW c \in Callers, SyncStep(c)
  PROVE  SyncInv'
<1>1. /\ reader \in [Callers -> SyncReader] /\ reader[c] \in SyncReader
      /\ clock \in Nat /\ requests \in Nat /\ upstream \in Int /\ snapshot \in Int
      /\ syncLock \in Int /\ SyncTtl \in Nat /\ None \in Int /\ None < 0
      /\ 0 <= clock
  BY SyncAssumption DEF SyncInv, None
<1>2. CASE OpenCatalog(c)
  <2> DEFINE next == NewReader("read", "open", 0, 0)
  <2>1. next \in SyncReader /\ next.kind = "open" /\ next.started = 0
    BY NewReaderType, <1>1
  <2>2. /\ reader' = [reader EXCEPT ![c] = next] /\ requests' \in Nat
        /\ UNCHANGED <<clock, upstream, snapshot, syncLock>>
    BY <1>1, <1>2 DEF OpenCatalog, Arrive
  <2> HIDE DEF next
  <2> QED
    BY <1>1, <2>1, <2>2, ReaderWithoutLock
<1>3. CASE StartSync(c)
  <2> DEFINE next == NewReader("expire", "sync", requests + 1, clock)
  <2>1. next \in SyncReader /\ next.step = "expire" /\ next.started = clock
    BY NewReaderType, <1>1
  <2>2. /\ reader' = [reader EXCEPT ![c] = next] /\ requests' \in Nat
        /\ UNCHANGED <<clock, upstream, snapshot, syncLock>>
    BY <1>1, <1>3 DEF StartSync, Arrive
  <2> HIDE DEF next
  <2>3. next.started <= clock
    BY <1>1, <2>1
  <2> QED
    BY <1>1, <2>1, <2>2, <2>3, ReaderWithoutLock
<1>4. CASE ExpireSyncLock(c)
  <2>1. PICK next \in SyncReader : /\ reader' = [reader EXCEPT ![c] = next]
                                   /\ next.step = "acquire" /\ next.started = reader[c].started
    BY <1>4, ReadsOnNext DEF ExpireSyncLock, Reads
  <2>2. UNCHANGED <<clock, requests, upstream, snapshot>>
    BY <1>4 DEF ExpireSyncLock, process
  <2>3. ~Synchronising(c)'
    BY <1>1, <2>1 DEF Synchronising
  <2>4. ASSUME NEW d \in Callers \ {c}, syncLock = reader[d].started
        PROVE  syncLock' = syncLock \/ SyncExpired(d)
    <3>1. /\ reader[d].started \in Nat /\ reader[c].started \in Nat /\ reader[c].started <= clock
          /\ syncLock' = IF syncLock < reader[c].started - SyncTtl THEN None ELSE syncLock
      BY <1>4 DEF SyncInv, SyncReader, SyncReaderFields, ExpireSyncLock
    <3> QED
      BY <1>1, <2>4, <3>1 DEF SyncExpired
  <2>5. syncLock' \in Int /\ next.started <= clock
    BY <1>1, <1>4, <2>1 DEF ExpireSyncLock, SyncInv
  <2> QED
    BY <1>1, <2>1, <2>2, <2>3, <2>4, <2>5, ReaderMoves
<1>5. CASE AcquireSyncLock(c)
  <2>0. UNCHANGED <<clock, requests, upstream, snapshot>>
    BY <1>5 DEF AcquireSyncLock, process
  <2>1. CASE syncLock = None
    <3>1. PICK next \in SyncReader : /\ reader' = [reader EXCEPT ![c] = next]
                                     /\ next.started = reader[c].started
      BY <1>5, <2>1, ReadsOnNext DEF AcquireSyncLock, Reads
    <3>2. /\ syncLock' = next.started /\ next.started <= clock
          /\ next.started \in Nat /\ syncLock' \in Int
      BY <1>1, <1>5, <2>1, <3>1 DEF AcquireSyncLock, SyncInv, SyncReader, SyncReaderFields
    <3>3. ~Synchronising(c)
      BY <1>5 DEF AcquireSyncLock, Reads, Synchronising
    <3>4. \A d \in Callers : reader[d].started # syncLock
      BY <1>1, <2>1 DEF SyncInv, SyncReader, SyncReaderFields
    <3> QED
      BY <1>1, <2>0, <2>1, <3>1, <3>2, <3>3, <3>4, ReaderMoves
  <2>2. CASE syncLock # None
    <3>1. PICK next \in SyncReader : /\ reader' = [reader EXCEPT ![c] = next]
                                     /\ next.step = "skip" /\ next.started = reader[c].started
      BY <1>5, <2>2, ReadsOnNext DEF AcquireSyncLock, Reads
    <3>2. syncLock' = syncLock /\ next.started <= clock
      BY <1>5, <2>2, <3>1 DEF AcquireSyncLock, SyncInv
    <3> QED
      BY <1>1, <2>0, <3>1, <3>2, ReaderWithoutLock
  <2> QED
    BY <2>1, <2>2
<1>6. CASE SaveSkipped(c) \/ SaveOutcome(c)
  <2>1. reader' = [reader EXCEPT ![c] = NoReader]
    BY <1>6, ReadsOnNext DEF SaveSkipped, SaveOutcome, Reads
  <2>2. UNCHANGED <<clock, requests, upstream, snapshot, syncLock>>
    BY <1>6 DEF SaveSkipped, SaveOutcome, process
  <2> QED
    BY <1>1, <2>1, <2>2, NoReaderType, ReaderWithoutLock
<1>7. CASE SaveStarted(c)
  <2>1. PICK next \in SyncReader : /\ reader' = [reader EXCEPT ![c] = next]
                                   /\ next.kind = reader[c].kind
                                   /\ next.started = reader[c].started
    BY <1>7, ReadsOnNext DEF SaveStarted, Reads
  <2>2. UNCHANGED <<clock, requests, upstream, snapshot, syncLock>> /\ reader[c].step = "start"
    BY <1>7 DEF SaveStarted, Reads, process
  <2>3. Synchronising(c)' => Synchronising(c)
    BY <1>1, <2>1, <2>2 DEF Synchronising
  <2> QED
    BY <1>1, <2>1, <2>2, <2>3, ReaderGoesOn
<1>8. CASE ReadSnapshot(c)
  <2>1. UNCHANGED <<clock, requests, upstream, snapshot, syncLock>> /\ reader[c].step = "read"
    BY <1>8 DEF ReadSnapshot, Reads, process
  <2>2. CASE CatalogEnds(c, "skipped") \/ CatalogEnds(c, "failed")
    BY <1>1, <2>1, <2>2, CatalogEndsKeeps
  <2>3. ASSUME NEW previous \in {snapshot, None},
               reader' = [reader EXCEPT ![c].step = "fetch", ![c].previous = previous]
        PROVE  SyncInv'
    <3> DEFINE next == [reader[c] EXCEPT !.step = "fetch", !.previous = previous]
    <3>1. /\ next \in SyncReader /\ next.kind = reader[c].kind
          /\ next.started = reader[c].started
      <4>1. reader[c] \in SyncReaderFields /\ reader[c].kind # "none"
        BY <1>1, <2>1 DEF SyncReader
      <4>2. /\ next \in SyncReaderFields /\ next.step \in {"fetch", "snapshot"}
            /\ next.kind = reader[c].kind /\ next.started = reader[c].started
        BY <1>1, <4>1 DEF SyncReaderFields
      <4> QED
        BY <4>1, <4>2 DEF SyncReader
    <3>2. reader' = [reader EXCEPT ![c] = next]
      BY <1>1, <2>3
    <3> HIDE DEF next
    <3>3. Synchronising(c)' => Synchronising(c)
      BY <1>1, <2>1, <3>1, <3>2 DEF Synchronising
    <3> QED
      BY <1>1, <2>1, <3>1, <3>2, <3>3, ReaderGoesOn
  <2> QED
    BY <1>8, <2>2, <2>3 DEF ReadSnapshot
<1>9. CASE FetchCatalog(c)
  <2>1. UNCHANGED <<clock, requests, upstream, snapshot, syncLock>> /\ reader[c].step = "fetch"
    BY <1>9 DEF FetchCatalog, Reads, process
  <2>2. CASE CatalogEnds(c, "failed")
    BY <1>1, <2>1, <2>2, CatalogEndsKeeps
  <2>3. CASE reader' = [reader EXCEPT ![c].step = "snapshot", ![c].fetched = upstream]
    <3> DEFINE next == [reader[c] EXCEPT !.step = "snapshot", !.fetched = upstream]
    <3>1. /\ next \in SyncReader /\ next.kind = reader[c].kind
          /\ next.started = reader[c].started
      <4>1. reader[c] \in SyncReaderFields /\ reader[c].kind # "none"
        BY <1>1, <2>1 DEF SyncReader
      <4>2. /\ next \in SyncReaderFields /\ next.step \in {"fetch", "snapshot"}
            /\ next.kind = reader[c].kind /\ next.started = reader[c].started
        BY <1>1, <4>1 DEF SyncReaderFields
      <4> QED
        BY <4>1, <4>2 DEF SyncReader
    <3>2. reader' = [reader EXCEPT ![c] = next]
      BY <1>1, <2>3
    <3> HIDE DEF next
    <3>3. Synchronising(c)' => Synchronising(c)
      BY <1>1, <2>1, <3>1, <3>2 DEF Synchronising
    <3> QED
      BY <1>1, <2>1, <3>1, <3>2, <3>3, ReaderGoesOn
  <2> QED
    BY <1>9, <2>2, <2>3 DEF FetchCatalog
<1>10. CASE SaveSnapshot(c)
  <2>1. /\ UNCHANGED <<clock, requests, upstream, syncLock>> /\ reader[c].step = "snapshot"
        /\ snapshot' \in Int
    BY <1>1, <1>10 DEF SaveSnapshot, Reads, process, SyncReader, SyncReaderFields
  <2>2. CASE CatalogEnds(c, "success")
    BY <1>1, <2>1, <2>2, CatalogEndsKeeps
  <2>3. CASE ReadsOn(c, "history")
    <3>1. PICK next \in SyncReader : /\ reader' = [reader EXCEPT ![c] = next]
                                     /\ next.kind = reader[c].kind
                                     /\ next.started = reader[c].started
      BY <2>1, <2>3, ReadsOnNext
    <3>2. Synchronising(c)' => Synchronising(c)
      BY <1>1, <2>1, <3>1 DEF Synchronising
    <3> QED
      BY <1>1, <2>1, <3>1, <3>2, ReaderGoesOn
  <2> QED
    BY <1>10, <2>2, <2>3 DEF SaveSnapshot
<1>11. CASE SaveHistory(c)
  BY <1>1, <1>11, CatalogEndsKeeps DEF SaveHistory, Reads, process
<1>12. CASE ReleaseSyncLock(c)
  <2>1. PICK next \in SyncReader : /\ reader' = [reader EXCEPT ![c] = next]
                                   /\ next.step = "record" /\ next.kind = reader[c].kind
                                   /\ next.started = reader[c].started
    BY <1>12, ReadsOnNext DEF ReleaseSyncLock, Reads
  <2>2. /\ UNCHANGED <<clock, requests, upstream, snapshot>> /\ reader[c].step = "release"
        /\ syncLock' = IF syncLock = reader[c].started THEN None ELSE syncLock
        /\ syncLock' \in Int /\ next.started <= clock
    BY <1>1, <1>12, <2>1 DEF ReleaseSyncLock, Reads, process, SyncInv
  <2>3. ~Synchronising(c)'
    BY <1>1, <2>1 DEF Synchronising
  <2>4. ASSUME NEW d \in Callers \ {c}, Synchronising(d), syncLock = reader[d].started
        PROVE  syncLock' = syncLock \/ SyncExpired(d)
    <3>1. Synchronising(c)
      BY <1>1, <2>2 DEF Synchronising, SyncReader
    <3>2. SyncExpired(c) \/ SyncExpired(d)
      BY <2>4, <3>1 DEF SyncInv, SyncsExclusive
    <3> QED
      BY <2>2, <2>4, <3>2 DEF SyncExpired
  <2> QED
    BY <1>1, <2>1, <2>2, <2>3, <2>4, ReaderMoves
<1>13. CASE SyncThrows(c)
  <2>1. UNCHANGED <<clock, requests, upstream, snapshot, syncLock>>
    BY <1>13 DEF SyncThrows, Fault
  <2>2. CASE reader[c].step \in {"snapshot", "history"}
    BY <1>1, <1>13, <2>1, <2>2, CatalogEndsKeeps DEF SyncThrows
  <2>3. CASE reader[c].step \notin {"snapshot", "history"}
    <3>1. reader' = [reader EXCEPT ![c] = NoReader]
      BY <1>13, <2>3, ReadsOnNext DEF SyncThrows, Reads
    <3> QED
      BY <1>1, <2>1, <3>1, NoReaderType, ReaderWithoutLock
  <2> QED
    BY <2>2, <2>3
<1> QED
  BY <1>2, <1>3, <1>4, <1>5, <1>6, <1>7, <1>8, <1>9, <1>10, <1>11, <1>12, <1>13 DEF SyncStep

\* Every step keeps the invariant.
LEMMA SyncInvKept == SyncInv /\ [SyncNext]_syncVars => SyncInv'
<1> SUFFICES ASSUME SyncInv, [SyncNext]_syncVars PROVE SyncInv'
  OBVIOUS
<1>1. clock \in Nat /\ requests \in Nat /\ upstream \in Int /\ snapshot \in Int
  BY DEF SyncInv
<1>2. CASE \E c \in Callers : SyncStep(c)
  BY <1>2, SyncStepKeeps
<1>3. CASE CatalogChanges
  BY <1>1, <1>3, ReadersStay DEF CatalogChanges, process
<1>4. CASE SyncTick
  BY <1>1, <1>4, ReadersStay DEF SyncTick, Tick
<1>5. CASE UNCHANGED syncVars
  BY <1>1, <1>5, ReadersStay DEF syncVars, process
<1>6. CASE SyncProcessDies
  <2>1. /\ reader' \in [Callers -> SyncReader]
        /\ \A c \in Callers : reader'[c].started = 0 /\ reader'[c].kind = "none"
    BY <1>6, NoReaderType DEF SyncProcessDies
  <2>2. \A c \in Callers : ~Synchronising(c)'
    BY <2>1 DEF Synchronising
  <2>3. UNCHANGED <<clock, requests, upstream, snapshot, syncLock>>
    BY <1>6 DEF SyncProcessDies, Die
  <2> QED
    BY <1>1, <2>1, <2>2, <2>3 DEF SyncInv, HasLock, SyncsExclusive
<1> QED
  BY <1>2, <1>3, <1>4, <1>5, <1>6 DEF SyncNext

\* Two synchronisations run at the same time only when one of them began longer
\* than the time to live ago.
THEOREM SyncsAreExclusive == SyncSpec => []SyncsExclusive
<1>1. SyncInv => SyncsExclusive
  BY DEF SyncInv
<1> QED
  BY <1>1, SyncInvHolds, SyncInvKept, PTL DEF SyncSpec

\* What a request about to store a catalogue has fetched, is one.
TypedReader == {r \in ReaderType : r.step \in {"snapshot", "history"} => r.fetched \in CatalogVersions}

SyncTypes == ProcessTypeOK /\ SyncTypeOK /\ reader \in [Callers -> TypedReader]

\* The counters stay within their bounds, whatever a step does to them.
LEMMA CountersMove ==
  ASSUME ProcessTypeOK, UNCHANGED process \/ Arrive \/ Fault \/ Die \/ Tick
  PROVE  ProcessTypeOK'
BY ProcessAssumption DEF ProcessTypeOK, process, Arrive, Fault, Die, Tick

LEMMA NewReaderIsTyped ==
  ASSUME NEW step \in {"idle", "expire", "read"}, NEW kind \in {"none", "open", "sync"},
         NEW run \in 0 .. MaxRequests, NEW started \in 0 .. MaxTime
  PROVE  NewReader(step, kind, run, started) \in TypedReader
<1>1. NewReader(step, kind, run, started) \in ReaderType
  BY DEF NewReader, ReaderType, None
<1>2. NewReader(step, kind, run, started).step = step
  BY DEF NewReader
<1> QED
  BY <1>1, <1>2 DEF TypedReader

LEMMA NoReaderIsTyped == NoReader \in TypedReader
<1>1. 0 \in 0 .. MaxRequests /\ 0 \in 0 .. MaxTime
  BY ProcessAssumption
<1> QED
  BY <1>1, NewReaderIsTyped DEF NoReader

\* A request goes on to its next statement.
LEMMA ReadsOnIsTyped ==
  ASSUME reader \in [Callers -> TypedReader], NEW c \in Callers,
         NEW step \in {"idle", "expire", "acquire", "skip", "start", "read", "history", "release", "record"},
         step = "history" => reader[c].fetched \in CatalogVersions,
         ReadsOn(c, step)
  PROVE  reader' \in [Callers -> TypedReader]
<1>1. reader[c] \in ReaderType
  BY DEF TypedReader
<1> DEFINE next == [reader[c] EXCEPT !.step = step]
<1>2. next \in ReaderType /\ next.step = step /\ next.fetched = reader[c].fetched
  BY <1>1 DEF ReaderType
<1>3. next \in TypedReader
  BY <1>2 DEF TypedReader
<1>4. reader' = [reader EXCEPT ![c] = IF step = "idle" THEN NoReader ELSE next]
  BY DEF ReadsOn
<1> HIDE DEF next
<1> QED
  BY <1>3, <1>4, NoReaderIsTyped

LEMMA CatalogEndsIsTyped ==
  ASSUME reader \in [Callers -> TypedReader], NEW c \in Callers, NEW status \in Outcomes,
         CatalogEnds(c, status)
  PROVE  reader' \in [Callers -> TypedReader]
<1>1. PICK outcome \in {status, "failed"} :
        reader' = [reader EXCEPT ![c] = IF @.kind = "open" THEN NoReader
                                        ELSE [@ EXCEPT !.step = "release", !.status = outcome]]
  BY DEF CatalogEnds
<1>2. reader[c] \in ReaderType /\ outcome \in Outcomes
  BY DEF TypedReader, Outcomes
<1> DEFINE next == [reader[c] EXCEPT !.step = "release", !.status = outcome]
<1>3. next \in ReaderType /\ next.step = "release"
  BY <1>2 DEF ReaderType
<1>4. next \in TypedReader
  BY <1>3 DEF TypedReader
<1>5. reader' = [reader EXCEPT ![c] = IF reader[c].kind = "open" THEN NoReader ELSE next]
  BY <1>1
<1> HIDE DEF next
<1> QED
  BY <1>4, <1>5, NoReaderIsTyped

LEMMA SyncStepIsTyped ==
  ASSUME SyncTypes, NEW c \in Callers, SyncStep(c)
  PROVE  SyncTypes'
<1>1. /\ reader \in [Callers -> TypedReader] /\ reader[c] \in ReaderType
      /\ syncLock \in {None} \cup 0 .. MaxTime /\ reader[c].started \in 0 .. MaxTime
      /\ syncRow \in [1 .. MaxRequests -> {"none", "running"} \cup Outcomes]
      /\ snapshot \in CatalogVersions \cup {None} /\ history \subseteq CatalogVersions
      /\ upstream \in CatalogVersions /\ ProcessTypeOK
  BY DEF SyncTypes, SyncTypeOK, TypedReader, ReaderType
<1>2. reader[c].step \in {"snapshot", "history"} => reader[c].fetched \in CatalogVersions
  BY <1>1 DEF TypedReader
<1>3. UNCHANGED process \/ Arrive \/ Fault
  BY DEF SyncStep, OpenCatalog, StartSync, ExpireSyncLock, AcquireSyncLock, SaveSkipped, SaveStarted,
         ReadSnapshot, FetchCatalog, SaveSnapshot, SaveHistory, ReleaseSyncLock, SaveOutcome, SyncThrows
<1>4. ProcessTypeOK'
  BY <1>1, <1>3, CountersMove
<1>5. SUFFICES /\ reader' \in [Callers -> TypedReader]
               /\ syncLock' \in {None} \cup 0 .. MaxTime
               /\ syncRow' \in [1 .. MaxRequests -> {"none", "running"} \cup Outcomes]
               /\ snapshot' \in CatalogVersions \cup {None} /\ history' \subseteq CatalogVersions
               /\ upstream' \in CatalogVersions
  BY <1>4 DEF SyncTypes, SyncTypeOK, TypedReader
<1>6. CASE OpenCatalog(c) \/ StartSync(c)
  <2>1. requests + 1 \in 0 .. MaxRequests /\ clock \in 0 .. MaxTime /\ 0 \in 0 .. MaxRequests /\ 0 \in 0 .. MaxTime
    BY <1>1, <1>6, ProcessAssumption DEF OpenCatalog, StartSync, Arrive, ProcessTypeOK
  <2>2. PICK next \in TypedReader : reader' = [reader EXCEPT ![c] = next]
    BY <1>6, <2>1, NewReaderIsTyped DEF OpenCatalog, StartSync
  <2> QED
    BY <1>1, <1>6, <2>2 DEF OpenCatalog, StartSync
<1>7. CASE ExpireSyncLock(c) \/ AcquireSyncLock(c) \/ ReleaseSyncLock(c)
  <2>1. reader' \in [Callers -> TypedReader]
    BY <1>1, <1>7, ReadsOnIsTyped DEF ExpireSyncLock, AcquireSyncLock, ReleaseSyncLock
  <2> QED
    BY <1>1, <1>7, <2>1 DEF ExpireSyncLock, AcquireSyncLock, ReleaseSyncLock
<1>8. CASE SaveSkipped(c) \/ SaveStarted(c) \/ SaveOutcome(c)
  <2>1. reader' \in [Callers -> TypedReader]
    BY <1>1, <1>8, ReadsOnIsTyped DEF SaveSkipped, SaveStarted, SaveOutcome
  <2>2. PICK status \in {"none", "running"} \cup Outcomes :
          syncRow' = [syncRow EXCEPT ![reader[c].run] = status]
    BY <1>1, <1>8 DEF SaveSkipped, SaveStarted, SaveOutcome, ReaderType, Outcomes
  <2>3. syncRow' \in [1 .. MaxRequests -> {"none", "running"} \cup Outcomes]
    BY <1>1, <2>2
  <2> QED
    BY <1>1, <1>8, <2>1, <2>3 DEF SaveSkipped, SaveStarted, SaveOutcome
<1>9. CASE ReadSnapshot(c)
  <2>1. UNCHANGED <<upstream, snapshot, history, syncLock, syncRow>>
    BY <1>9 DEF ReadSnapshot
  <2>2. ASSUME NEW previous \in {snapshot, None},
               reader' = [reader EXCEPT ![c].step = "fetch", ![c].previous = previous]
        PROVE  reader' \in [Callers -> TypedReader]
    <3> DEFINE next == [reader[c] EXCEPT !.step = "fetch", !.previous = previous]
    <3>1. next \in ReaderType /\ next.step = "fetch"
      BY <1>1 DEF ReaderType
    <3>2. next \in TypedReader
      BY <3>1 DEF TypedReader
    <3>3. reader' = [reader EXCEPT ![c] = next]
      BY <2>2
    <3> HIDE DEF next
    <3> QED
      BY <1>1, <3>2, <3>3
  <2>3. ASSUME NEW status \in Outcomes, CatalogEnds(c, status)
        PROVE  reader' \in [Callers -> TypedReader]
    BY <1>1, <2>3, CatalogEndsIsTyped
  <2>4. "skipped" \in Outcomes /\ "failed" \in Outcomes
    BY DEF Outcomes
  <2> QED
    BY <1>1, <1>9, <2>1, <2>2, <2>3, <2>4 DEF ReadSnapshot
<1>10. CASE FetchCatalog(c)
  <2>1. ASSUME reader' = [reader EXCEPT ![c].step = "snapshot", ![c].fetched = upstream]
        PROVE  reader' \in [Callers -> TypedReader]
    <3> DEFINE next == [reader[c] EXCEPT !.step = "snapshot", !.fetched = upstream]
    <3>1. next \in ReaderType /\ next.fetched = upstream
      BY <1>1 DEF ReaderType
    <3>2. next \in TypedReader
      BY <1>1, <3>1 DEF TypedReader
    <3>3. reader' = [reader EXCEPT ![c] = next]
      BY <2>1
    <3> HIDE DEF next
    <3> QED
      BY <1>1, <3>2, <3>3
  <2>2. "failed" \in Outcomes
    BY DEF Outcomes
  <2> QED
    BY <1>1, <1>10, <2>1, <2>2, CatalogEndsIsTyped DEF FetchCatalog
<1>11. CASE SaveSnapshot(c) \/ SaveHistory(c)
  <2>1. "success" \in Outcomes /\ reader[c].fetched \in CatalogVersions
    BY <1>2, <1>11 DEF Outcomes, SaveSnapshot, SaveHistory, Reads
  <2>2. reader' \in [Callers -> TypedReader]
    BY <1>1, <1>11, <2>1, ReadsOnIsTyped, CatalogEndsIsTyped DEF SaveSnapshot, SaveHistory
  <2> QED
    BY <1>1, <1>11, <2>1, <2>2 DEF SaveSnapshot, SaveHistory
<1>12. CASE SyncThrows(c)
  <2>1. "failed" \in Outcomes
    BY DEF Outcomes
  <2>2. reader' \in [Callers -> TypedReader]
    BY <1>1, <1>12, <2>1, ReadsOnIsTyped, CatalogEndsIsTyped DEF SyncThrows
  <2> QED
    BY <1>1, <1>12, <2>2 DEF SyncThrows
<1> QED
  BY <1>6, <1>7, <1>8, <1>9, <1>10, <1>11, <1>12 DEF SyncStep

\* Type correctness of the catalogue: what is stored as snapshot or history is
\* a catalogue XYOps served, and the lock is the time of a synchronisation.
THEOREM SyncsAreTyped == SyncSpec => [](ProcessTypeOK /\ SyncTypeOK)
<1>1. SyncInit => SyncTypes
  <2> SUFFICES ASSUME SyncInit PROVE SyncTypes
    OBVIOUS
  <2>1. ProcessTypeOK
    BY ProcessAssumption DEF SyncInit, ProcessInit, ProcessTypeOK
  <2>2. reader \in [Callers -> TypedReader]
    BY NoReaderIsTyped DEF SyncInit
  <2> QED
    BY <2>1, <2>2, SyncAssumption DEF SyncInit, SyncTypes, SyncTypeOK, TypedReader, CatalogVersions
<1>2. SyncTypes /\ [SyncNext]_syncVars => SyncTypes'
  <2> SUFFICES ASSUME SyncTypes, [SyncNext]_syncVars PROVE SyncTypes'
    OBVIOUS
  <2>1. CASE \E c \in Callers : SyncStep(c)
    BY <2>1, SyncStepIsTyped
  <2>2. CASE UNCHANGED syncVars \/ CatalogChanges \/ SyncTick \/ SyncProcessDies
    <3>1. ProcessTypeOK'
      BY <2>2, CountersMove DEF SyncTypes, syncVars, CatalogChanges, SyncTick, SyncProcessDies
    <3>2. reader' \in [Callers -> TypedReader]
      BY <2>2, NoReaderIsTyped DEF SyncTypes, syncVars, CatalogChanges, SyncTick, SyncProcessDies
    <3>3. upstream' \in CatalogVersions
      BY <2>2, SyncAssumption
      DEF SyncTypes, SyncTypeOK, syncVars, CatalogChanges, SyncTick, SyncProcessDies, CatalogVersions
    <3>4. UNCHANGED <<snapshot, history, syncLock, syncRow>>
      BY <2>2 DEF syncVars, CatalogChanges, SyncTick, SyncProcessDies
    <3> QED
      BY <3>1, <3>2, <3>3, <3>4 DEF SyncTypes, SyncTypeOK, TypedReader
  <2> QED
    BY <2>1, <2>2 DEF SyncNext
<1>3. SyncTypes => ProcessTypeOK /\ SyncTypeOK
  BY DEF SyncTypes
<1> QED
  BY <1>1, <1>2, <1>3, PTL DEF SyncSpec
---------------------------------------------------------------------------------
(***************************************************************************)
(* The health. There is one probe at a time, so that the snapshot it began *)
(* from is still the cached one when its own is cached.                    *)
(***************************************************************************)

HealthSnapshot == [observed : Int, success : [Services -> Int]]
HealthProbe == [step : {"none", "probing", "then", "finally"}, snapshot : HealthSnapshot]

\* What a probe will cache is not older than what is cached.
Ahead(new, old) ==
  /\ old.observed <= new.observed /\ new.observed <= clock
  /\ \A s \in Services : old.success[s] <= new.success[s] /\ new.success[s] <= new.observed

HealthInv ==
  /\ clock \in Nat /\ crashes \in Nat
  /\ cachedSnapshot \in HealthSnapshot /\ Ahead(cachedSnapshot, cachedSnapshot)
  /\ probe \in [Callers -> HealthProbe]
  /\ \A c \in Callers : probe[c].step # "none" => inFlightProbe = {c}
  /\ \A c \in Callers : probe[c].step \in {"probing", "then"} =>
        Ahead(probe[c].snapshot, cachedSnapshot)

\* The empty snapshot is one, and older than any.
LEMMA NoSnapshotType ==
  /\ NoSnapshot \in HealthSnapshot /\ NoProbe \in HealthProbe /\ NoProbe.step = "none"
  /\ clock \in Nat => Ahead(NoSnapshot, NoSnapshot)
<1>1. Never \in Int /\ Never = -1
  BY DEF Never
<1>2. NoSnapshot \in HealthSnapshot
  BY <1>1 DEF NoSnapshot, HealthSnapshot
<1>3. NoProbe \in HealthProbe /\ NoProbe.step = "none"
  BY <1>2 DEF NoProbe, HealthProbe
<1>4. NoSnapshot.observed = -1 /\ \A s \in Services : NoSnapshot.success[s] = -1
  BY <1>1 DEF NoSnapshot
<1>5. clock \in Nat => Ahead(NoSnapshot, NoSnapshot)
  BY <1>4 DEF Ahead
<1> QED
  BY <1>2, <1>3, <1>5

\* The invariant holds at the start, and again after a restart.
LEMMA HealthStarts ==
  ASSUME clock \in Nat, crashes \in Nat, cachedSnapshot = NoSnapshot,
         probe = [c \in Callers |-> NoProbe]
  PROVE  HealthInv
  BY NoSnapshotType DEF HealthInv

\* A step that moves neither the cache nor a probe.
LEMMA HealthStays ==
  ASSUME HealthInv, UNCHANGED <<cachedSnapshot, inFlightProbe, probe, crashes>>,
         clock' \in Nat, clock' >= clock
  PROVE  HealthInv'
<1>1. \A old \in HealthSnapshot, new \in HealthSnapshot : Ahead(new, old) => Ahead(new, old)'
  BY DEF Ahead, HealthInv, HealthSnapshot
<1>2. \A c \in Callers : probe[c].snapshot \in HealthSnapshot
  BY DEF HealthInv, HealthProbe
<1> QED
  BY <1>1, <1>2 DEF HealthInv

\* A step of one probe that leaves the cache alone.
LEMMA ProbeMoves ==
  ASSUME HealthInv, NEW c \in Callers, NEW next \in HealthProbe,
         probe' = [probe EXCEPT ![c] = next], inFlightProbe' = {c},
         \A d \in Callers \ {c} : probe[d].step = "none",
         next.step \in {"probing", "then"} => Ahead(next.snapshot, cachedSnapshot),
         UNCHANGED <<cachedSnapshot, clock, crashes>>
  PROVE  HealthInv'
<1>1. /\ probe' \in [Callers -> HealthProbe] /\ probe'[c] = next
      /\ \A d \in Callers \ {c} : probe'[d] = probe[d]
  BY DEF HealthInv
<1>2. \A d \in Callers : probe'[d].step # "none" => inFlightProbe' = {d}
  BY <1>1
<1>3. \A d \in Callers : probe'[d].step \in {"probing", "then"}
                           => Ahead(probe[d].snapshot, cachedSnapshot)'
  BY <1>1 DEF Ahead
<1>4. Ahead(cachedSnapshot, cachedSnapshot)'
  BY DEF HealthInv, Ahead
<1> QED
  BY <1>1, <1>2, <1>3, <1>4 DEF HealthInv

\* Every step of a caller keeps the invariant, and the health goes forward.
LEMMA HealthStepKeeps ==
  ASSUME HealthInv, NEW c \in Callers, HealthStep(c)
  PROVE  HealthInv' /\ Ahead(cachedSnapshot', cachedSnapshot)
<1>1. /\ probe \in [Callers -> HealthProbe] /\ probe[c] \in HealthProbe
      /\ clock \in Nat /\ crashes \in Nat /\ cachedSnapshot \in HealthSnapshot
      /\ Ahead(cachedSnapshot, cachedSnapshot)
  BY DEF HealthInv
<1>2. CASE PollHealth(c) \/ ReadHealthSettings(c)
  <2>1. UNCHANGED <<cachedSnapshot, inFlightProbe, probe, clock, crashes>>
    BY <1>2 DEF PollHealth, ReadHealthSettings, Arrive, process
  <2> QED
    BY <1>1, <2>1, HealthStays
<1>3. CASE DecideHealth(c)
  <2>1. UNCHANGED <<cachedSnapshot, clock, crashes>>
    BY <1>3 DEF DecideHealth, process
  <2>2. CASE UNCHANGED <<inFlightProbe, probe>>
    BY <1>1, <2>1, <2>2, HealthStays
  <2>3. CASE inFlightProbe = {} /\ StartProbe(c) /\ inFlightProbe' = {c}
    <3> DEFINE new == [cachedSnapshot EXCEPT !.observed = clock]
               next == [step |-> "probing", snapshot |-> new]
    <3>1. /\ new \in HealthSnapshot /\ new.observed = clock
          /\ new.success = cachedSnapshot.success
      BY <1>1 DEF HealthSnapshot
    <3>2. probe' = [probe EXCEPT ![c] = next]
      BY <2>3 DEF StartProbe
    <3> HIDE DEF new
    <3>3. next \in HealthProbe /\ next.snapshot = new
      BY <3>1 DEF HealthProbe
    <3> HIDE DEF next
    <3>4. cachedSnapshot.observed \in Int /\ \A s \in Services : cachedSnapshot.success[s] \in Int
      BY <1>1 DEF HealthSnapshot
    <3>5. Ahead(next.snapshot, cachedSnapshot)
      BY <1>1, <3>1, <3>3, <3>4 DEF Ahead
    <3>6. \A d \in Callers : probe[d].step = "none"
      BY <2>3 DEF HealthInv
    <3> QED
      BY <1>1, <2>1, <2>3, <3>2, <3>3, <3>5, <3>6, ProbeMoves
  <2> QED
    BY <1>3, <2>2, <2>3 DEF DecideHealth
<1>4. CASE ProbeAnswered(c)
  <2> DEFINE old == probe[c].snapshot
  <2>1. PICK healthy \in SUBSET Services :
          probe' = [probe EXCEPT ![c] = [step |-> "then", snapshot |->
            [observed |-> old.observed,
             success |-> [s \in Services |-> IF s \in healthy THEN old.observed
                                                             ELSE old.success[s]]]]]
    BY <1>4 DEF ProbeAnswered
  <2> DEFINE success == [s \in Services |-> IF s \in healthy THEN old.observed ELSE old.success[s]]
             new == [observed |-> old.observed, success |-> success]
             next == [step |-> "then", snapshot |-> new]
  <2>2. /\ old \in HealthSnapshot /\ old.observed \in Int
        /\ \A s \in Services : old.success[s] \in Int
    BY <1>1 DEF HealthProbe, HealthSnapshot
  <2>3. success \in [Services -> Int]
    BY <2>2
  <2>4. new \in HealthSnapshot /\ next \in HealthProbe
    BY <2>2, <2>3 DEF HealthSnapshot, HealthProbe
  <2>5. probe' = [probe EXCEPT ![c] = next]
    BY <2>1
  <2>6. Ahead(old, cachedSnapshot) /\ inFlightProbe = {c}
    BY <1>4 DEF HealthInv, ProbeAnswered
  <2>7. Ahead(new, cachedSnapshot)
    BY <2>2, <2>6, <1>1 DEF Ahead, HealthSnapshot
  <2>8. \A d \in Callers \ {c} : probe[d].step = "none"
    BY <2>6 DEF HealthInv
  <2>9. UNCHANGED <<cachedSnapshot, inFlightProbe, clock, crashes>>
    BY <1>4 DEF ProbeAnswered, process
  <2> QED
    BY <1>1, <2>4, <2>5, <2>6, <2>7, <2>8, <2>9, ProbeMoves
<1>5. CASE CacheProbe(c)
  <2> DEFINE next == [probe[c] EXCEPT !.step = "finally"]
  <2>1. /\ next \in HealthProbe /\ next.step = "finally"
        /\ probe' = [probe EXCEPT ![c] = next]
        /\ probe[c].snapshot \in HealthSnapshot
    BY <1>1, <1>5 DEF CacheProbe, HealthProbe
  <2>2. Ahead(probe[c].snapshot, cachedSnapshot) /\ inFlightProbe = {c}
    BY <1>5 DEF HealthInv, CacheProbe
  <2>3. \A d \in Callers \ {c} : probe[d].step = "none"
    BY <2>2 DEF HealthInv
  <2>4. cachedSnapshot' = probe[c].snapshot /\ UNCHANGED <<inFlightProbe, clock, crashes>>
    BY <1>5 DEF CacheProbe, process
  <2> HIDE DEF next
  <2>5. /\ probe' \in [Callers -> HealthProbe] /\ probe'[c] = next
        /\ \A d \in Callers \ {c} : probe'[d] = probe[d]
    BY <1>1, <2>1
  <2>6. Ahead(cachedSnapshot, cachedSnapshot)'
    <3>1. /\ probe[c].snapshot.observed \in Int
          /\ \A s \in Services : probe[c].snapshot.success[s] \in Int
      BY <2>1 DEF HealthSnapshot
    <3> QED
      BY <2>2, <2>4, <3>1 DEF Ahead
  <2> QED
    BY <1>1, <2>1, <2>2, <2>3, <2>4, <2>5, <2>6 DEF HealthInv
<1>6. CASE ProbeEnds(c)
  <2>1. inFlightProbe = {c}
    BY <1>6 DEF HealthInv, ProbeEnds
  <2>2. /\ probe' \in [Callers -> HealthProbe] /\ probe'[c] = NoProbe
        /\ \A d \in Callers \ {c} : probe'[d] = probe[d]
        /\ UNCHANGED <<cachedSnapshot, clock, crashes>>
    BY <1>1, <1>6, NoSnapshotType DEF ProbeEnds, process
  <2>3. \A d \in Callers : probe'[d].step = "none"
    BY <2>1, <2>2, NoSnapshotType DEF HealthInv
  <2>4. Ahead(cachedSnapshot, cachedSnapshot)'
    BY <1>1, <2>2 DEF Ahead
  <2> QED
    BY <1>1, <2>2, <2>3, <2>4 DEF HealthInv
<1> QED
  BY <1>2, <1>3, <1>4, <1>5, <1>6 DEF HealthStep

\* Every step keeps the invariant, and the health goes forward until a restart.
LEMMA HealthInvKept ==
  ASSUME HealthInv, [HealthNext]_healthVars
  PROVE  /\ HealthInv'
         /\ \/ cachedSnapshot' = NoSnapshot /\ crashes' > crashes
            \/ Ahead(cachedSnapshot', cachedSnapshot)
<1>1. clock \in Nat /\ crashes \in Nat /\ Ahead(cachedSnapshot, cachedSnapshot)
  BY DEF HealthInv
<1>2. CASE \E c \in Callers : HealthStep(c)
  BY <1>2, HealthStepKeeps
<1>3. CASE HealthTick \/ UNCHANGED healthVars
  <2>1. /\ UNCHANGED <<cachedSnapshot, inFlightProbe, probe, crashes>>
        /\ clock' \in Nat /\ clock' >= clock
    BY <1>1, <1>3 DEF HealthTick, Tick, healthVars, process
  <2> QED
    BY <1>1, <2>1, HealthStays
<1>4. CASE HealthProcessDies
  <2>1. /\ cachedSnapshot' = NoSnapshot /\ probe' = [c \in Callers |-> NoProbe]
        /\ clock' = clock /\ crashes' = crashes + 1
    BY <1>4 DEF HealthProcessDies, Die
  <2>2. clock' \in Nat /\ crashes' \in Nat /\ crashes' > crashes
    BY <1>1, <2>1
  <2>3. Ahead(NoSnapshot, NoSnapshot)'
    BY <1>1, <2>1, NoSnapshotType DEF Ahead, NoSnapshot
  <2> QED
    BY <2>1, <2>2, <2>3, NoSnapshotType DEF HealthInv
<1> QED
  BY <1>2, <1>3, <1>4 DEF HealthNext

\* The health a living process shows never goes back.
THEOREM HealthAlwaysGoesForward == HealthSpec => HealthGoesForward
<1>1. HealthInit => HealthInv
  BY HealthStarts DEF HealthInit, ProcessInit
<1>2. HealthInv /\ [HealthNext]_healthVars => HealthInv'
  BY HealthInvKept
<1>3. HealthInv /\ [HealthNext]_healthVars =>
        [\/ cachedSnapshot' = NoSnapshot /\ crashes' > crashes
         \/ /\ cachedSnapshot'.observed >= cachedSnapshot.observed
            /\ \A s \in Services : cachedSnapshot'.success[s] >= cachedSnapshot.success[s]]_healthVars
  <2> SUFFICES ASSUME HealthInv, [HealthNext]_healthVars, healthVars' # healthVars
               PROVE  \/ cachedSnapshot' = NoSnapshot /\ crashes' > crashes
                      \/ /\ cachedSnapshot'.observed >= cachedSnapshot.observed
                         /\ \A s \in Services :
                              cachedSnapshot'.success[s] >= cachedSnapshot.success[s]
    OBVIOUS
  <2>1. /\ cachedSnapshot.observed \in Int /\ cachedSnapshot'.observed \in Int
        /\ \A s \in Services : cachedSnapshot.success[s] \in Int /\ cachedSnapshot'.success[s] \in Int
    BY HealthInvKept DEF HealthInv, HealthSnapshot
  <2> QED
    BY <2>1, HealthInvKept DEF Ahead
<1> QED
  BY <1>1, <1>2, <1>3, PTL DEF HealthSpec, HealthGoesForward

\* Type correctness of the health: snapshots are of moments of the clock, and
\* nobody waits for a probe that is not a caller's.
LEMMA HealthStepIsTyped ==
  ASSUME HealthTypeOK, ProcessTypeOK, NEW c \in Callers, HealthStep(c)
  PROVE  HealthTypeOK' /\ ProcessTypeOK'
<1>1. ProcessTypeOK'
  BY CountersMove DEF HealthStep, PollHealth, ReadHealthSettings, DecideHealth, ProbeAnswered, CacheProbe,
                      ProbeEnds
<1>2. /\ cachedSnapshot \in SnapshotType /\ clock \in 0 .. MaxTime /\ inFlightProbe \in SUBSET Callers
      /\ probe \in [Callers -> [step : {"none", "probing", "then", "finally"}, snapshot : SnapshotType]]
      /\ poll \in [Callers -> [step : {"idle", "settings", "decide", "wait"}, of : SUBSET Callers]]
      /\ probe[c].snapshot \in SnapshotType
  BY DEF HealthTypeOK, ProcessTypeOK
<1>3. /\ NoSnapshot \in SnapshotType
      /\ NoPoll \in [step : {"idle", "settings", "decide", "wait"}, of : SUBSET Callers]
  BY DEF NoSnapshot, SnapshotType, NoPoll
<1>4. NoProbe \in [step : {"none", "probing", "then", "finally"}, snapshot : SnapshotType]
  BY <1>3 DEF NoProbe
<1>5. CASE PollHealth(c) \/ ReadHealthSettings(c)
  BY <1>1, <1>2, <1>5 DEF PollHealth, ReadHealthSettings, HealthTypeOK
<1>6. CASE DecideHealth(c)
  <2>1. [cachedSnapshot EXCEPT !.observed = clock] \in SnapshotType
    BY <1>2 DEF SnapshotType
  <2>2. [step |-> "probing", snapshot |-> [cachedSnapshot EXCEPT !.observed = clock]]
          \in [step : {"none", "probing", "then", "finally"}, snapshot : SnapshotType]
    BY <2>1
  <2>3. probe' \in [Callers -> [step : {"none", "probing", "then", "finally"}, snapshot : SnapshotType]]
    BY <1>2, <1>6, <2>2 DEF DecideHealth, StartProbe
  <2>4. \A q \in SUBSET Callers :
          [step |-> "wait", of |-> q] \in [step : {"idle", "settings", "decide", "wait"}, of : SUBSET Callers]
    OBVIOUS
  <2>5. PICK next \in [step : {"idle", "settings", "decide", "wait"}, of : SUBSET Callers] :
          poll' = [poll EXCEPT ![c] = next]
    BY <1>2, <1>3, <1>6, <2>4 DEF DecideHealth
  <2> QED
    BY <1>1, <1>2, <1>6, <2>3, <2>5 DEF DecideHealth, HealthTypeOK
<1>7. CASE ProbeAnswered(c)
  <2>1. PICK healthy \in SUBSET Services :
          probe' = [probe EXCEPT ![c] = [step |-> "then", snapshot |->
            [observed |-> probe[c].snapshot.observed,
             success |-> [s \in Services |-> IF s \in healthy THEN probe[c].snapshot.observed
                                                             ELSE probe[c].snapshot.success[s]]]]]
    BY <1>7 DEF ProbeAnswered
  <2>2. PICK taken \in SnapshotType :
          probe' = [probe EXCEPT ![c] = [step |-> "then", snapshot |-> taken]]
    BY <1>2, <2>1 DEF SnapshotType
  <2> QED
    BY <1>1, <1>2, <1>7, <2>2 DEF ProbeAnswered, HealthTypeOK
<1>8. CASE CacheProbe(c)
  BY <1>1, <1>2, <1>8 DEF CacheProbe, HealthTypeOK
<1>9. CASE ProbeEnds(c)
  BY <1>1, <1>2, <1>3, <1>4, <1>9 DEF ProbeEnds, HealthTypeOK
<1> QED
  BY <1>5, <1>6, <1>7, <1>8, <1>9 DEF HealthStep

\* Type correctness of the dependency health.
THEOREM HealthIsTyped == HealthSpec => [](ProcessTypeOK /\ HealthTypeOK)
<1>1. /\ NoSnapshot \in SnapshotType
      /\ [c \in Callers |-> NoPoll] \in
           [Callers -> [step : {"idle", "settings", "decide", "wait"}, of : SUBSET Callers]]
  BY DEF NoSnapshot, SnapshotType, NoPoll
<1>2. [c \in Callers |-> NoProbe] \in
        [Callers -> [step : {"none", "probing", "then", "finally"}, snapshot : SnapshotType]]
  BY <1>1 DEF NoProbe
<1>3. HealthInit => ProcessTypeOK /\ HealthTypeOK
  BY <1>1, <1>2, ProcessAssumption DEF HealthInit, HealthTypeOK, ProcessInit, ProcessTypeOK
<1>4. ProcessTypeOK /\ HealthTypeOK /\ [HealthNext]_healthVars => ProcessTypeOK' /\ HealthTypeOK'
  <2> SUFFICES ASSUME ProcessTypeOK, HealthTypeOK, [HealthNext]_healthVars
               PROVE  ProcessTypeOK' /\ HealthTypeOK'
    OBVIOUS
  <2>1. CASE \E c \in Callers : HealthStep(c)
    BY <2>1, HealthStepIsTyped
  <2>2. CASE UNCHANGED healthVars \/ HealthTick
    BY <2>2, CountersMove DEF healthVars, HealthTick, HealthTypeOK
  <2>3. CASE HealthProcessDies
    BY <1>1, <1>2, <2>3, CountersMove DEF HealthProcessDies, HealthTypeOK
  <2> QED
    BY <2>1, <2>2, <2>3 DEF HealthNext
<1> QED
  BY <1>3, <1>4, PTL DEF HealthSpec
---------------------------------------------------------------------------------
(***************************************************************************)
(* The bulk request, one caller at a time: b is its request, L its lanes   *)
(* and U its users. Every user before the cursor has a result or a lane,   *)
(* no two lanes have the same user, and none has been sent before.         *)
(***************************************************************************)

BulkType == [step : {"idle", "preflight", "lanes", "answered", "broken"}, size : Nat, cursor : Nat \ {0}]
LaneType == [step : {"off", "take", "settings", "demo", "rpc", "saveSuccess", "saveFailed"}, at : Nat]
UserType == [sent : Nat, rpc : {"none", "success", "failure"}, run : {"none", "success", "failed", "demo"},
             result : {"none", "ok", "refused", "failed"}]

Busy(n) == n.step \in {"settings", "demo", "rpc", "saveSuccess", "saveFailed"}

UserOK(u) ==
  /\ u.sent <= 1
  /\ u.run = "success" => u.rpc = "success" /\ u.sent = 1
  /\ u.result = "ok" => u.run \in {"success", "demo"}
  /\ u.result = "refused" => u.sent = 0 /\ u.run = "none"

\* A user a lane works for.
InWork(n, u) ==
  /\ u.run = "none" /\ u.result = "none"
  /\ n.step \in {"settings", "demo", "rpc"} => u.sent = 0
  /\ n.step = "saveSuccess" => u.rpc = "success" /\ u.sent = 1

BulkOK(b, L, U) ==
  /\ \A i \in Positions : UserOK(U[i])
  /\ \A i \in Positions : b.cursor <= i => U[i] = NoUser
  /\ \A l \in Lanes : Busy(L[l]) => L[l].at \in Positions /\ L[l].at < b.cursor
  /\ \A l \in Lanes : Busy(L[l]) => InWork(L[l], U[L[l].at])
  /\ \A l, m \in Lanes : Busy(L[l]) /\ Busy(L[m]) /\ L[l].at = L[m].at => l = m
  /\ b.step \in {"idle", "preflight", "answered"} => \A l \in Lanes : L[l].step = "off"
  /\ b.step = "preflight" => b.cursor = 1
  /\ b.step \in {"preflight", "lanes"} => b.size > 0
  /\ b.size <= MaxUsers
  /\ b.step = "lanes" =>
       /\ \A l \in Lanes : L[l].step = "off" /\ l <= b.size => b.cursor > b.size
       /\ \A i \in Positions : i < b.cursor /\ i <= b.size =>
            U[i].result # "none" \/ \E l \in Lanes : Busy(L[l]) /\ L[l].at = i
  /\ b.step = "answered" => \A i \in Positions : i <= b.size => U[i].result # "none"

DirectoryInv ==
  /\ bulk \in [Callers -> BulkType]
  /\ lane \in [Callers -> [Lanes -> LaneType]]
  /\ user \in [Callers -> [Positions -> UserType]]
  /\ \A c \in Callers : BulkOK(bulk[c], lane[c], user[c])

\* The values at rest.
LEMMA AtRest ==
  /\ NoBulk \in BulkType /\ NoBulk.step = "idle" /\ NoBulk.cursor = 1 /\ NoBulk.size <= MaxUsers
  /\ NoLane \in LaneType /\ NoLane.step = "off" /\ ~Busy(NoLane)
  /\ NoUser \in UserType /\ UserOK(NoUser) /\ NoUser.run = "none" /\ NoUser.result = "none"
  /\ NoUser.sent = 0
  BY DirectoryAssumption DEF NoBulk, NoLane, NoUser, BulkType, LaneType, UserType, Busy, UserOK

\* A lane goes on with its user, or is done with it.
LEMMA LaneWorks ==
  ASSUME NEW b \in BulkType, NEW L \in [Lanes -> LaneType], NEW U \in [Positions -> UserType],
         BulkOK(b, L, U), NEW l \in Lanes, Busy(L[l]),
         NEW n \in LaneType, n.at = L[l].at, NEW u \in UserType, UserOK(u),
         \/ Busy(n) /\ InWork(n, u)
         \/ n.step = "take" /\ u.result # "none"
  PROVE  /\ [L EXCEPT ![l] = n] \in [Lanes -> LaneType]
         /\ [U EXCEPT ![L[l].at] = u] \in [Positions -> UserType]
         /\ BulkOK(b, [L EXCEPT ![l] = n], [U EXCEPT ![L[l].at] = u])
<1> DEFINE K == [L EXCEPT ![l] = n]
           V == [U EXCEPT ![L[l].at] = u]
<1>1. /\ L[l].at \in Positions /\ L[l].at < b.cursor /\ b.cursor \in Nat /\ Positions \subseteq Nat
      /\ b.step \notin {"idle", "preflight", "answered"}
  BY DEF BulkOK, Busy, BulkType, Positions
<1>2. /\ K \in [Lanes -> LaneType] /\ K[l] = n /\ \A m \in Lanes \ {l} : K[m] = L[m]
  OBVIOUS
<1>3. /\ V \in [Positions -> UserType] /\ V[L[l].at] = u
      /\ \A i \in Positions \ {L[l].at} : V[i] = U[i]
  BY <1>1
<1> HIDE DEF K, V
<1>4. \A i \in Positions : UserOK(V[i])
  BY <1>3 DEF BulkOK
<1>5. \A i \in Positions : b.cursor <= i => V[i] = NoUser
  BY <1>1, <1>3 DEF BulkOK
<1>6. \A m \in Lanes : Busy(K[m]) => K[m].at \in Positions /\ K[m].at < b.cursor
  BY <1>1, <1>2 DEF BulkOK
<1>7. \A k, m \in Lanes : Busy(K[k]) /\ Busy(K[m]) /\ K[k].at = K[m].at => k = m
  BY <1>2 DEF BulkOK
<1>8. \A m \in Lanes : Busy(K[m]) => InWork(K[m], V[K[m].at])
  <2>1. Busy(K[l]) => InWork(K[l], V[K[l].at])
    BY <1>2, <1>3 DEF Busy
  <2>2. ASSUME NEW m \in Lanes \ {l}, Busy(K[m])
        PROVE  InWork(K[m], V[K[m].at])
    <3>1. L[m].at # L[l].at /\ L[m].at \in Positions
      BY <1>2, <2>2 DEF BulkOK
    <3> QED
      BY <1>2, <1>3, <2>2, <3>1 DEF BulkOK
  <2> QED
    BY <2>1, <2>2
<1>9. b.step = "lanes" => \A m \in Lanes : K[m].step = "off" /\ m <= b.size => b.cursor > b.size
  BY <1>2 DEF BulkOK, Busy
<1>10. ASSUME b.step = "lanes", NEW i \in Positions, i < b.cursor, i <= b.size, V[i].result = "none"
       PROVE  \E m \in Lanes : Busy(K[m]) /\ K[m].at = i
  <2>1. CASE i = L[l].at
    BY <1>2, <1>3, <1>10, <2>1
  <2>2. CASE i # L[l].at
    <3>1. PICK m \in Lanes : Busy(L[m]) /\ L[m].at = i
      BY <1>3, <1>10, <2>2 DEF BulkOK
    <3> QED
      BY <1>2, <2>2, <3>1
  <2> QED
    BY <2>1, <2>2
<1>11. BulkOK(b, K, V)
  <2>1. (b.step \in {"preflight", "lanes"} => b.size > 0) /\ b.size <= MaxUsers
    BY DEF BulkOK
  <2> QED
    BY <1>1, <1>4, <1>5, <1>6, <1>7, <1>8, <1>9, <1>10, <2>1 DEF BulkOK
<1> QED
  BY <1>2, <1>3, <1>11 DEF K, V

\* A lane takes the user at the cursor.
LEMMA LaneTakes ==
  ASSUME NEW b \in BulkType, NEW L \in [Lanes -> LaneType], NEW U \in [Positions -> UserType],
         BulkOK(b, L, U), NEW l \in Lanes, L[l].step = "take",
         b.cursor \in Positions, NEW n \in LaneType, n.step = "settings", n.at = b.cursor,
         NEW k \in BulkType, k.step = b.step, k.size = b.size, k.cursor = b.cursor + 1,
         NEW K \in [Lanes -> LaneType], K[l] = n, \A m \in Lanes \ {l} : K[m] = L[m]
  PROVE  BulkOK(k, K, U)
<1>1. b.cursor \in Nat /\ Positions \subseteq Nat /\ ~Busy(L[l]) /\ L[l].step # "off" /\ Busy(n)
  BY DEF BulkType, Positions, Busy
<1>2. K \in [Lanes -> LaneType] /\ K[l] = n /\ \A m \in Lanes \ {l} : K[m] = L[m]
  OBVIOUS
<1>3. \A m \in Lanes : Busy(K[m]) => /\ K[m].at \in Positions /\ K[m].at < k.cursor
                                     /\ m # l => K[m].at < b.cursor
  <2> SUFFICES ASSUME NEW m \in Lanes, Busy(K[m])
               PROVE  /\ K[m].at \in Positions /\ K[m].at < k.cursor
                      /\ m # l => K[m].at < b.cursor
    OBVIOUS
  <2>1. CASE m = l
    BY <1>1, <1>2, <2>1
  <2>2. CASE m # l
    <3>1. K[m] = L[m]
      BY <1>2, <2>2
    <3>2. L[m].at \in Positions /\ L[m].at < b.cursor
      BY <3>1 DEF BulkOK
    <3>3. L[m].at \in Nat
      BY <1>1, <3>2
    <3>4. L[m].at < k.cursor
      BY <1>1, <3>2, <3>3
    <3> QED
      BY <3>1, <3>2, <3>4
  <2> QED
    BY <2>1, <2>2
<1>4. U[b.cursor] = NoUser
  BY <1>1 DEF BulkOK
<1>5. \A m \in Lanes : Busy(K[m]) => InWork(K[m], U[K[m].at])
  <2>1. InWork(n, U[n.at])
    BY <1>4, AtRest DEF InWork
  <2> QED
    BY <1>2, <2>1 DEF BulkOK
<1>6. \A j, m \in Lanes : Busy(K[j]) /\ Busy(K[m]) /\ K[j].at = K[m].at => j = m
  <2> SUFFICES ASSUME NEW j \in Lanes, NEW m \in Lanes, Busy(K[j]), Busy(K[m]),
                      K[j].at = K[m].at, j # m
               PROVE  FALSE
    OBVIOUS
  <2>1. CASE j # l /\ m # l
    BY <1>2, <2>1 DEF BulkOK
  <2>2. CASE j = l \/ m = l
    BY <1>1, <1>2, <1>3, <2>2
  <2> QED
    BY <2>1, <2>2
<1>7. \A i \in Positions : k.cursor <= i => U[i] = NoUser
  BY <1>1 DEF BulkOK
<1>8. k.step = "lanes" => \A m \in Lanes : K[m].step = "off" /\ m <= k.size => k.cursor > k.size
  <2> SUFFICES ASSUME k.step = "lanes", NEW m \in Lanes, K[m].step = "off", m <= k.size
               PROVE  k.cursor > k.size
    OBVIOUS
  <2>1. b.cursor > b.size /\ b.size \in Nat
    BY <1>2 DEF BulkOK, BulkType
  <2> QED
    BY <1>1, <2>1
<1>9. k.step = "lanes" => \A i \in Positions : i < k.cursor /\ i <= k.size =>
        U[i].result # "none" \/ \E m \in Lanes : Busy(K[m]) /\ K[m].at = i
  <2> SUFFICES ASSUME k.step = "lanes", NEW i \in Positions, i < k.cursor, i <= k.size,
                      U[i].result = "none"
               PROVE  \E m \in Lanes : Busy(K[m]) /\ K[m].at = i
    OBVIOUS
  <2>1. CASE i = b.cursor
    BY <1>1, <1>2, <2>1
  <2>2. CASE i # b.cursor
    <3>1. i < b.cursor
      BY <1>1, <2>2
    <3>2. PICK m \in Lanes : Busy(L[m]) /\ L[m].at = i
      BY <3>1 DEF BulkOK
    <3> QED
      BY <1>1, <1>2, <3>2
  <2> QED
    BY <2>1, <2>2
<1>10. b.step \notin {"idle", "preflight", "answered"}
  BY <1>1 DEF BulkOK
<1>11. (k.step \in {"preflight", "lanes"} => k.size > 0) /\ k.size <= MaxUsers
  BY DEF BulkOK
<1>12. BulkOK(k, K, U)
  BY <1>3, <1>5, <1>6, <1>7, <1>8, <1>9, <1>10, <1>11 DEF BulkOK
<1> QED
  BY <1>12

\* A lane ends: there is no user left, or the request is broken.
LEMMA LaneEnds ==
  ASSUME NEW b \in BulkType, NEW L \in [Lanes -> LaneType], NEW U \in [Positions -> UserType],
         BulkOK(b, L, U), NEW l \in Lanes, L[l].step # "off",
         NEW k \in BulkType, k.size = b.size, k.cursor = b.cursor,
         \/ k.step = b.step /\ b.cursor > b.size /\ ~Busy(L[l])
         \/ k.step = "broken"
  PROVE  BulkOK(k, [L EXCEPT ![l] = NoLane], U)
<1> DEFINE K == [L EXCEPT ![l] = NoLane]
<1>1. /\ K \in [Lanes -> LaneType] /\ K[l] = NoLane /\ ~Busy(K[l])
      /\ \A m \in Lanes \ {l} : K[m] = L[m]
  BY AtRest
<1> HIDE DEF K
<1>2. b.step \notin {"idle", "preflight", "answered"}
  BY DEF BulkOK
<1>3. /\ \A m \in Lanes : Busy(K[m]) => K[m].at \in Positions /\ K[m].at < k.cursor
      /\ \A m \in Lanes : Busy(K[m]) => InWork(K[m], U[K[m].at])
      /\ \A j, m \in Lanes : Busy(K[j]) /\ Busy(K[m]) /\ K[j].at = K[m].at => j = m
  BY <1>1 DEF BulkOK
<1>4. k.step = "lanes" =>
        /\ k.cursor > k.size
        /\ \A i \in Positions : i < k.cursor /\ i <= k.size =>
             U[i].result # "none" \/ \E m \in Lanes : Busy(K[m]) /\ K[m].at = i
  <2> SUFFICES ASSUME k.step = "lanes"
               PROVE  /\ k.cursor > k.size
                      /\ \A i \in Positions : i < k.cursor /\ i <= k.size =>
                           U[i].result # "none" \/ \E m \in Lanes : Busy(K[m]) /\ K[m].at = i
    OBVIOUS
  <2>1. b.step = "lanes" /\ b.cursor > b.size /\ ~Busy(L[l])
    OBVIOUS
  <2>2. \A m \in Lanes : Busy(L[m]) => K[m] = L[m]
    BY <1>1, <2>1
  <2> QED
    BY <2>1, <2>2 DEF BulkOK
<1>5. /\ \A i \in Positions : UserOK(U[i])
      /\ \A i \in Positions : k.cursor <= i => U[i] = NoUser
      /\ k.step \in {"preflight", "lanes"} => k.size > 0
      /\ k.size <= MaxUsers
  BY <1>2 DEF BulkOK
<1>6. BulkOK(k, K, U)
  BY <1>2, <1>3, <1>4, <1>5 DEF BulkOK
<1> QED
  BY <1>6 DEF K

\* Only the request of one caller changes.
LEMMA CallerMoves ==
  ASSUME DirectoryInv, NEW c \in Callers,
         NEW b \in BulkType, NEW L \in [Lanes -> LaneType], NEW U \in [Positions -> UserType],
         BulkOK(b, L, U),
         bulk' = [bulk EXCEPT ![c] = b], lane' = [lane EXCEPT ![c] = L],
         user' = [user EXCEPT ![c] = U]
  PROVE  DirectoryInv'
<1>1. /\ bulk' \in [Callers -> BulkType] /\ lane' \in [Callers -> [Lanes -> LaneType]]
      /\ user' \in [Callers -> [Positions -> UserType]]
      /\ bulk'[c] = b /\ lane'[c] = L /\ user'[c] = U
      /\ \A d \in Callers \ {c} : bulk'[d] = bulk[d] /\ lane'[d] = lane[d] /\ user'[d] = user[d]
  BY DEF DirectoryInv
<1>2. \A d \in Callers : BulkOK(bulk'[d], lane'[d], user'[d])
  <2> SUFFICES ASSUME NEW d \in Callers PROVE BulkOK(bulk'[d], lane'[d], user'[d])
    OBVIOUS
  <2>1. CASE d = c
    BY <1>1, <2>1
  <2>2. CASE d # c
    BY <1>1, <2>2 DEF DirectoryInv
  <2> QED
    BY <2>1, <2>2
<1>3. DirectoryInv' <=> /\ bulk' \in [Callers -> BulkType]
                        /\ lane' \in [Callers -> [Lanes -> LaneType]]
                        /\ user' \in [Callers -> [Positions -> UserType]]
                        /\ \A d \in Callers : BulkOK(bulk'[d], lane'[d], user'[d])
  BY DEF DirectoryInv, BulkOK
<1> QED
  BY <1>1, <1>2, <1>3

\* A lane works for a user of its list, in the state of the process.
LEMMA WorkKeeps ==
  ASSUME DirectoryInv, NEW c \in Callers, NEW l \in Lanes, Busy(lane[c][l]),
         NEW n \in LaneType, n.at = lane[c][l].at, NEW u \in UserType, UserOK(u),
         \/ Busy(n) /\ InWork(n, u)
         \/ n.step = "take" /\ u.result # "none",
         bulk' = bulk, lane' = [lane EXCEPT ![c][l] = n],
         user' = [user EXCEPT ![c][lane[c][l].at] = u]
  PROVE  DirectoryInv'
<1> DEFINE K == [lane[c] EXCEPT ![l] = n]
           V == [user[c] EXCEPT ![lane[c][l].at] = u]
<1>1. /\ bulk[c] \in BulkType /\ lane[c] \in [Lanes -> LaneType]
      /\ user[c] \in [Positions -> UserType] /\ BulkOK(bulk[c], lane[c], user[c])
  BY DEF DirectoryInv
<1>2. K \in [Lanes -> LaneType] /\ V \in [Positions -> UserType] /\ BulkOK(bulk[c], K, V)
  BY <1>1, LaneWorks
<1>3. /\ bulk' = [bulk EXCEPT ![c] = bulk[c]] /\ lane' = [lane EXCEPT ![c] = K]
      /\ user' = [user EXCEPT ![c] = V]
  BY DEF DirectoryInv
<1> HIDE DEF K, V
<1> QED
  BY <1>1, <1>2, <1>3, CallerMoves

\* What a lane at work knows of its user.
LEMMA AtWork ==
  ASSUME DirectoryInv, NEW c \in Callers, NEW l \in Lanes, Busy(lane[c][l])
  PROVE  /\ lane[c][l] \in LaneType /\ lane[c][l].at \in Positions
         /\ lane[c] \in [Lanes -> LaneType] /\ user[c] \in [Positions -> UserType]
         /\ user[c][lane[c][l].at] \in UserType /\ UserOK(user[c][lane[c][l].at])
         /\ InWork(lane[c][l], user[c][lane[c][l].at])
<1>1. /\ lane[c] \in [Lanes -> LaneType] /\ user[c] \in [Positions -> UserType]
      /\ BulkOK(bulk[c], lane[c], user[c])
  BY DEF DirectoryInv
<1> QED
  BY <1>1 DEF BulkOK

\* A lane at work that leaves its user as it is.
LEMMA WorkKeepsUser ==
  ASSUME DirectoryInv, NEW c \in Callers, NEW l \in Lanes, Busy(lane[c][l]),
         NEW step \in {"demo", "rpc", "saveFailed"},
         lane[c][l].step = "settings" \/ step = "saveFailed",
         UNCHANGED <<bulk, user>>, LaneTurns(c, l, step)
  PROVE  DirectoryInv'
<1> DEFINE n == [lane[c][l] EXCEPT !.step = step]
<1>1. /\ n \in LaneType /\ n.at = lane[c][l].at /\ n.step = step /\ Busy(n)
  BY AtWork DEF LaneType, Busy
<1>2. InWork(n, user[c][lane[c][l].at])
  BY <1>1, AtWork DEF InWork
<1>3. lane' = [lane EXCEPT ![c][l] = n]
  BY DEF LaneTurns
<1>4. user' = [user EXCEPT ![c][lane[c][l].at] = user[c][lane[c][l].at]]
  <2>1. user \in [Callers -> [Positions -> UserType]]
    BY DEF DirectoryInv
  <2> QED
    BY <2>1, AtWork
<1> HIDE DEF n
<1> QED
  BY <1>1, <1>2, <1>3, <1>4, AtWork, WorkKeeps

\* A lane that ends the work of its user.
LEMMA WorkDone ==
  ASSUME DirectoryInv, NEW c \in Callers, NEW l \in Lanes, Busy(lane[c][l]),
         NEW u \in UserType, UserOK(u), u.result # "none",
         UNCHANGED bulk, LaneTurns(c, l, "take"),
         user' = [user EXCEPT ![c][lane[c][l].at] = u]
  PROVE  DirectoryInv'
<1> DEFINE n == [lane[c][l] EXCEPT !.step = "take"]
<1>1. n \in LaneType /\ n.at = lane[c][l].at /\ n.step = "take"
  BY AtWork DEF LaneType
<1>2. lane' = [lane EXCEPT ![c][l] = n]
  BY DEF LaneTurns
<1> HIDE DEF n
<1> QED
  BY <1>1, <1>2, WorkKeeps

\* The list as a request takes it up, or as it ends.
LEMMA ListKept ==
  ASSUME DirectoryInv, NEW c \in Callers, DirectoryStep(c)
  PROVE  DirectoryInv'
<1>1. /\ bulk[c] \in BulkType /\ lane[c] \in [Lanes -> LaneType]
      /\ user[c] \in [Positions -> UserType] /\ BulkOK(bulk[c], lane[c], user[c])
      /\ bulk \in [Callers -> BulkType] /\ lane \in [Callers -> [Lanes -> LaneType]]
      /\ user \in [Callers -> [Positions -> UserType]]
  BY DEF DirectoryInv
<1>2. /\ lane = [lane EXCEPT ![c] = lane[c]] /\ user = [user EXCEPT ![c] = user[c]]
      /\ bulk = [bulk EXCEPT ![c] = bulk[c]]
  BY <1>1
<1>3. ASSUME NEW size \in Positions, BulkArrives(c, size)
      PROVE  DirectoryInv'
  <2> DEFINE b == [step |-> "preflight", size |-> size, cursor |-> 1]
             U == [i \in Positions |-> NoUser]
  <2>1. /\ b \in BulkType /\ b.step = "preflight" /\ b.cursor = 1 /\ b.size > 0
        /\ b.size <= MaxUsers /\ U \in [Positions -> UserType] /\ \A i \in Positions : U[i] = NoUser
    BY AtRest DEF BulkType, Positions
  <2>2. \A m \in Lanes : lane[c][m].step = "off" /\ ~Busy(lane[c][m])
    BY <1>3 DEF BulkArrives, BulkOver, Busy
  <2>3. bulk' = [bulk EXCEPT ![c] = b] /\ lane' = lane /\ user' = [user EXCEPT ![c] = U]
    BY <1>3 DEF BulkArrives
  <2> HIDE DEF b, U
  <2>4. BulkOK(b, lane[c], U)
    BY <2>1, <2>2, AtRest DEF BulkOK
  <2> QED
    BY <1>1, <1>2, <2>1, <2>3, <2>4, CallerMoves
<1>4. CASE PreflightWrite(c)
  <2>1. /\ bulk[c].step = "preflight" /\ user' = user /\ bulk[c].cursor = 1 /\ bulk[c].size > 0
        /\ \A m \in Lanes : lane[c][m].step = "off" /\ ~Busy(lane[c][m])
    BY <1>1, <1>4 DEF PreflightWrite, BulkOK, Busy
  <2>2. \A i \in Positions : user[c][i] = NoUser
    BY <1>1, <2>1 DEF BulkOK, Positions
  <2>3. CASE bulk' = [bulk EXCEPT ![c] = NoBulk] /\ lane' = lane
    <3>1. BulkOK(NoBulk, lane[c], user[c])
      BY <2>1, <2>2, AtRest DEF BulkOK
    <3> QED
      BY <1>1, <1>2, <2>1, <2>3, <3>1, AtRest, CallerMoves
  <2>4. CASE /\ bulk' = [bulk EXCEPT ![c].step = "lanes"]
             /\ lane' = [lane EXCEPT ![c] = [l \in Lanes |->
                  IF l <= bulk[c].size THEN [step |-> "take", at |-> 0] ELSE NoLane]]
    <3> DEFINE b == [bulk[c] EXCEPT !.step = "lanes"]
               L == [l \in Lanes |->
                       IF l <= bulk[c].size THEN [step |-> "take", at |-> 0] ELSE NoLane]
    <3>1. /\ b \in BulkType /\ b.step = "lanes" /\ b.size = bulk[c].size /\ b.cursor = 1
          /\ b.size <= MaxUsers
      BY <1>1, <2>1 DEF BulkType, BulkOK
    <3>2. /\ L \in [Lanes -> LaneType]
          /\ \A m \in Lanes : ~Busy(L[m]) /\ (L[m].step = "off" => ~(m <= bulk[c].size))
      BY AtRest DEF LaneType, Busy
    <3>3. bulk' = [bulk EXCEPT ![c] = b] /\ lane' = [lane EXCEPT ![c] = L]
      BY <2>4
    <3> HIDE DEF b, L
    <3>4. BulkOK(b, L, user[c])
      <4>1. \A i \in Positions : ~(i < b.cursor)
        BY <3>1 DEF Positions
      <4>2. \A m \in Lanes : L[m].step = "off" /\ m <= b.size => b.cursor > b.size
        BY <3>1, <3>2
      <4>3. b.size > 0 /\ b.step = "lanes"
        BY <2>1, <3>1
      <4> QED
        BY <2>2, <3>1, <3>2, <4>1, <4>2, <4>3, AtRest DEF BulkOK
    <3> QED
      BY <1>1, <1>2, <2>1, <3>1, <3>2, <3>3, <3>4, CallerMoves
  <2> QED
    BY <1>4, <2>3, <2>4 DEF PreflightWrite
<1>5. CASE AnswerBulk(c)
  <2> DEFINE b == [bulk[c] EXCEPT !.step = "answered"]
  <2>1. /\ bulk[c].step = "lanes" /\ \A m \in Lanes : lane[c][m].step = "off" /\ ~Busy(lane[c][m])
        /\ bulk' = [bulk EXCEPT ![c] = b] /\ lane' = lane /\ user' = user
    BY <1>5 DEF AnswerBulk, LaneIs, Busy
  <2>2. b \in BulkType /\ b.step = "answered" /\ b.size = bulk[c].size /\ b.cursor = bulk[c].cursor
    BY <1>1 DEF BulkType
  <2>3. bulk[c].size > 0 /\ bulk[c].size \in Nat /\ bulk[c].cursor \in Nat
    BY <1>1, <2>1 DEF BulkOK, BulkType
  <2>4. 1 \in Lanes /\ 1 <= bulk[c].size
    BY <2>3, DirectoryAssumption DEF Lanes
  <2>5. bulk[c].cursor > bulk[c].size
    BY <1>1, <2>1, <2>4 DEF BulkOK
  <2>6. \A i \in Positions : i <= bulk[c].size => user[c][i].result # "none"
    <3>1. \A i \in Positions : i <= bulk[c].size => i < bulk[c].cursor
      BY <2>3, <2>5 DEF Positions
    <3> QED
      BY <1>1, <2>1, <3>1 DEF BulkOK
  <2> HIDE DEF b
  <2>7. BulkOK(b, lane[c], user[c])
    BY <1>1, <2>1, <2>2, <2>6 DEF BulkOK
  <2> QED
    BY <1>1, <1>2, <2>1, <2>2, <2>7, CallerMoves
<1>6. ASSUME NEW l \in Lanes, TakeUser(c, l)
      PROVE  DirectoryInv'
  <2>1. lane[c][l].step = "take" /\ ~Busy(lane[c][l]) /\ user' = user
    BY <1>6 DEF TakeUser, LaneIs, Busy
  <2>2. bulk[c].step \notin {"idle", "preflight", "answered"} /\ bulk[c].cursor \in Nat /\ bulk[c].size \in Nat
    BY <1>1, <2>1 DEF BulkOK, BulkType
  <2>3. CASE bulk[c].cursor > bulk[c].size
    <3> DEFINE L == [lane[c] EXCEPT ![l] = NoLane]
    <3>1. BulkOK(bulk[c], L, user[c])
      BY <1>1, <2>1, <2>3, LaneEnds
    <3>2. L \in [Lanes -> LaneType] /\ lane' = [lane EXCEPT ![c] = L] /\ bulk' = bulk
      BY <1>1, <1>6, <2>3, AtRest DEF TakeUser
    <3> HIDE DEF L
    <3> QED
      BY <1>1, <1>2, <2>1, <3>1, <3>2, CallerMoves
  <2>4. CASE ~(bulk[c].cursor > bulk[c].size)
    <3> DEFINE n == [step |-> "settings", at |-> bulk[c].cursor]
               b == [bulk[c] EXCEPT !.cursor = @ + 1]
               L == [lane[c] EXCEPT ![l] = n]
    <3>1. n \in LaneType /\ n.step = "settings" /\ n.at = bulk[c].cursor
      BY <2>2 DEF LaneType
    <3>2. /\ b \in BulkType /\ b.step = bulk[c].step /\ b.size = bulk[c].size
          /\ b.cursor = bulk[c].cursor + 1
      BY <1>1, <2>2 DEF BulkType
    <3>3. /\ lane' = [lane EXCEPT ![c] = L] /\ bulk' = [bulk EXCEPT ![c] = b]
          /\ L \in [Lanes -> LaneType]
      BY <1>1, <1>6, <2>4, <3>1 DEF TakeUser
    <3>4. bulk[c].cursor \in Positions
      <4>1. bulk[c].size <= MaxUsers /\ bulk[c].cursor > 0 /\ MaxUsers \in Nat
        BY <1>1, DirectoryAssumption DEF BulkOK, BulkType
      <4> QED
        BY <2>2, <2>4, <4>1 DEF Positions
    <3>5. BulkOK(b, L, user[c])
      <4> HIDE DEF n, b
      <4>1. /\ bulk[c] \in BulkType /\ lane[c] \in [Lanes -> LaneType]
            /\ user[c] \in [Positions -> UserType] /\ BulkOK(bulk[c], lane[c], user[c])
        BY <1>1
      <4>2. lane[c][l].step = "take" /\ n.at = bulk[c].cursor /\ n.step = "settings"
        BY <2>1, <3>1
      <4>3. /\ L \in [Lanes -> LaneType] /\ L[l] = n
            /\ \A m \in Lanes \ {l} : L[m] = lane[c][m]
        BY <3>1, <4>1
      <4> HIDE DEF L
      <4> QED
        BY <3>1, <3>2, <3>4, <4>1, <4>2, <4>3, LaneTakes
    <3> HIDE DEF b, L
    <3> QED
      BY <1>1, <1>2, <2>1, <3>2, <3>3, <3>5, CallerMoves
  <2> QED
    BY <2>3, <2>4
<1>7. ASSUME NEW l \in Lanes, ReadDirectorySettings(c, l)
      PROVE  DirectoryInv'
  <2>1. lane[c][l].step = "settings" /\ Busy(lane[c][l]) /\ bulk' = bulk
    BY <1>7 DEF ReadDirectorySettings, LaneIs, Busy
  <2>2. ASSUME NEW step \in {"demo", "rpc"}, LaneTurns(c, l, step), user' = user
        PROVE  DirectoryInv'
    BY <2>1, <2>2, WorkKeepsUser
  <2>3. CASE UserAnswered(c, l, "refused")
    <3> DEFINE u == [user[c][lane[c][l].at] EXCEPT !.result = "refused"]
    <3>1. u \in UserType /\ UserOK(u) /\ u.result # "none"
      <4>1. /\ user[c][lane[c][l].at] \in UserType /\ UserOK(user[c][lane[c][l].at])
            /\ user[c][lane[c][l].at].sent = 0 /\ user[c][lane[c][l].at].run = "none"
        BY <2>1, AtWork DEF InWork
      <4>2. u \in UserType /\ u.result = "refused"
        BY <4>1 DEF UserType
      <4>3. /\ u.sent = user[c][lane[c][l].at].sent
            /\ u.run = user[c][lane[c][l].at].run
            /\ u.rpc = user[c][lane[c][l].at].rpc
        BY <4>1 DEF UserType
      <4> HIDE DEF u
      <4> QED
        BY <4>1, <4>2, <4>3 DEF UserOK
    <3>2. user' = [user EXCEPT ![c][lane[c][l].at] = u] /\ LaneTurns(c, l, "take")
      BY <2>3 DEF UserAnswered, Taken
    <3> HIDE DEF u
    <3> QED
      BY <2>1, <3>1, <3>2, WorkDone
  <2> QED
    BY <1>7, <2>2, <2>3 DEF ReadDirectorySettings
<1>8. ASSUME NEW l \in Lanes, CallFreeIpa(c, l)
      PROVE  DirectoryInv'
  <2>1. lane[c][l].step = "rpc" /\ Busy(lane[c][l]) /\ bulk' = bulk
    BY <1>8 DEF CallFreeIpa, LaneIs, Busy
  <2>2. PICK rpc \in {"success", "failure"}, step \in {"saveSuccess", "saveFailed"} :
          /\ step = "saveSuccess" => rpc = "success"
          /\ user' = [user EXCEPT ![c][Taken(c, l)].sent = @ + 1, ![c][Taken(c, l)].rpc = rpc]
          /\ LaneTurns(c, l, step)
    <3>1. PICK rpc \in {"success", "failure"} :
            /\ user' = [user EXCEPT ![c][Taken(c, l)].sent = @ + 1, ![c][Taken(c, l)].rpc = rpc]
            /\ LaneTurns(c, l, IF rpc = "success" THEN "saveSuccess" ELSE "saveFailed")
      BY <1>8 DEF CallFreeIpa
    <3> QED
      BY <3>1
  <2> DEFINE at == lane[c][l].at
             u == [user[c][at] EXCEPT !.sent = 1, !.rpc = rpc]
             n == [lane[c][l] EXCEPT !.step = step]
  <2>3. /\ user[c][at] \in UserType /\ UserOK(user[c][at]) /\ user[c][at].sent = 0
        /\ user[c][at].run = "none" /\ user[c][at].result = "none" /\ at \in Positions
        /\ lane[c][l] \in LaneType
    BY <2>1, AtWork DEF InWork
  <2>4. /\ u \in UserType /\ u.sent = 1 /\ u.rpc = rpc /\ u.run = "none" /\ u.result = "none"
    BY <2>3 DEF UserType
  <2>5. n \in LaneType /\ n.step = step /\ n.at = at /\ Busy(n)
    BY <2>3 DEF LaneType, Busy
  <2>6. user' = [user EXCEPT ![c][at] = u]
    <3>1. user[c][at].sent + 1 = 1
      BY <2>3
    <3> QED
      BY <1>1, <2>2, <2>3, <3>1 DEF Taken
  <2>7. lane' = [lane EXCEPT ![c][l] = n]
    BY <2>2 DEF LaneTurns
  <2> HIDE DEF u, n
  <2>8. UserOK(u) /\ InWork(n, u)
    BY <2>2, <2>4, <2>5 DEF UserOK, InWork
  <2> QED
    BY <2>1, <2>4, <2>5, <2>6, <2>7, <2>8, WorkKeeps
<1>9. ASSUME NEW l \in Lanes, SaveDirectoryRun(c, l)
      PROVE  DirectoryInv'
  <2>1. lane[c][l].step \in {"demo", "saveSuccess", "saveFailed"} /\ Busy(lane[c][l]) /\ bulk' = bulk
    BY <1>9 DEF SaveDirectoryRun, Busy
  <2> DEFINE at == lane[c][l].at
             run == CASE LaneIs(c, l, "demo") -> "demo"
                      [] LaneIs(c, l, "saveSuccess") -> "success"
                      [] OTHER -> "failed"
             answer == IF run = "failed" THEN "failed" ELSE "ok"
             u == [user[c][at] EXCEPT !.run = run, !.result = answer]
  <2>2. /\ user[c][at] \in UserType /\ UserOK(user[c][at]) /\ at \in Positions
        /\ lane[c][l].step = "saveSuccess" => user[c][at].rpc = "success" /\ user[c][at].sent = 1
    BY <2>1, AtWork DEF InWork
  <2>3. /\ run \in {"success", "failed", "demo"} /\ answer \in {"ok", "failed"}
        /\ run = "success" => lane[c][l].step = "saveSuccess"
        /\ answer = "ok" => run \in {"success", "demo"}
    BY <2>1 DEF LaneIs
  <2>4. user' = [user EXCEPT ![c][at] = u] /\ LaneTurns(c, l, "take")
    <3>1. /\ user' = [user EXCEPT ![c][at].run = run, ![c][at].result = answer]
          /\ LaneTurns(c, l, "take")
      BY <1>9 DEF SaveDirectoryRun, Taken
    <3> HIDE DEF run, answer
    <3> QED
      BY <1>1, <2>2, <3>1
  <2> HIDE DEF run, answer
  <2>5. /\ u \in UserType /\ u.run = run /\ u.result = answer
        /\ u.sent = user[c][at].sent /\ u.rpc = user[c][at].rpc
    BY <2>2, <2>3 DEF UserType
  <2> HIDE DEF u
  <2>6. UserOK(u) /\ u.result # "none"
    BY <2>2, <2>3, <2>5 DEF UserOK
  <2> QED
    BY <2>1, <2>4, <2>5, <2>6, WorkDone
<1>10. ASSUME NEW l \in Lanes, DirectoryThrows(c, l)
       PROVE  DirectoryInv'
  <2>1. /\ lane[c][l].step \in {"demo", "saveSuccess", "saveFailed"}
        /\ Busy(lane[c][l]) /\ user' = user /\ lane[c][l].step # "off"
    BY <1>10 DEF DirectoryThrows, Busy
  <2>2. CASE lane[c][l].step = "saveSuccess"
    BY <1>10, <2>1, <2>2, WorkKeepsUser DEF DirectoryThrows, LaneIs
  <2>3. CASE lane[c][l].step # "saveSuccess"
    <3> DEFINE b == [bulk[c] EXCEPT !.step = "broken"]
               L == [lane[c] EXCEPT ![l] = NoLane]
    <3>1. b \in BulkType /\ b.step = "broken" /\ b.size = bulk[c].size /\ b.cursor = bulk[c].cursor
      BY <1>1 DEF BulkType
    <3>2. /\ L \in [Lanes -> LaneType] /\ lane' = [lane EXCEPT ![c] = L]
          /\ bulk' = [bulk EXCEPT ![c] = b]
      BY <1>1, <1>10, <2>3, AtRest DEF DirectoryThrows, LaneIs
    <3> HIDE DEF b
    <3>3. BulkOK(b, L, user[c])
      BY <1>1, <2>1, <3>1, LaneEnds
    <3> HIDE DEF L
    <3> QED
      BY <1>1, <1>2, <2>1, <3>1, <3>2, <3>3, CallerMoves
  <2> QED
    BY <2>2, <2>3
<1> QED
  BY <1>3, <1>4, <1>5, <1>6, <1>7, <1>8, <1>9, <1>10 DEF DirectoryStep

\* Every step keeps the invariant.
LEMMA DirectoryInvKept ==
  ASSUME DirectoryInv, [DirectoryNext]_directoryVars
  PROVE  DirectoryInv'
<1>1. CASE \E c \in Callers : DirectoryStep(c)
  BY <1>1, ListKept
<1>2. CASE DirectoryProcessDies
  <2>1. /\ user' = user /\ lane' = [c \in Callers |-> [l \in Lanes |-> NoLane]]
        /\ bulk' = [c \in Callers |->
             IF bulk[c].step = "lanes" THEN [bulk[c] EXCEPT !.step = "broken"]
             ELSE IF bulk[c].step = "preflight" THEN NoBulk ELSE bulk[c]]
    BY <1>2 DEF DirectoryProcessDies
  <2>2. ASSUME NEW c \in Callers
        PROVE  bulk'[c] \in BulkType /\ BulkOK(bulk'[c], lane'[c], user'[c])
    <3>1. /\ bulk[c] \in BulkType /\ BulkOK(bulk[c], lane[c], user[c])
      BY DEF DirectoryInv
    <3>2. user'[c] = user[c] /\ \A l \in Lanes : lane'[c][l] = NoLane
      BY <2>1
    <3>3. CASE bulk[c].step = "lanes"
      <4>1. /\ bulk'[c] \in BulkType /\ bulk'[c].step = "broken"
            /\ bulk'[c].size = bulk[c].size /\ bulk'[c].cursor = bulk[c].cursor
        BY <2>1, <3>1, <3>3 DEF BulkType
      <4> QED
        BY <3>1, <3>2, <4>1, AtRest DEF BulkOK
    <3>4. CASE bulk[c].step = "preflight"
      <4>1. bulk'[c] = NoBulk
        BY <2>1, <3>4
      <4>2. \A i \in Positions : user[c][i] = NoUser
        BY <3>1, <3>4 DEF BulkOK, Positions
      <4> QED
        BY <3>1, <3>2, <4>1, <4>2, AtRest DEF BulkOK
    <3>5. CASE bulk[c].step \notin {"lanes", "preflight"}
      <4>1. bulk'[c] = bulk[c]
        BY <2>1, <3>5
      <4> QED
        BY <3>1, <3>2, <3>5, <4>1, AtRest DEF BulkOK
    <3> QED
      BY <3>3, <3>4, <3>5
  <2>3. /\ bulk' \in [Callers -> BulkType] /\ lane' \in [Callers -> [Lanes -> LaneType]]
        /\ user' \in [Callers -> [Positions -> UserType]]
    <3>1. bulk' \in [Callers -> BulkType]
      BY <2>1, <2>2
    <3> QED
      BY <2>1, <3>1, AtRest DEF DirectoryInv
  <2>4. DirectoryInv' <=> /\ bulk' \in [Callers -> BulkType]
                          /\ lane' \in [Callers -> [Lanes -> LaneType]]
                          /\ user' \in [Callers -> [Positions -> UserType]]
                          /\ \A c \in Callers : BulkOK(bulk'[c], lane'[c], user'[c])
    BY DEF DirectoryInv, BulkOK
  <2> QED
    BY <2>2, <2>3, <2>4
<1>3. CASE UNCHANGED directoryVars
  BY <1>3 DEF directoryVars, DirectoryInv, BulkOK
<1> QED
  BY <1>1, <1>2, <1>3 DEF DirectoryNext

\* The inductive invariant of the bulk requests.
THEOREM BulksAreSound == DirectorySpec => []DirectoryInv
<1>1. DirectoryInit => DirectoryInv
  <2> SUFFICES ASSUME DirectoryInit PROVE DirectoryInv
    OBVIOUS
  <2>1. /\ bulk = [c \in Callers |-> NoBulk]
        /\ lane = [c \in Callers |-> [l \in Lanes |-> NoLane]]
        /\ user = [c \in Callers |-> [i \in Positions |-> NoUser]]
    BY DEF DirectoryInit
  <2>2. \A c \in Callers : BulkOK(bulk[c], lane[c], user[c])
    BY <2>1, AtRest DEF BulkOK
  <2> QED
    BY <2>1, <2>2, AtRest DEF DirectoryInv
<1>2. DirectoryInv /\ [DirectoryNext]_directoryVars => DirectoryInv'
  BY DirectoryInvKept
<1> QED
  BY <1>1, <1>2, PTL DEF DirectorySpec

\* An answered list has a result for every user, which agrees with the answer of
\* FreeIPA and with the log of runs; and none was sent twice.
THEOREM BulkAnswersAreTrue == DirectorySpec => []BulkAnswerIsTrue
<1>1. DirectoryInv => BulkAnswerIsTrue
  BY DEF DirectoryInv, BulkAnswerIsTrue, BulkOK, UserOK
<1> QED
  BY <1>1, BulksAreSound, PTL

\* Type correctness of the bulk requests: the cursor the lanes share stops one
\* behind the last user, and a lane has a user of the list.
LEMMA DirectoryStepIsTyped ==
  ASSUME DirectoryInv, DirectoryInv', DirectoryTypeOK, ProcessTypeOK, [DirectoryNext]_directoryVars
  PROVE  DirectoryTypeOK' /\ ProcessTypeOK'
<1> DEFINE Requests == [step : {"idle", "preflight", "lanes", "answered", "broken"},
                        size : 0 .. MaxUsers, cursor : 1 .. MaxUsers + 1]
           Works == [step : {"off", "take", "settings", "demo", "rpc", "saveSuccess", "saveFailed"},
                     at : 0 .. MaxUsers]
<1>1. /\ bulk \in [Callers -> Requests] /\ lane \in [Callers -> [Lanes -> Works]] /\ MaxUsers \in Nat
  BY DirectoryAssumption DEF DirectoryTypeOK
<1>2. NoBulk \in Requests /\ NoLane \in Works
  BY <1>1 DEF NoBulk, NoLane
<1>3. user' \in [Callers -> [Positions ->
        [sent : Nat, rpc : {"none", "success", "failure"}, run : {"none", "success", "failed", "demo"},
         result : {"none", "ok", "refused", "failed"}]]]
  BY DEF DirectoryInv, UserType
<1> SUFFICES bulk' \in [Callers -> Requests] /\ lane' \in [Callers -> [Lanes -> Works]] /\ ProcessTypeOK'
  BY <1>3 DEF DirectoryTypeOK
<1>4. ASSUME NEW c \in Callers, DirectoryStep(c) PROVE UNCHANGED process \/ Arrive \/ Fault
  BY <1>4 DEF DirectoryStep, BulkArrives, PreflightWrite, AnswerBulk, TakeUser, ReadDirectorySettings,
              CallFreeIpa, SaveDirectoryRun, DirectoryThrows
<1>5. ASSUME NEW c \in Callers, NEW n \in Positions, BulkArrives(c, n)
      PROVE  bulk' \in [Callers -> Requests] /\ lane' = lane
  <2>1. [step |-> "preflight", size |-> n, cursor |-> 1] \in Requests
    BY <1>1 DEF Positions
  <2>2. bulk' = [bulk EXCEPT ![c] = [step |-> "preflight", size |-> n, cursor |-> 1]] /\ lane' = lane
    BY <1>5 DEF BulkArrives
  <2> HIDE DEF Requests
  <2> QED
    BY <1>1, <2>1, <2>2
<1>6. ASSUME NEW c \in Callers, PreflightWrite(c)
      PROVE  bulk' \in [Callers -> Requests] /\ lane' \in [Callers -> [Lanes -> Works]]
  <2>1. [bulk[c] EXCEPT !.step = "lanes"] \in Requests
    BY <1>1
  <2>2. PICK b \in Requests : bulk' = [bulk EXCEPT ![c] = b]
    BY <1>2, <1>6, <2>1 DEF PreflightWrite
  <2>3. [step |-> "take", at |-> 0] \in Works
    BY <1>1
  <2>4. [l \in Lanes |-> IF l <= bulk[c].size THEN [step |-> "take", at |-> 0] ELSE NoLane]
          \in [Lanes -> Works]
    BY <1>2, <2>3
  <2>5. lane' \in [Callers -> [Lanes -> Works]]
    <3> HIDE DEF Works
    <3> QED
      BY <1>1, <1>6, <2>4 DEF PreflightWrite
  <2> HIDE DEF Requests
  <2> QED
    BY <1>1, <2>2, <2>5
<1>7. ASSUME NEW c \in Callers, NEW l \in Lanes, NEW work \in Works,
             lane' = [lane EXCEPT ![c] = [lane[c] EXCEPT ![l] = work]]
      PROVE  lane' \in [Callers -> [Lanes -> Works]]
  <2> HIDE DEF Works
  <2> QED
    BY <1>1, <1>7
<1>8. ASSUME NEW c \in Callers, NEW l \in Lanes,
             NEW step \in {"take", "demo", "rpc", "saveSuccess", "saveFailed"}, LaneTurns(c, l, step)
      PROVE  lane' \in [Callers -> [Lanes -> Works]]
  <2>1. [lane[c][l] EXCEPT !.step = step] \in Works
    <3>1. lane[c][l] \in Works
      <4> HIDE DEF Works
      <4> QED
        BY <1>1
    <3> QED
      BY <3>1
  <2>2. lane' = [lane EXCEPT ![c] = [lane[c] EXCEPT ![l] = [lane[c][l] EXCEPT !.step = step]]]
    BY <1>8 DEF LaneTurns
  <2> HIDE DEF Works
  <2> QED
    BY <1>7, <2>1, <2>2
<1>9. ASSUME NEW c \in Callers, NEW l \in Lanes, TakeUser(c, l)
      PROVE  bulk' \in [Callers -> Requests] /\ lane' \in [Callers -> [Lanes -> Works]]
  <2>1. CASE bulk[c].cursor > bulk[c].size
    <3>1. lane' = [lane EXCEPT ![c] = [lane[c] EXCEPT ![l] = NoLane]] /\ bulk' = bulk
      BY <1>9, <2>1 DEF TakeUser
    <3> HIDE DEF Works, Requests
    <3> QED
      BY <1>1, <1>2, <1>7, <3>1
  <2>2. CASE ~(bulk[c].cursor > bulk[c].size)
    <3>1. /\ lane' = [lane EXCEPT ![c] = [lane[c] EXCEPT ![l] = [step |-> "settings", at |-> bulk[c].cursor]]]
          /\ bulk' = [bulk EXCEPT ![c] = [bulk[c] EXCEPT !.cursor = @ + 1]]
      BY <1>9, <2>2 DEF TakeUser
    <3>2. bulk[c].cursor \in 1 .. MaxUsers
      <4>1. bulk[c].cursor \in 1 .. MaxUsers + 1 /\ bulk[c].size \in 0 .. MaxUsers
        BY <1>1
      <4> QED
        BY <1>1, <2>2, <4>1
    <3>3. [step |-> "settings", at |-> bulk[c].cursor] \in Works
      BY <1>1, <3>2
    <3>4. [bulk[c] EXCEPT !.cursor = @ + 1] \in Requests
      <4>1. bulk[c] \in Requests
        BY <1>1
      <4>2. bulk[c].cursor + 1 \in 1 .. MaxUsers + 1
        BY <1>1, <3>2
      <4> QED
        BY <4>1, <4>2
    <3>5. lane' \in [Callers -> [Lanes -> Works]]
      <4> HIDE DEF Works, Requests
      <4> QED
        BY <1>7, <3>1, <3>3
    <3> HIDE DEF Works, Requests
    <3> QED
      BY <1>1, <3>1, <3>4, <3>5
  <2> QED
    BY <2>1, <2>2
<1>10. ASSUME NEW c \in Callers, NEW l \in Lanes,
              ReadDirectorySettings(c, l) \/ CallFreeIpa(c, l) \/ SaveDirectoryRun(c, l)
       PROVE  bulk' = bulk /\ lane' \in [Callers -> [Lanes -> Works]]
  <2>1. bulk' = bulk
    BY <1>10 DEF ReadDirectorySettings, CallFreeIpa, SaveDirectoryRun
  <2>2. \E step \in {"take", "demo", "rpc", "saveSuccess", "saveFailed"} : LaneTurns(c, l, step)
    BY <1>10 DEF ReadDirectorySettings, CallFreeIpa, SaveDirectoryRun, UserAnswered
  <2> HIDE DEF Works, Requests
  <2> QED
    BY <1>8, <2>1, <2>2
<1>11. ASSUME NEW c \in Callers, NEW l \in Lanes, DirectoryThrows(c, l)
       PROVE  bulk' \in [Callers -> Requests] /\ lane' \in [Callers -> [Lanes -> Works]]
  <2>1. CASE LaneTurns(c, l, "saveFailed") /\ bulk' = bulk
    <3> HIDE DEF Works, Requests
    <3> QED
      BY <1>1, <1>8, <2>1
  <2>2. CASE /\ lane' = [lane EXCEPT ![c][l] = NoLane]
             /\ bulk' = [bulk EXCEPT ![c].step = "broken"]
    <3>1. [bulk[c] EXCEPT !.step = "broken"] \in Requests
      BY <1>1
    <3>2. bulk' = [bulk EXCEPT ![c] = [bulk[c] EXCEPT !.step = "broken"]]
          /\ lane' = [lane EXCEPT ![c] = [lane[c] EXCEPT ![l] = NoLane]]
      BY <2>2
    <3>3. lane' \in [Callers -> [Lanes -> Works]]
      <4> HIDE DEF Works, Requests
      <4> QED
        BY <1>2, <1>7, <3>2
    <3> HIDE DEF Works, Requests
    <3> QED
      BY <1>1, <3>1, <3>2, <3>3
  <2> QED
    BY <1>11, <2>1, <2>2 DEF DirectoryThrows
<1>12. ASSUME NEW c \in Callers, AnswerBulk(c)
       PROVE  bulk' \in [Callers -> Requests] /\ lane' = lane
  <2>1. [bulk[c] EXCEPT !.step = "answered"] \in Requests
    BY <1>1
  <2>2. bulk' = [bulk EXCEPT ![c] = [bulk[c] EXCEPT !.step = "answered"]] /\ lane' = lane
    BY <1>12 DEF AnswerBulk
  <2> HIDE DEF Requests
  <2> QED
    BY <1>1, <2>1, <2>2
<1>13. CASE DirectoryProcessDies
  <2>1. \A c \in Callers :
          (IF bulk[c].step = "lanes" THEN [bulk[c] EXCEPT !.step = "broken"]
           ELSE IF bulk[c].step = "preflight" THEN NoBulk ELSE bulk[c]) \in Requests
    BY <1>1, <1>2
  <2>2. bulk' \in [Callers -> Requests]
    <3> HIDE DEF Requests
    <3> QED
      BY <1>13, <2>1 DEF DirectoryProcessDies
  <2>3. lane' \in [Callers -> [Lanes -> Works]]
    <3> HIDE DEF Works
    <3> QED
      BY <1>2, <1>13 DEF DirectoryProcessDies
  <2> HIDE DEF Works, Requests
  <2> QED
    BY <1>13, <2>2, <2>3, CountersMove DEF DirectoryProcessDies
<1>14. CASE UNCHANGED directoryVars
  <2> HIDE DEF Works, Requests
  <2> QED
    BY <1>1, <1>14, CountersMove DEF directoryVars
<1>15. ASSUME NEW c \in Callers, DirectoryStep(c)
       PROVE  bulk' \in [Callers -> Requests] /\ lane' \in [Callers -> [Lanes -> Works]]
  <2> HIDE DEF Works, Requests
  <2> QED
    BY <1>1, <1>5, <1>6, <1>9, <1>10, <1>11, <1>12, <1>15 DEF DirectoryStep
<1> HIDE DEF Works, Requests
<1> QED
  BY <1>4, <1>13, <1>14, <1>15, CountersMove DEF DirectoryNext

\* Type correctness of the bulk requests.
THEOREM BulksAreTyped == DirectorySpec => [](ProcessTypeOK /\ DirectoryTypeOK)
<1>1. DirectoryInit => ProcessTypeOK /\ DirectoryTypeOK
  <2> SUFFICES ASSUME DirectoryInit PROVE ProcessTypeOK /\ DirectoryTypeOK
    OBVIOUS
  <2>1. ProcessTypeOK
    BY ProcessAssumption DEF DirectoryInit, ProcessInit, ProcessTypeOK
  <2>2. /\ NoBulk \in [step : {"idle", "preflight", "lanes", "answered", "broken"},
                       size : 0 .. MaxUsers, cursor : 1 .. MaxUsers + 1]
        /\ NoLane \in [step : {"off", "take", "settings", "demo", "rpc", "saveSuccess", "saveFailed"},
                       at : 0 .. MaxUsers]
        /\ NoUser \in [sent : Nat, rpc : {"none", "success", "failure"}, run : {"none", "success", "failed", "demo"},
                       result : {"none", "ok", "refused", "failed"}]
    BY DirectoryAssumption DEF NoBulk, NoLane, NoUser
  <2> QED
    BY <2>1, <2>2 DEF DirectoryInit, DirectoryTypeOK
<1>2. ProcessTypeOK /\ DirectoryTypeOK /\ DirectoryInv /\ DirectoryInv' /\ [DirectoryNext]_directoryVars
        => ProcessTypeOK' /\ DirectoryTypeOK'
  BY DirectoryStepIsTyped
<1> QED
  BY <1>1, <1>2, BulksAreSound, PTL DEF DirectorySpec
---------------------------------------------------------------------------------
(***************************************************************************)
(* The runs: what is told of a run, in its row or in the hands of a        *)
(* request, stays true of its job, which goes from none to active to an    *)
(* end, and never back.                                                    *)
(***************************************************************************)

States == {"active"} \cup Ended
RunType ==
  [status : {"none"} \cup States, linked : BOOLEAN, refused : BOOLEAN,
   caught : BOOLEAN, notified : {"none"} \cup Ended, result : BOOLEAN]
OperatorSteps ==
  {"idle", "launch", "look", "abort", "list", "results", "active", "details",
   "apply", "save", "notify", "replay", "result", "catch"}
OperatorType ==
  [step : OperatorSteps, run : 0 .. MaxRequests, kind : {"none", "launch", "cancel", "sync"},
   status : {"none"} \cup States, linked : BOOLEAN, refused : BOOLEAN,
   copy : [Runs -> {"none"} \cup States],
   answer : [Runs -> {"none", "asked"} \cup States]]

RunsTypes ==
  /\ ProcessTypeOK
  /\ job \in [Runs -> {"none"} \cup States]
  /\ row \in [Runs -> RunType]
  /\ operator \in [Callers -> OperatorType]

\* A status that may be told of a run: if it is final, no job of the run is
\* active, and a success is the job's own.
Told(r, status) ==
  /\ status \in Ended => job[r] # "active"
  /\ status = "success" => job[r] = "success"

\* A status XYOps has told of a job: if it is final, the job has ended.
Vouched(r, status) == Told(r, status) /\ (status \in Ended => job[r] \in Ended)

\* What a launch tells, and its row keeps, when the answer was an error.
MayTell(r, status, refused) ==
  (refused \/ Told(r, status)) /\ (status = "success" => job[r] = "success")

RunOK(r) ==
  /\ row[r].linked => job[r] # "none"
  /\ MayTell(r, row[r].status, row[r].refused) /\ MayTell(r, row[r].notified, row[r].refused)
  /\ row[r].result => job[r] \in Ended
  /\ r > requests => job[r] = "none" /\ row[r] = NoRow

Launching(c) ==
  operator[c].kind = "launch" /\ operator[c].step \in {"launch", "save", "notify", "replay", "catch"}

\* A launch is alone with its run before it saves it, and tells of it what the
\* answer of XYOps allows.
LaunchOK(c) ==
  Launching(c) =>
    /\ operator[c].run \in Runs /\ operator[c].run <= requests
    /\ operator[c].step \in {"launch", "save"} => row[operator[c].run] = NoRow
    /\ operator[c].step = "launch" => job[operator[c].run] = "none"
    /\ operator[c].step \in {"save", "notify"} =>
         MayTell(operator[c].run, operator[c].status, operator[c].refused)
    /\ operator[c].step = "save" /\ operator[c].linked => job[operator[c].run] # "none"
    /\ operator[c].step = "notify" /\ operator[c].refused => row[operator[c].run].refused

\* A stop and a synchronisation write of linked rows only, and only what may be
\* told of them.
WriterOK(c) ==
  ~Launching(c) /\ operator[c].step \in {"abort", "save", "notify", "result"} =>
    /\ operator[c].run \in Runs /\ row[operator[c].run].linked
    /\ operator[c].step # "abort" =>
         operator[c].linked /\ Vouched(operator[c].run, operator[c].status)
    /\ operator[c].step = "result" => job[operator[c].run] \in Ended

\* The answers a synchronisation holds are of linked rows, and stay true.
CopyOK(c) ==
  \A r \in Runs :
    /\ operator[c].answer[r] # "none" => row[r].linked
    /\ Vouched(r, operator[c].answer[r])
    /\ operator[c].step \in {"apply", "save", "notify", "result"} => operator[c].answer[r] # "asked"
    /\ operator[c].step \in {"launch", "look", "abort", "list"} => operator[c].answer[r] = "none"

\* The steps of the three kinds of requests; only the answer to a launch is
\* called refused.
KindOK(c) ==
  /\ operator[c].step \in {"launch", "replay", "catch"} => operator[c].kind = "launch"
  /\ operator[c].step \in {"look", "abort"} => operator[c].kind = "cancel" /\ operator[c].run \in Runs
  /\ operator[c].step \in {"list", "results", "active", "details", "apply", "result"}
       => operator[c].kind = "sync"
  /\ operator[c].step = "notify" => operator[c].status \in Ended
  /\ operator[c].step \in {"launch", "look", "abort", "list"} => ~operator[c].refused
  /\ operator[c].kind # "launch" => ~operator[c].refused

OperatorOK(c) == LaunchOK(c) /\ WriterOK(c) /\ CopyOK(c) /\ KindOK(c)

RunAlone ==
  \A c, d \in Callers :
    Launching(c) /\ Launching(d) /\ operator[c].run = operator[d].run => c = d

RunsInv ==
  /\ RunsTypes /\ RunAlone
  /\ \A r \in Runs : RunOK(r)
  /\ \A c \in Callers : OperatorOK(c)

---------------------------------------------------------------------------------
(* Types. *)

\* The bounds are natural numbers.
LEMMA RunsConstants == MaxRequests \in Nat /\ MaxTime \in Nat /\ MaxFaults \in Nat /\ MaxCrashes \in Nat
BY ProcessAssumption

\* The caller without a request has the type of a caller.
LEMMA NoOperatorIs ==
  /\ NoOperator \in OperatorType /\ NoOperator.step = "idle" /\ NoOperator.kind = "none"
  /\ ~NoOperator.refused
  /\ \A r \in Runs : NoOperator.copy[r] = "none" /\ NoOperator.answer[r] = "none"
<1> DEFINE nothing == [r \in Runs |-> "none"]
<1>1. /\ nothing \in [Runs -> {"none"} \cup States] /\ nothing \in [Runs -> {"none", "asked"} \cup States]
      /\ \A r \in Runs : nothing[r] = "none"
  OBVIOUS
<1>2. NoOperator = [step |-> "idle", run |-> 0, kind |-> "none", status |-> "none",
                    linked |-> FALSE, refused |-> FALSE, copy |-> nothing, answer |-> nothing]
  BY DEF NoOperator
<1> HIDE DEF nothing
<1> QED
  BY <1>1, <1>2, RunsConstants DEF OperatorType, OperatorSteps

\* The parts of the type invariant, for the lemmas on single actions.
LEMMA RunsTypesAre ==
  ASSUME RunsInv, NEW c \in Callers
  PROVE  /\ job \in [Runs -> {"none"} \cup States] /\ row \in [Runs -> RunType]
         /\ operator \in [Callers -> OperatorType] /\ operator[c] \in OperatorType
         /\ operator[c].copy \in [Runs -> {"none"} \cup States]
         /\ operator[c].answer \in [Runs -> {"none", "asked"} \cup States]
         /\ operator[c].run \in 0 .. MaxRequests
         /\ ProcessTypeOK /\ OperatorOK(c)
         /\ MaxRequests \in Nat /\ requests \in 0 .. MaxRequests
BY RunsConstants DEF RunsInv, RunsTypes, OperatorType, ProcessTypeOK

---------------------------------------------------------------------------------
(* What the others rely on. *)

\* Jobs and rows go forward: a job ends once, a row stays linked, and only a
\* launch of its own touches a run that is not linked.
Forward(launched) ==
  \A r \in Runs :
    /\ job[r] \in Ended => job'[r] = job[r]
    /\ job[r] # "none" => job'[r] # "none"
    /\ row[r].linked => row'[r].linked
    /\ row[r].refused => row'[r].refused
    /\ job'[r] # job[r] => job[r] = "active" \/ r \in launched
    /\ row'[r] # row[r] => row[r].linked \/ r \in launched

\* What the callers know stays true when jobs only end and rows only finish.
LEMMA OtherRunsKeep ==
  ASSUME RunsInv, NEW d \in Callers, NEW launched, Forward(launched),
         operator'[d] = operator[d], requests' \in Nat, requests <= requests',
         Launching(d) => operator[d].run \notin launched
  PROVE  OperatorOK(d)'
<1>1. OperatorOK(d) /\ (Launching(d)' <=> Launching(d)) /\ requests \in Nat
  BY RunsTypesAre, RunsConstants DEF Launching
<1>2. LaunchOK(d)'
  <2> SUFFICES ASSUME Launching(d) PROVE LaunchOK(d)'
    BY <1>1 DEF LaunchOK
  <2>5. PICK r : r = operator[d].run
    OBVIOUS
  <2>1. r \in Runs /\ r \notin launched
    BY <1>1, <2>5 DEF OperatorOK, LaunchOK
  <2>2. row[r] = NoRow => row'[r] = row[r]
    BY <2>1 DEF Forward, NoRow
  <2>3. /\ job[r] = "none" => job'[r] = "none"
        /\ job[r] # "none" => job'[r] # "none"
        /\ row[r].refused => row'[r].refused
    BY <2>1 DEF Forward
  <2>4. \A status, refused : MayTell(r, status, refused) => MayTell(r, status, refused)'
    BY <2>1 DEF Forward, MayTell, Told, Ended
  <2> QED
    <3>1. LaunchOK(d)
      BY <1>1 DEF OperatorOK
    <3>2. operator[d].step \in {"save", "notify"} =>
            MayTell(operator[d].run, operator[d].status, operator[d].refused)'
      BY <2>4, <2>5, <3>1 DEF LaunchOK, MayTell, Told
    <3> QED
      BY <1>1, <2>1, <2>2, <2>3, <2>5, <3>1, <3>2, RunsConstants DEF LaunchOK, Runs
<1>3. \A r \in Runs : \A status : Vouched(r, status) => Vouched(r, status)'
  BY DEF Forward, Vouched, Told, Ended
<1>4. WriterOK(d)'
  BY <1>1, <1>3 DEF OperatorOK, WriterOK, Forward, Vouched, Told, Ended
<1>5. CopyOK(d)'
  BY <1>1, <1>3 DEF OperatorOK, CopyOK, Forward, Vouched, Told
<1> QED
  BY <1>1, <1>2, <1>4, <1>5 DEF OperatorOK, KindOK

\* Any step of one request.
LEMMA OperatorMoves ==
  ASSUME RunsInv, NEW c \in Callers, RunsTypes', requests <= requests',
         \A d \in Callers \ {c} : operator'[d] = operator[d],
         NEW launched, Forward(launched),
         \A r \in launched : Launching(c) /\ r = operator[c].run,
         \A r \in Runs : RunOK(r)',
         OperatorOK(c)',
         Launching(c)' => \/ Launching(c) /\ operator'[c].run = operator[c].run
                          \/ operator'[c].run > requests
  PROVE  RunsInv'
<1>1. requests' \in Nat /\ requests \in Nat
  BY RunsConstants DEF RunsInv, RunsTypes, ProcessTypeOK
<1>2. \A d \in Callers \ {c} : Launching(d) => operator[d].run \notin launched
  BY DEF RunsInv, RunAlone
<1>3. \A d \in Callers : OperatorOK(d)'
  BY <1>1, <1>2, OtherRunsKeep
<1>4. \A d \in Callers \ {c} : Launching(d)' <=> Launching(d)
  BY DEF Launching
<1>5. \A d \in Callers : Launching(d) => operator[d].run <= requests /\ operator[d].run \in Runs
  BY DEF RunsInv, OperatorOK, LaunchOK
<1>6. RunAlone'
  BY <1>1, <1>4, <1>5, RunsConstants DEF RunsInv, RunAlone, Runs
<1> QED
  BY <1>3, <1>6 DEF RunsInv

\* A step of a request that writes nothing.
LEMMA OnlyRequest ==
  ASSUME RunsInv, NEW c \in Callers, UNCHANGED <<job, row>>, ProcessTypeOK', requests <= requests',
         operator' \in [Callers -> OperatorType],
         \A d \in Callers \ {c} : operator'[d] = operator[d],
         OperatorOK(c)',
         Launching(c)' => \/ Launching(c) /\ operator'[c].run = operator[c].run
                          \/ operator'[c].run > requests
  PROVE  RunsInv'
<1>1. RunsTypes' /\ Forward({})
  BY DEF RunsInv, RunsTypes, Forward
<1>2. requests \in Nat /\ requests' \in Nat
  BY RunsConstants DEF RunsInv, RunsTypes, ProcessTypeOK
<1>3. \A r \in Runs : RunOK(r)'
  BY <1>2, RunsConstants DEF RunsInv, RunOK, MayTell, Told, Runs
<1> QED
  BY <1>1, <1>3, OperatorMoves

\* The invariant holds at the start.
LEMMA RunsInvHolds == RunsInit => RunsInv
<1> SUFFICES ASSUME RunsInit PROVE RunsInv
  OBVIOUS
<1>1. /\ NoRow \in RunType /\ NoRow.linked = FALSE /\ NoRow.result = FALSE
      /\ NoRow.status = "none" /\ NoRow.notified = "none"
  BY DEF NoRow, RunType
<1>2. RunsTypes
  BY <1>1, NoOperatorIs, ProcessAssumption DEF RunsInit, RunsTypes, ProcessInit, ProcessTypeOK
<1>3. \A r \in Runs : RunOK(r)
  BY <1>1 DEF RunsInit, RunOK, MayTell, Told, Ended
<1>4. \A c \in Callers : operator[c] = NoOperator
  BY DEF RunsInit
<1>5. \A c \in Callers : ~Launching(c)
  BY <1>4, NoOperatorIs DEF Launching
<1>6. \A c \in Callers : OperatorOK(c)
  BY <1>4, <1>5, NoOperatorIs DEF OperatorOK, LaunchOK, WriterOK, CopyOK, KindOK, Vouched, Told, Ended
<1> QED
  BY <1>2, <1>3, <1>5, <1>6 DEF RunsInv, RunAlone

---------------------------------------------------------------------------------
(* Steps of a request that write nothing. *)

\* A request goes on with a step of its own kind, or ends.
LEMMA ProceedIs ==
  ASSUME NEW c \in Callers, operator \in [Callers -> OperatorType],
         NEW step \in OperatorSteps, Proceed(c, step)
  PROVE  /\ operator' \in [Callers -> OperatorType]
         /\ \A d \in Callers \ {c} : operator'[d] = operator[d]
         /\ operator'[c].step = step
         /\ step = "idle" => operator'[c] = NoOperator
         /\ step # "idle" => /\ operator'[c].run = operator[c].run
                             /\ operator'[c].kind = operator[c].kind
                             /\ operator'[c].status = operator[c].status
                             /\ operator'[c].linked = operator[c].linked
                             /\ operator'[c].refused = operator[c].refused
                             /\ operator'[c].copy = operator[c].copy
                             /\ operator'[c].answer = operator[c].answer
<1>1. CASE step = "idle"
  BY <1>1, NoOperatorIs DEF Proceed
<1>2. CASE step # "idle"
  <2> DEFINE next == [operator[c] EXCEPT !.step = step]
  <2>1. /\ next \in OperatorType
        /\ next.step = step /\ next.run = operator[c].run /\ next.kind = operator[c].kind
        /\ next.status = operator[c].status /\ next.linked = operator[c].linked
        /\ next.refused = operator[c].refused
        /\ next.copy = operator[c].copy /\ next.answer = operator[c].answer
    BY DEF OperatorType
  <2>2. operator' = [operator EXCEPT ![c] = next]
    BY <1>2 DEF Proceed
  <2> HIDE DEF next
  <2> QED
    BY <1>2, <2>1, <2>2
<1> QED
  BY <1>1, <1>2

\* No request, or the last one ended, knows nothing.
LEMMA IdleIsOK ==
  ASSUME NEW c \in Callers, operator'[c] = NoOperator
  PROVE  OperatorOK(c)' /\ ~Launching(c)'
<1>1. ~Launching(c)'
  BY NoOperatorIs DEF Launching
<1> QED
  BY <1>1, NoOperatorIs DEF OperatorOK, LaunchOK, WriterOK, CopyOK, KindOK, Vouched, Told, Ended

\* A new request, whatever it asks for.
LEMMA OperatorKeeps ==
  ASSUME RunsInv, NEW c \in Callers, NEW kind, NEW r, NEW step, Request(c, kind, r, step),
         \/ kind = "launch" /\ step = "launch" /\ r = requests + 1
         \/ kind = "cancel" /\ step = "look" /\ r \in 1 .. requests
         \/ kind = "sync" /\ step = "list" /\ r = 0
  PROVE  RunsInv'
<1> DEFINE next == [NoOperator EXCEPT !.step = step, !.kind = kind, !.run = r]
<1>1. /\ requests < MaxRequests /\ requests' = requests + 1 /\ UNCHANGED <<job, row>>
      /\ operator' = [operator EXCEPT ![c] = next] /\ ProcessTypeOK'
  BY RunsTypesAre DEF Request, Arrive, ProcessTypeOK
<1>2. r \in 0 .. MaxRequests
  BY <1>1, RunsTypesAre
<1>3. /\ next \in OperatorType
      /\ next.step = step /\ next.kind = kind /\ next.run = r
      /\ next.copy = NoOperator.copy /\ next.answer = NoOperator.answer /\ ~next.refused
  BY <1>2, NoOperatorIs DEF OperatorType, OperatorSteps, NoOperator
<1> HIDE DEF next
<1>4. /\ operator' \in [Callers -> OperatorType]
      /\ \A d \in Callers \ {c} : operator'[d] = operator[d]
      /\ operator'[c] = next
  BY <1>1, <1>3, RunsTypesAre
<1>5. CopyOK(c)' /\ WriterOK(c)' /\ KindOK(c)'
  BY <1>2, <1>3, <1>4, NoOperatorIs, RunsTypesAre DEF CopyOK, WriterOK, KindOK, Vouched, Told, Ended, Launching, Runs
<1>6. Launching(c)' => r = requests + 1 /\ step = "launch"
  BY <1>3, <1>4 DEF Launching
<1>7. LaunchOK(c)'
  <2> SUFFICES ASSUME Launching(c)' PROVE LaunchOK(c)'
    BY DEF LaunchOK
  <2>1. r \in Runs /\ r > requests /\ r <= requests'
    BY <1>1, <1>6, RunsTypesAre DEF Runs
  <2>2. job[r] = "none" /\ row[r] = NoRow
    BY <2>1 DEF RunsInv, RunOK
  <2> QED
    BY <1>1, <1>3, <1>4, <1>6, <2>1, <2>2 DEF LaunchOK
<1>8. requests <= requests' /\ (Launching(c)' => operator'[c].run > requests)
  BY <1>1, <1>3, <1>4, <1>6, RunsTypesAre
<1> QED
  BY <1>1, <1>4, <1>5, <1>7, <1>8, OnlyRequest DEF OperatorOK

\* The request only takes another step, at which it knows no more than before.
LEMMA ProceedKeeps ==
  ASSUME RunsInv, NEW c \in Callers, UNCHANGED <<job, row, requests>>, ProcessTypeOK',
         NEW step \in OperatorSteps, Proceed(c, step), ~Launching(c), operator[c].kind # "launch",
         step = "abort" => /\ operator[c].kind = "cancel" /\ operator[c].step = "look"
                           /\ operator[c].run \in Runs /\ row[operator[c].run].linked,
         step \in {"results", "active", "details"} => operator[c].kind = "sync",
         step \notin {"launch", "look", "list", "apply", "save", "notify", "replay", "result", "catch"}
  PROVE  RunsInv'
<1>1. CASE step = "idle"
  BY <1>1, ProceedIs, IdleIsOK, OnlyRequest, RunsTypesAre
<1>2. CASE step # "idle"
  <2>1. /\ operator' \in [Callers -> OperatorType]
        /\ \A d \in Callers \ {c} : operator'[d] = operator[d]
        /\ operator'[c].step = step /\ operator'[c].run = operator[c].run
        /\ operator'[c].kind = operator[c].kind /\ operator'[c].refused = operator[c].refused
        /\ operator'[c].copy = operator[c].copy
        /\ operator'[c].answer = operator[c].answer
    BY <1>2, ProceedIs, RunsTypesAre
  <2>2. ~Launching(c)'
    BY <2>1 DEF Launching
  <2>3. OperatorOK(c)'
    BY <2>1, <2>2, RunsTypesAre DEF OperatorOK, LaunchOK, WriterOK, CopyOK, KindOK, Vouched, Told
  <2> QED
    BY <2>1, <2>2, <2>3, OnlyRequest, RunsTypesAre
<1> QED
  BY <1>1, <1>2

\* The stop of a job reads its row, and asks for the job when it may be over.
LEMMA LookKeeps ==
  ASSUME RunsInv, NEW c \in Callers, LookAtRun(c)
  PROVE  RunsInv'
<1> DEFINE to == IF row[operator[c].run].status = "active" /\ row[operator[c].run].linked
                 THEN "abort" ELSE "idle"
<1>1. /\ operator[c].step = "look" /\ UNCHANGED <<job, row, process>>
      /\ Proceed(c, to)
  BY DEF LookAtRun
<1>2. /\ operator[c].kind = "cancel" /\ operator[c].run \in Runs /\ ~Launching(c)
      /\ to = "abort" => row[operator[c].run].linked
      /\ to \in {"abort", "idle"}
  BY <1>1, RunsTypesAre DEF OperatorOK, KindOK, Launching
<1>3. ProcessTypeOK' /\ UNCHANGED requests
  BY <1>1, RunsTypesAre DEF process, ProcessTypeOK
<1> HIDE DEF to
<1> QED
  BY <1>1, <1>2, <1>3, ProceedKeeps DEF OperatorSteps

\* A synchronisation brings its copies and its answers up to date, and does not
\* look at a row of its own.
LEMMA SyncMoves ==
  ASSUME RunsInv, NEW c \in Callers, UNCHANGED <<job, row, process>>,
         NEW next \in OperatorType, operator' = [operator EXCEPT ![c] = next],
         operator[c].kind = "sync", next.kind = "sync", next.refused = operator[c].refused,
         next.step \in {"results", "active", "details", "apply"},
         \A r \in Runs :
           /\ next.answer[r] # "none" => row[r].linked
           /\ Vouched(r, next.answer[r])
           /\ next.step = "apply" => next.answer[r] # "asked"
  PROVE  RunsInv'
<1>1. /\ operator' \in [Callers -> OperatorType]
      /\ \A d \in Callers \ {c} : operator'[d] = operator[d]
      /\ operator'[c] = next
  BY RunsTypesAre
<1>2. ~Launching(c)'
  BY <1>1 DEF Launching
<1>3. ProcessTypeOK' /\ requests <= requests'
  BY RunsTypesAre DEF process, ProcessTypeOK
<1>4. CopyOK(c)'
  BY <1>1 DEF CopyOK, Vouched, Told
<1>5. OperatorOK(c)'
  BY <1>1, <1>2, <1>4, RunsTypesAre DEF OperatorOK, LaunchOK, WriterOK, KindOK
<1> QED
  BY <1>1, <1>2, <1>3, <1>5, OnlyRequest

\* A synchronisation reads the rows.
LEMMA ListKeeps ==
  ASSUME RunsInv, NEW c \in Callers, ListRuns(c)
  PROVE  RunsInv'
<1> DEFINE copy == [r \in Runs |-> row[r].status]
           next == [operator[c] EXCEPT !.step = "results", !.copy = copy]
<1>1. /\ operator[c].step = "list" /\ operator[c].kind = "sync"
      /\ UNCHANGED <<job, row, process>>
      /\ operator' = [operator EXCEPT ![c] = next]
  BY RunsTypesAre DEF ListRuns, OperatorOK, KindOK
<1>2. copy \in [Runs -> {"none"} \cup States]
  BY RunsTypesAre DEF RunType
<1> HIDE DEF copy
<1>3. /\ next \in OperatorType
      /\ next.step = "results" /\ next.kind = operator[c].kind
      /\ next.refused = operator[c].refused /\ next.answer = operator[c].answer
  BY <1>2, RunsTypesAre DEF OperatorType, OperatorSteps
<1> HIDE DEF next
<1>4. \A r \in Runs : operator[c].answer[r] = "none"
  BY <1>1, RunsTypesAre DEF OperatorOK, CopyOK
<1>5. \A r \in Runs : next.answer[r] = "none" /\ Vouched(r, next.answer[r])
  BY <1>3, <1>4 DEF Vouched, Told, Ended
<1> QED
  BY <1>1, <1>3, <1>5, SyncMoves

\* A synchronisation selects the runs to ask for.
LEMMA ListResultsKeeps ==
  ASSUME RunsInv, NEW c \in Callers, ListResults(c)
  PROVE  RunsInv'
<1> DEFINE asked == {r \in Runs : \/ operator[c].copy[r] = "active"
                                  \/ operator[c].copy[r] \in {"success", "failed"} /\ ~row[r].result}
           step == IF \E r \in asked : operator[c].copy[r] = "active" THEN "active" ELSE "details"
           answer == [r \in Runs |-> IF r \in asked /\ row[r].linked THEN "asked" ELSE "none"]
           next == [operator[c] EXCEPT !.step = step, !.answer = answer]
<1>1. /\ operator[c].step = "results" /\ operator[c].kind = "sync" /\ ~Launching(c)
      /\ UNCHANGED <<job, row, process>>
  BY RunsTypesAre DEF ListResults, OperatorOK, KindOK, Launching
<1>2. CASE asked = {}
  <2>1. Proceed(c, "idle")
    BY <1>2 DEF ListResults, Proceed
  <2>2. ProcessTypeOK' /\ UNCHANGED requests
    BY <1>1, RunsTypesAre DEF process, ProcessTypeOK
  <2> QED
    BY <1>1, <2>1, <2>2, ProceedKeeps DEF OperatorSteps
<1>3. CASE asked # {}
  <2>1. operator' = [operator EXCEPT ![c] = next]
    BY <1>3 DEF ListResults
  <2>2. /\ answer \in [Runs -> {"none", "asked"} \cup States]
        /\ \A r \in Runs : /\ answer[r] \in {"none", "asked"}
                           /\ answer[r] # "none" => row[r].linked
    OBVIOUS
  <2>3. step \in {"active", "details"}
    OBVIOUS
  <2> HIDE DEF answer, step
  <2>4. /\ next \in OperatorType
        /\ next.step = step /\ next.kind = operator[c].kind
        /\ next.refused = operator[c].refused /\ next.answer = answer
    BY <2>2, <2>3, RunsTypesAre DEF OperatorType, OperatorSteps
  <2> HIDE DEF next
  <2>5. \A r \in Runs : Vouched(r, answer[r])
    BY <2>2 DEF Vouched, Told, Ended
  <2> QED
    BY <1>1, <2>1, <2>2, <2>3, <2>4, <2>5, SyncMoves
<1> QED
  BY <1>2, <1>3

\* XYOps tells which jobs are active.
LEMMA FetchActiveKeeps ==
  ASSUME RunsInv, NEW c \in Callers, FetchActive(c)
  PROVE  RunsInv'
<1> DEFINE answer == [r \in Runs |-> IF job[r] = "active" /\ operator[c].copy[r] # "none" /\ row[r].linked
                                     THEN "active" ELSE operator[c].answer[r]]
           next == [operator[c] EXCEPT !.step = "details", !.answer = answer]
<1>1. /\ operator[c].step = "active" /\ operator[c].kind = "sync" /\ ~Launching(c)
      /\ UNCHANGED <<job, row, process>>
  BY RunsTypesAre DEF FetchActive, OperatorOK, KindOK, Launching
<1>2. CASE Proceed(c, "details")
  <2>1. ProcessTypeOK' /\ UNCHANGED requests
    BY <1>1, RunsTypesAre DEF process, ProcessTypeOK
  <2> QED
    BY <1>1, <1>2, <2>1, ProceedKeeps DEF OperatorSteps
<1>3. CASE operator' = [operator EXCEPT ![c] = next]
  <2>1. /\ answer \in [Runs -> {"none", "asked"} \cup States]
        /\ \A r \in Runs : \/ answer[r] = "active" /\ row[r].linked
                           \/ answer[r] = operator[c].answer[r]
    BY RunsTypesAre DEF States
  <2> HIDE DEF answer
  <2>2. /\ next \in OperatorType
        /\ next.step = "details" /\ next.kind = operator[c].kind
        /\ next.refused = operator[c].refused /\ next.answer = answer
    <3>1. operator[c] \in OperatorType
      BY RunsTypesAre
    <3>2. next \in OperatorType
      BY <2>1, <3>1 DEF OperatorType, OperatorSteps
    <3>3. /\ next.step = "details" /\ next.kind = operator[c].kind
          /\ next.refused = operator[c].refused /\ next.answer = answer
      BY <3>1 DEF OperatorType
    <3> QED
      BY <3>2, <3>3
  <2> HIDE DEF next
  <2>3. \A r \in Runs : /\ answer[r] # "none" => row[r].linked
                        /\ Vouched(r, answer[r])
    <3>1. \A r \in Runs : Vouched(r, "active")
      BY DEF Vouched, Told, Ended
    <3>2. \A r \in Runs : /\ operator[c].answer[r] # "none" => row[r].linked
                          /\ Vouched(r, operator[c].answer[r])
      BY RunsTypesAre DEF OperatorOK, CopyOK
    <3> QED
      BY <2>1, <3>1, <3>2
  <2>4. next.kind = "sync" /\ next.step # "apply" /\ next.step \in {"results", "active", "details", "apply"}
    BY <1>1, <2>2
  <2> QED
    BY <1>1, <1>3, <2>2, <2>3, <2>4, SyncMoves
<1> QED
  BY <1>2, <1>3 DEF FetchActive

\* XYOps tells how a job that is no longer active ended.
LEMMA FetchDetailsKeeps ==
  ASSUME RunsInv, NEW c \in Callers, FetchDetails(c)
  PROVE  RunsInv'
<1> DEFINE asked == {r \in Runs : operator[c].answer[r] = "asked"}
<1>1. PICK silent \in SUBSET asked, renamed \in SUBSET asked :
        operator' = [operator EXCEPT ![c].step = "apply",
          ![c].answer = [r \in Runs |->
             IF r \notin asked THEN @[r]
             ELSE IF r \in silent THEN "none"
             ELSE IF job[r] = "cancelled" /\ r \in renamed THEN "failed" ELSE job[r]]]
  BY DEF FetchDetails
<1> DEFINE answer == [r \in Runs |->
             IF r \notin asked THEN operator[c].answer[r]
             ELSE IF r \in silent THEN "none"
             ELSE IF job[r] = "cancelled" /\ r \in renamed THEN "failed" ELSE job[r]]
           next == [operator[c] EXCEPT !.step = "apply", !.answer = answer]
<1>2. /\ operator[c].step = "details" /\ operator[c].kind = "sync"
      /\ UNCHANGED <<job, row, process>>
  BY RunsTypesAre DEF FetchDetails, OperatorOK, KindOK
<1>3. operator' = [operator EXCEPT ![c] = next]
  BY <1>1, RunsTypesAre
<1>4. /\ answer \in [Runs -> {"none", "asked"} \cup States]
      /\ \A r \in Runs :
           /\ \/ answer[r] = operator[c].answer[r]
              \/ operator[c].answer[r] # "none" /\ answer[r] = "none"
              \/ operator[c].answer[r] # "none" /\ answer[r] = job[r]
              \/ operator[c].answer[r] # "none" /\ answer[r] = "failed" /\ job[r] = "cancelled"
           /\ answer[r] # "asked"
  BY RunsTypesAre DEF States, Ended
<1> HIDE DEF answer, asked
<1>5. /\ next \in OperatorType
      /\ next.step = "apply" /\ next.kind = operator[c].kind
      /\ next.refused = operator[c].refused /\ next.answer = answer
  BY <1>4, RunsTypesAre DEF OperatorType, OperatorSteps
<1> HIDE DEF next
<1>6. ASSUME NEW r \in Runs
      PROVE  (answer[r] # "none" => row[r].linked) /\ Vouched(r, answer[r])
  <2>1. /\ operator[c].answer[r] # "none" => row[r].linked
        /\ Vouched(r, operator[c].answer[r])
    BY RunsTypesAre DEF OperatorOK, CopyOK
  <2>2. Vouched(r, "none") /\ Vouched(r, job[r])
    BY DEF Vouched, Told, Ended
  <2>3. job[r] = "cancelled" => Vouched(r, "failed")
    BY DEF Vouched, Told, Ended
  <2> QED
    BY <1>4, <2>1, <2>2, <2>3
<1>7. \A r \in Runs : answer[r] # "asked"
  BY <1>4
<1>8. \A r \in Runs :
        /\ next.answer[r] # "none" => row[r].linked
        /\ Vouched(r, next.answer[r])
        /\ next.step = "apply" => next.answer[r] # "asked"
  BY <1>5, <1>6, <1>7
<1> QED
  BY <1>2, <1>3, <1>5, <1>8, SyncMoves

\* The answer is compared with the row read before.
LEMMA ApplyKeeps ==
  ASSUME RunsInv, NEW c \in Callers, ApplyAnswer(c)
  PROVE  RunsInv'
<1>1. /\ operator[c].step = "apply" /\ operator[c].kind = "sync" /\ ~Launching(c)
      /\ UNCHANGED <<job, row, process>>
  BY RunsTypesAre DEF ApplyAnswer, OperatorOK, KindOK, Launching
<1>2. ProcessTypeOK' /\ UNCHANGED requests /\ requests <= requests'
  BY <1>1, RunsTypesAre DEF process, ProcessTypeOK
<1>3. CASE Newest(c) = {}
  <2>1. Proceed(c, "idle")
    BY <1>3 DEF ApplyAnswer
  <2> QED
    BY <1>1, <1>2, <2>1, ProceedKeeps DEF OperatorSteps
<1>4. CASE Newest(c) # {}
  <2>1. PICK r \in Newest(c), step \in {"save", "apply", "result"} :
          /\ operator' = [operator EXCEPT ![c] =
               [operator[c] EXCEPT !.run = r, !.status = operator[c].answer[r], !.linked = TRUE,
                                   !.answer[r] = "none", !.step = step]]
          /\ step = "result" => /\ operator[c].answer[r] = operator[c].copy[r]
                                /\ operator[c].answer[r] # "active"
    <3>1. PICK r \in Newest(c) :
            \/ operator' = [operator EXCEPT ![c] =
                 [[operator[c] EXCEPT !.run = r, !.status = operator[c].answer[r], !.linked = TRUE,
                                      !.answer[r] = "none"] EXCEPT !.step = "save"]]
            \/ /\ operator[c].answer[r] = operator[c].copy[r]
               /\ operator' = [operator EXCEPT ![c] =
                    [[operator[c] EXCEPT !.run = r, !.status = operator[c].answer[r], !.linked = TRUE,
                                         !.answer[r] = "none"]
                     EXCEPT !.step = IF operator[c].answer[r] = "active" THEN "apply" ELSE "result"]]
      BY <1>4 DEF ApplyAnswer
    <3> QED
      BY <3>1
  <2> DEFINE answer == [operator[c].answer EXCEPT ![r] = "none"]
             status == operator[c].answer[r]
             next == [operator[c] EXCEPT !.run = r, !.status = status, !.linked = TRUE,
                                         !.answer = answer, !.step = step]
  <2>2. r \in Runs /\ status # "none" /\ status # "asked" /\ status \in States
        /\ row[r].linked /\ Vouched(r, status)
    BY <1>1, RunsTypesAre DEF Newest, OperatorOK, CopyOK
  <2>3. operator' = [operator EXCEPT ![c] = next]
    BY <2>1, RunsTypesAre
  <2>4. /\ answer \in [Runs -> {"none", "asked"} \cup States]
        /\ \A q \in Runs : answer[q] \in {operator[c].answer[q], "none"}
    BY <2>2, RunsTypesAre
  <2> HIDE DEF answer
  <2>5. r \in 0 .. MaxRequests
    BY <2>2, RunsTypesAre DEF Runs
  <2>6. /\ next \in OperatorType
        /\ next.step = step /\ next.kind = "sync" /\ next.run = r /\ next.status = status
        /\ next.linked /\ next.refused = operator[c].refused /\ next.answer = answer
    <3>1. /\ operator[c] \in OperatorType /\ operator[c].kind = "sync" /\ status \in States
          /\ step \in {"save", "apply", "result"}
      BY <1>1, <2>2, RunsTypesAre
    <3>2. next \in OperatorType
      BY <2>4, <2>5, <3>1 DEF OperatorType, OperatorSteps
    <3>3. /\ next.step = step /\ next.kind = "sync" /\ next.run = r /\ next.status = status
          /\ next.linked
      BY <3>1 DEF OperatorType
    <3>4. next.refused = operator[c].refused /\ next.answer = answer
      BY <3>1 DEF OperatorType
    <3> QED
      BY <3>2, <3>3, <3>4
  <2> HIDE DEF next
  <2>7. /\ operator' \in [Callers -> OperatorType]
        /\ \A d \in Callers \ {c} : operator'[d] = operator[d]
        /\ operator'[c] = next
    BY <2>3, <2>6, RunsTypesAre
  <2>8. ~Launching(c)'
    BY <2>6, <2>7 DEF Launching
  <2>9. step = "result" => job[r] \in Ended
    BY <2>1, <2>2 DEF Vouched, States
  <2>10. CopyOK(c)'
    <3>1. \A q \in Runs :
            /\ operator[c].answer[q] # "none" => row[q].linked
            /\ Vouched(q, operator[c].answer[q]) /\ Vouched(q, "none")
            /\ operator[c].answer[q] # "asked"
      BY <1>1, RunsTypesAre DEF OperatorOK, CopyOK, Vouched, Told, Ended
    <3>2. \A q \in Runs :
            /\ answer[q] # "none" => row[q].linked
            /\ Vouched(q, answer[q])
            /\ answer[q] # "asked"
      BY <2>4, <3>1
    <3> QED
      BY <1>1, <2>6, <2>7, <3>1, <3>2 DEF CopyOK, Vouched, Told
  <2>11. WriterOK(c)' /\ KindOK(c)' /\ LaunchOK(c)'
    BY <1>1, <2>2, <2>6, <2>7, <2>8, <2>9, RunsTypesAre DEF OperatorOK, WriterOK, KindOK, LaunchOK, Vouched, Told
  <2> QED
    BY <1>1, <1>2, <2>7, <2>8, <2>10, <2>11, OnlyRequest DEF OperatorOK
<1> QED
  BY <1>3, <1>4

---------------------------------------------------------------------------------
(* Steps that write. *)

\* What a request that is about to write a row carries to that write.
LEMMA SaveIs ==
  ASSUME NEW c \in Callers, operator \in [Callers -> OperatorType],
         NEW status \in States, NEW linked \in BOOLEAN, NEW refused \in BOOLEAN,
         Save(c, status, linked, refused)
  PROVE  /\ operator' \in [Callers -> OperatorType]
         /\ \A d \in Callers \ {c} : operator'[d] = operator[d]
         /\ operator'[c].step = "save" /\ operator'[c].status = status
         /\ operator'[c].linked = linked /\ operator'[c].refused = refused
         /\ operator'[c].run = operator[c].run
         /\ operator'[c].kind = operator[c].kind
         /\ operator'[c].copy = operator[c].copy
         /\ operator'[c].answer = operator[c].answer
<1> DEFINE next == [operator[c] EXCEPT !.step = "save", !.status = status, !.linked = linked,
                                     !.refused = refused]
<1>0. operator[c] \in OperatorType
  OBVIOUS
<1>1. /\ next \in OperatorType
      /\ next.step = "save" /\ next.run = operator[c].run /\ next.kind = operator[c].kind
      /\ next.status = status /\ next.linked = linked /\ next.refused = refused
      /\ next.copy = operator[c].copy /\ next.answer = operator[c].answer
  <2>1. next \in OperatorType
    BY <1>0 DEF OperatorType, OperatorSteps
  <2>2. /\ next.step = "save" /\ next.status = status /\ next.linked = linked /\ next.refused = refused
        /\ next.run = operator[c].run /\ next.kind = operator[c].kind
    BY <1>0 DEF OperatorType
  <2>3. next.copy = operator[c].copy /\ next.answer = operator[c].answer
    BY <1>0 DEF OperatorType
  <2> QED
    BY <2>1, <2>2, <2>3
<1>2. operator' = [operator EXCEPT ![c] = next]
  BY DEF Save
<1> HIDE DEF next
<1> QED
  BY <1>1, <1>2

\* What a synchronisation knows outlives the end of a job.
LEMMA VouchedStays ==
  ASSUME NEW r \in Runs, NEW status, Vouched(r, status), job[r] \in Ended => job'[r] = job[r]
  PROVE  Vouched(r, status)'
BY DEF Vouched, Told, Ended

\* What may be told of a run as long as only its active job ends.
LEMMA MayTellStays ==
  ASSUME NEW r \in Runs, NEW status, NEW refused, MayTell(r, status, refused),
         job'[r] # job[r] => job[r] = "active" \/ status = "none"
  PROVE  MayTell(r, status, refused)'
BY DEF MayTell, Told, Ended

\* The rows do not change, and no job ends twice.
LEMMA JobsMove ==
  ASSUME RunsInv, UNCHANGED <<row, requests>>, NEW r \in Runs, r <= requests,
         job[r] = "active" \/ (job[r] = "none" /\ row[r] = NoRow),
         NEW state \in {"none"} \cup States, job[r] = "active" => state # "none",
         job' = [job EXCEPT ![r] = state]
  PROVE  /\ job' \in [Runs -> {"none"} \cup States]
         /\ \A q \in Runs : RunOK(q)' /\ (job[q] # "none" => job'[q] # "none")
         /\ \A q \in Runs : job[q] \in Ended => job'[q] = job[q]
         /\ \A q \in Runs \ {r} : job'[q] = job[q]
         /\ job'[r] = state
<1>1. job \in [Runs -> {"none"} \cup States] /\ requests \in Nat
  BY RunsConstants DEF RunsInv, RunsTypes, ProcessTypeOK
<1>2. /\ job' \in [Runs -> {"none"} \cup States]
      /\ \A q \in Runs \ {r} : job'[q] = job[q]
      /\ job'[r] = state
  BY <1>1 DEF States, Ended
<1>3. \A q \in Runs : job[q] \in Ended => job'[q] = job[q]
  BY <1>2 DEF Ended
<1>4. \A q \in Runs : RunOK(q)'
  <2> SUFFICES ASSUME NEW q \in Runs PROVE RunOK(q)'
    OBVIOUS
  <2>1. RunOK(q)
    BY DEF RunsInv
  <2>2. q > requests => q # r
    BY <1>1 DEF Runs
  <2>3. job[q] # "none" => job'[q] # "none"
    BY <1>2
  <2>4. /\ job'[q] # job[q] => job[q] = "active" \/ row[q] = NoRow
        /\ NoRow.status = "none" /\ NoRow.notified = "none"
    BY <1>2 DEF NoRow
  <2>5. /\ MayTell(q, row[q].status, row[q].refused)'
        /\ MayTell(q, row[q].notified, row[q].refused)'
    BY <2>1, <2>4, MayTellStays DEF RunOK
  <2>6. row[q].result => job'[q] \in Ended
    BY <1>3, <2>1 DEF RunOK
  <2> QED
    BY <1>2, <2>1, <2>2, <2>3, <2>5, <2>6 DEF RunOK
<1>5. \A q \in Runs : job[q] # "none" => job'[q] # "none"
  BY <1>2
<1> QED
  BY <1>2, <1>3, <1>4, <1>5

\* The launch: the job may start whatever the answer, and without one.
LEMMA StartJobKeeps ==
  ASSUME RunsInv, NEW c \in Callers, StartJob(c)
  PROVE  RunsInv'
<1>0. PICK r : r = operator[c].run
  OBVIOUS
<1>1. /\ operator[c].step = "launch" /\ UNCHANGED <<row, process>>
      /\ operator[c].kind = "launch" /\ Launching(c)
  BY RunsTypesAre DEF StartJob, OperatorOK, KindOK, Launching
<1>2. /\ r \in Runs /\ r <= requests /\ row[r] = NoRow /\ job[r] = "none"
  BY <1>0, <1>1, RunsTypesAre DEF OperatorOK, LaunchOK
<1>3. ProcessTypeOK' /\ UNCHANGED requests /\ requests <= requests'
  BY <1>1, RunsTypesAre DEF process, ProcessTypeOK
<1>4. PICK state \in {"none"} \cup States, linked \in BOOLEAN :
        /\ linked => state # "none"
        /\ job' = [job EXCEPT ![r] = state]
        /\ \/ \E status \in {"active", IF state = "none" THEN "failed" ELSE state} :
                 Save(c, status, linked, FALSE)
           \/ Save(c, "failed", linked, TRUE)
           \/ Proceed(c, "catch")
  BY <1>0 DEF StartJob, States
<1>5. /\ job' \in [Runs -> {"none"} \cup States]
      /\ \A q \in Runs : RunOK(q)' /\ (job[q] # "none" => job'[q] # "none")
      /\ \A q \in Runs : job[q] \in Ended => job'[q] = job[q]
      /\ \A q \in Runs \ {r} : job'[q] = job[q]
      /\ job'[r] = state
  BY <1>1, <1>2, <1>3, <1>4, JobsMove
<1>6. ASSUME NEW status, NEW refused, operator' \in [Callers -> OperatorType],
             \A d \in Callers \ {c} : operator'[d] = operator[d],
             operator'[c].run = r, operator'[c].kind = "launch",
             operator'[c].copy = operator[c].copy, operator'[c].answer = operator[c].answer,
             operator'[c].step \in {"save", "catch"},
             operator'[c].step = "save" =>
               /\ operator'[c].status = status /\ operator'[c].refused = refused
               /\ MayTell(r, status, refused)'
               /\ operator'[c].linked => job'[r] # "none"
      PROVE  RunsInv'
  <2>1. RunsTypes' /\ Forward({r})
    BY <1>1, <1>3, <1>5, <1>6 DEF RunsInv, RunsTypes, Forward
  <2>2. Launching(c)'
    BY <1>6 DEF Launching
  <2>3. LaunchOK(c)' /\ WriterOK(c)' /\ KindOK(c)'
    <3>1. operator'[c].step = "save" => MayTell(operator[c].run, operator[c].status, operator[c].refused)'
      BY <1>6 DEF MayTell, Told
    <3> QED
      BY <1>1, <1>2, <1>3, <1>6, <2>2, <3>1 DEF LaunchOK, WriterOK, KindOK
  <2>4. \A q \in Runs : operator[c].answer[q] = "none"
    BY <1>1, RunsTypesAre DEF OperatorOK, CopyOK
  <2>5. CopyOK(c)'
    BY <1>6, <2>4 DEF CopyOK, Vouched, Told, Ended
  <2> QED
    BY <1>0, <1>1, <1>3, <1>5, <1>6, <2>1, <2>2, <2>3, <2>5, OperatorMoves DEF OperatorOK
<1>7. ASSUME NEW status \in States, NEW refused \in BOOLEAN, Save(c, status, linked, refused),
             MayTell(r, status, refused)'
      PROVE  RunsInv'
  <2>1. /\ operator' \in [Callers -> OperatorType]
        /\ \A d \in Callers \ {c} : operator'[d] = operator[d]
        /\ operator'[c].step = "save" /\ operator'[c].status = status
        /\ operator'[c].linked = linked /\ operator'[c].refused = refused
        /\ operator'[c].run = operator[c].run
        /\ operator'[c].kind = operator[c].kind
        /\ operator'[c].copy = operator[c].copy
        /\ operator'[c].answer = operator[c].answer
    BY <1>7, SaveIs, RunsTypesAre
  <2> QED
    BY <1>0, <1>1, <1>4, <1>5, <1>6, <1>7, <2>1
<1>8. ASSUME NEW status \in {"active", IF state = "none" THEN "failed" ELSE state},
             Save(c, status, linked, FALSE)
      PROVE  RunsInv'
  <2>1. status \in States /\ MayTell(r, status, FALSE)'
    BY <1>5 DEF MayTell, Told, States, Ended
  <2> QED
    BY <1>7, <1>8, <2>1
<1>9. CASE Save(c, "failed", linked, TRUE)
  <2>1. "failed" \in States /\ MayTell(r, "failed", TRUE)'
    BY DEF MayTell, States, Ended
  <2> QED
    BY <1>7, <1>9, <2>1
<1>10. CASE Proceed(c, "catch")
  <2>1. "catch" \in OperatorSteps
    BY DEF OperatorSteps
  <2> QED
    BY <1>0, <1>1, <1>6, <1>10, <2>1, ProceedIs, RunsTypesAre
<1> QED
  BY <1>4, <1>8, <1>9, <1>10

\* A job that ends by itself.
LEMMA JobEndsKeeps ==
  ASSUME RunsInv, NEW r \in Runs, JobEnds(r)
  PROVE  RunsInv'
<1>1. PICK end \in Ended : job' = [job EXCEPT ![r] = end]
  BY DEF JobEnds
<1>2. job[r] = "active" /\ UNCHANGED <<row, operator, process>>
  BY DEF JobEnds
<1>3. /\ ProcessTypeOK' /\ UNCHANGED requests /\ requests <= requests' /\ requests \in Nat
      /\ requests' \in Nat /\ operator \in [Callers -> OperatorType] /\ row \in [Runs -> RunType]
  BY <1>2, RunsConstants DEF RunsInv, RunsTypes, ProcessTypeOK, process
<1>4. r <= requests
  BY <1>2, <1>3 DEF RunsInv, RunOK, Runs
<1>5. /\ job' \in [Runs -> {"none"} \cup States]
      /\ \A q \in Runs : RunOK(q)' /\ (job[q] # "none" => job'[q] # "none")
      /\ \A q \in Runs : job[q] \in Ended => job'[q] = job[q]
      /\ \A q \in Runs \ {r} : job'[q] = job[q]
  <2>1. end \in States /\ end # "none"
    BY <1>1 DEF States, Ended
  <2> QED
    BY <1>1, <1>2, <1>3, <1>4, <2>1, JobsMove
<1>6. RunsTypes' /\ Forward({})
  BY <1>1, <1>2, <1>3, <1>5 DEF RunsTypes, Forward
<1>7. \A d \in Callers : OperatorOK(d)'
  BY <1>2, <1>3, <1>6, OtherRunsKeep
<1>8. RunAlone'
  BY <1>2 DEF RunsInv, RunAlone, Launching
<1> QED
  BY <1>5, <1>6, <1>7, <1>8 DEF RunsInv

\* The abort of a job: XYOps refuses it, or ends the job.
LEMMA AbortKeeps ==
  ASSUME RunsInv, NEW c \in Callers, AbortJob(c)
  PROVE  RunsInv'
<1> DEFINE r == operator[c].run
<1>1. /\ operator[c].step = "abort" /\ UNCHANGED <<row, process>>
      /\ operator[c].kind = "cancel" /\ ~Launching(c) /\ r \in Runs /\ row[r].linked
  BY RunsTypesAre DEF AbortJob, OperatorOK, KindOK, WriterOK, Launching
<1>2. ProcessTypeOK' /\ UNCHANGED requests /\ requests <= requests'
  BY <1>1, RunsTypesAre DEF process, ProcessTypeOK
<1>3. CASE job' = job /\ Proceed(c, "idle")
  BY <1>1, <1>2, <1>3, ProceedKeeps DEF OperatorSteps
<1>4. CASE ~(job' = job /\ Proceed(c, "idle"))
  <2>1. /\ job[r] = "active" /\ job' = [job EXCEPT ![r] = "cancelled"]
        /\ Save(c, "cancelled", TRUE, FALSE)
    BY <1>4 DEF AbortJob
  <2>2. r <= requests
    BY <1>1, <2>1, RunsTypesAre DEF RunsInv, RunOK, Runs
  <2>3. /\ operator' \in [Callers -> OperatorType]
        /\ \A d \in Callers \ {c} : operator'[d] = operator[d]
        /\ operator'[c].step = "save" /\ operator'[c].status = "cancelled"
        /\ operator'[c].linked /\ operator'[c].run = r
        /\ operator'[c].kind = "cancel" /\ ~operator'[c].refused
        /\ operator'[c].copy = operator[c].copy
        /\ operator'[c].answer = operator[c].answer
    BY <1>1, <2>1, SaveIs, RunsTypesAre DEF States, Ended
  <2> HIDE DEF r
  <2>4. /\ job' \in [Runs -> {"none"} \cup States]
        /\ \A q \in Runs : RunOK(q)' /\ (job[q] # "none" => job'[q] # "none")
        /\ \A q \in Runs : job[q] \in Ended => job'[q] = job[q]
        /\ \A q \in Runs \ {r} : job'[q] = job[q]
        /\ job'[r] = "cancelled"
    <3>1. "cancelled" \in States
      BY DEF States, Ended
    <3> QED
      BY <1>1, <1>2, <2>1, <2>2, <3>1, JobsMove
  <2>5. RunsTypes' /\ Forward({})
    BY <1>1, <1>2, <2>1, <2>3, <2>4 DEF RunsInv, RunsTypes, Forward
  <2>6. ~Launching(c)'
    BY <2>3 DEF Launching
  <2>7. LaunchOK(c)' /\ WriterOK(c)' /\ KindOK(c)'
    BY <1>1, <2>3, <2>4, <2>6 DEF LaunchOK, WriterOK, KindOK, Vouched, Told, Ended
  <2>8. CopyOK(c)'
    <3>1. \A q \in Runs : operator[c].answer[q] = "none"
      BY <1>1, RunsTypesAre DEF OperatorOK, CopyOK
    <3> QED
      BY <2>3, <3>1 DEF CopyOK, Vouched, Told, Ended
  <2> QED
    BY <1>2, <2>3, <2>4, <2>5, <2>6, <2>7, <2>8, OperatorMoves DEF OperatorOK
<1> QED
  BY <1>3, <1>4

\* A row is written by a launch of its own, or was linked already; the request
\* goes on with what it knows.
LEMMA RowMoves ==
  ASSUME RunsInv, NEW c \in Callers, UNCHANGED <<job, process>>,
         NEW r, r = operator[c].run, r \in Runs, Launching(c) \/ row[r].linked,
         NEW new \in RunType, row' = [row EXCEPT ![r] = new],
         row[r].linked => new.linked, row[r].refused => new.refused,
         new.linked => job[r] # "none",
         MayTell(r, new.status, new.refused), MayTell(r, new.notified, new.refused),
         new.result => job[r] \in Ended,
         NEW step \in OperatorSteps, Proceed(c, step),
         step \notin {"launch", "look", "abort", "list"},
         Launching(c) => r <= requests /\ step \in {"idle", "notify", "replay"},
         step \notin {"results", "active", "details", "save"},
         step = "notify" => /\ operator[c].status \in Ended
                            /\ Launching(c) => /\ MayTell(r, operator[c].status, operator[c].refused)
                                               /\ operator[c].refused => new.refused
                            /\ ~Launching(c) => /\ operator[c].linked /\ operator[c].kind # "launch"
                                                /\ Vouched(r, operator[c].status),
         step = "apply" => operator[c].kind = "sync",
         step = "replay" => Launching(c), step # "catch",
         step = "result" => /\ operator[c].kind = "sync" /\ operator[c].linked
                            /\ Vouched(r, operator[c].status) /\ job[r] \in Ended,
         step # "idle" => \A q \in Runs : operator[c].answer[q] # "asked"
  PROVE  RunsInv'
<1>1. /\ row' \in [Runs -> RunType] /\ row'[r] = new
      /\ \A q \in Runs \ {r} : row'[q] = row[q]
  BY RunsTypesAre
<1>2. ProcessTypeOK' /\ UNCHANGED requests /\ requests <= requests' /\ requests \in Nat
  BY RunsTypesAre DEF process, ProcessTypeOK
<1>3. /\ operator' \in [Callers -> OperatorType]
      /\ \A d \in Callers \ {c} : operator'[d] = operator[d]
      /\ operator'[c].step = step
      /\ step = "idle" => operator'[c] = NoOperator
      /\ step # "idle" => /\ operator'[c].run = operator[c].run
                          /\ operator'[c].kind = operator[c].kind
                          /\ operator'[c].status = operator[c].status
                          /\ operator'[c].linked = operator[c].linked
                          /\ operator'[c].refused = operator[c].refused
                          /\ operator'[c].copy = operator[c].copy
                          /\ operator'[c].answer = operator[c].answer
  BY ProceedIs, RunsTypesAre
<1>4. r <= requests
  <2>1. row[r].linked => row[r] # NoRow
    BY DEF NoRow
  <2> QED
    BY <1>2, <2>1 DEF RunsInv, RunOK, Runs
<1>5. \A q \in Runs : RunOK(q)'
  <2> SUFFICES ASSUME NEW q \in Runs PROVE RunOK(q)'
    OBVIOUS
  <2>1. CASE q = r
    BY <1>1, <1>2, <1>4, <2>1 DEF RunOK, MayTell, Told, Runs
  <2>2. CASE q # r
    BY <1>1, <1>2, <2>2 DEF RunsInv, RunOK, MayTell, Told
  <2> QED
    BY <2>1, <2>2
<1> DEFINE launched == IF Launching(c) THEN {r} ELSE {}
<1>6. RunsTypes' /\ Forward(launched)
  BY <1>1, <1>2, <1>3 DEF RunsInv, RunsTypes, Forward
<1>7. CASE step = "idle"
  BY <1>2, <1>3, <1>5, <1>6, <1>7, IdleIsOK, OperatorMoves
<1>8. CASE step # "idle"
  <2>1. \A q \in Runs :
          /\ operator[c].answer[q] # "none" => row[q].linked
          /\ Vouched(q, operator[c].answer[q])
    BY RunsTypesAre DEF OperatorOK, CopyOK
  <2>2. \A q \in Runs : row[q].linked => row'[q].linked
    BY <1>6 DEF Forward
  <2>3. CopyOK(c)'
    BY <1>3, <1>8, <2>1, <2>2 DEF CopyOK, Vouched, Told
  <2>4. Launching(c)' <=> Launching(c)
    BY <1>3, <1>8, RunsTypesAre DEF Launching, OperatorSteps, OperatorOK, KindOK
  <2>5. LaunchOK(c)' /\ WriterOK(c)' /\ KindOK(c)'
    BY <1>1, <1>2, <1>3, <1>8, <2>4, RunsTypesAre
       DEF OperatorOK, LaunchOK, WriterOK, KindOK, Vouched, MayTell, Told, Launching
  <2> QED
    BY <1>2, <1>3, <1>5, <1>6, <1>8, <2>3, <2>4, <2>5, OperatorMoves DEF OperatorOK
<1> QED
  BY <1>7, <1>8

\* What a writer knows of its run.
LEMMA WriterIs ==
  ASSUME RunsInv, NEW c \in Callers, operator[c].step \in {"save", "notify", "result", "catch"}
  PROVE  /\ operator[c].run \in Runs /\ row[operator[c].run] \in RunType
         /\ Launching(c) \/ row[operator[c].run].linked
         /\ Launching(c) => operator[c].run <= requests /\ operator[c].kind = "launch"
         /\ ~Launching(c) => /\ operator[c].linked /\ Vouched(operator[c].run, operator[c].status)
                             /\ operator[c].kind # "launch" /\ ~operator[c].refused
         /\ operator[c].step \in {"save", "notify"} =>
              MayTell(operator[c].run, operator[c].status, operator[c].refused)
         /\ operator[c].status \in {"none"} \cup States /\ operator[c].linked \in BOOLEAN
         /\ operator[c].refused \in BOOLEAN
         /\ row[operator[c].run].result => job[operator[c].run] \in Ended
         /\ row[operator[c].run].linked => job[operator[c].run] # "none"
         /\ MayTell(operator[c].run, row[operator[c].run].status, row[operator[c].run].refused)
         /\ MayTell(operator[c].run, row[operator[c].run].notified, row[operator[c].run].refused)
         /\ operator[c].step # "catch" => \A q \in Runs : operator[c].answer[q] # "asked"
<1>1. operator[c].run \in Runs
  BY RunsTypesAre DEF OperatorOK, LaunchOK, WriterOK, KindOK, Launching
<1>2. RunOK(operator[c].run)
  BY <1>1 DEF RunsInv
<1>3. row[operator[c].run] \in RunType
  BY <1>1, RunsTypesAre
<1>4. operator[c].step # "catch" => \A q \in Runs : operator[c].answer[q] # "asked"
  BY RunsTypesAre DEF OperatorOK, CopyOK
<1>5. /\ operator[c].status \in {"none"} \cup States /\ operator[c].linked \in BOOLEAN
      /\ operator[c].refused \in BOOLEAN
  BY RunsTypesAre DEF OperatorType
<1>6. CASE Launching(c)
  BY <1>1, <1>2, <1>3, <1>4, <1>5, <1>6, RunsTypesAre DEF OperatorOK, LaunchOK, RunOK, Launching
<1>7. CASE ~Launching(c)
  <2>1. operator[c].kind # "launch" /\ operator[c].step # "catch" /\ ~operator[c].refused
    BY <1>7, RunsTypesAre DEF OperatorOK, KindOK, Launching
  <2> QED
    BY <1>1, <1>2, <1>3, <1>4, <1>5, <1>7, <2>1, RunsTypesAre
       DEF OperatorOK, WriterOK, RunOK, Vouched, MayTell, Told
<1> QED
  BY <1>6, <1>7

\* What may be told may be told of a refused run too.
LEMMA MayTellMore ==
  ASSUME NEW r, NEW status, NEW refused, NEW more, refused => more, MayTell(r, status, refused)
  PROVE  MayTell(r, status, more)
BY DEF MayTell

\* The step after a row, or its notification.
LEMMA AfterRowIs ==
  ASSUME RunsInv, NEW c \in Callers, operator[c].step \in {"save", "notify"},
         NEW next \in {"apply", "result"}
  PROVE  /\ AfterRow(c, next) \in {next, "replay", "idle"}
         /\ AfterRow(c, next) = next => operator[c].kind = "sync"
         /\ AfterRow(c, next) = "replay" <=> Launching(c)
BY DEF AfterRow, Launching

\* The write of a whole row, which may come late.
LEMMA SaveKeeps ==
  ASSUME RunsInv, NEW c \in Callers, SaveRow(c)
  PROVE  RunsInv'
<1>1. PICK r : r = operator[c].run
  OBVIOUS
<1>2. PICK step : step = IF operator[c].status \in Ended THEN "notify" ELSE AfterRow(c, "apply")
  OBVIOUS
<1>3. PICK new : new = [row[r] EXCEPT !.status = operator[c].status, !.linked = operator[c].linked,
                                      !.refused = row[r].refused \/ operator[c].refused]
  OBVIOUS
<1>4. operator[c].step = "save" /\ UNCHANGED <<job, process>> /\ Proceed(c, step)
  BY <1>2 DEF SaveRow
<1>5. /\ r \in Runs /\ row[r] \in RunType /\ (Launching(c) \/ row[r].linked)
      /\ MayTell(r, operator[c].status, operator[c].refused)
      /\ MayTell(r, row[r].notified, row[r].refused)
      /\ row[r].result => job[r] \in Ended
      /\ \A q \in Runs : operator[c].answer[q] # "asked"
  BY <1>1, <1>4, WriterIs
<1>6. row' = [row EXCEPT ![r] = new]
  BY <1>1, <1>3, <1>5, RunsTypesAre DEF SaveRow
<1>7. /\ new \in RunType
      /\ new.status = operator[c].status /\ new.linked = operator[c].linked
      /\ new.refused = (row[r].refused \/ operator[c].refused)
      /\ new.notified = row[r].notified /\ new.result = row[r].result
  BY <1>1, <1>3, <1>4, <1>5, WriterIs DEF RunType
<1>8. /\ step \in {"notify", "apply", "replay", "idle"} /\ (step = "notify" => operator[c].status \in Ended)
      /\ step = "apply" => operator[c].kind = "sync"
      /\ step = "replay" => Launching(c)
      /\ Launching(c) => step \in {"notify", "replay"}
  BY <1>2, <1>4, AfterRowIs
<1>9. MayTell(r, new.status, new.refused) /\ MayTell(r, new.notified, new.refused)
  <2>1. (row[r].refused => new.refused) /\ (operator[c].refused => new.refused)
    BY <1>7
  <2> QED
    BY <1>5, <1>7, <2>1, MayTellMore
<1>10. CASE Launching(c)
  <2>1. /\ row[r] = NoRow /\ r <= requests
        /\ operator[c].linked => job[r] # "none"
    BY <1>1, <1>4, <1>10, RunsTypesAre DEF OperatorOK, LaunchOK
  <2>2. ~row[r].linked
    BY <2>1 DEF NoRow
  <2> QED
    BY <1>1, <1>4, <1>5, <1>6, <1>7, <1>8, <1>9, <1>10, <2>1, <2>2, RowMoves DEF OperatorSteps
<1>11. CASE ~Launching(c)
  <2>1. /\ row[r].linked /\ operator[c].linked /\ Vouched(r, operator[c].status)
        /\ operator[c].kind # "launch" /\ job[r] # "none"
    BY <1>1, <1>4, <1>11, WriterIs
  <2> QED
    BY <1>1, <1>4, <1>5, <1>6, <1>7, <1>8, <1>9, <1>11, <2>1, RowMoves DEF OperatorSteps
<1> QED
  BY <1>10, <1>11

\* The one notification of a finished row.
LEMMA NotifyKeeps ==
  ASSUME RunsInv, NEW c \in Callers, NotifyRun(c)
  PROVE  RunsInv'
<1>1. PICK r : r = operator[c].run
  OBVIOUS
<1>2. PICK step : step = AfterRow(c, IF operator[c].status = "cancelled" THEN "apply" ELSE "result")
  OBVIOUS
<1>3. operator[c].step = "notify" /\ UNCHANGED <<job, process>> /\ Proceed(c, step)
  BY <1>2 DEF NotifyRun
<1>4. /\ r \in Runs /\ row[r] \in RunType /\ (Launching(c) \/ row[r].linked)
      /\ operator[c].status \in Ended
      /\ \A q \in Runs : operator[c].answer[q] # "asked"
      /\ Launching(c) => r <= requests
      /\ row[r].result => job[r] \in Ended
      /\ row[r].linked => job[r] # "none"
      /\ MayTell(r, operator[c].status, operator[c].refused)
      /\ MayTell(r, row[r].status, row[r].refused) /\ MayTell(r, row[r].notified, row[r].refused)
  BY <1>1, <1>3, WriterIs, RunsTypesAre DEF OperatorOK, KindOK
<1>5. PICK notified \in {row[r].notified, operator[c].status} :
        row' = [row EXCEPT ![r] = [row[r] EXCEPT !.notified = notified]]
  <2>1. row = [row EXCEPT ![r] = [row[r] EXCEPT !.notified = row[r].notified]]
    BY <1>4, RunsTypesAre DEF RunType
  <2>2. CASE row' = row
    BY <2>1, <2>2
  <2>3. CASE row' = [row EXCEPT ![r].notified =
                       IF row[r].notified = "none" THEN operator[c].status ELSE row[r].notified]
    BY <1>4, <2>3, RunsTypesAre
  <2>4. row' = row \/ row' = [row EXCEPT ![r].notified =
                                IF @ = "none" THEN operator[c].status ELSE @]
    BY <1>1 DEF NotifyRun
  <2> QED
    BY <1>4, <2>2, <2>3, <2>4, RunsTypesAre
<1>6. PICK new : new = [row[r] EXCEPT !.notified = notified]
  OBVIOUS
<1>7. /\ new \in RunType
      /\ new.status = row[r].status /\ new.linked = row[r].linked /\ new.refused = row[r].refused
      /\ new.notified = notified /\ new.result = row[r].result
  BY <1>4, <1>6 DEF RunType
<1>8. /\ step \in {"idle", "apply", "result", "replay"}
      /\ step \in {"apply", "result"} => operator[c].kind = "sync"
      /\ step = "replay" <=> Launching(c)
  BY <1>2, <1>3, AfterRowIs
<1>9. operator[c].refused => row[r].refused
  BY <1>1, <1>3, WriterIs, RunsTypesAre DEF OperatorOK, LaunchOK
<1>10. MayTell(r, new.status, new.refused) /\ MayTell(r, new.notified, new.refused)
  BY <1>4, <1>5, <1>7, <1>9, MayTellMore
<1>11. CASE Launching(c)
  BY <1>1, <1>3, <1>4, <1>5, <1>6, <1>7, <1>8, <1>10, <1>11, RowMoves DEF OperatorSteps
<1>12. CASE ~Launching(c)
  <2>1. /\ row[r].linked /\ operator[c].linked /\ Vouched(r, operator[c].status)
        /\ operator[c].kind # "launch" /\ job[r] \in Ended
    BY <1>1, <1>3, <1>4, <1>12, WriterIs DEF Vouched
  <2> QED
    BY <1>1, <1>3, <1>4, <1>5, <1>6, <1>7, <1>8, <1>10, <1>12, <2>1, RowMoves DEF OperatorSteps
<1> QED
  BY <1>11, <1>12

\* The catch block of a launch writes of a row of its own.
LEMMA CatchKeeps ==
  ASSUME RunsInv, NEW c \in Callers, CatchLaunch(c)
  PROVE  RunsInv'
<1>1. PICK r : r = operator[c].run
  OBVIOUS
<1>2. operator[c].step = "catch" /\ UNCHANGED <<job, process>> /\ Proceed(c, "idle")
  BY DEF CatchLaunch
<1>3. /\ r \in Runs /\ row[r] \in RunType /\ Launching(c) /\ r <= requests
      /\ row[r].result => job[r] \in Ended
      /\ row[r].linked => job[r] # "none"
      /\ MayTell(r, row[r].status, row[r].refused) /\ MayTell(r, row[r].notified, row[r].refused)
  BY <1>1, <1>2, WriterIs, RunsTypesAre DEF OperatorOK, KindOK, Launching
<1>4. PICK new : new = [row[r] EXCEPT !.caught = TRUE]
  OBVIOUS
<1>5. /\ new \in RunType
      /\ new.status = row[r].status /\ new.linked = row[r].linked /\ new.refused = row[r].refused
      /\ new.notified = row[r].notified /\ new.result = row[r].result
  BY <1>3, <1>4 DEF RunType
<1>6. row' = [row EXCEPT ![r] = new]
  BY <1>1, <1>3, <1>4, RunsTypesAre DEF CatchLaunch
<1> QED
  BY <1>1, <1>2, <1>3, <1>5, <1>6, RowMoves DEF OperatorSteps

\* The parameters of a run are stored, or the launch goes to its catch block.
LEMMA LaunchGoesOn ==
  ASSUME RunsInv, NEW c \in Callers, UNCHANGED <<job, row, requests>>, ProcessTypeOK', Launching(c),
         NEW step \in {"idle", "catch"}, Proceed(c, step)
  PROVE  RunsInv'
<1>1. step \in OperatorSteps /\ requests <= requests'
  BY RunsTypesAre DEF OperatorSteps
<1>2. CASE step = "idle"
  BY <1>1, <1>2, ProceedIs, IdleIsOK, OnlyRequest, RunsTypesAre
<1>3. CASE step = "catch"
  <2>1. /\ operator' \in [Callers -> OperatorType]
        /\ \A d \in Callers \ {c} : operator'[d] = operator[d]
        /\ operator'[c].step = "catch" /\ operator'[c].run = operator[c].run
        /\ operator'[c].kind = operator[c].kind
        /\ operator'[c].answer = operator[c].answer
    BY <1>1, <1>3, ProceedIs, RunsTypesAre
  <2>2. Launching(c)' /\ operator[c].kind = "launch"
    BY <2>1 DEF Launching
  <2>3. OperatorOK(c)'
    BY <2>1, <2>2, RunsTypesAre DEF OperatorOK, LaunchOK, WriterOK, CopyOK, KindOK, Vouched, Told
  <2> QED
    BY <1>1, <2>1, <2>2, <2>3, OnlyRequest
<1> QED
  BY <1>2, <1>3

\* The result of a finished job.
LEMMA ResultKeeps ==
  ASSUME RunsInv, NEW c \in Callers, SaveResult(c)
  PROVE  RunsInv'
<1>1. PICK r : r = operator[c].run
  OBVIOUS
<1>2. operator[c].step = "result" /\ UNCHANGED <<job, process>> /\ Proceed(c, "apply")
  BY DEF SaveResult
<1>3. /\ r \in Runs /\ row[r] \in RunType /\ ~Launching(c) /\ row[r].linked
      /\ operator[c].kind = "sync" /\ job[r] \in Ended /\ job[r] # "none"
      /\ MayTell(r, row[r].status, row[r].refused) /\ MayTell(r, row[r].notified, row[r].refused)
      /\ \A q \in Runs : operator[c].answer[q] # "asked"
  BY <1>1, <1>2, WriterIs, RunsTypesAre DEF OperatorOK, KindOK, WriterOK, Launching
<1>4. PICK result \in BOOLEAN : row' = [row EXCEPT ![r] = [row[r] EXCEPT !.result = result]]
  <2>1. row = [row EXCEPT ![r] = [row[r] EXCEPT !.result = row[r].result]] /\ row[r].result \in BOOLEAN
    BY <1>3, RunsTypesAre DEF RunType
  <2> QED
    BY <1>1, <1>3, <2>1, RunsTypesAre DEF SaveResult
<1>5. PICK new : new = [row[r] EXCEPT !.result = result]
  OBVIOUS
<1>6. /\ new \in RunType
      /\ new.status = row[r].status /\ new.linked = row[r].linked /\ new.refused = row[r].refused
      /\ new.notified = row[r].notified
  BY <1>3, <1>5 DEF RunType
<1> QED
  BY <1>1, <1>2, <1>3, <1>4, <1>5, <1>6, RowMoves DEF OperatorSteps

\* A statement that throws ends the request, or leads a launch to its catch block.
LEMMA OperatorThrows ==
  ASSUME RunsInv, NEW c \in Callers, RunThrows(c)
  PROVE  RunsInv'
<1>1. UNCHANGED <<job, row>> /\ ProcessTypeOK' /\ UNCHANGED requests /\ requests <= requests'
  BY RunsTypesAre, ProcessAssumption DEF RunThrows, Fault, ProcessTypeOK
<1>2. CASE Proceed(c, "idle")
  BY <1>1, <1>2, ProceedIs, IdleIsOK, OnlyRequest, RunsTypesAre DEF OperatorSteps
<1>3. CASE /\ operator[c].kind = "launch" /\ operator[c].step \in {"launch", "save", "replay"}
           /\ Proceed(c, "catch")
  BY <1>1, <1>3, LaunchGoesOn DEF Launching
<1> QED
  BY <1>2, <1>3 DEF RunThrows

\* Every statement of a request preserves the invariant.
LEMMA RunStepKeeps ==
  ASSUME RunsInv, NEW c \in Callers, RunStep(c)
  PROVE  RunsInv'
<1>1. CASE LaunchRun(c)
  <2>1. PICK r : r = requests + 1
    OBVIOUS
  <2> QED
    BY <1>1, <2>1, OperatorKeeps DEF LaunchRun
<1>2. CASE (\E r \in 1 .. requests : CancelRun(c, r)) \/ SyncRuns(c)
  BY <1>2, OperatorKeeps DEF CancelRun, SyncRuns
<1>3. CASE SaveReplay(c)
  <2>1. Launching(c)
    BY <1>3, RunsTypesAre DEF SaveReplay, OperatorOK, KindOK, Launching
  <2>2. ProcessTypeOK' /\ UNCHANGED <<job, row, requests>> /\ Proceed(c, "idle")
    BY <1>3, RunsTypesAre DEF SaveReplay, process, ProcessTypeOK
  <2> QED
    BY <2>1, <2>2, LaunchGoesOn
<1> QED
  BY <1>1, <1>2, <1>3, StartJobKeeps, LookKeeps, AbortKeeps, ListKeeps, ListResultsKeeps, FetchActiveKeeps,
     FetchDetailsKeeps, ApplyKeeps, SaveKeeps, NotifyKeeps, ResultKeeps, CatchKeeps, OperatorThrows DEF RunStep

\* Every step of the component preserves the invariant.
LEMMA RunsNextKeeps == RunsInv /\ [RunsNext]_runVars => RunsInv'
<1> SUFFICES ASSUME RunsInv, [RunsNext]_runVars PROVE RunsInv'
  OBVIOUS
<1>1. CASE UNCHANGED runVars
  BY <1>1 DEF runVars, process, RunsInv, RunsTypes, ProcessTypeOK, RunOK, MayTell, Told, Vouched, RunAlone, Launching,
     OperatorOK, LaunchOK, WriterOK, CopyOK, KindOK
<1> QED
  BY <1>1, RunStepKeeps, JobEndsKeeps DEF RunsNext

---------------------------------------------------------------------------------

\* What the log says is over is over, of runs with the identifier of a job and
\* without: launches, stops, synchronisations and late or missing answers of
\* XYOps never finish the row of a running job, unless the launch was answered
\* with an error, give it the success of another one, or store a result before
\* the end.
THEOREM FinishedMeansEnded == RunsSpec => []FinishedRunFinishedJob
<1>1. RunsSpec => []RunsInv
  BY RunsInvHolds, RunsNextKeeps, PTL DEF RunsSpec
<1>2. RunsInv => FinishedRunFinishedJob
  <2> SUFFICES ASSUME RunsInv, NEW r \in Runs
               PROVE  /\ {row[r].status, row[r].notified} \cap Ended # {} => row[r].refused \/ job[r] # "active"
                      /\ "success" \in {row[r].status, row[r].notified} => job[r] = "success"
                      /\ row[r].result => job[r] \in Ended
    BY DEF FinishedRunFinishedJob
  <2> QED
    BY DEF RunsInv, RunOK, MayTell, Told
<1> QED
  BY <1>1, <1>2, PTL

\* Type correctness of the runs.
THEOREM RunsAreTyped == RunsSpec => [](ProcessTypeOK /\ RunsTypeOK)
<1>1. RunsSpec => []RunsInv
  BY RunsInvHolds, RunsNextKeeps, PTL DEF RunsSpec
<1>2. RunsInv => ProcessTypeOK /\ RunsTypeOK
  BY DEF RunsInv, RunsTypes, RunType, States, OperatorType, OperatorSteps, RunsTypeOK
<1> QED
  BY <1>1, <1>2, PTL
=======================================================================================
