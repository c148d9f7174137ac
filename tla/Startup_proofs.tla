----------------------------- MODULE Startup_proofs -----------------------------
(***************************************************************************)
(* Theorems about how the portal starts, for any number of clients and     *)
(* callers: RuntimeLifecycle, whose database outlives the work that uses   *)
(* it, and SchemaMigration, for any registry of migrations, whose rows     *)
(* tell the truth about the schema whatever crashed and whoever took the   *)
(* lock.                                                                   *)
(***************************************************************************)
EXTENDS RuntimeLifecycle, SchemaMigration, TLAPS

Starting == {"gateway", "database", "http"}
Serving == {"scheduler", "ready"}
Undoing == {"undoHttp", "undoDrain", "undoDatabase", "undoGateway", "failed"}
Drains == {"drainHttp", "undoDrain"}
\* The server is closed: its connections and tasks were waited for.
ServerClosed == {"stopScheduler", "closeGateway", "closeDatabase", "stopped",
                 "undoDatabase", "undoGateway", "failed"}
Phases == Starting \cup Serving \cup {"closeHttp", "drainHttp"} \cup ServerClosed
            \cup {"undoHttp", "undoDrain"}

HandlerType ==
  [step : {"idle", "fetch", "drain"}, client : {"none", "waiting", "answered", "left"},
   task : BOOLEAN]

\* What is open at each step of the start and of the two ways to stop.
OpenOK ==
  /\ phase = "gateway" => open = {}
  /\ phase = "database" => open = {"gateway"}
  /\ phase \in {"http", "stopScheduler", "closeGateway", "undoDatabase"}
       => open = {"gateway", "database"}
  /\ phase \in Serving \cup {"closeHttp", "undoHttp"} \cup Drains
       => open = {"gateway", "database", "http"}
  /\ phase = "closeDatabase" => "database" \in open /\ open \subseteq {"database"} \cup failed
  /\ phase = "undoGateway" => open \subseteq {"gateway"} \cup failed
  /\ phase \in {"stopped", "failed"} => open \subseteq failed

\* What a client's handler still does: nothing before the server is open; with
\* the connections closed, only for a client that left; and a task for another
\* one is waited for until the server is closed.
HandlerOK(c) ==
  /\ phase \in Starting => handler[c].step = "idle" /\ ~handler[c].task
  /\ handler[c].step = "fetch" => handler[c].client \in {"waiting", "left"}
  /\ Waiting(c) => handler[c].step = "fetch"
  /\ phase \in Drains \cup ServerClosed => ~Waiting(c)
  /\ phase \in Drains /\ handler[c].task /\ handler[c].client # "left" => c \in draining
  /\ phase \in ServerClosed /\ handler[c].task => handler[c].client = "left"

SchedulerOK ==
  /\ phase \in Starting \cup Undoing \cup {"scheduler", "closeGateway", "closeDatabase", "stopped"}
       => scheduler = "off"

LifeInv ==
  /\ phase \in Phases
  /\ handler \in [Callers -> HandlerType]
  /\ OpenOK
  /\ \A c \in Callers : HandlerOK(c)
  /\ SchedulerOK

---------------------------------------------------------------------------------

\* The counters stay within their bounds, whatever a step does to them.
LEMMA LifeCountersMove ==
  ASSUME ProcessTypeOK, UNCHANGED process \/ Arrive \/ Fault \/ Die \/ Tick
  PROVE  ProcessTypeOK'
BY ProcessAssumption DEF ProcessTypeOK, process, Arrive, Fault, Die, Tick

\* The invariant holds at the start.
LEMMA LifeInvHolds == LifeInit => LifeInv
<1> SUFFICES ASSUME LifeInit PROVE LifeInv
  OBVIOUS
<1>1. NoHandler \in HandlerType /\ NoHandler.step = "idle" /\ ~NoHandler.task
      /\ NoHandler.client = "none"
  BY DEF NoHandler, HandlerType
<1>2. phase = "gateway" /\ handler = [c \in Callers |-> NoHandler]
      /\ open = {} /\ scheduler = "off"
  BY DEF LifeInit
<1> HIDE DEF NoHandler
<1> QED
  BY <1>1, <1>2 DEF LifeInv, OpenOK, HandlerOK, SchedulerOK, Waiting, Phases, Starting, Serving,
     Drains, ServerClosed, Undoing

\* The invariant does not look at the counters and at what failed more.
LEMMA NothingMoves ==
  ASSUME LifeInv, UNCHANGED <<phase, open, failed, handler, scheduler, draining>>
  PROVE  LifeInv'
BY DEF LifeInv, OpenOK, HandlerOK, SchedulerOK, Waiting

\* A step of one client's handler.
LEMMA HandlerMoves ==
  ASSUME LifeInv, NEW c \in Callers, UNCHANGED <<phase, open, failed, scheduler>>,
         NEW next \in HandlerType, handler' = [handler EXCEPT ![c] = next],
         \A d \in Callers \ {c} : d \in draining => d \in draining',
         HandlerOK(c)'
  PROVE  LifeInv'
<1>1. /\ handler' \in [Callers -> HandlerType]
      /\ \A d \in Callers \ {c} : handler'[d] = handler[d]
  BY DEF LifeInv
<1>2. \A d \in Callers \ {c} : HandlerOK(d)'
  BY <1>1 DEF LifeInv, HandlerOK, Waiting
<1>3. OpenOK' /\ SchedulerOK' /\ phase' \in Phases
  BY DEF LifeInv, OpenOK, SchedulerOK
<1> QED
  BY <1>1, <1>2, <1>3 DEF LifeInv

\* Requests, clients that leave, and background tasks.
LEMMA ClientKeeps ==
  ASSUME LifeInv, NEW c \in Callers,
         \/ ClientCalls(c) \/ ClientLeaves(c) \/ WaitUntil(c)
         \/ Respond(c) \/ TaskEnds(c) \/ Drained(c)
  PROVE  LifeInv'
<1>1. handler \in [Callers -> HandlerType] /\ handler[c] \in HandlerType /\ HandlerOK(c)
  BY DEF LifeInv
<1>2. CASE ClientCalls(c)
  <2> DEFINE next == [step |-> "fetch", client |-> "waiting", task |-> FALSE]
  <2>1. /\ next \in HandlerType
        /\ next.step = "fetch" /\ next.client = "waiting" /\ ~next.task
    BY DEF HandlerType
  <2>2. /\ handler' = [handler EXCEPT ![c] = next] /\ phase \in Serving
        /\ UNCHANGED <<phase, open, failed, scheduler, draining>>
    BY <1>2 DEF ClientCalls, Serving
  <2> HIDE DEF next
  <2>3. HandlerOK(c)'
    BY <1>1, <2>1, <2>2 DEF HandlerOK, Waiting, Serving, Starting, Drains, ServerClosed
  <2> QED
    BY <2>1, <2>2, <2>3, HandlerMoves
<1>3. CASE ClientLeaves(c)
  <2> DEFINE next == [handler[c] EXCEPT !.client = "left"]
  <2>1. /\ next \in HandlerType
        /\ next.step = handler[c].step /\ next.client = "left" /\ next.task = handler[c].task
    BY <1>1 DEF HandlerType
  <2>2. /\ handler' = [handler EXCEPT ![c] = next] /\ Waiting(c)
        /\ UNCHANGED <<phase, open, failed, scheduler, draining>>
    BY <1>3 DEF ClientLeaves
  <2> HIDE DEF next
  <2>3. HandlerOK(c)'
    BY <1>1, <2>1, <2>2 DEF HandlerOK, Waiting
  <2> QED
    BY <2>1, <2>2, <2>3, HandlerMoves
<1>4. CASE WaitUntil(c)
  <2> DEFINE next == [handler[c] EXCEPT !.task = TRUE]
  <2>1. /\ next \in HandlerType
        /\ next.step = handler[c].step /\ next.client = handler[c].client /\ next.task
    BY <1>1 DEF HandlerType
  <2>2. /\ handler' = [handler EXCEPT ![c] = next] /\ handler[c].step = "fetch"
        /\ UNCHANGED <<phase, open, failed, scheduler, draining>>
    BY <1>4 DEF WaitUntil
  <2> HIDE DEF next
  <2>3. HandlerOK(c)'
    BY <1>1, <2>1, <2>2 DEF HandlerOK, Waiting
  <2> QED
    BY <2>1, <2>2, <2>3, HandlerMoves
<1>5. CASE Respond(c)
  <2> DEFINE to == IF Waiting(c) THEN "answered" ELSE handler[c].client
             next == [handler[c] EXCEPT !.step = "drain", !.client = to]
  <2>1. to \in {"none", "answered", "left"} /\ (to # "left" => Waiting(c))
    BY <1>1, <1>5 DEF HandlerType, HandlerOK, Waiting, Respond
  <2>2. handler' = [handler EXCEPT ![c] = next]
    BY <1>1, <1>5 DEF Respond
  <2> HIDE DEF to
  <2>3. /\ next \in HandlerType
        /\ next.step = "drain" /\ next.client = to /\ next.task = handler[c].task
    BY <1>1, <2>1 DEF HandlerType
  <2>4. UNCHANGED <<phase, open, failed, scheduler, draining>> /\ handler[c].step = "fetch"
    BY <1>5 DEF Respond
  <2> HIDE DEF next
  <2>5. handler'[c] = next
    BY <1>1, <2>2
  <2>6. HandlerOK(c)'
    BY <1>1, <2>1, <2>3, <2>4, <2>5 DEF HandlerOK, Waiting, Starting
  <2> QED
    BY <2>2, <2>3, <2>4, <2>6, HandlerMoves
<1>6. CASE TaskEnds(c)
  <2> DEFINE next == [handler[c] EXCEPT !.task = FALSE]
  <2>1. /\ next \in HandlerType
        /\ next.step = handler[c].step /\ next.client = handler[c].client /\ ~next.task
    BY <1>1 DEF HandlerType
  <2>2. /\ handler' = [handler EXCEPT ![c] = next] /\ draining' = draining \ {c}
        /\ UNCHANGED <<phase, open, failed, scheduler>>
    BY <1>6 DEF TaskEnds
  <2> HIDE DEF next
  <2>3. HandlerOK(c)'
    BY <1>1, <2>1, <2>2 DEF HandlerOK, Waiting
  <2> QED
    BY <2>1, <2>2, <2>3, HandlerMoves
<1>7. CASE Drained(c)
  <2>1. /\ NoHandler \in HandlerType
        /\ NoHandler.step = "idle" /\ NoHandler.client = "none" /\ ~NoHandler.task
    BY DEF NoHandler, HandlerType
  <2>2. /\ handler' = [handler EXCEPT ![c] = NoHandler]
        /\ UNCHANGED <<phase, open, failed, scheduler, draining>>
    BY <1>7 DEF Drained
  <2>3. HandlerOK(c)'
    BY <1>1, <2>1, <2>2 DEF HandlerOK, Waiting
  <2> QED
    BY <2>1, <2>2, <2>3, HandlerMoves
<1> QED
  BY <1>2, <1>3, <1>4, <1>5, <1>6, <1>7

\* A step of the process, which takes no part in the handlers.
LEMMA PhaseMoves ==
  ASSUME LifeInv, UNCHANGED handler, phase' \in Phases, OpenOK', SchedulerOK',
         phase' \in Starting => phase \in Starting,
         phase' \in Drains \cup ServerClosed => \/ phase \in Starting \cup ServerClosed
                                                \/ phase \in Drains /\ draining = {}
                                                \/ \A c \in Callers : ~Waiting(c),
         phase' \in Drains /\ phase \notin Starting =>
           draining' = {c \in Callers : handler[c].task},
         phase' \in ServerClosed => \/ phase \in Starting \cup ServerClosed
                                    \/ phase \in Drains /\ draining = {}
                                    \/ \A c \in Callers : ~handler[c].task
  PROVE  LifeInv'
<1> SUFFICES ASSUME NEW c \in Callers PROVE HandlerOK(c)'
  BY DEF LifeInv
<1>1. HandlerOK(c) /\ handler[c] \in HandlerType
  BY DEF LifeInv
<1>2. phase \in Starting => ~handler[c].task /\ ~Waiting(c)
  BY <1>1 DEF HandlerOK
<1> QED
  BY <1>1, <1>2 DEF HandlerOK, Waiting, Drains, ServerClosed, Starting

\* The start of the process, also one whose step throws.
LEMMA StartKeeps ==
  ASSUME LifeInv, \/ \E r \in {"gateway", "database", "http"} : OpenResource(r)
                  \/ StartScheduler \/ StartFails
  PROVE  LifeInv'
<1>1. CASE \E r \in {"gateway", "database", "http"} : OpenResource(r)
  <2>1. PICK r \in {"gateway", "database", "http"} : OpenResource(r)
    BY <1>1
  <2>2. /\ phase = r /\ open' = open \cup {r}
        /\ UNCHANGED <<handler, scheduler, failed>>
        /\ phase' = CASE r = "gateway" -> "database" [] r = "database" -> "http"
                      [] r = "http" -> "scheduler"
    BY <2>1 DEF OpenResource, NextStart
  <2>3. OpenOK' /\ SchedulerOK' /\ phase' \in Phases
    BY <2>2 DEF LifeInv, OpenOK, SchedulerOK, Phases, Starting, Serving, Drains, ServerClosed, Undoing
  <2> QED
    BY <2>2, <2>3, PhaseMoves DEF Starting, Drains, ServerClosed
<1>2. CASE StartScheduler
  <2>1. phase = "scheduler" /\ phase' = "ready" /\ UNCHANGED <<open, failed, handler>>
    BY <1>2 DEF StartScheduler
  <2>2. OpenOK' /\ SchedulerOK' /\ phase' \in Phases
    BY <2>1 DEF LifeInv, OpenOK, SchedulerOK, Phases, Starting, Serving, Drains, ServerClosed, Undoing
  <2> QED
    BY <2>1, <2>2, PhaseMoves DEF Starting, Drains, ServerClosed
<1>3. CASE StartFails
  <2>1. /\ phase \in Starting \cup {"scheduler"}
        /\ open' = IF phase = "http" THEN open \ {"database"} ELSE open
        /\ phase' = IF phase = "scheduler" THEN "undoHttp" ELSE "undoGateway"
        /\ UNCHANGED <<handler, scheduler, failed>>
    BY <1>3 DEF StartFails, Starting
  <2>2. OpenOK' /\ SchedulerOK' /\ phase' \in Phases
    BY <2>1 DEF LifeInv, OpenOK, SchedulerOK, Phases, Starting, Serving, Drains, ServerClosed, Undoing
  <2> QED
    BY <2>1, <2>2, PhaseMoves DEF Starting, Drains, ServerClosed
<1> QED
  BY <1>1, <1>2, <1>3

\* The timer and its run.
LEMMA TimerKeeps ==
  ASSUME LifeInv, TimerFires \/ ScheduledRunEnds \/ StopSignal \/ StopScheduler
  PROVE  LifeInv'
<1>1. CASE TimerFires \/ ScheduledRunEnds
  <2>1. /\ UNCHANGED <<phase, open, failed, handler, draining>>
        /\ phase = "ready" \/ scheduler = "running"
    BY <1>1 DEF TimerFires, ScheduledRunEnds
  <2>2. SchedulerOK'
    BY <2>1 DEF LifeInv, SchedulerOK, Starting, Undoing
  <2>3. OpenOK' /\ \A c \in Callers : HandlerOK(c)'
    BY <2>1 DEF LifeInv, OpenOK, HandlerOK, Waiting
  <2> QED
    BY <2>1, <2>2, <2>3 DEF LifeInv
<1>2. CASE StopSignal \/ StopScheduler
  <2>1. /\ \/ phase = "ready" /\ phase' = "closeHttp" /\ scheduler' = scheduler
           \/ phase = "stopScheduler" /\ phase' = "closeGateway" /\ scheduler' = "off"
        /\ UNCHANGED <<open, failed, handler>>
    BY <1>2 DEF StopSignal, StopScheduler
  <2>2. OpenOK' /\ SchedulerOK' /\ phase' \in Phases
    BY <2>1 DEF LifeInv, OpenOK, SchedulerOK, Phases, Starting, Serving, Drains, ServerClosed, Undoing
  <2> QED
    BY <2>1, <2>2, PhaseMoves DEF Starting, Drains, ServerClosed
<1> QED
  BY <1>1, <1>2

\* The server stops listening, then its connections and tasks are waited for.
LEMMA CloseHttpKeeps ==
  ASSUME LifeInv, CloseHttp \/ DrainHttp
  PROVE  LifeInv'
<1>1. CASE CloseHttp
  <2>1. /\ phase \in {"closeHttp", "undoHttp"} /\ \A c \in Callers : ~Waiting(c)
        /\ draining' = {c \in Callers : handler[c].task}
        /\ phase' = IF phase = "closeHttp" THEN "drainHttp" ELSE "undoDrain"
        /\ UNCHANGED <<open, failed, handler, scheduler>>
    BY <1>1 DEF CloseHttp
  <2>2. OpenOK' /\ SchedulerOK' /\ phase' \in Phases
    BY <2>1 DEF LifeInv, OpenOK, SchedulerOK, Phases, Starting, Serving, Drains, ServerClosed, Undoing
  <2> QED
    BY <2>1, <2>2, PhaseMoves DEF Starting, Drains, ServerClosed
<1>2. CASE DrainHttp
  <2>1. /\ phase \in Drains /\ draining = {}
        /\ open' = open \ {"http"}
        /\ phase' = IF phase = "drainHttp" THEN "stopScheduler" ELSE "undoDatabase"
        /\ UNCHANGED <<failed, handler, scheduler>>
    BY <1>2 DEF DrainHttp, Drains
  <2>2. OpenOK' /\ SchedulerOK' /\ phase' \in Phases
    BY <2>1 DEF LifeInv, OpenOK, SchedulerOK, Phases, Starting, Serving, Drains, ServerClosed, Undoing
  <2> QED
    BY <2>1, <2>2, PhaseMoves DEF Starting, Drains, ServerClosed
<1> QED
  BY <1>1, <1>2

\* A cleanup that throws leaves its resource open, and is kept as failed.
LEMMA CleanupKeeps ==
  ASSUME LifeInv, CloseResource \/ CleanupFails
  PROVE  LifeInv'
<1>1. /\ phase \in {"closeGateway", "closeDatabase", "undoDatabase", "undoGateway"}
      /\ Closed[phase] = CASE phase \in {"closeGateway", "undoGateway"} -> "gateway"
                           [] phase \in {"closeDatabase", "undoDatabase"} -> "database"
      /\ phase' = CASE phase = "closeGateway" -> "closeDatabase"
                    [] phase = "closeDatabase" -> "stopped"
                    [] phase = "undoDatabase" -> "undoGateway"
                    [] phase = "undoGateway" -> "failed"
      /\ UNCHANGED <<handler, scheduler>>
  BY DEF CloseResource, CleanupFails, NextStop, Closed
<1>2. \/ open' = open \ {Closed[phase]} /\ failed' = failed
      \/ open' = open /\ failed' = failed \cup {Closed[phase]}
  BY DEF CloseResource, CleanupFails
<1>3. OpenOK'
  BY <1>1, <1>2 DEF LifeInv, OpenOK, Phases, Starting, Serving, Drains, ServerClosed
<1>4. SchedulerOK' /\ phase' \in Phases
  BY <1>1 DEF LifeInv, SchedulerOK, Phases, Starting, ServerClosed, Undoing
<1> QED
  BY <1>1, <1>3, <1>4, PhaseMoves DEF Starting, Drains, ServerClosed

\* Every step of the component preserves the invariant.
LEMMA LifeNextKeeps == LifeInv /\ [LifeNext]_lifeVars => LifeInv'
<1> SUFFICES ASSUME LifeInv, [LifeNext]_lifeVars PROVE LifeInv'
  OBVIOUS
<1>1. CASE UNCHANGED lifeVars
  BY <1>1, NothingMoves DEF lifeVars
<1> QED
  BY <1>1, StartKeeps, ClientKeeps, TimerKeeps, CloseHttpKeeps, CleanupKeeps DEF LifeNext

---------------------------------------------------------------------------------

\* Without its database the process is starting, or has closed its server and
\* stopped its scheduler.
LEMMA ClosedIsQuiet == LifeInv => DatabaseOutlivesWork
<1> SUFFICES ASSUME LifeInv PROVE DatabaseOutlivesWork
  OBVIOUS
<1>1. phase \in {"stopped", "failed"} => open \subseteq failed
  BY DEF LifeInv, OpenOK
<1>2. ASSUME "database" \notin open
      PROVE  phase \in {"gateway", "database", "stopped", "undoGateway", "failed"}
  BY <1>2 DEF LifeInv, OpenOK, Phases, Starting, Serving, Drains, ServerClosed
<1>3. ASSUME "database" \notin open
      PROVE  scheduler # "running"
  BY <1>2, <1>3 DEF LifeInv, SchedulerOK, Starting, Undoing
<1>4. ASSUME "database" \notin open, NEW c \in Callers, handler[c].step = "fetch" \/ handler[c].task
      PROVE  handler[c].client = "left"
  <2>1. HandlerOK(c) /\ phase \in ServerClosed
    BY <1>2, <1>4 DEF LifeInv, HandlerOK, Starting, ServerClosed
  <2> QED
    BY <1>4, <2>1 DEF HandlerOK, Waiting
<1> QED
  BY <1>1, <1>3, <1>4 DEF DatabaseOutlivesWork

\* The server is closed, its connections and tasks waited for and the scheduler
\* stopped before the database is closed, whichever step of the start or of the
\* cleanup throws; what stays open at the end is what could not be closed.
THEOREM WorkEndsBeforeDatabase == LifeSpec => []DatabaseOutlivesWork
<1>1. LifeSpec => []LifeInv
  BY LifeInvHolds, LifeNextKeeps, PTL DEF LifeSpec
<1> QED
  BY <1>1, ClosedIsQuiet, PTL

\* What the invariant of the phases leaves open of the types.
LifeTypes ==
  /\ ProcessTypeOK
  /\ open \subseteq {"gateway", "database", "http"}
  /\ failed \subseteq {"gateway", "database"}
  /\ scheduler \in {"off", "waiting", "running"}
  /\ draining \subseteq Callers

LEMMA LifeStepIsTyped ==
  ASSUME LifeTypes, [LifeNext]_lifeVars
  PROVE  LifeTypes'
<1> USE DEF LifeTypes
<1>1. CASE UNCHANGED lifeVars
  BY <1>1, LifeCountersMove DEF lifeVars
<1>2. CASE (\E r \in {"gateway", "database", "http"} : OpenResource(r)) \/ StartScheduler \/ StartFails
  BY <1>2, LifeCountersMove DEF OpenResource, StartScheduler, StartFails
<1>3. ASSUME NEW c \in Callers, \/ ClientCalls(c) \/ ClientLeaves(c) \/ WaitUntil(c)
                                \/ Respond(c) \/ TaskEnds(c) \/ Drained(c)
      PROVE  LifeTypes'
  BY <1>3, LifeCountersMove DEF ClientCalls, ClientLeaves, WaitUntil, Respond, TaskEnds, Drained
<1>4. CASE TimerFires \/ ScheduledRunEnds \/ StopSignal \/ StopScheduler
  BY <1>4, LifeCountersMove DEF TimerFires, ScheduledRunEnds, StopSignal, StopScheduler
<1>5. CASE CloseHttp \/ DrainHttp
  BY <1>5, LifeCountersMove DEF CloseHttp, DrainHttp
<1>6. CASE CloseResource
  BY <1>6, LifeCountersMove DEF CloseResource
<1>7. CASE CleanupFails
  <2>1. Closed[phase] \in {"gateway", "database"}
    BY <1>7 DEF CleanupFails, NextStop, Closed
  <2> QED
    BY <1>7, <2>1, LifeCountersMove DEF CleanupFails
<1> QED
  BY <1>1, <1>2, <1>3, <1>4, <1>5, <1>6, <1>7 DEF LifeNext

\* Type correctness of the runtime: what is open, what could not be closed, and
\* the handlers of the clients.
THEOREM LifeIsTyped == LifeSpec => [](ProcessTypeOK /\ LifeTypeOK)
<1>1. LifeSpec => []LifeInv
  BY LifeInvHolds, LifeNextKeeps, PTL DEF LifeSpec
<1>2. LifeInit => LifeTypes
  BY ProcessAssumption DEF LifeInit, LifeTypes, ProcessInit, ProcessTypeOK
<1>3. LifeTypes /\ [LifeNext]_lifeVars => LifeTypes'
  BY LifeStepIsTyped
<1>4. LifeInv /\ LifeTypes => ProcessTypeOK /\ LifeTypeOK
  BY DEF LifeInv, LifeTypes, LifeTypeOK, Phases, Starting, Serving, ServerClosed, HandlerType, NextStop
<1> QED
  BY <1>1, <1>2, <1>3, <1>4, PTL DEF LifeSpec

---------------------------------------------------------------------------------
(* Migrations: the inductive invariant. *)

\* The steps between the acquisition of the lock and its release, the first of
\* them, and those of a planned apply.
Held == Acquired \cup {"failing", "marking", "release"}
Batches == {"open", "tables", "guard", "commit"}
Early ==
  {"prepare", "plan", "previous", "load", "acquire", "insert", "journal", "locked", "begin"}
Planned == {"previous", "acquire", "insert", "locked", "begin"} \cup Migrating

Upto(n) == 1 .. n \subseteq journal

\* What a request knows of itself,
MigratorOK(c) ==
  LET r == migrator[c]
  IN /\ r.step # "idle" => r.id \in 1 .. requests
     /\ r.step \in {"prepare", "journal"} => r.kind = "ensure"
     /\ r.step \in {"plan", "previous", "locked", "begin", "final", "complete", "failing", "marking"}
          => r.kind = "apply"
     /\ r.step \in {"load", "classify", "mark"} => r.kind = "reconcile"
     /\ r.step \in Batches \cup {"confirm"} => r.kind # "reconcile"

\* ... of the journal, which only grows,
JournalOK(c) ==
  LET r == migrator[c]
  IN /\ r.kind = "apply" /\ r.step \in Planned => r.from \in Automatic .. Latest - 1 /\ Upto(r.from)
     /\ r.step \in Batches => r.version \in 1 .. Last(r.kind) /\ Upto(r.version - 1)
     /\ r.step = "confirm" => r.version \in 1 .. Last(r.kind) /\ Upto(r.version)
     /\ r.step = "complete" => journal = Versions
     /\ r.step = "mark" /\ r.verdict = "reconciled" => journal = Versions
     /\ r.kind = "apply" /\ r.step # "idle" => closed # "inactive" \/ journal = Versions

\* ... of the operation: nobody has seen one with its number before it begins it,
RowOK(c) ==
  LET r == migrator[c]
  IN /\ r.row.id <= requests
     /\ operation.id = r.row.id => operation.from = r.row.from
     /\ r.step \in Migrating \cup {"failing"} /\ operation.id = r.id => operation.from = r.from
     /\ r.step \in Early =>
          operation.id # r.id /\ \A d \in Callers : migrator[d].row.id # r.id

\* ... and of the lock it lost.
LateOK(c) ==
  LET r == migrator[c]
  IN /\ r.late \in {0, 1}
     /\ r.step \notin {"guard", "confirm", "failing", "marking", "release"} => r.late = 0
     /\ r.step \in {"guard", "confirm"} /\ r.late = 1 => lock.owner # r.id

OperationOK ==
  /\ operation.id <= requests /\ (operation.id = 0 => operation.from = 0)
  /\ operation.from + operation.applied <= Latest
  /\ Upto(operation.from + operation.applied)
  /\ operation.state # "none" => Automatic <= operation.from
  /\ operation.state \in {"succeeded", "reconciled"} => journal = Versions

\* While the lock excludes the others, what its owner found stays as it is.
AloneOK(c) ==
  LET r == migrator[c]
  IN /\ r.step \in Held => lock.owner = r.id
     /\ r.kind = "apply" /\ r.step \in Migrating => operation.state = "running" /\ operation.id = r.id
     /\ r.kind = "apply" /\ r.step \in Batches => operation.applied = r.version - r.from - 1
     /\ r.kind = "apply" /\ r.step = "confirm" => operation.applied = r.version - r.from
     /\ r.step = "begin" => journal = 1 .. r.from
     /\ r.step = "mark" /\ r.verdict = "interrupted" => journal = 1 .. r.row.from
ProgressOK ==
  /\ operation.state = "running" => journal = 1 .. (operation.from + operation.applied)
  /\ operation.state = "interrupted" => journal = 1 .. operation.from

Distinct ==
  \A c, d \in Callers : c # d /\ migrator[c].step # "idle" /\ migrator[d].step # "idle"
    => migrator[c].id # migrator[d].id

MigrationInv ==
  /\ MigrationTypeOK
  /\ \E n \in 0 .. Latest : journal = 1 .. n
  /\ Distinct /\ OperationOK
  /\ \A c \in Callers : MigratorOK(c) /\ JournalOK(c) /\ RowOK(c) /\ LateOK(c)
  /\ ~stolen => ProgressOK /\ \A c \in Callers : AloneOK(c)

Local(c) ==
  MigratorOK(c) /\ JournalOK(c) /\ RowOK(c) /\ LateOK(c) /\ (~stolen => AloneOK(c))

MigratorSteps ==
  Acquired \cup {"idle", "prepare", "plan", "previous", "load", "acquire", "insert", "failing",
                 "marking", "release"}
MigratorRow ==
  [step : MigratorSteps, kind : {"ensure", "apply", "reconcile"}, id : 0 .. MaxRequests,
   tries : 0 .. Attempts - 1, at : 0 .. MaxTime, from : 0 .. Latest,
   version : 0 .. Latest, row : OperationRow,
   verdict : {"none", "reconciled", "interrupted", "restore"}, late : Nat]

---------------------------------------------------------------------------------
(* What the invariant says of the parts. *)

LEMMA MigratorIs ==
  ASSUME MigrationTypeOK, NEW c \in Callers
  PROVE  /\ migrator \in [Callers -> MigratorRow] /\ migrator[c] \in MigratorRow
         /\ migrator[c].step \in MigratorSteps /\ migrator[c].kind \in {"ensure", "apply", "reconcile"}
         /\ migrator[c].id \in 0 .. MaxRequests /\ migrator[c].id \in Nat
         /\ migrator[c].tries \in 0 .. Attempts - 1 /\ migrator[c].at \in 0 .. MaxTime
         /\ migrator[c].from \in 0 .. Latest /\ migrator[c].version \in 0 .. Latest
         /\ migrator[c].from \in Nat /\ migrator[c].version \in Nat
         /\ migrator[c].row \in OperationRow /\ migrator[c].late \in Nat
         /\ migrator[c].row.id \in Nat /\ migrator[c].row.from \in Nat
<1>1. migrator \in [Callers -> MigratorRow]
  BY DEF MigrationTypeOK, MigratorRow, MigratorSteps
<1>2. migrator[c] \in MigratorRow
  BY <1>1
<1>3. /\ migrator[c].step \in MigratorSteps /\ migrator[c].kind \in {"ensure", "apply", "reconcile"}
      /\ migrator[c].id \in 0 .. MaxRequests
      /\ migrator[c].tries \in 0 .. Attempts - 1 /\ migrator[c].at \in 0 .. MaxTime
      /\ migrator[c].from \in 0 .. Latest /\ migrator[c].version \in 0 .. Latest
      /\ migrator[c].row \in OperationRow /\ migrator[c].late \in Nat
  BY <1>2 DEF MigratorRow
<1>4. migrator[c].row.id \in 0 .. MaxRequests /\ migrator[c].row.from \in 0 .. Latest
  BY <1>3 DEF OperationRow
<1> QED
  BY <1>1, <1>2, <1>3, <1>4, ProcessAssumption, MigrationAssumption

LEMMA MigrationFacts ==
  ASSUME MigrationInv
  PROVE  /\ MigrationTypeOK /\ ProcessTypeOK /\ requests \in Nat /\ clock \in 0 .. MaxTime
         /\ journal \subseteq Versions /\ tables \subseteq Versions
         /\ lock \in [owner : 0 .. MaxRequests, at : 0 .. MaxTime] /\ lock.owner \in Nat
         /\ operation \in OperationRow /\ operation.id \in Nat
         /\ operation.from \in Nat /\ operation.applied \in Nat
         /\ operation.from + operation.applied <= Latest
         /\ stolen \in BOOLEAN /\ infrastructure \in BOOLEAN /\ wired \in BOOLEAN
         /\ closed \in {"inactive", "active", "leaving", "failed"}
         /\ \A c \in Callers : Local(c)
         /\ OperationOK /\ Distinct /\ (~stolen => ProgressOK)
         /\ \E n \in 0 .. Latest : journal = 1 .. n
         /\ Latest \in Nat /\ Latest >= 1 /\ Automatic \in Nat /\ Automatic >= 1 /\ Automatic <= Latest
<1>1. /\ operation \in OperationRow /\ lock \in [owner : 0 .. MaxRequests, at : 0 .. MaxTime]
      /\ requests \in 0 .. MaxRequests
  BY DEF MigrationInv, MigrationTypeOK, ProcessTypeOK
<1>2. /\ operation.id \in 0 .. MaxRequests /\ operation.from \in 0 .. Latest
      /\ operation.applied \in 0 .. Latest /\ lock.owner \in 0 .. MaxRequests
  BY <1>1 DEF OperationRow
<1>3. operation.id \in Nat /\ operation.from \in Nat /\ operation.applied \in Nat /\ lock.owner \in Nat
      /\ requests \in Nat
  BY <1>1, <1>2, ProcessAssumption, MigrationAssumption
<1>4. \A c \in Callers : Local(c)
  BY DEF MigrationInv, Local
<1>5. /\ MigrationTypeOK /\ ProcessTypeOK /\ clock \in 0 .. MaxTime
      /\ journal \subseteq Versions /\ tables \subseteq Versions
      /\ operation.from + operation.applied <= Latest
      /\ stolen \in BOOLEAN /\ infrastructure \in BOOLEAN /\ wired \in BOOLEAN
      /\ closed \in {"inactive", "active", "leaving", "failed"}
  BY DEF MigrationInv, MigrationTypeOK, ProcessTypeOK
<1>6. OperationOK /\ Distinct /\ (~stolen => ProgressOK) /\ \E n \in 0 .. Latest : journal = 1 .. n
  BY DEF MigrationInv
<1>7. Latest \in Nat /\ Latest >= 1 /\ Automatic \in Nat /\ Automatic >= 1 /\ Automatic <= Latest
  BY MigrationAssumption
<1> QED
  BY <1>1, <1>3, <1>4, <1>5, <1>6, <1>7

LEMMA RequestIs ==
  ASSUME MigrationInv
  PROVE  /\ \A c \in Callers : migrator[c] \in MigratorRow
         /\ clock \in 0 .. MaxTime /\ operation \in OperationRow
         /\ Latest \in Nat /\ Automatic \in Nat /\ Automatic <= Latest
BY MigratorIs, MigrationFacts

\* The journal is the versions up to its current one.
LEMMA LastOf ==
  ASSUME NEW j, NEW n \in 0 .. Latest, j = 1 .. n
  PROVE  (CHOOSE m \in 0 .. Latest : j = 1 .. m) = n
<1>1. Latest \in Nat
  BY MigrationAssumption
<1>2. ASSUME NEW m \in 0 .. Latest, j = 1 .. m PROVE m = n
  <2>1. m >= 1 => m \in 1 .. n
    BY <1>1, <1>2
  <2>2. n >= 1 => n \in 1 .. m
    BY <1>1, <1>2
  <2> QED
    BY <1>1, <2>1, <2>2
<1> QED
  BY <1>2

LEMMA CurrentIs ==
  ASSUME NEW n \in 0 .. Latest, journal = 1 .. n
  PROVE  Current = n
BY LastOf DEF Current

LEMMA PrefixIs ==
  ASSUME MigrationInv
  PROVE  /\ Current \in 0 .. Latest /\ Current \in Nat /\ journal = 1 .. Current
         /\ \A n \in Nat : Upto(n) => n <= Current
         /\ journal # Versions => Current < Latest
<1>1. Latest \in Nat
  BY MigrationAssumption
<1>2. Current \in 0 .. Latest /\ journal = 1 .. Current
  BY MigrationFacts, CurrentIs
<1>3. ASSUME NEW n \in Nat, Upto(n) PROVE n <= Current
  <2>1. n >= 1 => n \in 1 .. Current
    BY <1>2, <1>3 DEF Upto
  <2> QED
    BY <1>1, <1>2, <2>1
<1> QED
  BY <1>1, <1>2, <1>3 DEF Versions

LEMMA NoMigratorIs ==
  /\ NoMigrator \in MigratorRow /\ NoMigrator.step = "idle" /\ NoMigrator.id = 0
  /\ NoMigrator.row = NoOperation /\ NoMigrator.late = 0 /\ NoMigrator.tries = 0 /\ NoMigrator.at = 0
  /\ NoOperation \in OperationRow /\ NoOperation.id = 0 /\ NoOperation.from = 0
  /\ NoOperation.applied = 0 /\ NoOperation.state = "none"
<1>1. /\ NoOperation \in OperationRow /\ NoOperation.id = 0 /\ NoOperation.from = 0
      /\ NoOperation.applied = 0 /\ NoOperation.state = "none"
  BY ProcessAssumption, MigrationAssumption DEF NoOperation, OperationRow
<1>2. 0 \in 0 .. MaxRequests /\ 0 \in 0 .. Attempts - 1 /\ 0 \in 0 .. MaxTime /\ 0 \in 0 .. Latest
      /\ "idle" \in MigratorSteps
  BY ProcessAssumption, MigrationAssumption DEF MigratorSteps
<1> HIDE DEF NoOperation
<1> QED
  BY <1>1, <1>2 DEF NoMigrator, MigratorRow

\* A request that has ended knows nothing.
LEMMA IdleOK ==
  ASSUME NEW c \in Callers, migrator'[c] = NoMigrator, requests' \in Nat,
         operation'.id = 0 => operation'.from = 0
  PROVE  Local(c)'
<1>1. /\ migrator'[c].step = "idle" /\ migrator'[c].row.id = 0 /\ migrator'[c].row.from = 0
      /\ migrator'[c].late = 0
  BY NoMigratorIs
<1>2. "idle" \notin Held \cup Batches \cup Planned \cup Migrating \cup Early
  BY DEF Held, Batches, Planned, Migrating, Acquired, Early
<1> QED
  BY <1>1, <1>2 DEF Local, MigratorOK, JournalOK, RowOK, LateOK, AloneOK

\* One request owns the lock, as long as none was taken.
LEMMA Exclusive ==
  ASSUME MigrationInv, ~stolen, NEW c \in Callers, migrator[c].step \in Held
  PROVE  /\ lock.owner = migrator[c].id /\ lock.owner # 0
         /\ \A x \in Callers \ {c} : migrator[x].step \notin Held
<1>1. \A x \in Callers : migrator[x].step \in Held =>
        migrator[x].step # "idle" /\ lock.owner = migrator[x].id /\ migrator[x].id \in 1 .. requests
  BY MigrationFacts DEF Local, AloneOK, MigratorOK, Held, Acquired, Migrating
<1> QED
  BY <1>1, MigrationFacts DEF Distinct

---------------------------------------------------------------------------------
(* A step of one request. *)

\* A request goes on with its number, or is a new one.
Named(c) ==
  /\ migrator' \in [Callers -> MigratorRow]
  /\ \A x \in Callers \ {c} : migrator'[x] = migrator[x]
  /\ migrator'[c].step # "idle" =>
       \/ migrator[c].step # "idle" /\ migrator'[c].id = migrator[c].id
       \/ requests' = requests + 1 /\ migrator'[c].id = requests + 1
  /\ migrator'[c].row.id \in {migrator[c].row.id, operation.id, 0}

LEMMA StepKeeps ==
  ASSUME MigrationInv, NEW c \in Callers, MigrationTypeOK', requests' >= requests, Named(c),
         \E n \in 0 .. Latest : journal' = 1 .. n,
         OperationOK', Local(c)', journal \subseteq journal',
         closed' # "inactive" \/ closed = "inactive" \/ journal = Versions,
         \/ operation'.id = operation.id /\ operation'.from = operation.from
         \/ migrator[c].step = "begin" /\ operation'.id = migrator[c].id,
         \/ lock'.owner \in {lock.owner, 0}
         \/ migrator[c].step # "idle" /\ lock'.owner = migrator[c].id,
         ~stolen' => ~stolen /\ ProgressOK',
         ~stolen' => \A x \in Callers \ {c} : migrator[x].step \in Held =>
                       lock'.owner = lock.owner /\ journal' = journal /\ operation' = operation
  PROVE  MigrationInv'
<1>1. \A x \in Callers \ {c} : migrator'[x] = migrator[x] /\ Local(x)
  BY MigrationFacts DEF Named
<1>2. requests \in Nat /\ requests' \in Nat /\ Latest \in Nat
  BY MigrationFacts, ProcessAssumption DEF MigrationTypeOK, ProcessTypeOK
<1>3. Distinct'
  <2>1. \A x \in Callers \ {c} : migrator[x].step # "idle" => migrator[x].id \in 1 .. requests
    BY <1>1 DEF Local, MigratorOK
  <2>2. \A x \in Callers \ {c} : migrator[x].step # "idle" /\ migrator'[c].step # "idle"
          => migrator'[c].id # migrator[x].id
    BY <1>2, <2>1, MigrationFacts DEF Distinct, Named
  <2>3. \A x, y \in Callers \ {c} : x # y /\ migrator[x].step # "idle" /\ migrator[y].step # "idle"
          => migrator[x].id # migrator[y].id
    BY MigrationFacts DEF Distinct
  <2>4. \A x \in Callers \ {c} : migrator'[x] = migrator[x]
    BY <1>1
  <2> QED
    BY <2>2, <2>3, <2>4 DEF Distinct
<1>4. ASSUME NEW x \in Callers \ {c} PROVE Local(x)'
  <2>1. migrator'[x] = migrator[x] /\ Local(x)
    BY <1>1
  <2>2. MigratorOK(x)'
    BY <1>2, <2>1 DEF Local, MigratorOK
  <2>3. JournalOK(x)'
    <3>1. journal = Versions => journal' = Versions
      BY DEF MigrationTypeOK
    <3> QED
      BY <2>1, <3>1 DEF Local, JournalOK, Upto
  <2>4. RowOK(x)'
    <3>1. /\ migrator[x].row.id \in Nat /\ migrator[x].id \in Nat
          /\ migrator[c].id \in Nat /\ operation.id \in Nat
      BY MigrationFacts, MigratorIs
    <3>2. migrator[x].row.id <= requests'
      BY <1>2, <2>1, <3>1 DEF Local, RowOK
    <3>3. \A d \in Callers : migrator'[d].row.id \in {migrator[d].row.id, operation.id, 0}
      BY <1>1 DEF Named
    <3>4. migrator[x].step \in Early => migrator[x].id # 0 /\ migrator[x].step # "idle"
      BY <2>1 DEF Local, MigratorOK, Early
    <3>5. CASE operation'.id = operation.id /\ operation'.from = operation.from
      BY <2>1, <3>2, <3>3, <3>4, <3>5 DEF Local, RowOK
    <3>6. CASE migrator[c].step = "begin" /\ operation'.id = migrator[c].id
      <4>1. /\ migrator[c].step # "idle" /\ \A d \in Callers : migrator[d].row.id # migrator[c].id
        BY <3>6, MigrationFacts DEF Local, RowOK, Early
      <4>2. migrator[x].step # "idle" => migrator[x].id # migrator[c].id
        BY <4>1, MigrationFacts DEF Distinct
      <4>3. migrator[x].step \in Migrating \cup {"failing"} => migrator[x].step # "idle"
        BY DEF Migrating
      <4> QED
        BY <2>1, <3>2, <3>3, <3>4, <3>6, <4>1, <4>2, <4>3 DEF Local, RowOK
    <3> QED
      BY <3>5, <3>6
  <2>5. LateOK(x)'
    <3>1. migrator[x].step \in {"guard", "confirm"} => migrator[x].id # 0 /\ migrator[x].step # "idle"
      BY <2>1 DEF Local, MigratorOK
    <3>2. migrator[x].step # "idle" /\ migrator[c].step # "idle" => migrator[x].id # migrator[c].id
      BY MigrationFacts DEF Distinct
    <3> QED
      BY <2>1, <3>1, <3>2 DEF Local, LateOK
  <2>6. ~stolen' => AloneOK(x)'
    <3>1. Migrating \cup Batches \cup {"confirm", "begin", "mark"} \subseteq Held
      BY DEF Held, Acquired, Migrating, Batches
    <3>2. CASE migrator[x].step \in Held
      BY <2>1, <3>2 DEF Local, AloneOK
    <3>3. CASE migrator[x].step \notin Held
      BY <2>1, <3>1, <3>3 DEF AloneOK
    <3> QED
      BY <3>2, <3>3
  <2> QED
    BY <2>2, <2>3, <2>4, <2>5, <2>6 DEF Local
<1> QED
  BY <1>3, <1>4 DEF MigrationInv, Local

LEMMA ProcessMoves ==
  ASSUME ProcessTypeOK, UNCHANGED process \/ Arrive \/ Fault \/ Die \/ Tick
  PROVE  ProcessTypeOK' /\ requests' \in Nat /\ requests' >= requests /\ requests \in Nat
BY ProcessAssumption DEF ProcessTypeOK, process, Arrive, Fault, Die, Tick

\* A step that leaves the journal, the lock, the operation and maintenance alone.
LEMMA QuietKeeps ==
  ASSUME MigrationInv, NEW c \in Callers, UNCHANGED <<journal, lock, operation, closed, wired, stolen>>,
         infrastructure' \in BOOLEAN, tables' \subseteq Versions,
         UNCHANGED process \/ Arrive \/ Fault, Named(c), Local(c)'
  PROVE  MigrationInv'
<1>1. ProcessTypeOK' /\ requests' >= requests /\ requests \in Nat /\ requests' \in Nat
  BY ProcessMoves DEF MigrationInv, MigrationTypeOK
<1>2. MigrationTypeOK'
  BY <1>1 DEF MigrationInv, MigrationTypeOK, MigratorRow, MigratorSteps, Named
<1>3. OperationOK'
  BY <1>1, MigrationFacts DEF OperationOK, Upto
<1>5. ~stolen' => ~stolen /\ ProgressOK'
  BY MigrationFacts DEF ProgressOK
<1>4. \E n \in 0 .. Latest : journal' = 1 .. n
  BY MigrationFacts
<1> QED
  <2>1. /\ journal \subseteq journal' /\ (closed' # "inactive" \/ closed = "inactive")
        /\ operation'.id = operation.id /\ operation'.from = operation.from
        /\ lock'.owner = lock.owner /\ journal' = journal /\ operation' = operation
    OBVIOUS
  <2> QED
    BY <1>1, <1>2, <1>3, <1>4, <1>5, <2>1, StepKeeps

\* A request goes to a step of its own.
LEMMA RowBecomes ==
  ASSUME MigrationTypeOK, NEW c \in Callers, NEW r \in MigratorRow,
         migrator' = [migrator EXCEPT ![c] = r],
         r.step # "idle" => \/ migrator[c].step # "idle" /\ r.id = migrator[c].id
                            \/ requests' = requests + 1 /\ r.id = requests + 1,
         r.row.id \in {migrator[c].row.id, operation.id, 0}
  PROVE  Named(c) /\ migrator'[c] = r
BY MigratorIs DEF Named

\* It knows what it knew.
Same(c) ==
  /\ migrator'[c].id = migrator[c].id /\ migrator'[c].kind = migrator[c].kind
  /\ migrator'[c].from = migrator[c].from /\ migrator'[c].version = migrator[c].version
  /\ migrator'[c].row = migrator[c].row /\ migrator'[c].verdict = migrator[c].verdict
  /\ migrator'[c].late = migrator[c].late

LEMMA GotoIs ==
  ASSUME MigrationTypeOK, NEW c \in Callers, migrator[c].step # "idle", NEW step \in MigratorSteps,
         Goto(c, step)
  PROVE  Named(c) /\ IF step = "idle" THEN migrator'[c] = NoMigrator
                     ELSE migrator'[c].step = step /\ Same(c)
<1>1. CASE step = "idle"
  <2>1. migrator' = [migrator EXCEPT ![c] = NoMigrator]
    BY <1>1 DEF Goto
  <2> QED
    BY <1>1, <2>1, NoMigratorIs, RowBecomes
<1>2. CASE step # "idle"
  <2> DEFINE r == [migrator[c] EXCEPT !.step = step]
  <2>1. /\ r \in MigratorRow /\ r.step = step /\ r.id = migrator[c].id /\ r.kind = migrator[c].kind
        /\ r.from = migrator[c].from /\ r.version = migrator[c].version /\ r.row = migrator[c].row
        /\ r.verdict = migrator[c].verdict /\ r.late = migrator[c].late
    BY MigratorIs DEF MigratorRow
  <2>2. migrator' = [migrator EXCEPT ![c] = r]
    BY <1>2 DEF Goto
  <2> HIDE DEF r
  <2>3. r.row.id = migrator[c].row.id
    BY <2>1
  <2> QED
    BY <1>2, <2>1, <2>2, <2>3, RowBecomes DEF Same
<1> QED
  BY <1>1, <1>2

\* A request that ends, or is on its way out.
LEMMA EndOK ==
  ASSUME MigrationInv, NEW c \in Callers, migrator[c].step # "idle",
         NEW step \in {"idle", "release", "failing", "marking"}, Goto(c, step),
         step # "idle" => migrator[c].step \in Held /\ lock' = lock,
         step \in {"failing", "marking"} => migrator[c].kind = "apply",
         step = "failing" => migrator[c].step \in Migrating,
         requests' \in Nat, requests' >= requests, stolen' = stolen,
         operation'.id = operation.id, operation'.from = operation.from,
         journal' = journal,
         closed' # "inactive" \/ closed = "inactive"
  PROVE  Named(c) /\ Local(c)'
<1>1. step \in MigratorSteps
  BY DEF MigratorSteps
<1>2. Named(c) /\ IF step = "idle" THEN migrator'[c] = NoMigrator
                  ELSE migrator'[c].step = step /\ Same(c)
  BY <1>1, MigrationFacts, GotoIs
<1>3. CASE step = "idle"
  BY <1>2, <1>3, MigrationFacts, IdleOK DEF OperationOK
<1>4. CASE step # "idle"
  <2>1. Local(c) /\ requests \in Nat /\ migrator[c].id \in Nat /\ migrator[c].row.id \in Nat
    BY MigrationFacts, MigratorIs
  <2>2. migrator'[c].step = step /\ Same(c)
    BY <1>2, <1>4
  <2>3. step \notin Migrating \cup Batches \cup Planned \cup Early \cup {"confirm"} /\ step \in Held
    BY <1>4 DEF Migrating, Batches, Planned, Early, Held, Acquired
  <2>4. MigratorOK(c)'
    BY <1>4, <2>1, <2>2, <2>3 DEF Local, MigratorOK, Same
  <2>5. JournalOK(c)'
    BY <1>4, <2>1, <2>2, <2>3 DEF Local, JournalOK, Same
  <2>6. RowOK(c)'
    BY <1>4, <2>1, <2>2, <2>3 DEF Local, RowOK, Same
  <2>7. LateOK(c)'
    BY <1>4, <2>1, <2>2, <2>3 DEF Local, LateOK, Same
  <2>8. ~stolen' => AloneOK(c)'
    BY <1>4, <2>1, <2>2, <2>3 DEF Local, AloneOK, Same
  <2> QED
    BY <1>2, <2>4, <2>5, <2>6, <2>7, <2>8 DEF Local
<1> QED
  BY <1>3, <1>4

LEMMA ThrowOK ==
  ASSUME MigrationInv, NEW c \in Callers, migrator[c].step # "idle", Throw(c), requests' \in Nat,
         requests' >= requests, UNCHANGED <<journal, lock, operation, closed, stolen>>
  PROVE  Named(c) /\ Local(c)'
<1>1. PICK step \in {"idle", "release", "failing", "marking"} :
        /\ Thrown(migrator[c]) = step
        /\ step # "idle" => migrator[c].step \in Held
        /\ step = "failing" => migrator[c].kind = "apply" /\ migrator[c].step \in Migrating
        /\ step = "marking" => migrator[c].step = "failing"
  BY DEF Thrown, Held, Acquired
<1>2. step = "marking" => migrator[c].kind = "apply"
  BY <1>1, MigrationFacts DEF Local, MigratorOK
<1>3. Goto(c, step)
  BY <1>1 DEF Throw
<1> QED
  BY <1>1, <1>2, <1>3, EndOK

LEMMA ThrowKeeps ==
  ASSUME MigrationInv, NEW c \in Callers, migrator[c].step # "idle", Throw(c),
         UNCHANGED <<schema, lock, operation, closed, wired, stolen>>, UNCHANGED process \/ Fault
  PROVE  MigrationInv'
<1>1. requests' = requests /\ requests \in Nat
  BY MigrationFacts DEF process, Fault
<1> QED
  BY <1>1, ThrowOK, QuietKeeps, MigrationFacts DEF schema

LEMMA EndKeeps ==
  ASSUME MigrationInv, NEW c \in Callers, migrator[c].step # "idle",
         NEW step \in {"idle", "release"}, Goto(c, step),
         step # "idle" => migrator[c].step \in Held,
         UNCHANGED <<schema, lock, operation, closed, wired, stolen, process>>
  PROVE  MigrationInv'
<1>1. requests' = requests /\ requests \in Nat
  BY MigrationFacts DEF process
<1> QED
  BY <1>1, EndOK, QuietKeeps, MigrationFacts DEF schema

---------------------------------------------------------------------------------
(* The start of a request, up to its lock. *)

LEMMA MigrationStartKeeps ==
  ASSUME MigrationInv, NEW c \in Callers, StartEnsure(c) \/ StartApply(c) \/ StartReconcile(c)
  PROVE  MigrationInv'
<1>1. PICK kind \in {"ensure", "apply", "reconcile"}, step \in {"prepare", "plan", "load"} :
        /\ Start(c, kind, step)
        /\ step = "prepare" => kind = "ensure"
        /\ step = "plan" => kind = "apply"
        /\ step = "load" => kind = "reconcile"
        /\ kind = "apply" => closed = "active"
  BY DEF StartEnsure, StartApply, StartReconcile
<1> DEFINE r == [NoMigrator EXCEPT !.kind = kind, !.step = step, !.id = requests']
<1>2. /\ migrator[c].step = "idle" /\ Arrive /\ migrator' = [migrator EXCEPT ![c] = r]
      /\ UNCHANGED <<schema, lock, operation, closed, wired, stolen>>
  BY <1>1 DEF Start
<1>3. requests' = requests + 1 /\ requests + 1 \in 0 .. MaxRequests /\ requests \in Nat
  <2>1. requests \in 0 .. MaxRequests
    BY MigrationFacts DEF ProcessTypeOK
  <2> QED
    BY <1>2, <2>1, ProcessAssumption DEF Arrive
<1>4. step \in MigratorSteps
  BY DEF MigratorSteps
<1>5. /\ r \in MigratorRow /\ r.step = step /\ r.kind = kind /\ r.id = requests + 1
      /\ r.row = NoOperation /\ r.late = 0
  BY <1>3, <1>4, NoMigratorIs DEF MigratorRow
<1> HIDE DEF r
<1>6. r.row.id = 0 /\ r.row.from = 0
  BY <1>5, NoMigratorIs
<1>7. Named(c) /\ migrator'[c] = r
  BY <1>2, <1>3, <1>5, <1>6, MigrationFacts, RowBecomes
<1>8. step \notin Migrating \cup Batches \cup Planned \cup Held
  BY DEF Migrating, Batches, Planned, Held, Acquired
<1>9. MigratorOK(c)' /\ JournalOK(c)' /\ LateOK(c)' /\ AloneOK(c)'
  BY <1>1, <1>2, <1>3, <1>5, <1>7, <1>8
  DEF MigratorOK, JournalOK, LateOK, AloneOK, Migrating, Batches, Held, Acquired
<1>10. RowOK(c)'
  <2>1. \A d \in Callers : migrator[d].row.id <= requests /\ migrator[d].row.id \in Nat
    BY MigrationFacts, MigratorIs DEF Local, RowOK
  <2>2. \A d \in Callers : migrator'[d].row.id # requests + 1
    BY <1>3, <1>6, <1>7, <2>1 DEF Named
  <2>3. operation'.id # requests + 1 /\ (operation'.id = 0 => operation'.from = 0)
    BY <1>2, <1>3, MigrationFacts DEF OperationOK
  <2> QED
    BY <1>3, <1>5, <1>6, <1>7, <1>8, <2>2, <2>3 DEF RowOK, Migrating
<1> QED
  BY <1>2, <1>7, <1>9, <1>10, QuietKeeps, MigrationFacts DEF Local, schema

LEMMA PrepareInfrastructureKeeps ==
  ASSUME MigrationInv, NEW c \in Callers, PrepareInfrastructure(c)
  PROVE  MigrationInv'
<1>1. /\ migrator[c].step = "prepare" /\ infrastructure' = TRUE /\ Goto(c, "acquire")
      /\ UNCHANGED <<journal, tables, lock, operation, closed, wired, stolen, process>>
  BY DEF PrepareInfrastructure
<1>2. /\ "acquire" \in MigratorSteps /\ "acquire" \in Early /\ "prepare" \in Early
      /\ "acquire" \notin Migrating \cup Batches \cup Held
  BY DEF MigratorSteps, Early, Migrating, Batches, Held, Acquired
<1>3. Named(c) /\ migrator'[c].step = "acquire" /\ Same(c)
  BY <1>1, <1>2, MigrationFacts, GotoIs
<1>4. Local(c) /\ migrator[c].kind = "ensure" /\ requests' = requests
  BY <1>1, MigrationFacts DEF Local, MigratorOK, process
<1>5. MigratorOK(c)' /\ JournalOK(c)' /\ LateOK(c)' /\ AloneOK(c)'
  BY <1>1, <1>2, <1>3, <1>4
  DEF Local, Same, MigratorOK, JournalOK, LateOK, AloneOK, Migrating, Batches, Held, Acquired
<1>6. RowOK(c)'
  BY <1>1, <1>2, <1>3, <1>4 DEF Local, Same, RowOK, Named
<1> QED
  BY <1>1, <1>3, <1>5, <1>6, QuietKeeps, MigrationFacts DEF Local

LEMMA InspectPlanKeeps ==
  ASSUME MigrationInv, NEW c \in Callers, InspectPlan(c)
  PROVE  MigrationInv'
<1>1. migrator[c].step = "plan" /\ UNCHANGED <<schema, lock, operation, closed, wired, stolen, process>>
  BY DEF InspectPlan
<1>2. CASE Goto(c, "idle")
  BY <1>1, <1>2, EndKeeps
<1> DEFINE r == [migrator[c] EXCEPT !.step = "previous", !.from = Current]
<1>3. CASE PlanAllowed /\ migrator' = [migrator EXCEPT ![c] = r]
  <2>1. /\ Current \in Automatic .. Latest - 1 /\ Current \in 0 .. Latest /\ Upto(Current)
    <3>1. Upto(Automatic) /\ journal # Versions
      BY <1>3 DEF PlanAllowed, AutomaticDone, Upto
    <3> QED
      BY <3>1, PrefixIs, MigrationFacts DEF Upto
  <2>2. /\ "previous" \in MigratorSteps /\ "previous" \in Early /\ "plan" \in Early
        /\ "previous" \notin Migrating \cup Batches \cup Held
    BY DEF MigratorSteps, Early, Migrating, Batches, Held, Acquired
  <2>3. PICK now \in 0 .. Latest : now = Current
    BY <2>1
  <2>4. /\ r \in MigratorRow /\ r.step = "previous" /\ r.from = now /\ r.id = migrator[c].id
        /\ r.kind = migrator[c].kind /\ r.row = migrator[c].row /\ r.late = migrator[c].late
    BY <2>2, <2>3, RequestIs DEF MigratorRow
  <2> HIDE DEF r
  <2>5. r.row.id = migrator[c].row.id
    BY <2>4
  <2>6. Named(c) /\ migrator'[c] = r
    BY <1>1, <1>3, <2>4, <2>5, MigrationFacts, RowBecomes
  <2>7. Local(c) /\ requests' = requests
    BY <1>1, MigrationFacts DEF process
  <2>8. MigratorOK(c)' /\ LateOK(c)' /\ AloneOK(c)'
    BY <1>1, <2>2, <2>4, <2>6, <2>7
    DEF Local, MigratorOK, LateOK, AloneOK, Migrating, Batches, Held, Acquired
  <2>9. JournalOK(c)'
    BY <1>1, <2>1, <2>2, <2>3, <2>4, <2>6, <2>7 DEF Local, JournalOK, Upto, schema, Migrating, Batches
  <2>10. RowOK(c)'
    BY <1>1, <2>2, <2>4, <2>6, <2>7 DEF Local, RowOK, Named
  <2> QED
    BY <1>1, <2>6, <2>8, <2>9, <2>10, QuietKeeps, MigrationFacts DEF Local, schema
<1> QED
  BY <1>2, <1>3 DEF InspectPlan

LEMMA LoadOperationKeeps ==
  ASSUME MigrationInv, NEW c \in Callers, LoadOperation(c)
  PROVE  MigrationInv'
<1>1. /\ migrator[c].step \in {"previous", "load"}
      /\ UNCHANGED <<schema, lock, operation, closed, wired, stolen, process>>
  BY DEF LoadOperation
<1>2. CASE Goto(c, "idle")
  BY <1>1, <1>2, EndKeeps
<1>3. ASSUME NEW seen \in {operation, NoOperation},
             migrator' = [migrator EXCEPT ![c].step = "acquire", ![c].row = seen]
      PROVE  MigrationInv'
  <2> DEFINE r == [migrator[c] EXCEPT !.step = "acquire", !.row = seen]
  <2>1. /\ "acquire" \in MigratorSteps /\ "acquire" \in Early /\ migrator[c].step \in Early
        /\ "acquire" \notin Migrating \cup Batches \cup Held /\ "acquire" \in Planned /\ "previous" \in Planned
    BY <1>1 DEF MigratorSteps, Early, Migrating, Batches, Held, Acquired, Planned
  <2>2. seen \in OperationRow /\ seen.id \in {operation.id, 0}
        /\ (seen.id = operation.id => seen.from = operation.from)
    BY MigrationFacts, NoMigratorIs DEF OperationOK
  <2>3. /\ r \in MigratorRow /\ r.step = "acquire" /\ r.from = migrator[c].from /\ r.id = migrator[c].id
        /\ r.kind = migrator[c].kind /\ r.row = seen /\ r.late = migrator[c].late
    BY <2>1, <2>2, RequestIs DEF MigratorRow
  <2>4. migrator' = [migrator EXCEPT ![c] = r]
    BY <1>3
  <2> HIDE DEF r
  <2>5. Named(c) /\ migrator'[c] = r
    BY <1>1, <2>2, <2>3, <2>4, MigrationFacts, RowBecomes
  <2>6. Local(c) /\ requests' = requests /\ requests \in Nat
    BY <1>1, MigrationFacts DEF process
  <2>7. MigratorOK(c)' /\ LateOK(c)' /\ AloneOK(c)'
    BY <1>1, <2>1, <2>3, <2>5, <2>6
    DEF Local, MigratorOK, LateOK, AloneOK, Migrating, Batches, Held, Acquired
  <2>8. JournalOK(c)'
    <3>1. migrator[c].kind = "apply" => migrator[c].step = "previous"
      BY <1>1, <2>6 DEF Local, MigratorOK
    <3> QED
      BY <1>1, <2>1, <2>3, <2>5, <2>6, <3>1 DEF Local, JournalOK, Upto, schema, Migrating, Batches
  <2>9. RowOK(c)'
    <3>1. operation.id <= requests /\ operation'.id = operation.id /\ operation'.from = operation.from
      BY <1>1, MigrationFacts DEF OperationOK
    <3>2. migrator[c].id \in 1 .. requests
      BY <1>1, <2>6 DEF Local, MigratorOK
    <3> QED
      BY <1>1, <2>1, <2>2, <2>3, <2>5, <2>6, <3>1, <3>2 DEF Local, RowOK, Named
  <2> QED
    BY <1>1, <2>5, <2>7, <2>8, <2>9, QuietKeeps, MigrationFacts DEF Local, schema
<1> QED
  BY <1>2, <1>3 DEF LoadOperation

---------------------------------------------------------------------------------
(* The lock. *)

LEMMA LockKeeps ==
  ASSUME MigrationInv, NEW c \in Callers, UNCHANGED <<schema, operation, closed, wired, process>>,
         lock' \in [owner : 0 .. MaxRequests, at : 0 .. MaxTime], stolen' \in BOOLEAN,
         \/ lock'.owner \in {lock.owner, 0}
         \/ migrator[c].step # "idle" /\ lock'.owner = migrator[c].id,
         ~stolen' => /\ ~stolen
                     /\ \A x \in Callers \ {c} : migrator[x].step \in Held => lock'.owner = lock.owner,
         Named(c), Local(c)'
  PROVE  MigrationInv'
<1>1. ProcessTypeOK' /\ requests' >= requests /\ requests \in Nat /\ requests' = requests
  BY ProcessMoves DEF MigrationInv, MigrationTypeOK, process
<1>2. MigrationTypeOK'
  BY <1>1 DEF MigrationInv, MigrationTypeOK, MigratorRow, MigratorSteps, Named, schema
<1>3. OperationOK'
  BY <1>1, MigrationFacts DEF OperationOK, Upto, schema
<1>4. (~stolen' => ProgressOK') /\ \E n \in 0 .. Latest : journal' = 1 .. n
  BY MigrationFacts DEF ProgressOK, schema
<1>5. /\ journal \subseteq journal' /\ (closed' # "inactive" \/ closed = "inactive")
      /\ operation'.id = operation.id /\ operation'.from = operation.from
      /\ journal' = journal /\ operation' = operation
  BY DEF schema
<1> QED
  BY <1>1, <1>2, <1>3, <1>4, <1>5, StepKeeps

LEMMA SweepLockKeeps ==
  ASSUME MigrationInv, NEW c \in Callers, SweepLock(c)
  PROVE  MigrationInv'
<1> DEFINE r == [migrator[c] EXCEPT !.step = "insert", !.at = clock]
<1>1. /\ migrator[c].step = "acquire" /\ migrator' = [migrator EXCEPT ![c] = r]
      /\ UNCHANGED <<schema, operation, closed, wired, process>>
      /\ \/ UNCHANGED <<lock, stolen>>
         \/ /\ lock.owner # 0 /\ lock' = NoLock
            /\ stolen' = (stolen \/ \E d \in Callers : migrator[d].id = lock.owner
                                                         /\ migrator[d].step # "idle")
  BY DEF SweepLock
<1>2. /\ "insert" \in MigratorSteps /\ "insert" \in Early /\ "acquire" \in Early
      /\ "insert" \in Planned /\ "acquire" \in Planned
      /\ "insert" \notin Migrating \cup Batches \cup Held
  BY DEF MigratorSteps, Early, Migrating, Batches, Held, Acquired, Planned
<1>3. /\ r \in MigratorRow /\ r.step = "insert" /\ r.from = migrator[c].from /\ r.id = migrator[c].id
      /\ r.kind = migrator[c].kind /\ r.row = migrator[c].row /\ r.late = migrator[c].late
  BY <1>2, RequestIs DEF MigratorRow
<1> HIDE DEF r
<1>4. r.row.id = migrator[c].row.id
  BY <1>3
<1>5. Named(c) /\ migrator'[c] = r
  BY <1>1, <1>3, <1>4, MigrationFacts, RowBecomes
<1>6. Local(c) /\ requests' = requests /\ requests \in Nat
  BY <1>1, MigrationFacts DEF process
<1>7. MigratorOK(c)' /\ LateOK(c)' /\ AloneOK(c)'
  BY <1>1, <1>2, <1>3, <1>5, <1>6
  DEF Local, MigratorOK, LateOK, AloneOK, Migrating, Batches, Held, Acquired
<1>8. JournalOK(c)'
  BY <1>1, <1>2, <1>3, <1>5, <1>6 DEF Local, JournalOK, Upto, schema, Migrating, Batches
<1>9. RowOK(c)'
  BY <1>1, <1>2, <1>3, <1>5, <1>6 DEF Local, RowOK, Named
<1>10. /\ lock' \in [owner : 0 .. MaxRequests, at : 0 .. MaxTime]
       /\ lock'.owner \in {lock.owner, 0}
  BY <1>1, MigrationFacts, ProcessAssumption DEF NoLock
<1>13. stolen' \in BOOLEAN
  BY <1>1, MigrationFacts, Zenon
<1>11. ASSUME ~stolen', NEW x \in Callers, migrator[x].step \in Held PROVE ~stolen /\ lock' = lock
  <2>1. ~stolen
    BY <1>1, <1>11
  <2>2. lock.owner = migrator[x].id /\ migrator[x].step # "idle"
    BY <1>11, <2>1, Exclusive DEF Held, Acquired, Migrating
  <2> QED
    BY <1>1, <1>11, <2>1, <2>2
<1>12. ~stolen' => ~stolen
  BY <1>1
<1> QED
  BY <1>1, <1>5, <1>7, <1>8, <1>9, <1>10, <1>11, <1>12, <1>13, LockKeeps DEF Local

LEMMA InsertLockKeeps ==
  ASSUME MigrationInv, NEW c \in Callers, InsertLock(c)
  PROVE  MigrationInv'
<1>1. migrator[c].step = "insert" /\ UNCHANGED <<schema, operation, closed, wired, stolen, process>>
  BY DEF InsertLock
<1>2. Local(c) /\ requests' = requests /\ requests \in Nat
  BY <1>1, MigrationFacts DEF process
<1>3. CASE lock = NoLock /\ Enter(c)
  <2>1. PICK step \in {"journal", "locked", "classify"} :
          /\ step = AfterAcquire(migrator[c].kind)
          /\ step = "journal" => migrator[c].kind = "ensure"
          /\ step = "locked" => migrator[c].kind = "apply"
          /\ step = "classify" => migrator[c].kind = "reconcile"
    BY MigrationFacts, MigratorIs DEF AfterAcquire
  <2> DEFINE r == [migrator[c] EXCEPT !.step = step, !.at = 0, !.tries = 0]
  <2>2. /\ migrator' = [migrator EXCEPT ![c] = r]
        /\ lock' = [owner |-> migrator[c].id, at |-> migrator[c].at]
    BY <1>3, <2>1 DEF Enter
  <2>3. /\ step \in MigratorSteps /\ "insert" \in Early /\ "insert" \in Planned
        /\ step \notin Migrating \cup Batches /\ step # "idle"
    BY DEF MigratorSteps, Early, Migrating, Batches, Acquired, Planned
  <2>4. /\ r \in MigratorRow /\ r.step = step /\ r.from = migrator[c].from /\ r.id = migrator[c].id
        /\ r.kind = migrator[c].kind /\ r.row = migrator[c].row /\ r.late = migrator[c].late
    <3>1. 0 \in 0 .. MaxTime /\ 0 \in 0 .. Attempts - 1
      BY ProcessAssumption, MigrationAssumption
    <3> QED
      BY <2>3, <3>1, RequestIs DEF MigratorRow
  <2> HIDE DEF r
  <2>5. r.row.id = migrator[c].row.id
    BY <2>4
  <2>6. Named(c) /\ migrator'[c] = r
    BY <1>1, <2>2, <2>4, <2>5, MigrationFacts, RowBecomes
  <2>7. /\ lock' \in [owner : 0 .. MaxRequests, at : 0 .. MaxTime] /\ lock'.owner = migrator[c].id
        /\ lock.owner = 0
    BY <1>3, <2>2, MigratorIs, MigrationFacts DEF NoLock
  <2>8. MigratorOK(c)' /\ LateOK(c)' /\ AloneOK(c)'
    BY <1>1, <1>2, <2>1, <2>3, <2>4, <2>6, <2>7 DEF Local, MigratorOK, LateOK, AloneOK
  <2>9. JournalOK(c)'
    BY <1>1, <1>2, <2>3, <2>4, <2>6 DEF Local, JournalOK, Upto, schema
  <2>10. RowOK(c)'
    BY <1>1, <1>2, <2>3, <2>4, <2>6 DEF Local, RowOK, Named
  <2>11. ASSUME ~stolen', NEW x \in Callers \ {c}, migrator[x].step \in Held PROVE FALSE
    BY <1>1, <2>7, <2>11, Exclusive
  <2> QED
    BY <1>1, <2>6, <2>7, <2>8, <2>9, <2>10, <2>11, LockKeeps, MigrationFacts DEF Local
<1>4. CASE lock' = lock /\ Goto(c, "idle")
  BY <1>1, <1>4, EndKeeps
<1>5. CASE /\ lock' = lock /\ migrator[c].tries + 1 < Attempts
           /\ migrator' = [migrator EXCEPT ![c].step = "acquire", ![c].tries = @ + 1]
  <2> DEFINE r == [migrator[c] EXCEPT !.step = "acquire", !.tries = @ + 1]
  <2>1. migrator' = [migrator EXCEPT ![c] = r]
    BY <1>5
  <2>2. /\ "acquire" \in MigratorSteps /\ "insert" \in Early /\ "acquire" \in Early
        /\ "insert" \in Planned /\ "acquire" \in Planned
        /\ "acquire" \notin Migrating \cup Batches \cup Held
    BY DEF MigratorSteps, Early, Migrating, Batches, Held, Acquired, Planned
  <2>3. migrator[c].tries + 1 \in 0 .. Attempts - 1
    <3>1. migrator[c].tries \in 0 .. Attempts - 1
      BY RequestIs DEF MigratorRow
    <3> QED
      BY <1>5, <3>1, MigrationAssumption
  <2>4. /\ r \in MigratorRow /\ r.step = "acquire" /\ r.from = migrator[c].from /\ r.id = migrator[c].id
        /\ r.kind = migrator[c].kind /\ r.row = migrator[c].row /\ r.late = migrator[c].late
    BY <2>2, <2>3, RequestIs DEF MigratorRow
  <2> HIDE DEF r
  <2>5. r.row.id = migrator[c].row.id
    BY <2>4
  <2>6. Named(c) /\ migrator'[c] = r
    BY <1>1, <2>1, <2>4, <2>5, MigrationFacts, RowBecomes
  <2>7. MigratorOK(c)' /\ LateOK(c)' /\ AloneOK(c)'
    BY <1>1, <1>2, <2>2, <2>4, <2>6
    DEF Local, MigratorOK, LateOK, AloneOK, Migrating, Batches, Held, Acquired
  <2>8. JournalOK(c)'
    BY <1>1, <1>2, <2>2, <2>4, <2>6 DEF Local, JournalOK, Upto, schema
  <2>9. RowOK(c)'
    BY <1>1, <1>2, <2>2, <2>4, <2>6 DEF Local, RowOK, Named
  <2> QED
    BY <1>1, <1>5, <2>6, <2>7, <2>8, <2>9, QuietKeeps, MigrationFacts DEF Local, schema
<1> QED
  BY <1>3, <1>4, <1>5 DEF InsertLock

LEMMA RenewLockKeeps ==
  ASSUME MigrationInv, NEW c \in Callers, RenewLock(c)
  PROVE  MigrationInv'
<1>1. /\ migrator[c].step \in {"open", "guard", "confirm"}
      /\ UNCHANGED <<schema, operation, closed, wired, stolen, process>>
  BY DEF RenewLock
<1>2. Local(c) /\ requests' = requests /\ requests \in Nat
  BY <1>1, MigrationFacts DEF process
<1>3. CASE Throw(c) /\ UNCHANGED lock
  BY <1>1, <1>3, ThrowKeeps
<1>4. CASE /\ lock.owner = migrator[c].id /\ lock' = [lock EXCEPT !.at = clock]
           /\ migrator' = [migrator EXCEPT
                ![c].step = AfterRenewal(migrator[c]),
                ![c].version = IF migrator[c].step = "confirm" /\ @ < Last(migrator[c].kind)
                               THEN @ + 1 ELSE @]
  <2>1. /\ migrator[c].kind \in {"ensure", "apply"} /\ migrator[c].late = 0
        /\ migrator[c].version \in 1 .. Last(migrator[c].kind)
        /\ Last(migrator[c].kind) \in 0 .. Latest /\ migrator[c].version \in Nat
    <3>1. migrator[c].step \in Batches \cup {"confirm"}
      BY <1>1 DEF Batches
    <3>2. migrator[c].kind \in {"ensure", "apply"} /\ migrator[c].version \in 1 .. Last(migrator[c].kind)
      BY <1>2, <3>1, MigratorIs, MigrationFacts DEF Local, MigratorOK, JournalOK
    <3>3. migrator[c].late = 0
      BY <1>1, <1>2, <1>4 DEF Local, LateOK
    <3> QED
      BY <3>2, <3>3, MigratorIs, MigrationFacts DEF Last
  <2>2. PICK step \in {"tables", "commit", "final", "release"}, version \in 0 .. Latest :
          /\ AfterRenewal(migrator[c]) = step
          /\ version = IF migrator[c].step = "confirm" /\ migrator[c].version < Last(migrator[c].kind)
                       THEN migrator[c].version + 1 ELSE migrator[c].version
          /\ \/ migrator[c].step \in Batches /\ step \in Batches /\ version = migrator[c].version
             \/ /\ migrator[c].step = "confirm" /\ step \in Batches /\ version = migrator[c].version + 1
                /\ version \in 1 .. Last(migrator[c].kind)
             \/ step = "release"
             \/ step = "final" /\ migrator[c].kind = "apply"
    BY <1>1, <2>1, RequestIs DEF AfterRenewal, Batches
  <2> DEFINE r == [migrator[c] EXCEPT !.step = step, !.version = version]
  <2>3. migrator' = [migrator EXCEPT ![c] = r]
    BY <1>4, <2>2
  <2>4. /\ step \in MigratorSteps /\ step # "idle" /\ step \notin Early /\ step \in Held
        /\ step \in Planned => step \in Migrating
        /\ migrator[c].step \in Migrating /\ migrator[c].step \in Planned /\ migrator[c].step \in Held
        /\ "confirm" \notin Batches /\ "final" \notin Batches /\ "release" \notin Migrating \cup Batches
    BY <1>1 DEF MigratorSteps, Early, Migrating, Batches, Acquired, Planned, Held
  <2>5. /\ r \in MigratorRow /\ r.step = step /\ r.from = migrator[c].from /\ r.id = migrator[c].id
        /\ r.kind = migrator[c].kind /\ r.row = migrator[c].row /\ r.late = migrator[c].late
        /\ r.version = version
    BY <2>4, RequestIs DEF MigratorRow
  <2> HIDE DEF r
  <2>6. r.row.id = migrator[c].row.id
    BY <2>5
  <2>7. Named(c) /\ migrator'[c] = r
    BY <1>1, <2>3, <2>5, <2>6, MigrationFacts, RowBecomes
  <2>8. lock' \in [owner : 0 .. MaxRequests, at : 0 .. MaxTime] /\ lock'.owner = lock.owner
    BY <1>4, MigrationFacts
  <2>9. MigratorOK(c)' /\ LateOK(c)'
    <3>1. MigratorOK(c)'
      BY <1>1, <1>2, <2>1, <2>2, <2>4, <2>5, <2>7 DEF Local, MigratorOK, Batches
    <3>2. LateOK(c)'
      BY <2>1, <2>5, <2>7 DEF LateOK
    <3> QED
      BY <3>1, <3>2
  <2>10. JournalOK(c)'
    BY <1>1, <1>2, <2>1, <2>2, <2>4, <2>5, <2>7 DEF Local, JournalOK, Upto, schema
  <2>11. RowOK(c)'
    BY <1>1, <1>2, <2>4, <2>5, <2>7 DEF Local, RowOK, Named
  <2>12. ~stolen' => AloneOK(c)'
    <3>1. /\ migrator[c].version \in Nat /\ migrator[c].from \in Nat
      BY MigratorIs, MigrationFacts
    <3> QED
      <4>1. ~stolen => AloneOK(c)
        BY <1>2 DEF Local
      <4>2. /\ step \in Batches => version = IF migrator[c].step = "confirm"
                                             THEN migrator[c].version + 1 ELSE migrator[c].version
            /\ migrator[c].step = "confirm" \/ migrator[c].step \in Batches
        BY <1>1, <2>2, <2>4 DEF Batches
      <4> QED
        BY <1>1, <1>4, <2>2, <2>4, <2>5, <2>7, <2>8, <3>1, <4>1, <4>2 DEF AloneOK
  <2> QED
    BY <1>1, <2>7, <2>8, <2>9, <2>10, <2>11, <2>12, LockKeeps, MigrationFacts DEF Local
<1> QED
  BY <1>3, <1>4 DEF RenewLock

LEMMA ReleaseLockKeeps ==
  ASSUME MigrationInv, NEW c \in Callers, ReleaseLock(c)
  PROVE  MigrationInv'
<1>1. /\ migrator[c].step = "release" /\ Goto(c, "idle")
      /\ UNCHANGED <<schema, operation, closed, wired, stolen, process>>
      /\ lock' = lock \/ (lock' = NoLock /\ lock.owner = migrator[c].id)
  BY DEF ReleaseLock
<1>2. requests' = requests /\ requests \in Nat /\ "release" \in Held
  BY <1>1, MigrationFacts DEF process, Held
<1>3. Named(c) /\ Local(c)'
  BY <1>1, <1>2, EndOK, MigrationFacts DEF schema
<1>4. /\ lock' \in [owner : 0 .. MaxRequests, at : 0 .. MaxTime] /\ lock'.owner \in {lock.owner, 0}
  BY <1>1, MigrationFacts, ProcessAssumption DEF NoLock
<1>5. ASSUME ~stolen', NEW x \in Callers \ {c}, migrator[x].step \in Held PROVE FALSE
  BY <1>1, <1>2, <1>5, Exclusive
<1> QED
  BY <1>1, <1>3, <1>4, <1>5, LockKeeps, MigrationFacts

---------------------------------------------------------------------------------
(* The migrations. *)

LEMMA ReadJournalKeeps ==
  ASSUME MigrationInv, NEW c \in Callers, ReadJournal(c)
  PROVE  MigrationInv'
<1>1. migrator[c].step = "journal" /\ UNCHANGED <<schema, lock, operation, closed, wired, stolen, process>>
  BY DEF ReadJournal
<1>2. "journal" \in Held /\ "journal" \in Early
  BY DEF Held, Acquired, Early
<1>3. CASE Goto(c, "release")
  BY <1>1, <1>2, <1>3, EndKeeps
<1>4. CASE /\ Current < Automatic
           /\ migrator' = [migrator EXCEPT ![c].step = "open", ![c].version = Current + 1]
  <2>1. PICK now \in 0 .. Latest : now = Current /\ Upto(now) /\ now < Automatic
    BY <1>4, PrefixIs DEF Upto
  <2> DEFINE r == [migrator[c] EXCEPT !.step = "open", !.version = now + 1]
  <2>2. migrator' = [migrator EXCEPT ![c] = r]
    BY <1>4, <2>1
  <2>3. /\ "open" \in MigratorSteps /\ "open" \in Migrating /\ "open" \in Batches
        /\ "open" \in Held /\ "open" \notin Early
    BY DEF MigratorSteps, Migrating, Batches, Held, Acquired, Early
  <2>4. now + 1 \in 1 .. Automatic /\ now + 1 \in 0 .. Latest /\ now + 1 - 1 = now
    BY <2>1, MigrationFacts
  <2>5. /\ r \in MigratorRow /\ r.step = "open" /\ r.from = migrator[c].from /\ r.id = migrator[c].id
        /\ r.kind = migrator[c].kind /\ r.row = migrator[c].row /\ r.late = migrator[c].late
        /\ r.version = now + 1
    BY <2>3, <2>4, RequestIs DEF MigratorRow
  <2> HIDE DEF r
  <2>6. r.row.id = migrator[c].row.id
    BY <2>5
  <2>7. Named(c) /\ migrator'[c] = r
    BY <1>1, <2>2, <2>5, <2>6, MigrationFacts, RowBecomes
  <2>8. Local(c) /\ requests' = requests /\ migrator[c].kind = "ensure"
    BY <1>1, MigrationFacts DEF process, Local, MigratorOK
  <2>9. MigratorOK(c)' /\ LateOK(c)'
    BY <1>1, <2>3, <2>5, <2>7, <2>8 DEF Local, MigratorOK, LateOK
  <2>10. ~stolen' => AloneOK(c)'
    BY <1>1, <1>2, <2>3, <2>5, <2>7, <2>8 DEF Local, AloneOK
  <2>11. JournalOK(c)'
    BY <1>1, <2>1, <2>3, <2>4, <2>5, <2>7, <2>8 DEF Local, JournalOK, Upto, schema, Last
  <2>12. RowOK(c)'
    BY <1>1, <1>2, <2>3, <2>5, <2>7, <2>8 DEF Local, RowOK, Named
  <2> QED
    BY <1>1, <2>7, <2>9, <2>10, <2>11, <2>12, QuietKeeps, MigrationFacts DEF Local, schema
<1> QED
  BY <1>3, <1>4 DEF ReadJournal

LEMMA LockedPreflightKeeps ==
  ASSUME MigrationInv, NEW c \in Callers, LockedPreflight(c)
  PROVE  MigrationInv'
<1>1. migrator[c].step = "locked" /\ UNCHANGED <<schema, operation, closed, wired, stolen, process>>
  BY DEF LockedPreflight
<1>2. CASE Throw(c) /\ UNCHANGED lock
  BY <1>1, <1>2, ThrowKeeps
<1>3. CASE /\ lock.owner = migrator[c].id /\ Current = migrator[c].from
           /\ lock' = [lock EXCEPT !.at = clock] /\ Goto(c, "begin")
  <2>1. /\ "begin" \in MigratorSteps /\ "begin" \in Early /\ "locked" \in Early
        /\ "begin" \notin Migrating \cup Batches /\ "locked" \in Planned /\ "begin" \in Planned
        /\ "begin" \in Held /\ "locked" \in Held
    BY DEF MigratorSteps, Early, Migrating, Batches, Held, Acquired, Planned
  <2>2. Named(c) /\ migrator'[c].step = "begin" /\ Same(c)
    BY <1>1, <1>3, <2>1, MigrationFacts, GotoIs
  <2>3. Local(c) /\ requests' = requests /\ journal = 1 .. migrator[c].from
    BY <1>1, <1>3, MigrationFacts, PrefixIs DEF process
  <2>4. lock' \in [owner : 0 .. MaxRequests, at : 0 .. MaxTime] /\ lock'.owner = lock.owner
    BY <1>3, MigrationFacts
  <2>5. MigratorOK(c)' /\ LateOK(c)'
    BY <1>1, <2>1, <2>2, <2>3 DEF Local, Same, MigratorOK, LateOK
  <2>6. JournalOK(c)'
    BY <1>1, <2>1, <2>2, <2>3 DEF Local, Same, JournalOK, Upto, schema
  <2>7. RowOK(c)'
    BY <1>1, <2>1, <2>2, <2>3 DEF Local, Same, RowOK, Named
  <2>8. AloneOK(c)'
    BY <1>1, <1>3, <2>1, <2>2, <2>3, <2>4 DEF Same, AloneOK, schema
  <2> QED
    BY <1>1, <2>2, <2>4, <2>5, <2>6, <2>7, <2>8, LockKeeps, MigrationFacts DEF Local
<1> QED
  BY <1>2, <1>3 DEF LockedPreflight

\* A step that leaves the journal and the lock alone.
LEMMA OperationKeeps ==
  ASSUME MigrationInv, NEW c \in Callers, UNCHANGED <<schema, lock, wired, stolen, process>>,
         migrator[c].step \in Held,
         operation' \in OperationRow, closed' \in {"inactive", "active", "leaving", "failed"},
         closed' # "inactive" \/ closed = "inactive",
         \/ operation'.id = operation.id /\ operation'.from = operation.from
         \/ migrator[c].step = "begin" /\ operation'.id = migrator[c].id,
         OperationOK', ~stolen => ProgressOK', Named(c), Local(c)'
  PROVE  MigrationInv'
<1>1. ProcessTypeOK' /\ requests' >= requests
  BY ProcessMoves DEF MigrationInv, MigrationTypeOK
<1>2. operation'.from + operation'.applied <= Latest
  BY DEF OperationOK
<1>3. MigrationTypeOK'
  BY <1>1, <1>2 DEF MigrationInv, MigrationTypeOK, MigratorRow, MigratorSteps, Named, schema
<1>4. ~stolen' => ~stolen /\ ProgressOK'
  OBVIOUS
<1>5. ASSUME ~stolen', NEW x \in Callers \ {c}, migrator[x].step \in Held PROVE FALSE
  BY <1>5, Exclusive
<1>6. journal \subseteq journal' /\ (\E n \in 0 .. Latest : journal' = 1 .. n) /\ lock'.owner = lock.owner
  BY MigrationFacts DEF schema
<1> QED
  BY <1>1, <1>3, <1>4, <1>5, <1>6, StepKeeps

LEMMA BeginOperationKeeps ==
  ASSUME MigrationInv, NEW c \in Callers, BeginOperation(c)
  PROVE  MigrationInv'
<1>1. migrator[c].step = "begin" /\ UNCHANGED <<schema, lock, closed, wired, stolen, process>>
  BY DEF BeginOperation
<1>2. CASE Throw(c) /\ UNCHANGED operation
  BY <1>1, <1>2, ThrowKeeps
<1>3. CASE /\ operation' = [state |-> "running", id |-> migrator[c].id,
                            from |-> migrator[c].from, applied |-> 0]
           /\ migrator' = [migrator EXCEPT ![c].step = "open", ![c].version = migrator[c].from + 1]
  <2>1. /\ "open" \in MigratorSteps /\ "open" \in Migrating /\ "open" \in Batches /\ "open" \in Planned
        /\ "open" \in Held /\ "open" \notin Early
        /\ "begin" \in Held /\ "begin" \in Early /\ "begin" \in Planned
    BY DEF MigratorSteps, Migrating, Batches, Held, Acquired, Early, Planned
  <2>2. Local(c) /\ requests' = requests /\ requests \in Nat
    BY <1>1, MigrationFacts DEF process
  <2>3. /\ migrator[c].kind = "apply" /\ migrator[c].from \in Automatic .. Latest - 1
        /\ Upto(migrator[c].from) /\ migrator[c].id \in 1 .. requests
        /\ migrator[c].from \in Nat
    BY <1>1, <2>1, <2>2, MigratorIs, MigrationFacts DEF Local, MigratorOK, JournalOK
  <2>4. migrator[c].from + 1 \in 1 .. Latest /\ migrator[c].from + 1 - 1 = migrator[c].from
        /\ migrator[c].from + 0 = migrator[c].from /\ migrator[c].from <= Latest
        /\ Automatic <= migrator[c].from /\ migrator[c].from + 1 \in 0 .. Latest
    <3>1. Latest \in Nat /\ Automatic \in Nat
      BY MigrationFacts
    <3> QED
      BY <2>3, <3>1
  <2> DEFINE r == [migrator[c] EXCEPT !.step = "open", !.version = migrator[c].from + 1]
  <2>5. migrator' = [migrator EXCEPT ![c] = r]
    BY <1>3
  <2>6. /\ r \in MigratorRow /\ r.step = "open" /\ r.from = migrator[c].from /\ r.id = migrator[c].id
        /\ r.kind = migrator[c].kind /\ r.row = migrator[c].row /\ r.late = migrator[c].late
        /\ r.version = migrator[c].from + 1
    BY <2>1, <2>4, RequestIs DEF MigratorRow
  <2> HIDE DEF r
  <2>7. r.row.id = migrator[c].row.id
    BY <2>6
  <2>8. Named(c) /\ migrator'[c] = r
    BY <1>1, <2>5, <2>6, <2>7, MigrationFacts, RowBecomes
  <2>9. /\ operation'.state = "running" /\ operation'.id = migrator[c].id
        /\ operation'.from = migrator[c].from /\ operation'.applied = 0
        /\ operation' \in OperationRow
    <3>1. "running" \in {"none", "running", "succeeded", "failed", "interrupted", "reconciled"}
          /\ migrator[c].id \in 0 .. MaxRequests /\ migrator[c].from \in 0 .. Latest /\ 0 \in 0 .. Latest
      BY MigratorIs, MigrationFacts
    <3> QED
      BY <1>3, <3>1 DEF OperationRow
  <2>10. OperationOK'
    BY <1>1, <2>2, <2>3, <2>4, <2>9 DEF OperationOK, Upto, schema
  <2>11. ~stolen => ProgressOK'
    BY <1>1, <2>2, <2>4, <2>9 DEF ProgressOK, Local, AloneOK, schema
  <2>12. MigratorOK(c)' /\ LateOK(c)'
    BY <1>1, <2>1, <2>2, <2>3, <2>6, <2>8 DEF Local, MigratorOK, LateOK
  <2>13. JournalOK(c)'
    BY <1>1, <2>1, <2>2, <2>3, <2>4, <2>6, <2>8 DEF Local, JournalOK, Upto, schema, Last
  <2>14. RowOK(c)'
    <3>1. migrator[c].row.id # migrator[c].id /\ migrator[c].row.id <= requests
      BY <1>1, <2>1, <2>2 DEF Local, RowOK
    <3> QED
      BY <2>1, <2>2, <2>6, <2>8, <2>9, <3>1 DEF RowOK
  <2>15. ~stolen' => AloneOK(c)'
    BY <1>1, <2>1, <2>2, <2>3, <2>4, <2>6, <2>8, <2>9 DEF Local, AloneOK
  <2> QED
    BY <1>1, <2>1, <2>8, <2>9, <2>10, <2>11, <2>12, <2>13, <2>14, <2>15, OperationKeeps, MigrationFacts
    DEF Local
<1> QED
  BY <1>2, <1>3 DEF BeginOperation

LEMMA CreateTablesKeeps ==
  ASSUME MigrationInv, NEW c \in Callers, CreateTables(c)
  PROVE  MigrationInv'
<1>1. /\ migrator[c].step = "tables" /\ tables' = tables \cup {migrator[c].version}
      /\ migrator' = [migrator EXCEPT ![c].step = "guard", ![c].late = Batched(c)]
      /\ UNCHANGED <<infrastructure, journal, lock, operation, closed, wired, stolen, process>>
  BY DEF CreateTables
<1>2. /\ "guard" \in MigratorSteps /\ "guard" \in Migrating /\ "guard" \in Batches /\ "guard" \in Planned
      /\ "guard" \in Held /\ "guard" \notin Early
      /\ "tables" \in Held /\ "tables" \in Migrating /\ "tables" \in Batches /\ "tables" \in Planned
  BY DEF MigratorSteps, Migrating, Batches, Held, Acquired, Early, Planned
<1>3. Local(c) /\ requests' = requests
  BY <1>1, MigrationFacts DEF process
<1>4. /\ migrator[c].kind \in {"ensure", "apply"} /\ migrator[c].late = 0
      /\ migrator[c].version \in 1 .. Last(migrator[c].kind) /\ migrator[c].version \in Versions
  BY <1>1, <1>2, <1>3, MigratorIs, MigrationFacts DEF Local, MigratorOK, LateOK, JournalOK, Last, Versions
<1>5. PICK late \in Nat : late = Batched(c) /\ late \in {0, 1} /\ (late = 1 => lock.owner # migrator[c].id)
  BY <1>4 DEF Batched
<1> DEFINE r == [migrator[c] EXCEPT !.step = "guard", !.late = late]
<1>6. migrator' = [migrator EXCEPT ![c] = r]
  BY <1>1, <1>5
<1>7. /\ r \in MigratorRow /\ r.step = "guard" /\ r.from = migrator[c].from /\ r.id = migrator[c].id
      /\ r.kind = migrator[c].kind /\ r.row = migrator[c].row /\ r.late = late
      /\ r.version = migrator[c].version
  BY <1>2, RequestIs DEF MigratorRow
<1> HIDE DEF r
<1>8. r.row.id = migrator[c].row.id
  BY <1>7
<1>9. Named(c) /\ migrator'[c] = r
  BY <1>1, <1>6, <1>7, <1>8, MigrationFacts, RowBecomes
<1>10. MigratorOK(c)' /\ LateOK(c)'
  BY <1>1, <1>2, <1>3, <1>4, <1>5, <1>7, <1>9 DEF Local, MigratorOK, LateOK
<1>11. JournalOK(c)'
  BY <1>1, <1>2, <1>3, <1>7, <1>9 DEF Local, JournalOK, Upto
<1>12. RowOK(c)'
  BY <1>1, <1>2, <1>3, <1>7, <1>9 DEF Local, RowOK
<1>13. ~stolen' => AloneOK(c)'
  BY <1>1, <1>2, <1>3, <1>7, <1>9 DEF Local, AloneOK
<1> QED
  BY <1>1, <1>4, <1>9, <1>10, <1>11, <1>12, <1>13, QuietKeeps, MigrationFacts DEF Local

LEMMA CommitMigrationKeeps ==
  ASSUME MigrationInv, NEW c \in Callers, CommitMigration(c)
  PROVE  MigrationInv'
<1>1. /\ migrator[c].step = "commit"
      /\ UNCHANGED <<infrastructure, tables, lock, closed, wired, stolen, process>>
  BY DEF CommitMigration
<1>2. CASE Throw(c) /\ UNCHANGED <<journal, operation>>
  BY <1>1, <1>2, ThrowKeeps DEF schema
<1>3. CASE /\ migrator[c].version \notin journal
           /\ journal' = journal \cup {migrator[c].version}
           /\ operation' = IF Counted(c) THEN [operation EXCEPT !.applied = @ + 1] ELSE operation
           /\ migrator' = [migrator EXCEPT
                ![c].late = Batched(c),
                ![c].step = IF migrator[c].kind = "ensure" \/ Counted(c) THEN "confirm" ELSE "failing"]
  <2>1. /\ "commit" \in Held /\ "commit" \in Migrating /\ "commit" \in Batches /\ "commit" \in Planned
        /\ "commit" \notin Early /\ "confirm" \notin Early /\ "failing" \notin Early
        /\ "confirm" \in MigratorSteps /\ "failing" \in MigratorSteps
        /\ "confirm" \in Migrating /\ "confirm" \in Planned /\ "confirm" \in Held
        /\ "confirm" \notin Batches /\ "failing" \notin Batches /\ "failing" \notin Planned
        /\ "failing" \notin Migrating /\ "failing" \in Held
    BY DEF Held, Acquired, Migrating, Batches, Planned, Early, MigratorSteps
  <2>2. Local(c) /\ requests' = requests /\ requests \in Nat
    BY <1>1, MigrationFacts DEF process
  <2>3. PICK v \in Nat : /\ v = migrator[c].version /\ v \in 1 .. Last(migrator[c].kind) /\ v \in 1 .. Latest
                         /\ Upto(v - 1) /\ migrator[c].kind \in {"ensure", "apply"} /\ migrator[c].late = 0
                         /\ v <= Latest /\ v >= 1
    BY <1>1, <2>1, <2>2, MigratorIs, MigrationFacts DEF Local, MigratorOK, LateOK, JournalOK, Last
  <2>4. journal = 1 .. (v - 1) /\ journal' = 1 .. v /\ v \notin journal /\ v \in Versions
    <3>1. PICK n \in 0 .. Latest : journal = 1 .. n
      BY MigrationFacts
    <3>2. n = v - 1
      <4>1. v > n
        BY <1>3, <2>3, <3>1, RequestIs
      <4>2. v - 1 >= 1 => v - 1 \in 1 .. n
        BY <2>3, <3>1 DEF Upto
      <4>3. n \in Nat
        BY <3>1, RequestIs
      <4> QED
        BY <2>3, <3>1, <4>1, <4>2, <4>3
    <3>3. 1 .. (v - 1) \cup {v} = 1 .. v
      BY <2>3
    <3> QED
      BY <1>3, <2>3, <3>1, <3>2, <3>3 DEF Versions
  <2>5. PICK late \in Nat : late = Batched(c) /\ late \in {0, 1} /\ (late = 1 => lock.owner # migrator[c].id)
                            /\ (lock.owner = migrator[c].id => late = 0)
    BY <2>3 DEF Batched
  <2>6. PICK step \in {"confirm", "failing"} :
          /\ step = IF migrator[c].kind = "ensure" \/ Counted(c) THEN "confirm" ELSE "failing"
          /\ step = "failing" => migrator[c].kind = "apply" /\ ~Counted(c)
    BY <2>3
  <2> DEFINE r == [migrator[c] EXCEPT !.late = late, !.step = step]
  <2>7. migrator' = [migrator EXCEPT ![c] = r]
    BY <1>3, <2>5, <2>6
  <2>8. /\ r \in MigratorRow /\ r.step = step /\ r.from = migrator[c].from /\ r.id = migrator[c].id
        /\ r.kind = migrator[c].kind /\ r.row = migrator[c].row /\ r.late = late
        /\ r.version = v
    <3>1. migrator[c] \in MigratorRow /\ step \in MigratorSteps /\ v = migrator[c].version
      BY <2>1, <2>3, MigratorIs, MigrationFacts
    <3> QED
      BY <3>1 DEF MigratorRow
  <2> HIDE DEF r
  <2>20. r.row.id = migrator[c].row.id
    BY <2>8
  <2>9. Named(c) /\ migrator'[c] = r
    BY <2>1, <2>7, <2>8, <2>20, <1>1, MigrationFacts, RowBecomes
  <2>10. /\ operation' \in OperationRow /\ operation'.id = operation.id /\ operation'.from = operation.from
         /\ operation'.state = operation.state
         /\ Counted(c) => /\ operation'.applied = operation.applied + 1
                          /\ operation.state = "running" /\ operation.id = migrator[c].id
                          /\ operation'.from + operation'.applied = v
                          /\ operation'.applied = v - migrator[c].from
         /\ ~Counted(c) => operation' = operation
    <3>1. CASE Counted(c)
      <4>1. /\ operation.state = "running" /\ operation.id = migrator[c].id
            /\ operation.applied = v - migrator[c].from - 1 /\ operation.from = migrator[c].from
            /\ operation' = [operation EXCEPT !.applied = @ + 1] /\ migrator[c].from \in Nat
        BY <1>1, <1>3, <2>1, <2>2, <2>3, <3>1, MigratorIs, MigrationFacts DEF Counted, Local, RowOK
      <4>2. operation.from + (operation.applied + 1) = v /\ operation.applied + 1 \in 0 .. Latest
            /\ operation.applied + 1 = v - migrator[c].from
        <5>1. operation.applied \in Nat /\ Latest \in Nat
          BY MigrationFacts
        <5> QED
          BY <2>3, <4>1, <5>1
      <4>3. /\ operation' \in OperationRow /\ operation'.id = operation.id /\ operation'.from = operation.from
            /\ operation'.state = operation.state /\ operation'.applied = operation.applied + 1
        BY <4>1, <4>2, MigrationFacts DEF OperationRow
      <4> QED
        BY <3>1, <4>1, <4>2, <4>3
    <3>2. CASE ~Counted(c)
      BY <1>3, <3>2, MigrationFacts
    <3> QED
      BY <3>1, <3>2
  <2>11. OperationOK'
    <3>1. /\ operation'.id <= requests' /\ (operation'.id = 0 => operation'.from = 0)
          /\ operation'.state # "none" => Automatic <= operation'.from
      BY <2>2, <2>10, MigrationFacts DEF OperationOK
    <3>2. operation'.state \in {"succeeded", "reconciled"} => journal' = Versions
      BY <2>4, <2>10, MigrationFacts DEF OperationOK, Versions
    <3>3. operation'.from + operation'.applied <= Latest /\ Upto(operation.from + operation.applied)
      BY <2>3, <2>10, MigrationFacts DEF OperationOK
    <3>4. 1 .. (operation'.from + operation'.applied) \subseteq journal'
      BY <1>3, <2>4, <2>10, <3>3 DEF Upto
    <3> QED
      BY <3>1, <3>2, <3>3, <3>4 DEF OperationOK, Upto
  <2>12. ASSUME ~stolen PROVE ProgressOK'
    <3>1. lock.owner = migrator[c].id /\ ProgressOK
      BY <1>1, <2>1, <2>2, <2>12, MigrationFacts DEF Local, AloneOK
    <3>2. CASE migrator[c].kind = "apply"
      <4>1. Counted(c)
        BY <1>1, <2>1, <2>2, <2>3, <2>12, <3>2 DEF Local, AloneOK, Counted
      <4> QED
        BY <2>4, <2>10, <4>1 DEF ProgressOK
    <3>3. CASE migrator[c].kind = "ensure"
      <4>1. v <= Automatic
        BY <2>3, <3>3, MigrationFacts DEF Last
      <4>2. operation.state = "none"
        <5> SUFFICES ASSUME operation.state # "none" PROVE FALSE
          OBVIOUS
        <5>1. Automatic <= operation.from /\ Upto(operation.from + operation.applied)
          BY MigrationFacts DEF OperationOK
        <5>2. v \in 1 .. (operation.from + operation.applied)
          BY <2>3, <4>1, <5>1, MigrationFacts
        <5> QED
          BY <2>4, <5>1, <5>2 DEF Upto
      <4> QED
        BY <2>10, <4>2 DEF ProgressOK
    <3> QED
      BY <2>3, <3>2, <3>3
  <2>13. MigratorOK(c)' /\ LateOK(c)'
    <3>1. MigratorOK(c)'
      BY <1>1, <2>1, <2>2, <2>3, <2>6, <2>8, <2>9 DEF Local, MigratorOK
    <3>2. LateOK(c)'
      BY <1>1, <2>5, <2>6, <2>8, <2>9 DEF LateOK
    <3> QED
      BY <3>1, <3>2
  <2>14. JournalOK(c)'
    <3>1. step = "confirm" => v \in 1 .. Last(migrator[c].kind) /\ 1 .. v \subseteq journal'
      BY <2>3, <2>4
    <3>2. migrator[c].kind = "apply" => closed # "inactive"
      BY <1>1, <1>3, <2>2, <2>4 DEF Local, JournalOK
    <3>3. migrator[c].kind = "apply" =>
            migrator[c].from \in Automatic .. Latest - 1 /\ 1 .. migrator[c].from \subseteq journal'
      BY <1>1, <1>3, <2>1, <2>2 DEF Local, JournalOK, Upto
    <3> QED
      BY <1>1, <2>1, <2>6, <2>8, <2>9, <3>1, <3>2, <3>3 DEF JournalOK, Upto
  <2>15. RowOK(c)'
    BY <1>1, <2>1, <2>2, <2>6, <2>8, <2>9, <2>10 DEF Local, RowOK
  <2>16. ASSUME ~stolen' PROVE AloneOK(c)'
    <3>1. /\ lock.owner = migrator[c].id
          /\ migrator[c].kind = "apply" => operation.state = "running" /\ operation.id = migrator[c].id
          /\ migrator[c].kind = "apply" => Counted(c)
      BY <1>1, <2>1, <2>2, <2>3, <2>16 DEF Local, AloneOK, Counted
    <3> QED
      BY <1>1, <2>1, <2>6, <2>8, <2>9, <2>10, <3>1 DEF AloneOK
  <2>17. MigrationTypeOK'
    <3>1. ProcessTypeOK' /\ operation'.from + operation'.applied <= Latest
      BY <1>1, <2>11, ProcessMoves DEF MigrationInv, MigrationTypeOK, OperationOK
    <3>2. journal' \subseteq Versions
      BY <1>3, <2>3, <2>4, MigrationFacts
    <3> QED
      BY <1>1, <2>9, <2>10, <3>1, <3>2 DEF MigrationInv, MigrationTypeOK, MigratorRow, MigratorSteps, Named
  <2>18. ASSUME ~stolen', NEW x \in Callers \ {c}, migrator[x].step \in Held PROVE FALSE
    BY <1>1, <2>1, <2>18, Exclusive
  <2>19. /\ \E n \in 0 .. Latest : journal' = 1 .. n
         /\ journal \subseteq journal' /\ (closed' # "inactive" \/ closed = "inactive")
         /\ lock'.owner \in {lock.owner, 0} /\ requests' >= requests
         /\ ~stolen' => ~stolen /\ ProgressOK'
    <3>1. v \in 0 .. Latest /\ journal' = 1 .. v
      BY <2>3, <2>4
    <3>2. requests' >= requests
      BY <2>2
    <3> QED
      BY <1>1, <1>3, <2>12, <3>1, <3>2
  <2> QED
    BY <2>9, <2>10, <2>11, <2>13, <2>14, <2>15, <2>16, <2>17, <2>18, <2>19, StepKeeps DEF Local
<1> QED
  BY <1>2, <1>3 DEF CommitMigration

LEMMA VerifyFinalKeeps ==
  ASSUME MigrationInv, NEW c \in Callers, VerifyFinal(c)
  PROVE  MigrationInv'
<1>1. migrator[c].step = "final" /\ UNCHANGED <<schema, lock, operation, closed, wired, stolen, process>>
  BY DEF VerifyFinal
<1>2. CASE Throw(c)
  BY <1>1, <1>2, ThrowKeeps
<1>3. CASE journal = Versions /\ Goto(c, "complete")
  <2>1. /\ "complete" \in MigratorSteps /\ "complete" \in Migrating /\ "final" \in Migrating
        /\ "complete" \in Planned /\ "final" \in Planned /\ "complete" \in Held /\ "final" \in Held
        /\ "complete" \notin Batches \cup Early
    BY DEF MigratorSteps, Migrating, Batches, Held, Acquired, Early, Planned
  <2>2. Named(c) /\ migrator'[c].step = "complete" /\ Same(c)
    BY <1>1, <1>3, <2>1, MigrationFacts, GotoIs
  <2>3. Local(c) /\ requests' = requests
    BY <1>1, MigrationFacts DEF process
  <2>4. MigratorOK(c)' /\ LateOK(c)'
    BY <1>1, <2>2, <2>3 DEF Local, Same, MigratorOK, LateOK, Batches
  <2>5. JournalOK(c)'
    BY <1>1, <1>3, <2>1, <2>2, <2>3 DEF Local, Same, JournalOK, Upto, schema, Versions
  <2>6. RowOK(c)'
    BY <1>1, <2>1, <2>2, <2>3 DEF Local, Same, RowOK
  <2>7. ~stolen' => AloneOK(c)'
    BY <1>1, <2>1, <2>2, <2>3 DEF Local, Same, AloneOK
  <2> QED
    BY <1>1, <2>2, <2>4, <2>5, <2>6, <2>7, QuietKeeps, MigrationFacts DEF Local, schema
<1> QED
  BY <1>2, <1>3 DEF VerifyFinal

\* The end of an operation, whose request then goes on to its release.
LEMMA SettleKeeps ==
  ASSUME MigrationInv, NEW c \in Callers, migrator[c].step \in Held,
         UNCHANGED <<schema, lock, wired, stolen, process>>,
         NEW state \in {"succeeded", "failed", "interrupted", "reconciled"},
         NEW applied \in {operation.applied, Latest - operation.from},
         operation' = [operation EXCEPT !.state = state, !.applied = applied],
         operation.state \in {"running", "failed"},
         applied # operation.applied \/ state \in {"succeeded", "reconciled"} => journal = Versions,
         ~stolen /\ state = "interrupted" => journal = 1 .. operation.from,
         NEW step \in {"release", "marking"}, Goto(c, step),
         step = "marking" => migrator[c].kind = "apply",
         closed' \in {"inactive", "active", "leaving", "failed"},
         closed' # "inactive" \/ closed = "inactive"
  PROVE  MigrationInv'
<1>1. requests' = requests /\ requests \in Nat /\ migrator[c].step # "idle"
  BY MigrationFacts DEF process, Held, Acquired, Migrating
<1>2. Latest - operation.from \in 0 .. Latest /\ operation.from + (Latest - operation.from) = Latest
  <2>1. /\ Latest \in Nat /\ operation.from \in Nat /\ operation.applied \in Nat
        /\ operation.from + operation.applied <= Latest
    BY MigrationFacts
  <2> QED
    BY <2>1
<1>3. operation.applied \in 0 .. Latest /\ state \in {"none", "running", "succeeded", "failed", "interrupted", "reconciled"}
  BY MigrationFacts DEF OperationRow
<1>4. /\ operation' \in OperationRow /\ operation'.id = operation.id /\ operation'.from = operation.from
      /\ operation'.state = state /\ operation'.applied = applied
  BY <1>2, <1>3, MigrationFacts DEF OperationRow
<1>5. Named(c) /\ Local(c)'
  BY <1>1, <1>4, EndOK DEF schema
<1>6. OperationOK'
  <2>1. operation.from + applied <= Latest /\ Upto(operation.from + applied)
    <3>1. CASE applied = operation.applied
      BY <3>1, MigrationFacts DEF OperationOK
    <3>2. CASE applied # operation.applied
      BY <1>2, <3>2, MigrationFacts DEF Upto, Versions
    <3> QED
      BY <3>1, <3>2
  <2> QED
    BY <1>1, <1>4, <2>1, MigrationFacts DEF OperationOK, Upto, schema
<1>7. ~stolen => ProgressOK'
  BY <1>4 DEF ProgressOK, schema
<1> QED
  BY <1>4, <1>5, <1>6, <1>7, OperationKeeps

LEMMA CompleteOperationKeeps ==
  ASSUME MigrationInv, NEW c \in Callers, CompleteOperation(c)
  PROVE  MigrationInv'
<1>1. migrator[c].step = "complete" /\ UNCHANGED <<schema, lock, closed, wired, stolen, process>>
  BY DEF CompleteOperation
<1>2. CASE Throw(c) /\ UNCHANGED operation
  BY <1>1, <1>2, ThrowKeeps
<1>3. CASE /\ operation.state = "running"
           /\ operation' = [operation EXCEPT !.state = "succeeded", !.applied = Latest - operation.from]
           /\ Goto(c, "release")
  <2>1. journal = Versions /\ migrator[c].step \in Held
    BY <1>1, MigrationFacts DEF Local, JournalOK, Held, Acquired, Migrating
  <2> QED
    BY <1>1, <1>3, <2>1, SettleKeeps, MigrationFacts
<1> QED
  BY <1>2, <1>3 DEF CompleteOperation

\* A step that leaves the operation alone, and closes the portal at most.
LEMMA LeaveKeeps ==
  ASSUME MigrationInv, NEW c \in Callers, migrator[c].step \in Held,
         UNCHANGED <<schema, lock, operation, wired, stolen, process>>,
         NEW step \in {"release", "marking"}, Goto(c, step),
         step = "marking" => migrator[c].kind = "apply",
         closed' \in {"inactive", "active", "leaving", "failed"},
         closed' # "inactive" \/ closed = "inactive"
  PROVE  MigrationInv'
<1>1. requests' = requests /\ requests \in Nat /\ migrator[c].step # "idle"
  BY MigrationFacts DEF process, Held, Acquired, Migrating
<1>2. Named(c) /\ Local(c)'
  BY <1>1, EndOK DEF schema
<1>3. OperationOK' /\ operation' \in OperationRow
  BY <1>1, MigrationFacts DEF OperationOK, Upto, schema
<1>4. ~stolen => ProgressOK'
  BY MigrationFacts DEF ProgressOK, schema
<1> QED
  BY <1>2, <1>3, <1>4, OperationKeeps

LEMMA FailOperationKeeps ==
  ASSUME MigrationInv, NEW c \in Callers, FailOperation(c)
  PROVE  MigrationInv'
<1>1. /\ migrator[c].step = "failing" /\ Goto(c, "marking")
      /\ UNCHANGED <<schema, lock, closed, wired, stolen, process>>
      /\ \/ operation.state = "running" /\ operation' = [operation EXCEPT !.state = "failed"]
         \/ operation' = operation
  BY DEF FailOperation
<1>2. migrator[c].step \in Held /\ migrator[c].kind = "apply"
  BY <1>1, MigrationFacts DEF Held, Local, MigratorOK
<1>3. CASE operation' = operation
  BY <1>1, <1>2, <1>3, LeaveKeeps, MigrationFacts
<1>4. CASE operation.state = "running" /\ operation' = [operation EXCEPT !.state = "failed"]
  <2>1. operation' = [operation EXCEPT !.state = "failed", !.applied = operation.applied]
    BY <1>4, MigrationFacts DEF OperationRow
  <2> QED
    BY <1>1, <1>2, <1>4, <2>1, SettleKeeps, MigrationFacts
<1> QED
  BY <1>1, <1>3, <1>4

LEMMA MarkMaintenanceFailedKeeps ==
  ASSUME MigrationInv, NEW c \in Callers, MarkMaintenanceFailed(c)
  PROVE  MigrationInv'
<1>1. /\ migrator[c].step = "marking" /\ Goto(c, "release")
      /\ UNCHANGED <<schema, lock, operation, wired, stolen, process>>
      /\ closed' \in {closed, "failed"}
  BY DEF MarkMaintenanceFailed
<1>2. migrator[c].step \in Held
  BY <1>1 DEF Held
<1> QED
  BY <1>1, <1>2, LeaveKeeps, MigrationFacts

---------------------------------------------------------------------------------
(* The reconciliation, and the rest of the portal. *)

LEMMA ClassifyKeeps ==
  ASSUME MigrationInv, NEW c \in Callers, Classify(c)
  PROVE  MigrationInv'
<1>1. /\ migrator[c].step = "classify"
      /\ migrator' = [migrator EXCEPT ![c].step = "mark", ![c].verdict = Verdict(migrator[c].row)]
      /\ UNCHANGED <<schema, lock, operation, closed, wired, stolen, process>>
  BY DEF Classify
<1>2. PICK verdict \in {"none", "reconciled", "interrupted", "restore"} :
        /\ verdict = Verdict(migrator[c].row)
        /\ verdict = "reconciled" => journal = Versions
        /\ verdict = "interrupted" => Current = migrator[c].row.from
  BY DEF Verdict
<1>3. /\ "mark" \in MigratorSteps /\ "mark" \in Held /\ "classify" \in Held
      /\ "mark" \notin Migrating \cup Batches \cup Planned \cup Early
  BY DEF MigratorSteps, Held, Acquired, Migrating, Batches, Planned, Early
<1> DEFINE r == [migrator[c] EXCEPT !.step = "mark", !.verdict = verdict]
<1>4. migrator' = [migrator EXCEPT ![c] = r]
  BY <1>1, <1>2
<1>5. /\ r \in MigratorRow /\ r.step = "mark" /\ r.from = migrator[c].from /\ r.id = migrator[c].id
      /\ r.kind = migrator[c].kind /\ r.row = migrator[c].row /\ r.late = migrator[c].late
      /\ r.verdict = verdict
  BY <1>3, RequestIs DEF MigratorRow
<1> HIDE DEF r
<1>6. r.row.id = migrator[c].row.id
  BY <1>5
<1>7. Named(c) /\ migrator'[c] = r
  BY <1>1, <1>4, <1>5, <1>6, MigrationFacts, RowBecomes
<1>8. Local(c) /\ requests' = requests
  BY <1>1, MigrationFacts DEF process
<1>9. MigratorOK(c)' /\ LateOK(c)'
  BY <1>1, <1>3, <1>5, <1>7, <1>8 DEF Local, MigratorOK, LateOK
<1>10. JournalOK(c)'
  BY <1>1, <1>2, <1>3, <1>5, <1>7, <1>8 DEF Local, JournalOK, schema, Versions
<1>11. RowOK(c)'
  BY <1>1, <1>3, <1>5, <1>7, <1>8 DEF Local, RowOK
<1>12. ~stolen' => AloneOK(c)'
  <2>1. verdict = "interrupted" => journal = 1 .. migrator[c].row.from
    BY <1>2, PrefixIs
  <2> QED
    BY <1>1, <1>3, <1>5, <1>7, <1>8, <2>1 DEF Local, AloneOK, schema
<1> QED
  BY <1>1, <1>7, <1>9, <1>10, <1>11, <1>12, QuietKeeps, MigrationFacts DEF Local, schema

LEMMA MarkReconciliationKeeps ==
  ASSUME MigrationInv, NEW c \in Callers, MarkReconciliation(c)
  PROVE  MigrationInv'
<1>1. /\ migrator[c].step = "mark" /\ Goto(c, "release")
      /\ UNCHANGED <<schema, lock, closed, wired, stolen, process>>
      /\ \/ /\ migrator[c].verdict = "reconciled" /\ operation.state \in {"running", "failed"}
            /\ operation' = [operation EXCEPT !.state = "reconciled",
                                              !.applied = Latest - operation.from]
         \/ /\ migrator[c].verdict = "interrupted" /\ operation.state \in {"running", "failed"}
            /\ operation.id = migrator[c].row.id
            /\ operation' = [operation EXCEPT !.state = "interrupted"]
         \/ /\ operation.state = "running"
            /\ operation' = [operation EXCEPT !.state = "failed"]
         \/ operation' = operation
  BY DEF MarkReconciliation
<1>2. Local(c) /\ migrator[c].step \in Held /\ operation \in OperationRow
  BY <1>1, MigrationFacts DEF Held, Acquired
<1>3. CASE operation' = operation
  BY <1>1, <1>2, <1>3, LeaveKeeps, MigrationFacts
<1>4. CASE /\ migrator[c].verdict = "reconciled" /\ operation.state \in {"running", "failed"}
           /\ operation' = [operation EXCEPT !.state = "reconciled", !.applied = Latest - operation.from]
  <2>1. journal = Versions
    BY <1>1, <1>2, <1>4 DEF Local, JournalOK
  <2> QED
    BY <1>1, <1>2, <1>4, <2>1, SettleKeeps, MigrationFacts
<1>5. CASE /\ migrator[c].verdict = "interrupted" /\ operation.state \in {"running", "failed"}
           /\ operation.id = migrator[c].row.id /\ operation' = [operation EXCEPT !.state = "interrupted"]
  <2>1. operation' = [operation EXCEPT !.state = "interrupted", !.applied = operation.applied]
    BY <1>2, <1>5 DEF OperationRow
  <2>2. ~stolen => journal = 1 .. operation.from
    BY <1>1, <1>2, <1>5 DEF Local, AloneOK, RowOK
  <2> QED
    BY <1>1, <1>2, <1>5, <2>1, <2>2, SettleKeeps, MigrationFacts
<1>6. CASE operation.state = "running" /\ operation' = [operation EXCEPT !.state = "failed"]
  <2>1. operation' = [operation EXCEPT !.state = "failed", !.applied = operation.applied]
    BY <1>2, <1>6 DEF OperationRow
  <2> QED
    BY <1>1, <1>2, <1>6, <2>1, SettleKeeps, MigrationFacts
<1> QED
  BY <1>1, <1>3, <1>4, <1>5, <1>6

\* A step of no request.
LEMMA PortalKeeps ==
  ASSUME MigrationInv, UNCHANGED <<schema, lock, operation, wired, stolen>>,
         UNCHANGED process \/ Die \/ Tick,
         \/ migrator' = migrator
         \/ migrator' = [c \in Callers |-> NoMigrator],
         closed' \in {"inactive", "active", "leaving", "failed"},
         closed' # "inactive" \/ closed = "inactive" \/ journal = Versions
  PROVE  MigrationInv'
<1>1. ProcessTypeOK' /\ requests' = requests /\ requests \in Nat
  <2>1. ProcessTypeOK
    BY MigrationFacts
  <2>2. requests' = requests
    BY DEF process, Die, Tick
  <2> QED
    BY <2>1, <2>2, ProcessMoves
<1>2. migrator' \in [Callers -> MigratorRow]
  <2>1. migrator \in [Callers -> MigratorRow]
    BY DEF MigrationInv, MigrationTypeOK, MigratorRow, MigratorSteps
  <2>2. NoMigrator \in MigratorRow
    BY NoMigratorIs
  <2>3. [c \in Callers |-> NoMigrator] \in [Callers -> MigratorRow]
    BY <2>2
  <2> QED
    BY <2>1, <2>3
<1>3. MigrationTypeOK'
  BY <1>1, <1>2 DEF MigrationInv, MigrationTypeOK, MigratorRow, MigratorSteps, schema
<1>4. OperationOK' /\ (~stolen' => ProgressOK') /\ \E n \in 0 .. Latest : journal' = 1 .. n
  BY <1>1, MigrationFacts DEF OperationOK, ProgressOK, Upto, schema
<1>5. CASE migrator' = migrator
  <2>1. Distinct'
    BY <1>5, MigrationFacts DEF Distinct
  <2>2. ASSUME NEW c \in Callers PROVE Local(c)'
    <3>1. Local(c)
      BY MigrationFacts
    <3>2. MigratorOK(c)' /\ RowOK(c)' /\ LateOK(c)'
      BY <1>1, <1>5, <3>1 DEF Local, MigratorOK, RowOK, LateOK
    <3>3. JournalOK(c)'
      BY <1>5, <3>1 DEF Local, JournalOK, Upto, schema, Versions
    <3>4. ~stolen' => AloneOK(c)'
      BY <1>5, <3>1 DEF Local, AloneOK, schema
    <3> QED
      BY <3>2, <3>3, <3>4 DEF Local
  <2> QED
    BY <1>3, <1>4, <2>1, <2>2 DEF MigrationInv, Local
<1>6. CASE migrator' = [c \in Callers |-> NoMigrator]
  <2>1. \A c \in Callers : migrator'[c] = NoMigrator
    BY <1>6
  <2>2. Distinct'
    BY <2>1, NoMigratorIs DEF Distinct
  <2>3. operation'.id = 0 => operation'.from = 0
    BY MigrationFacts DEF OperationOK
  <2>4. \A c \in Callers : Local(c)'
    BY <1>1, <2>1, <2>3, IdleOK
  <2> QED
    BY <1>3, <1>4, <2>2, <2>4 DEF MigrationInv, Local
<1> QED
  BY <1>5, <1>6

LEMMA MoveMaintenanceKeeps ==
  ASSUME MigrationInv, MoveMaintenance
  PROVE  MigrationInv'
<1>1. journal = Versions
  <2>1. SchemaState = "ready" /\ AutomaticDone
    BY DEF MoveMaintenance, SchemaGate
  <2>2. 1 \in journal
    BY <2>1, MigrationFacts DEF AutomaticDone
  <2>3. infrastructure
    BY <2>1 DEF SchemaState
  <2> QED
    BY <2>1, <2>2, <2>3 DEF SchemaState
<1>2. UNCHANGED <<schema, lock, operation, migrator, wired, stolen, process>>
      /\ closed' \in {"inactive", "active", "leaving", "failed"}
  BY DEF MoveMaintenance
<1> QED
  BY <1>1, <1>2, PortalKeeps

LEMMA MigrationNextKeeps ==
  ASSUME MigrationInv, [MigrationNext]_migrationVars
  PROVE  MigrationInv'
<1>1. CASE UNCHANGED migrationVars
  BY <1>1, MigrationFacts, PortalKeeps DEF migrationVars
<1>2. CASE MoveMaintenance
  BY <1>2, MoveMaintenanceKeeps
<1>3. CASE PortalDies
  BY <1>3, MigrationFacts, PortalKeeps DEF PortalDies
<1>4. CASE MigrationTick
  BY <1>4, MigrationFacts, PortalKeeps DEF MigrationTick
<1>5. ASSUME NEW c \in Callers, MigrationStart(c) PROVE MigrationInv'
  BY <1>5, MigrationStartKeeps DEF MigrationStart
<1>6. ASSUME NEW c \in Callers, StatementThrows(c) PROVE MigrationInv'
  BY <1>6, ThrowKeeps DEF StatementThrows
<1>7. ASSUME NEW c \in Callers, MigrationStep(c) PROVE MigrationInv'
  BY <1>7, PrepareInfrastructureKeeps, InspectPlanKeeps, LoadOperationKeeps, SweepLockKeeps,
     InsertLockKeeps, RenewLockKeeps, ReleaseLockKeeps, ReadJournalKeeps, LockedPreflightKeeps,
     BeginOperationKeeps, CreateTablesKeeps, CommitMigrationKeeps, VerifyFinalKeeps,
     CompleteOperationKeeps, FailOperationKeeps, MarkMaintenanceFailedKeeps, ClassifyKeeps,
     MarkReconciliationKeeps
  DEF MigrationStep
<1> QED
  BY <1>1, <1>2, <1>3, <1>4, <1>5, <1>6, <1>7 DEF MigrationNext

LEMMA MigrationInitKeeps ==
  ASSUME MigrationInit
  PROVE  MigrationInv
<1>1. PICK base \in 0 .. Automatic :
        /\ infrastructure = (base > 0) /\ journal = 1 .. base /\ tables = 1 .. base
        /\ closed \in {"inactive", "active"}
  BY DEF MigrationInit
<1>2. /\ ProcessInit /\ lock = NoLock /\ operation = NoOperation
      /\ migrator = [c \in Callers |-> NoMigrator] /\ stolen = FALSE /\ wired \in Wiring
  BY DEF MigrationInit
<1>3. ProcessTypeOK /\ requests = 0 /\ requests \in Nat
  BY <1>2, ProcessAssumption DEF ProcessInit, ProcessTypeOK
<1>4. base \in 0 .. Latest /\ journal \subseteq Versions /\ tables \subseteq Versions
  BY <1>1, MigrationAssumption DEF Versions
<1>5. infrastructure \in BOOLEAN /\ wired \in BOOLEAN
  <2>1. infrastructure \in BOOLEAN
    <3>1. infrastructure = TRUE \/ infrastructure = FALSE
      BY <1>1
    <3> QED
      BY <3>1, Zenon
  <2>2. \A w \in Wiring : w \in BOOLEAN
    <3>1. Wiring \in SUBSET BOOLEAN
      BY MigrationAssumption
    <3> QED
      BY <3>1, Zenon
  <2> QED
    BY <1>2, <2>1, <2>2, Zenon
<1>6. stolen = FALSE /\ stolen \in BOOLEAN
  BY <1>2
<1>7. /\ migrator \in [Callers -> MigratorRow] /\ operation \in OperationRow
      /\ operation.from + operation.applied <= Latest /\ operation.id = 0 /\ operation.from = 0
      /\ operation.applied = 0 /\ operation.state = "none"
  BY <1>2, NoMigratorIs, MigrationAssumption
<1>8. lock \in [owner : 0 .. MaxRequests, at : 0 .. MaxTime]
  BY <1>2, ProcessAssumption DEF NoLock
<1>9. MigrationTypeOK
  BY <1>1, <1>3, <1>4, <1>5, <1>6, <1>7, <1>8 DEF MigrationTypeOK, MigratorRow, MigratorSteps
<1>10. OperationOK /\ ProgressOK
  BY <1>3, <1>7 DEF OperationOK, ProgressOK, Upto
<1>11. \A c \in Callers : migrator[c] = NoMigrator
  BY <1>2
<1>12. Distinct
  BY <1>11, NoMigratorIs DEF Distinct
<1>13. ASSUME NEW c \in Callers
       PROVE  MigratorOK(c) /\ JournalOK(c) /\ RowOK(c) /\ LateOK(c) /\ AloneOK(c)
  <2>1. /\ migrator[c].step = "idle" /\ migrator[c].row.id = 0 /\ migrator[c].row.from = 0
        /\ migrator[c].late = 0
    BY <1>11, NoMigratorIs
  <2>2. "idle" \notin Held \cup Batches \cup Planned \cup Migrating \cup Early
    BY DEF Held, Batches, Planned, Migrating, Acquired, Early
  <2> QED
    BY <1>3, <1>7, <2>1, <2>2 DEF MigratorOK, JournalOK, RowOK, LateOK, AloneOK
<1> QED
  BY <1>1, <1>4, <1>9, <1>10, <1>12, <1>13 DEF MigrationInv

---------------------------------------------------------------------------------
(* Theorems. *)

\* The inductive invariant: what each request has found of the journal and of
\* the operation still holds at the statement it executes next, whatever the
\* others did since; and while no lock was taken from a living request, what
\* the owner of the lock found is exact.
THEOREM MigrationsAreSound == MigrationSpec => []MigrationInv
<1>1. MigrationInit => MigrationInv
  BY MigrationInitKeeps
<1>2. MigrationInv /\ [MigrationNext]_migrationVars => MigrationInv'
  BY MigrationNextKeeps
<1> QED
  BY <1>1, <1>2, PTL DEF MigrationSpec

\* The rows and the requests keep their types, and an operation never counts
\* past the last version, for every registry, lock and number of callers.
THEOREM MigrationsAreTyped == MigrationSpec => []MigrationTypeOK
<1>1. MigrationInv => MigrationTypeOK
  BY DEF MigrationInv
<1> QED
  BY <1>1, MigrationsAreSound, PTL

\* The stored progress of an operation never runs ahead of the journal, and
\* that of a running one is exact unless its lock was taken: the guarded UPDATE
\* in the batch of commitMigration needs no other protection.
THEOREM ProgressIsTrue == MigrationSpec => []ProgressIsJournaled
<1>1. MigrationInv => ProgressIsJournaled
  BY DEF MigrationInv, OperationOK, ProgressOK, Upto, ProgressIsJournaled
<1> QED
  BY <1>1, MigrationsAreSound, PTL

\* A succeeded or reconciled operation leaves the complete schema: the journal
\* only grows, so that a final check made after the lock was lost stays true.
THEOREM FinishedOperationsAreComplete == MigrationSpec => []FinishedIsComplete
<1>1. MigrationInv => FinishedIsComplete
  BY DEF MigrationInv, OperationOK, FinishedIsComplete
<1> QED
  BY <1>1, MigrationsAreSound, PTL

\* An operation is called interrupted only if it journaled nothing, but for the
\* batch of a request whose lock was taken.
THEOREM InterruptedOperationsDidNothing == MigrationSpec => []InterruptedIsUntouched
<1>1. MigrationInv => InterruptedIsUntouched
  BY DEF MigrationInv, ProgressOK, InterruptedIsUntouched
<1> QED
  BY <1>1, MigrationsAreSound, PTL

\* A request that lost its lock executes one more batch at most: every batch is
\* followed by a renewal, which it fails.
THEOREM LateRequestsStop == MigrationSpec => []LateBatchesOnce
<1>1. MigrationInv => LateBatchesOnce
  <2> SUFFICES ASSUME MigrationInv, NEW c \in Callers PROVE migrator[c].late <= 1
    BY DEF LateBatchesOnce
  <2>1. migrator[c].late \in {0, 1}
    BY MigrationFacts DEF Local, LateOK
  <2> QED
    BY <2>1
<1> QED
  BY <1>1, MigrationsAreSound, PTL

\* A controlled migration is committed only while the portal is closed, although
\* maintenance is verified once, before the lock: it can be opened again only
\* behind a gate that the missing version keeps shut.
THEOREM ControlledMigrationsUnderMaintenance == MigrationSpec => ControlledUnderMaintenance
<1>1. MigrationInv /\ [MigrationNext]_migrationVars
        => [\A v \in journal' \ journal : v > Automatic => closed # "inactive"]_migrationVars
  <2>0. UNCHANGED migrationVars => journal' = journal
    BY DEF migrationVars, schema
  <2> SUFFICES ASSUME MigrationInv, MigrationNext, NEW v \in journal' \ journal, v > Automatic
               PROVE  closed # "inactive"
    BY <2>0
  <2>1. PICK c \in Callers : CommitMigration(c)
    <3>1. journal' # journal
      OBVIOUS
    <3>2. ASSUME NEW c \in Callers, MigrationStart(c)
          PROVE  journal' = journal
      BY <3>2 DEF MigrationStart, StartEnsure, StartApply, StartReconcile, Start, schema
    <3>3. ASSUME NEW c \in Callers,
                 \/ PrepareInfrastructure(c) \/ InspectPlan(c) \/ LoadOperation(c)
                 \/ SweepLock(c) \/ InsertLock(c) \/ RenewLock(c) \/ ReleaseLock(c)
                 \/ ReadJournal(c) \/ LockedPreflight(c) \/ BeginOperation(c)
          PROVE  journal' = journal
      BY <3>3 DEF PrepareInfrastructure, InspectPlan, LoadOperation, SweepLock, InsertLock, RenewLock,
                  ReleaseLock, ReadJournal, LockedPreflight, BeginOperation, schema
    <3>4. ASSUME NEW c \in Callers,
                 \/ CreateTables(c) \/ VerifyFinal(c) \/ CompleteOperation(c)
                 \/ FailOperation(c) \/ MarkMaintenanceFailed(c) \/ Classify(c)
                 \/ MarkReconciliation(c) \/ StatementThrows(c)
          PROVE  journal' = journal
      BY <3>4 DEF CreateTables, VerifyFinal, CompleteOperation, FailOperation, MarkMaintenanceFailed,
                  Classify, MarkReconciliation, StatementThrows, schema
    <3>5. ASSUME MoveMaintenance \/ PortalDies \/ MigrationTick
          PROVE  journal' = journal
      BY <3>5 DEF MoveMaintenance, PortalDies, MigrationTick, schema
    <3> QED
      BY <3>1, <3>2, <3>3, <3>4, <3>5 DEF MigrationNext, MigrationStep
  <2>2. migrator[c].step = "commit" /\ v = migrator[c].version /\ v \notin journal
    BY <2>1 DEF CommitMigration
  <2>3. Local(c) /\ "commit" \in Batches
    BY MigrationFacts DEF Batches
  <2>4. v \in 1 .. Last(migrator[c].kind) /\ migrator[c].kind \in {"ensure", "apply"}
    BY <2>2, <2>3, MigratorIs, MigrationFacts DEF Local, MigratorOK, JournalOK
  <2>5. migrator[c].kind = "apply" /\ v \in Versions
    BY <2>4, MigrationFacts DEF Last, Versions
  <2> QED
    BY <2>2, <2>3, <2>5 DEF Local, JournalOK
<1> QED
  BY <1>1, MigrationsAreSound, PTL DEF MigrationSpec, ControlledUnderMaintenance

---------------------------------------------------------------------------------
(* The migrations implement the upgrade of the schema. *)

\* The commit adds the next version, and a controlled one behind a closed portal.
LEMMA CommitUpgrades ==
  ASSUME MigrationInv, NEW c \in Callers, CommitMigration(c), journal' # journal
  PROVE  \E v \in 1 .. Latest :
           /\ journal = 1 .. (v - 1) /\ journal' = 1 .. v
           /\ v > Automatic => closed # "inactive"
           /\ closed' = closed /\ operation'.state = operation.state
<1>1. /\ migrator[c].step = "commit" /\ closed' = closed
      /\ migrator[c].version \notin journal /\ journal' = journal \cup {migrator[c].version}
      /\ operation' = IF Counted(c) THEN [operation EXCEPT !.applied = @ + 1] ELSE operation
  BY DEF CommitMigration
<1>2. Local(c) /\ "commit" \in Batches /\ operation \in OperationRow
  BY MigrationFacts DEF Batches
<1>3. PICK v \in Nat : /\ v = migrator[c].version /\ v \in 1 .. Last(migrator[c].kind) /\ v \in 1 .. Latest
                       /\ Upto(v - 1) /\ migrator[c].kind \in {"ensure", "apply"}
                       /\ v <= Latest /\ v >= 1
  BY <1>1, <1>2, MigratorIs, MigrationFacts DEF Local, MigratorOK, JournalOK, Last
<1>4. journal = 1 .. (v - 1) /\ journal' = 1 .. v
  <2>1. PICK n \in 0 .. Latest : journal = 1 .. n
    BY MigrationFacts
  <2>2. n \in Nat
    BY <2>1, MigrationFacts
  <2>3. v > n
    BY <1>1, <1>3, <2>1, <2>2
  <2>4. v - 1 >= 1 => v - 1 \in 1 .. n
    BY <1>3, <2>1 DEF Upto
  <2>5. n = v - 1
    BY <1>3, <2>2, <2>3, <2>4
  <2>6. (1 .. (v - 1)) \cup {v} = 1 .. v
    BY <1>3
  <2> QED
    BY <1>1, <1>3, <2>1, <2>5, <2>6
<1>5. v > Automatic => migrator[c].kind = "apply"
  BY <1>3, MigrationFacts DEF Last
<1>6. v > Automatic => closed # "inactive"
  <2>1. journal # Versions
    BY <1>1, <1>3 DEF Versions
  <2> QED
    BY <1>1, <1>2, <1>5, <2>1 DEF Local, JournalOK
<1>7. operation'.state = operation.state
  BY <1>1, <1>2 DEF OperationRow
<1> QED
  BY <1>1, <1>3, <1>4, <1>6, <1>7

Complete == {"succeeded", "reconciled"}

\* What is recorded of an operation is complete only with the schema, and what
\* is complete is only followed by a new operation.
LEMMA RecordsTell ==
  ASSUME MigrationInv, NEW c \in Callers,
         \/ BeginOperation(c) \/ CompleteOperation(c) \/ FailOperation(c) \/ MarkReconciliation(c)
  PROVE  /\ UNCHANGED <<journal, closed>>
         /\ \/ operation'.state = operation.state
            \/ operation'.state = "running" /\ operation.state # "running"
            \/ operation'.state \in {"failed", "interrupted"} /\ operation.state \in {"running", "failed"}
            \/ /\ operation'.state \in Complete /\ operation.state \in {"running", "failed"}
               /\ journal = Versions
<1>1. operation \in OperationRow /\ Local(c)
  BY MigrationFacts
<1>2. CASE BeginOperation(c)
  BY <1>2 DEF BeginOperation, schema
<1>3. CASE CompleteOperation(c)
  <2>1. migrator[c].step = "complete" /\ journal = Versions
    BY <1>1, <1>3 DEF CompleteOperation, Local, JournalOK
  <2> QED
    BY <1>1, <1>3, <2>1 DEF CompleteOperation, OperationRow, Complete, schema
<1>4. CASE FailOperation(c)
  BY <1>1, <1>4 DEF FailOperation, OperationRow, schema
<1>5. CASE MarkReconciliation(c)
  <2>1. /\ migrator[c].step = "mark" /\ UNCHANGED <<schema, closed>>
        /\ \/ /\ migrator[c].verdict = "reconciled" /\ operation.state \in {"running", "failed"}
              /\ operation' = [operation EXCEPT !.state = "reconciled",
                                                !.applied = Latest - operation.from]
           \/ /\ operation.state \in {"running", "failed"}
              /\ operation' = [operation EXCEPT !.state = "interrupted"]
           \/ /\ operation.state = "running"
              /\ operation' = [operation EXCEPT !.state = "failed"]
           \/ operation' = operation
    BY <1>5 DEF MarkReconciliation
  <2>2. migrator[c].verdict = "reconciled" => journal = Versions
    BY <1>1, <2>1 DEF Local, JournalOK
  <2> QED
    BY <1>1, <2>1, <2>2 DEF OperationRow, Complete, schema
<1> QED
  BY <1>2, <1>3, <1>4, <1>5

\* Every step is a commit, a move of maintenance, a record of the operation, or
\* leaves all three alone.
LEMMA MigrationStepsTell ==
  ASSUME MigrationInv, [MigrationNext]_migrationVars
  PROVE  \/ UNCHANGED <<journal, operation>> /\ (closed' = "inactive") = (closed = "inactive")
         \/ UNCHANGED <<journal, operation>> /\ closed = "inactive" /\ closed' # "inactive"
         \/ UNCHANGED <<journal, operation>> /\ closed # "inactive" /\ journal = Versions
         \/ \E c \in Callers : CommitMigration(c) /\ journal' # journal
         \/ UNCHANGED <<journal, closed>> /\ operation'.state = operation.state
         \/ \E c \in Callers : \/ BeginOperation(c) \/ CompleteOperation(c) \/ FailOperation(c)
                               \/ MarkReconciliation(c)
<1>1. CASE UNCHANGED migrationVars
  BY <1>1 DEF migrationVars, schema
<1>2. CASE MoveMaintenance
  <2>1. journal = Versions
    <3>1. SchemaState = "ready" /\ AutomaticDone
      BY <1>2 DEF MoveMaintenance, SchemaGate
    <3>2. 1 \in journal
      BY <3>1, MigrationFacts DEF AutomaticDone
    <3>3. infrastructure
      BY <3>1 DEF SchemaState
    <3> QED
      BY <3>1, <3>2, <3>3 DEF SchemaState
  <2> QED
    BY <1>2, <2>1 DEF MoveMaintenance, schema
<1>3. CASE PortalDies \/ MigrationTick
  BY <1>3 DEF PortalDies, MigrationTick, schema
<1>4. ASSUME NEW c \in Callers, MigrationStart(c)
      PROVE  UNCHANGED <<journal, operation, closed>>
  BY <1>4 DEF MigrationStart, StartEnsure, StartApply, StartReconcile, Start, schema
<1>5. ASSUME NEW c \in Callers,
             \/ PrepareInfrastructure(c) \/ InspectPlan(c) \/ LoadOperation(c)
             \/ SweepLock(c) \/ InsertLock(c) \/ RenewLock(c) \/ ReleaseLock(c)
             \/ ReadJournal(c) \/ LockedPreflight(c) \/ CreateTables(c) \/ VerifyFinal(c)
             \/ Classify(c) \/ StatementThrows(c)
      PROVE  UNCHANGED <<journal, operation, closed>>
  BY <1>5 DEF PrepareInfrastructure, InspectPlan, LoadOperation, SweepLock, InsertLock, RenewLock,
              ReleaseLock, ReadJournal, LockedPreflight, CreateTables, VerifyFinal, Classify,
              StatementThrows, schema
<1>6. ASSUME NEW c \in Callers, CommitMigration(c), journal' = journal
      PROVE  UNCHANGED <<journal, closed>> /\ operation'.state = operation.state
  BY <1>6 DEF CommitMigration
<1>7. ASSUME NEW c \in Callers, MarkMaintenanceFailed(c)
      PROVE  UNCHANGED <<journal, operation>> /\ (closed' = "inactive") = (closed = "inactive")
  BY <1>7 DEF MarkMaintenanceFailed, schema
<1> QED
  BY <1>1, <1>2, <1>3, <1>4, <1>5, <1>6, <1>7 DEF MigrationNext, MigrationStep

\* Whatever requests, operators, thefts of the lock and deaths do, the schema
\* goes up one version at a time and in order, a controlled version behind a
\* closed portal, which opens again only with the last version; and what is
\* recorded as complete is complete, until the next operation begins.
THEOREM MigrationsUpgradeInOrder == MigrationSpec => UpgradesInOrder
<1>1. MigrationInit => Upgrades!Init
  <2> SUFFICES ASSUME MigrationInit PROVE Upgrades!Init
    OBVIOUS
  <2>1. PICK base \in 0 .. Automatic : journal = 1 .. base
    BY DEF MigrationInit
  <2>2. base \in 0 .. Latest
    BY <2>1, MigrationAssumption
  <2>3. Current = base
    BY <2>1, <2>2, CurrentIs
  <2>4. operation.state = "none"
    BY DEF MigrationInit, NoOperation
  <2> QED
    BY <2>1, <2>3, <2>4 DEF Upgrades!Init
<1>2. MigrationInv /\ [MigrationNext]_migrationVars => [Upgrades!Next]_(Upgrades!vars)
  <2> SUFFICES ASSUME MigrationInv, [MigrationNext]_migrationVars
               PROVE  [Upgrades!Next]_(Upgrades!vars)
    OBVIOUS
  <2>0. operation.state \in {"none", "running", "succeeded", "failed", "interrupted", "reconciled"}
    BY MigrationFacts DEF OperationRow
  <2>1. Current \in 0 .. Latest /\ journal = 1 .. Current /\ Latest \in Nat
    BY PrefixIs, MigrationFacts
  <2>2. journal = Versions => Current = Latest
    <3>1. Latest \in 0 .. Latest
      BY <2>1
    <3> QED
      BY <3>1, CurrentIs DEF Versions
  <2>3. journal' = journal => Current' = Current
    BY DEF Current
  <2>4. CASE UNCHANGED <<journal, operation>> /\ (closed' = "inactive") = (closed = "inactive")
    BY <2>3, <2>4 DEF Upgrades!vars
  <2>5. CASE UNCHANGED <<journal, operation>> /\ closed = "inactive" /\ closed' # "inactive"
    <3>1. Upgrades!Close
      BY <2>3, <2>5 DEF Upgrades!Close
    <3> QED
      BY <3>1 DEF Upgrades!Next
  <2>6. CASE UNCHANGED <<journal, operation>> /\ closed # "inactive" /\ journal = Versions
    <3>1. CASE closed' = "inactive"
      <4>1. Upgrades!Reopen
        BY <2>2, <2>3, <2>6, <3>1 DEF Upgrades!Reopen
      <4> QED
        BY <4>1 DEF Upgrades!Next
    <3>2. CASE closed' # "inactive"
      BY <2>3, <2>6, <3>2 DEF Upgrades!vars
    <3> QED
      BY <3>1, <3>2
  <2>7. ASSUME NEW c \in Callers, CommitMigration(c), journal' # journal
        PROVE  Upgrades!Next
    <3>1. PICK v \in 1 .. Latest :
            /\ journal = 1 .. (v - 1) /\ journal' = 1 .. v
            /\ v > Automatic => closed # "inactive"
            /\ closed' = closed /\ operation'.state = operation.state
      BY <2>7, CommitUpgrades
    <3>2. v - 1 \in 0 .. Latest /\ v \in 0 .. Latest /\ v \in Nat
      BY <2>1
    <3>3. Current = v - 1
      BY <3>1, <3>2, CurrentIs
    <3>4. Current' = v
      BY <3>1, <3>2, LastOf DEF Current
    <3>5. Current < Latest /\ Current' = Current + 1
      BY <2>1, <3>2, <3>3, <3>4
    <3>6. Upgrades!Upgrade
      BY <3>1, <3>4, <3>5 DEF Upgrades!Upgrade
    <3> QED
      BY <3>6 DEF Upgrades!Next
  <2>8. CASE UNCHANGED <<journal, closed>> /\ operation'.state = operation.state
    BY <2>3, <2>8 DEF Upgrades!vars
  <2>9. ASSUME NEW c \in Callers,
               \/ BeginOperation(c) \/ CompleteOperation(c) \/ FailOperation(c)
               \/ MarkReconciliation(c)
        PROVE  [Upgrades!Next]_(Upgrades!vars)
    <3>1. /\ UNCHANGED <<journal, closed>>
          /\ \/ operation'.state = operation.state
             \/ operation'.state = "running" /\ operation.state # "running"
             \/ operation'.state \in {"failed", "interrupted"} /\ operation.state \in {"running", "failed"}
             \/ /\ operation'.state \in Complete /\ operation.state \in {"running", "failed"}
                /\ journal = Versions
      BY <2>9, RecordsTell
    <3>2. Upgrades!Record \/ UNCHANGED Upgrades!vars
      BY <2>0, <2>2, <2>3, <3>1 DEF Upgrades!Record, Upgrades!vars, Upgrades!Verdicts, Complete
    <3> QED
      BY <3>2 DEF Upgrades!Next
  <2> QED
    BY <2>4, <2>5, <2>6, <2>7, <2>8, <2>9, MigrationStepsTell
<1> QED
  BY <1>1, <1>2, MigrationsAreSound, PTL DEF MigrationSpec, UpgradesInOrder, Upgrades!Spec
===================================================================================
