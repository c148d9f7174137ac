------------------------------ MODULE RuntimeLifecycle ------------------------------
(***************************************************************************)
(* The production process: it opens the gateway, the database and the HTTP *)
(* server and starts the scheduler, and closes what it opened when a step  *)
(* of the start fails or when it is told to stop. Requests, the background *)
(* tasks they leave behind and the scheduled run all use the database.     *)
(*                                                                         *)
(* Callers are clients with one connection each; a client may leave before *)
(* its answer. An idle connection ends when the server closes. The timer   *)
(* fires at any time, and its run is one task.                             *)
(***************************************************************************)
EXTENDS PortalProcess

VARIABLES
  phase,     \* what the process does next
  open,      \* the resources that are open
  failed,    \* the resources whose cleanup failed
  handler,   \* the request of each client: its step, what its client has got,
             \* whether a task of its context is pending
  scheduler, \* "off", "waiting" for its timer or "running"
  draining   \* the tasks the closing server waits for

lifeVars == <<phase, open, failed, handler, scheduler, draining, process>>

NoHandler == [step |-> "idle", client |-> "none", task |-> FALSE]
Waiting(c) == handler[c].client = "waiting"

LifeInit ==
  /\ ProcessInit
  /\ phase = "gateway" /\ open = {} /\ failed = {}
  /\ handler = [c \in Callers |-> NoHandler]
  /\ scheduler = "off" /\ draining = {}

---------------------------------------------------------------------------------
(* The start. *)

NextStart == [gateway |-> "database", database |-> "http", http |-> "scheduler"]

OpenResource(r) ==
  /\ phase = r /\ r \in {"gateway", "database", "http"}
  /\ open' = open \cup {r}
  /\ phase' = NextStart[r]
  /\ UNCHANGED <<failed, handler, scheduler, draining, process>>

StartScheduler ==
  /\ phase = "scheduler"
  /\ scheduler' = "waiting" /\ phase' = "ready"
  /\ UNCHANGED <<open, failed, handler, draining, process>>

\* A step of the start throws. The application closes its database when the
\* server does not start; then the runtime closes what is open: the server
\* when the scheduler could not be made, or nothing but the gateway.
StartFails ==
  /\ phase \in {"gateway", "database", "http", "scheduler"}
  /\ Fault
  /\ open' = IF phase = "http" THEN open \ {"database"} ELSE open
  /\ phase' = IF phase = "scheduler" THEN "undoHttp" ELSE "undoGateway"
  /\ UNCHANGED <<failed, handler, scheduler, draining>>

---------------------------------------------------------------------------------
(* Requests and the timer. *)

ClientCalls(c) ==
  /\ "http" \in open
  /\ phase \in {"scheduler", "ready"}
  /\ handler[c].step = "idle"
  /\ Arrive
  /\ handler' = [handler EXCEPT ![c] = [step |-> "fetch", client |-> "waiting", task |-> FALSE]]
  /\ UNCHANGED <<phase, open, failed, scheduler, draining>>

ClientLeaves(c) ==
  /\ Waiting(c)
  /\ handler' = [handler EXCEPT ![c].client = "left"]
  /\ UNCHANGED <<phase, open, failed, scheduler, draining, process>>

\* The handler gives its context a task to wait for.
WaitUntil(c) ==
  /\ handler[c].step = "fetch" /\ ~handler[c].task
  /\ handler' = [handler EXCEPT ![c].task = TRUE]
  /\ UNCHANGED <<phase, open, failed, scheduler, draining, process>>

\* The handler has answered; its context stays active until it is drained.
Respond(c) ==
  /\ handler[c].step = "fetch"
  /\ handler' = [handler EXCEPT 
       ![c].step = "drain", ![c].client = IF Waiting(c) THEN "answered" ELSE @]
  /\ UNCHANGED <<phase, open, failed, scheduler, draining, process>>

TaskEnds(c) ==
  /\ handler[c].task
  /\ handler' = [handler EXCEPT ![c].task = FALSE]
  /\ draining' = draining \ {c}
  /\ UNCHANGED <<phase, open, failed, scheduler, process>>

Drained(c) ==
  /\ handler[c].step = "drain" /\ ~handler[c].task
  /\ handler' = [handler EXCEPT ![c] = NoHandler]
  /\ UNCHANGED <<phase, open, failed, scheduler, draining, process>>

\* The timer runs the scheduled handler while the process is ready; the next
\* one is set when the run and its tasks have ended.
TimerFires ==
  /\ scheduler = "waiting" /\ phase = "ready"
  /\ scheduler' = "running"
  /\ UNCHANGED <<phase, open, failed, handler, draining, process>>

ScheduledRunEnds ==
  /\ scheduler = "running"
  /\ scheduler' = IF phase = "stopScheduler" THEN "off" ELSE "waiting"
  /\ UNCHANGED <<phase, open, failed, handler, draining, process>>

---------------------------------------------------------------------------------
(* The stop, and the cleanup of a failed start. *)

StopSignal ==
  /\ phase = "ready"
  /\ phase' = "closeHttp"
  /\ UNCHANGED <<open, failed, handler, scheduler, draining, process>>

\* Slip: only the connections are waited for.
CloseConnections ==
  /\ phase \in {"closeHttp", "undoHttp"}
  /\ \A c \in Callers : ~Waiting(c)
  /\ phase' = IF phase = "closeHttp" THEN "drainHttp" ELSE "undoDrain"
  /\ UNCHANGED <<open, failed, handler, scheduler, draining, process>>

\* The server stops listening and waits for its connections; then for the
\* tasks that are pending in the active contexts at that moment.
CloseHttp ==
  /\ phase \in {"closeHttp", "undoHttp"}
  /\ \A c \in Callers : ~Waiting(c)
  /\ draining' = {c \in Callers : handler[c].task}
  /\ phase' = IF phase = "closeHttp" THEN "drainHttp" ELSE "undoDrain"
  /\ UNCHANGED <<open, failed, handler, scheduler, process>>

DrainHttp ==
  /\ phase \in {"drainHttp", "undoDrain"}
  /\ draining = {}
  /\ open' = open \ {"http"}
  /\ phase' = IF phase = "drainHttp" THEN "stopScheduler" ELSE "undoDatabase"
  /\ UNCHANGED <<failed, handler, scheduler, draining, process>>

\* stop() takes the timer away and waits for the run.
StopScheduler ==
  /\ phase = "stopScheduler"
  /\ scheduler # "running"
  /\ scheduler' = "off" /\ phase' = "closeGateway"
  /\ UNCHANGED <<open, failed, handler, draining, process>>

NextStop == [closeGateway |-> "closeDatabase", closeDatabase |-> "stopped",
             undoDatabase |-> "undoGateway", undoGateway |-> "failed"]
Closed == [closeGateway |-> "gateway", closeDatabase |-> "database",
           undoDatabase |-> "database", undoGateway |-> "gateway"]

CloseResource ==
  /\ phase \in DOMAIN NextStop
  /\ open' = open \ {Closed[phase]}
  /\ phase' = NextStop[phase]
  /\ UNCHANGED <<failed, handler, scheduler, draining, process>>

\* A cleanup action throws: that is kept, and the others follow.
CleanupFails ==
  /\ phase \in DOMAIN NextStop
  /\ Fault
  /\ failed' = failed \cup {Closed[phase]}
  /\ phase' = NextStop[phase]
  /\ UNCHANGED <<open, handler, scheduler, draining>>

LifeNext ==
  \/ \E r \in {"gateway", "database", "http"} : OpenResource(r)
  \/ StartScheduler \/ StartFails
  \/ \E c \in Callers : \/ ClientCalls(c) \/ ClientLeaves(c) \/ WaitUntil(c)
                        \/ Respond(c) \/ TaskEnds(c) \/ Drained(c)
  \/ TimerFires \/ ScheduledRunEnds \/ StopSignal
  \/ CloseHttp \/ DrainHttp \/ StopScheduler \/ CloseResource \/ CleanupFails

LifeSpec == LifeInit /\ [][LifeNext]_lifeVars

---------------------------------------------------------------------------------
(* Properties. *)

LifeTypeOK ==
  /\ phase \in {"gateway", "database", "http", "scheduler", "ready", "closeHttp", "drainHttp",
                "stopScheduler", "stopped", "undoHttp", "undoDrain", "failed"} \cup DOMAIN NextStop
  /\ open \subseteq {"gateway", "database", "http"}
  /\ failed \subseteq {"gateway", "database"}
  /\ handler \in [Callers -> [step : {"idle", "fetch", "drain"}, 
                           client : {"none", "waiting", "answered", "left"}, task : BOOLEAN]]
  /\ scheduler \in {"off", "waiting", "running"}
  /\ draining \subseteq Callers

\* The database outlives the work that uses it: once it is closed no client
\* waits for an answer, no scheduled run goes on, and no task of an answered
\* request is pending, whatever part of the start or of the cleanup failed; and
\* nothing stays open unless its own cleanup failed. (The server waits for
\* connections and tasks, not for handlers: a handler whose client left goes on
\* with a closed database.)
DatabaseOutlivesWork ==
  /\ "database" \notin open => /\ scheduler # "running"
                               /\ \A c \in Callers :
                                    handler[c].step = "fetch" \/ handler[c].task
                                    => handler[c].client = "left"
  /\ phase \in {"stopped", "failed"} => open \subseteq failed
===================================================================================
