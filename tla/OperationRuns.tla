-------------------------------- MODULE OperationRuns --------------------------------
(***************************************************************************)
(* The log of operation runs: rows the portal writes when it launches a    *)
(* job of XYOps, brings up to date when somebody opens the log, and marks  *)
(* when an operator stops a job. Each of these reads the rows first, asks  *)
(* XYOps, and then writes whole rows; nothing locks a row, so an answer of *)
(* XYOps may be applied after a newer one. A finished row has one          *)
(* notification; one whose parameters were stored may be launched again.   *)
(*                                                                         *)
(* Run and job have the number of the request that launched them. Queued,  *)
(* running and unknown are "active". XYOps is external: the identifier and *)
(* the status in its answer to a launch are those of the job it started    *)
(* for it, if any; it refuses to abort a job that is over, and calls an    *)
(* aborted one failed or cancelled. The stages of a job, its texts, the    *)
(* stored parameters, the limits of the lists and demo runs, which have no *)
(* job, are left out.                                                      *)
(***************************************************************************)
EXTENDS PortalProcess

VARIABLES
  job,      \* external: the jobs of XYOps
  row,      \* operation_runs, with operation_notifications and operation_run_results
  operator  \* the request of each caller

runVars == <<job, row, operator, process>>

Runs == 1 .. MaxRequests
Ended == {"success", "failed", "cancelled"}

\* A row is linked when it has the identifier of a job, not one of its own
\* (LOCAL-...); refused (a history variable) when the launch was answered with
\* an error; and caught when the launch ended in its catch block, which writes
\* a second row, of a failed run without a job or stored parameters.
NoRow == [status |-> "none", linked |-> FALSE, refused |-> FALSE, caught |-> FALSE,
          notified |-> "none", result |-> FALSE]
NoOperator == [step |-> "idle", run |-> 0, kind |-> "none", status |-> "none",
               linked |-> FALSE, refused |-> FALSE,
               copy |-> [r \in Runs |-> "none"], answer |-> [r \in Runs |-> "none"]]

RunsInit ==
  /\ ProcessInit
  /\ job = [r \in Runs |-> "none"]
  /\ row = [r \in Runs |-> NoRow]
  /\ operator = [c \in Callers |-> NoOperator]

Request(c, kind, r, step) ==
  /\ operator[c].step = "idle"
  /\ Arrive
  /\ operator' = [operator EXCEPT
       ![c] = [NoOperator EXCEPT !.step = step, !.kind = kind, !.run = r]]
  /\ UNCHANGED <<job, row>>

Proceed(c, step) ==
  operator' = [operator EXCEPT
    ![c] = IF step = "idle" THEN NoOperator ELSE [@ EXCEPT !.step = step]]

Save(c, status, linked, refused) ==
  operator' = [operator EXCEPT ![c].step = "save", ![c].status = status,
                               ![c].linked = linked, ![c].refused = refused]

---------------------------------------------------------------------------------
(* The launch and the stop of a job. *)

LaunchRun(c) == Request(c, "launch", requests + 1, "launch")

\* run_event. Every 2xx answer is taken for a launch, with the status it tells,
\* active without one, and with or without an identifier; an answer with an error
\* is a failed run, which may have an identifier too; no answer goes to the catch
\* block. The job may have been started, and have ended, in each case.
StartJob(c) ==
  /\ operator[c].step = "launch"
  /\ \E state \in {"none", "active"} \cup Ended, linked \in BOOLEAN :
       /\ linked => state # "none"
       /\ job' = [job EXCEPT ![operator[c].run] = state]
       /\ \/ \E status \in {"active", IF state = "none" THEN "failed" ELSE state} :
               Save(c, status, linked, FALSE)
          \/ Save(c, "failed", linked, TRUE)
          \/ Proceed(c, "catch")
  /\ UNCHANGED <<row, process>>

CancelRun(c, r) == Request(c, "cancel", r, "look")

LookAtRun(c) ==
  /\ operator[c].step = "look"
  /\ LET r == operator[c].run
     IN Proceed(c, IF row[r].status = "active" /\ row[r].linked THEN "abort" ELSE "idle")
  /\ UNCHANGED <<job, row, process>>

\* Slip: the row is marked whatever XYOps answers.
AbortUnconfirmed(c) ==
  /\ operator[c].step = "abort"
  /\ \/ job' = [job EXCEPT ![operator[c].run] = IF @ = "active" THEN "cancelled" ELSE @]
     \/ job' = job
  /\ Save(c, "cancelled", TRUE, FALSE)
  /\ UNCHANGED <<row, process>>

AbortJob(c) ==
  /\ operator[c].step = "abort"
  /\ \/ /\ job[operator[c].run] = "active"
        /\ job' = [job EXCEPT ![operator[c].run] = "cancelled"]
        /\ Save(c, "cancelled", TRUE, FALSE)
     \/ job' = job /\ Proceed(c, "idle")
  /\ UNCHANGED <<row, process>>

---------------------------------------------------------------------------------
(* The log brought up to date. *)

SyncRuns(c) == Request(c, "sync", 0, "list")

ListRuns(c) ==
  /\ operator[c].step = "list"
  /\ operator' = [operator EXCEPT ![c].step = "results",
       ![c].copy = [r \in Runs |-> row[r].status]]
  /\ UNCHANGED <<job, row, process>>

\* The runs to ask for: active, or finished without a stored result. A row that
\* is not linked is asked for in vain, as XYOps has no job of its identifier,
\* which a row never changes.
ListResults(c) ==
  /\ operator[c].step = "results"
  /\ LET copy == operator[c].copy
         asked == {r \in Runs : \/ copy[r] = "active"
                                \/ copy[r] \in {"success", "failed"} /\ ~row[r].result}
     IN operator' = [operator EXCEPT ![c] =
          IF asked = {} THEN NoOperator
          ELSE [operator[c] EXCEPT
            !.step = IF \E r \in asked : copy[r] = "active" THEN "active" ELSE "details",
            !.answer = [r \in Runs |-> IF r \in asked /\ row[r].linked THEN "asked" ELSE "none"]]]
  /\ UNCHANGED <<job, row, process>>

\* get_active_jobs: the active jobs, or no answer.
FetchActive(c) ==
  /\ operator[c].step = "active"
  /\ \/ Proceed(c, "details")
     \/ operator' = [operator EXCEPT ![c].step = "details",
          ![c].answer = [r \in Runs |->
             IF job[r] = "active" /\ operator[c].copy[r] # "none" /\ row[r].linked
             THEN "active" ELSE operator[c].answer[r]]]
  /\ UNCHANGED <<job, row, process>>

\* get_jobs for the runs still asked for: their state, an aborted job's by
\* either name, or no answer, which leaves them as they are.
FetchDetails(c) ==
  /\ operator[c].step = "details"
  /\ LET asked == {r \in Runs : operator[c].answer[r] = "asked"}
     IN \E silent, renamed \in SUBSET asked :
          operator' = [operator EXCEPT ![c].step = "apply",
            ![c].answer = [r \in Runs |->
               IF r \notin asked THEN @[r]
               ELSE IF r \in silent THEN "none"
               ELSE IF job[r] = "cancelled" /\ r \in renamed THEN "failed" ELSE job[r]]]
  /\ UNCHANGED <<job, row, process>>

\* The rows in the order of the list, the newest first.
Newest(c) ==
  {r \in Runs : /\ operator[c].answer[r] # "none"
                /\ \A q \in Runs : operator[c].answer[q] # "none" => q <= r}

\* A row is written when its status is another one than in the list, or when
\* the stages of the job changed; with the status of the answer.
ApplyAnswer(c) ==
  /\ operator[c].step = "apply"
  /\ IF Newest(c) = {} THEN Proceed(c, "idle")
     ELSE \E r \in Newest(c) :
       LET answer == operator[c].answer[r]
           request == [operator[c] EXCEPT !.run = r, !.status = answer, !.linked = TRUE,
                                          !.answer[r] = "none"]
       IN \/ operator' = [operator EXCEPT ![c] = [request EXCEPT !.step = "save"]]
          \/ /\ answer = operator[c].copy[r]
             /\ operator' = [operator EXCEPT ![c] =
                  [request EXCEPT !.step = IF answer = "active" THEN "apply" ELSE "result"]]
  /\ UNCHANGED <<job, row, process>>

---------------------------------------------------------------------------------
(* saveOperationRun, saveRunNotification, saveRunReplay, saveRunResult. *)

\* A launch goes on with the parameters of the run.
AfterRow(c, next) ==
  CASE operator[c].kind = "sync" -> next
    [] operator[c].kind = "launch" -> "replay"
    [] OTHER -> "idle"

SaveRow(c) ==
  /\ operator[c].step = "save"
  /\ row' = [row EXCEPT ![operator[c].run].status = operator[c].status,
                        ![operator[c].run].linked = operator[c].linked,
                        ![operator[c].run].refused = @ \/ operator[c].refused]
  /\ Proceed(c, IF operator[c].status \in Ended THEN "notify" ELSE AfterRow(c, "apply"))
  /\ UNCHANGED <<job, process>>

\* One notification per run, the first; a failure is swallowed.
NotifyRun(c) ==
  /\ operator[c].step = "notify"
  /\ \/ row' = [row EXCEPT ![operator[c].run].notified = IF @ = "none" THEN operator[c].status ELSE @]
     \/ row' = row
  /\ Proceed(c, AfterRow(c, IF operator[c].status = "cancelled" THEN "apply" ELSE "result"))
  /\ UNCHANGED <<job, process>>

\* Without the stored parameters a run is not offered for a launch again.
SaveReplay(c) ==
  /\ operator[c].step = "replay"
  /\ Proceed(c, "idle")
  /\ UNCHANGED <<job, row, process>>

\* The catch block of a launch, whatever it has written before.
CatchLaunch(c) ==
  /\ operator[c].step = "catch"
  /\ row' = [row EXCEPT ![operator[c].run].caught = TRUE]
  /\ Proceed(c, "idle")
  /\ UNCHANGED <<job, process>>

\* A result without anything to show is not stored.
SaveResult(c) ==
  /\ operator[c].step = "result"
  /\ \/ row' = [row EXCEPT ![operator[c].run].result = TRUE]
     \/ row' = row
  /\ Proceed(c, "apply")
  /\ UNCHANGED <<job, process>>

---------------------------------------------------------------------------------

\* The job of a run ends in XYOps, or is aborted there.
JobEnds(r) ==
  /\ job[r] = "active"
  /\ \E end \in Ended : job' = [job EXCEPT ![r] = end]
  /\ UNCHANGED <<row, operator, process>>

\* A statement throws, or the process dies.
RunThrows(c) ==
  /\ operator[c].step # "idle"
  /\ Fault
  /\ \/ Proceed(c, "idle")
     \/ operator[c].kind = "launch" /\ operator[c].step \in {"launch", "save", "replay"} /\ Proceed(c, "catch")
  /\ UNCHANGED <<job, row>>

RunStep(c) ==
  \/ LaunchRun(c) \/ StartJob(c) \/ LookAtRun(c) \/ AbortJob(c)
  \/ \E r \in 1 .. requests : CancelRun(c, r)
  \/ SyncRuns(c) \/ ListRuns(c) \/ ListResults(c) \/ FetchActive(c) \/ FetchDetails(c)
  \/ ApplyAnswer(c) \/ SaveRow(c) \/ NotifyRun(c) \/ SaveReplay(c) \/ SaveResult(c)
  \/ CatchLaunch(c) \/ RunThrows(c)

RunsNext ==
  \/ \E c \in Callers : RunStep(c)
  \/ \E r \in Runs : JobEnds(r)

RunsSpec == RunsInit /\ [][RunsNext]_runVars

---------------------------------------------------------------------------------
(* Properties. *)

RunsTypeOK ==
  /\ job \in [Runs -> {"none", "active"} \cup Ended]
  /\ row \in [Runs -> [status : {"none", "active"} \cup Ended, linked : BOOLEAN, refused : BOOLEAN,
                       caught : BOOLEAN, notified : {"none"} \cup Ended, result : BOOLEAN]]
  /\ operator \in [Callers ->
       [step : {"idle", "launch", "look", "abort", "list", "results", "active", "details",
                "apply", "save", "notify", "replay", "result", "catch"},
        run : 0 .. MaxRequests, kind : {"none", "launch", "cancel", "sync"},
        status : {"none", "active"} \cup Ended, linked : BOOLEAN, refused : BOOLEAN,
        copy : [Runs -> {"none", "active"} \cup Ended],
        answer : [Runs -> {"none", "asked", "active"} \cup Ended]]]

\* What the log says is over, is over, of linked rows and others: no order of
\* launch, synchronisation and stop, with answers of XYOps missing or applied
\* late, makes a row finished, or tells so, while the job it may have started
\* runs, except when XYOps answered the launch itself with an error; a success,
\* in the row or in its notification, is the job's; and a result is of an ended
\* job. Excepted is the second row, written by the catch block of a launch:
\* nothing ties it to the job, which may run. (A late answer may put a stopped
\* run back to active until the next synchronisation.)
FinishedRunFinishedJob ==
  \A r \in Runs :
    /\ {row[r].status, row[r].notified} \cap Ended # {} => row[r].refused \/ job[r] # "active"
    /\ "success" \in {row[r].status, row[r].notified} => job[r] = "success"
    /\ row[r].result => job[r] \in Ended
===================================================================================
