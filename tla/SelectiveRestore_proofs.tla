-------------------------- MODULE SelectiveRestore_proofs --------------------------
(***************************************************************************)
(* Theorems about SelectiveRestore, for any number of callers, tables and  *)
(* contents: type correctness, and that a restore replaces exactly what    *)
(* its recovery document holds.                                            *)
(***************************************************************************)
EXTENDS SelectiveRestore, TLAPS

Preparing == {"export", "verify", "stage"}
Committing == {"load", "check", "write"}
Stages == 1 .. MaxRequests

\* What a request knows of its stage: one that prepares is alone with a stage
\* that is not there yet; one that has loaded a stage holds its document, which
\* never changes.
RequestOK(c) ==
  /\ restorer[c].step # "idle" => restorer[c].stage \in 1 .. requests
  /\ restorer[c].step \in Preparing => stage[restorer[c].stage].status = "none"
  /\ restorer[c].step \in {"check", "write"} =>
       /\ stage[restorer[c].stage].status # "none"
       /\ restorer[c].copy = stage[restorer[c].stage].document

RestoreAlone ==
  \A c, d \in Callers :
    /\ restorer[c].step \in Preparing /\ restorer[d].step \in Preparing
    /\ restorer[c].stage = restorer[d].stage
    => c = d

RestoreInv ==
  /\ ProcessTypeOK /\ RestoreTypeOK
  /\ \A s \in Stages : s > requests => stage[s].status = "none"
  /\ \A c \in Callers : RequestOK(c)
  /\ RestoreAlone

RestorerType ==
  [step : {"idle"} \cup Preparing \cup Committing, stage : 0 .. MaxRequests, now : 0 .. MaxTime,
   table : Tables, copy : Contents]
StageType ==
  [status : {"none", "prepared", "cancelled", "committed"}, expires : 0 .. MaxTime + Lifetime,
   document : Contents, backup : Backups]

---------------------------------------------------------------------------------
(* Types. *)

\* The bounds are natural numbers; the empty backup is one.
LEMMA RestoreConstants ==
  /\ MaxTable \in Nat \ {0} /\ MaxContent \in Nat /\ Lifetime \in Nat \ {0}
  /\ MaxRequests \in Nat /\ MaxTime \in Nat
  /\ Blank \in Contents /\ Blank \in Backups /\ 1 \in Tables
BY RestoreAssumption, ProcessAssumption DEF Blank, Contents, Backups, Tables

\* The parts of the type invariant, for the lemmas on single actions.
LEMMA TypesSplit ==
  RestoreTypeOK <=> /\ data \in Contents
                    /\ stage \in [Stages -> StageType]
                    /\ restorer \in [Callers -> RestorerType]
<1>1. {"idle", "export", "verify", "stage", "load", "check", "write"}
        = {"idle"} \cup Preparing \cup Committing
  BY DEF Preparing, Committing
<1> QED
  BY <1>1 DEF RestoreTypeOK, StageType, RestorerType, Stages

\* The placeholders for no request and no stage are of their types.
LEMMA BlankTypes == NoRestorer \in RestorerType /\ NoStage \in StageType
BY RestoreConstants DEF NoRestorer, NoStage, RestorerType, StageType

\* The request goes on with a table of the domains.
LEMMA NextTableTypes ==
  ASSUME NEW c \in Callers, NEW r \in RestorerType, NEW step \in Preparing \cup Committing,
         restorer \in [Callers -> RestorerType], NextTable(c, r, step)
  PROVE  restorer' \in [Callers -> RestorerType]
<1>1. CASE r.table < MaxTable
  <2>1. r.table + 1 \in Tables
    BY <1>1, RestoreConstants DEF RestorerType, Tables
  <2>2. [r EXCEPT !.table = @ + 1] \in RestorerType
    BY <2>1 DEF RestorerType
  <2> QED
    BY <1>1, <2>2 DEF NextTable
<1>2. CASE ~(r.table < MaxTable)
  <2>1. [r EXCEPT !.table = 1, !.step = step] \in RestorerType
    BY RestoreConstants DEF RestorerType
  <2> QED
    BY <1>2, <2>1 DEF NextTable
<1> QED
  BY <1>1, <1>2

---------------------------------------------------------------------------------
(* The invariant. *)

\* The invariant holds at the start.
LEMMA RestoreInvHolds == RestoreInit => RestoreInv
<1> SUFFICES ASSUME RestoreInit PROVE RestoreInv
  OBVIOUS
<1>1. ProcessTypeOK
  BY ProcessAssumption DEF RestoreInit, ProcessInit, ProcessTypeOK
<1>2. RestoreTypeOK
  BY BlankTypes, RestoreConstants, TypesSplit DEF RestoreInit, Stages
<1>3. \A c \in Callers : restorer[c].step = "idle"
  BY DEF RestoreInit, NoRestorer
<1>4. \A s \in Stages : stage[s].status = "none"
  BY DEF RestoreInit, NoStage, Stages
<1> QED
  BY <1>1, <1>2, <1>3, <1>4 DEF RestoreInv, RequestOK, RestoreAlone, Preparing

\* A request that goes away takes nothing with it.
LEMMA CloseKeeps ==
  ASSUME RestoreInv, NEW c \in Callers, CloseRestore(c), UNCHANGED <<data, stage, process>>
  PROVE  RestoreInv'
<1>1. /\ restorer \in [Callers -> RestorerType]
      /\ restorer' \in [Callers -> RestorerType]
  BY BlankTypes, TypesSplit DEF RestoreInv, CloseRestore
<1>2. restorer'[c].step = "idle" /\ \A d \in Callers \ {c} : restorer'[d] = restorer[d]
  BY <1>1 DEF CloseRestore, NoRestorer
<1>3. ProcessTypeOK' /\ RestoreTypeOK'
  BY <1>1, TypesSplit DEF RestoreInv, ProcessTypeOK, process, RestoreTypeOK, StageType, RestorerType,
     Stages, Preparing, Committing
<1>4. \A d \in Callers : RequestOK(d)'
  <2> SUFFICES ASSUME NEW d \in Callers PROVE RequestOK(d)'
    OBVIOUS
  <2>1. CASE d = c
    BY <1>2, <2>1 DEF RequestOK, Preparing
  <2>2. CASE d # c
    BY <1>2, <2>2 DEF RestoreInv, RequestOK, process
  <2> QED
    BY <2>1, <2>2
<1>5. RestoreAlone'
  BY <1>2 DEF RestoreInv, RestoreAlone, Preparing
<1> QED
  BY <1>3, <1>4, <1>5 DEF RestoreInv, process

\* A request goes on with its stage, and with the document once it is loaded.
LEMMA RestorerMoves ==
  ASSUME RestoreInv, NEW c \in Callers, UNCHANGED <<data, stage, process>>,
         restorer' \in [Callers -> RestorerType],
         \A d \in Callers \ {c} : restorer'[d] = restorer[d],
         restorer[c].step # "idle",
         restorer'[c].stage = restorer[c].stage,
         restorer'[c].step \in Preparing => restorer[c].step \in Preparing,
         restorer'[c].step \in {"check", "write"} =>
           /\ stage[restorer[c].stage].status # "none"
           /\ restorer'[c].copy = stage[restorer[c].stage].document
  PROVE  RestoreInv'
<1>1. ProcessTypeOK' /\ RestoreTypeOK'
  BY TypesSplit DEF RestoreInv, ProcessTypeOK, process, RestoreTypeOK, StageType, RestorerType,
     Stages, Preparing, Committing
<1>2. \A d \in Callers : RequestOK(d)'
  BY DEF RestoreInv, RequestOK, process
<1>3. RestoreAlone'
  BY DEF RestoreInv, RestoreAlone
<1> QED
  BY <1>1, <1>2, <1>3 DEF RestoreInv, process

\* The request of a caller after a table, or after the last one.
LEMMA NextTableMoves ==
  ASSUME NEW c \in Callers, restorer \in [Callers -> RestorerType],
         NEW r \in RestorerType, NEW step \in Preparing \cup Committing, NextTable(c, r, step)
  PROVE  /\ \A d \in Callers \ {c} : restorer'[d] = restorer[d]
         /\ restorer'[c].stage = r.stage /\ restorer'[c].copy = r.copy
         /\ restorer'[c].step \in {r.step, step}
<1>1. CASE r.table < MaxTable
  <2> DEFINE next == [r EXCEPT !.table = @ + 1]
  <2>1. next.stage = r.stage /\ next.copy = r.copy /\ next.step = r.step
    BY DEF RestorerType
  <2>2. restorer' = [restorer EXCEPT ![c] = next]
    BY <1>1 DEF NextTable
  <2> HIDE DEF next
  <2> QED
    BY <2>1, <2>2
<1>2. CASE ~(r.table < MaxTable)
  <2> DEFINE next == [r EXCEPT !.table = 1, !.step = step]
  <2>1. next.stage = r.stage /\ next.copy = r.copy /\ next.step = step
    BY DEF RestorerType
  <2>2. restorer' = [restorer EXCEPT ![c] = next]
    BY <1>2 DEF NextTable
  <2> HIDE DEF next
  <2> QED
    BY <2>1, <2>2
<1> QED
  BY <1>1, <1>2

\* One table more is exported into the recovery document.
LEMMA ExportKeeps ==
  ASSUME RestoreInv, NEW c \in Callers, ExportTable(c)
  PROVE  RestoreInv'
<1> DEFINE t == restorer[c].table
           r == [restorer[c] EXCEPT !.copy[t] = data[t]]
<1>1. restorer \in [Callers -> RestorerType] /\ data \in Contents
  BY TypesSplit DEF RestoreInv
<1>2. t \in Tables /\ restorer[c].copy \in Contents /\ restorer[c] \in RestorerType
  BY <1>1 DEF RestorerType
<1>3. [restorer[c].copy EXCEPT ![t] = data[t]] \in Contents
  BY <1>1, <1>2 DEF Contents
<1>4. /\ r \in RestorerType
      /\ r.stage = restorer[c].stage /\ r.step = restorer[c].step
  BY <1>2, <1>3 DEF RestorerType
<1>5. NextTable(c, r, "verify") /\ restorer[c].step = "export" /\ UNCHANGED <<data, stage, process>>
  BY DEF ExportTable
<1> HIDE DEF r, t
<1>6. restorer' \in [Callers -> RestorerType]
  BY <1>1, <1>4, <1>5, NextTableTypes DEF Preparing
<1>7. /\ \A d \in Callers \ {c} : restorer'[d] = restorer[d]
      /\ restorer'[c].stage = restorer[c].stage
      /\ restorer'[c].step \in {"export", "verify"}
  BY <1>1, <1>4, <1>5, NextTableMoves DEF Preparing
<1> QED
  BY <1>5, <1>6, <1>7, RestorerMoves DEF Preparing

\* One table more is compared with the document.
LEMMA VerifyKeeps ==
  ASSUME RestoreInv, NEW c \in Callers, VerifyTable(c)
  PROVE  RestoreInv'
<1> DEFINE to == IF restorer[c].step = "verify" THEN "stage" ELSE "write"
<1>1. restorer \in [Callers -> RestorerType] /\ restorer[c] \in RestorerType
  BY TypesSplit DEF RestoreInv
<1>2. UNCHANGED <<data, stage, process>> /\ restorer[c].step \in {"verify", "check"}
  BY DEF VerifyTable
<1>3. CASE NextTable(c, restorer[c], to)
  <2>1. restorer' \in [Callers -> RestorerType]
    BY <1>1, <1>3, NextTableTypes DEF Preparing, Committing
  <2>2. /\ \A d \in Callers \ {c} : restorer'[d] = restorer[d]
        /\ restorer'[c].stage = restorer[c].stage /\ restorer'[c].copy = restorer[c].copy
        /\ restorer'[c].step \in {restorer[c].step, to}
    BY <1>1, <1>3, NextTableMoves DEF Preparing, Committing
  <2>3. restorer'[c].step \in Preparing => restorer[c].step \in Preparing
    BY <1>2, <2>2 DEF Preparing
  <2>4. restorer'[c].step \in {"check", "write"} => restorer[c].step = "check"
    BY <1>2, <2>2
  <2> QED
    BY <1>2, <2>1, <2>2, <2>3, <2>4, RestorerMoves DEF RestoreInv, RequestOK
<1>4. CASE CloseRestore(c)
  BY <1>2, <1>4, CloseKeeps
<1> QED
  BY <1>3, <1>4 DEF VerifyTable

\* A commitment loads its stage.
LEMMA LoadKeeps ==
  ASSUME RestoreInv, NEW c \in Callers, LoadStage(c)
  PROVE  RestoreInv'
<1> DEFINE s == restorer[c].stage
           next == [restorer[c] EXCEPT !.step = "check", !.copy = stage[s].document]
<1>1. restorer \in [Callers -> RestorerType] /\ stage \in [Stages -> StageType]
  BY TypesSplit DEF RestoreInv
<1>2. UNCHANGED <<data, stage, process>> /\ restorer[c].step = "load"
  BY DEF LoadStage
<1>3. s \in Stages
  BY <1>2, RestoreConstants DEF RestoreInv, RequestOK, ProcessTypeOK, Stages
<1>4. CASE Prepared(s, restorer[c].now)
  <2>1. stage[s].status = "prepared" /\ stage[s].document \in Contents
    BY <1>1, <1>3, <1>4 DEF Prepared, StageType
  <2>2. /\ next \in RestorerType
        /\ next.step = "check" /\ next.stage = s /\ next.copy = stage[s].document
    BY <1>1, <2>1 DEF RestorerType, Committing
  <2>3. restorer' = [restorer EXCEPT ![c] = next]
    BY <1>1, <1>4 DEF LoadStage
  <2> HIDE DEF next
  <2>4. /\ restorer' \in [Callers -> RestorerType]
        /\ restorer'[c] = next /\ \A d \in Callers \ {c} : restorer'[d] = restorer[d]
    BY <1>1, <2>2, <2>3
  <2> QED
    BY <1>2, <2>1, <2>2, <2>4, RestorerMoves DEF Preparing
<1>5. CASE ~Prepared(s, restorer[c].now)
  BY <1>2, <1>5, CloseKeeps DEF LoadStage
<1> QED
  BY <1>4, <1>5

\* A request arrives: for a stage of its own, or with one that was requested.
LEMMA OpenStageKeeps ==
  ASSUME RestoreInv, NEW c \in Callers, NEW step, NEW s,
         OpenRestore(c, step, s),
         \/ step = "export" /\ s = requests + 1
         \/ step = "load" /\ s \in 1 .. requests
  PROVE  RestoreInv'
<1> DEFINE next == [NoRestorer EXCEPT
             !.step = step, !.stage = s, !.now = IF step = "load" THEN clock ELSE 0]
<1>1. restorer \in [Callers -> RestorerType] /\ stage \in [Stages -> StageType]
  BY TypesSplit DEF RestoreInv
<1>2. /\ requests \in Nat /\ requests < MaxRequests /\ requests' = requests + 1
      /\ clock \in 0 .. MaxTime /\ clock' = clock
  BY RestoreConstants DEF RestoreInv, ProcessTypeOK, OpenRestore, Arrive, process
<1>3. UNCHANGED <<data, stage>>
  BY DEF OpenRestore
<1>4. s \in 1 .. requests' /\ s \in 0 .. MaxRequests
  BY <1>2, RestoreConstants
<1>5. (IF step = "load" THEN clock ELSE 0) \in 0 .. MaxTime
  BY <1>2, RestoreConstants
<1>6. /\ next \in RestorerType
      /\ next.step = step /\ next.stage = s
  BY <1>4, <1>5, BlankTypes DEF RestorerType, NoRestorer, Preparing, Committing
<1>7. restorer' = [restorer EXCEPT ![c] = next]
  BY DEF OpenRestore
<1> HIDE DEF next
<1>8. /\ restorer' \in [Callers -> RestorerType]
      /\ restorer'[c] = next /\ \A d \in Callers \ {c} : restorer'[d] = restorer[d]
  BY <1>1, <1>6, <1>7
<1>9. ProcessTypeOK' /\ RestoreTypeOK'
  <2>1. ProcessTypeOK'
    BY <1>2, RestoreConstants DEF RestoreInv, ProcessTypeOK, OpenRestore, Arrive
  <2> QED
    BY <1>3, <1>8, <2>1, TypesSplit DEF RestoreInv, RestoreTypeOK, StageType, RestorerType,
       Stages, Preparing, Committing
<1>10. \A x \in Stages : x > requests' => stage'[x].status = "none"
  BY <1>2, <1>3 DEF RestoreInv, Stages
<1>11. step = "export" => stage[s].status = "none"
  BY <1>2, RestoreConstants DEF RestoreInv, Stages
<1>12. \A d \in Callers : RequestOK(d)'
  <2> SUFFICES ASSUME NEW d \in Callers PROVE RequestOK(d)'
    OBVIOUS
  <2>1. CASE d = c
    BY <1>3, <1>4, <1>6, <1>8, <1>11, <2>1 DEF RequestOK, Preparing
  <2>2. CASE d # c
    <3>1. restorer'[d] = restorer[d] /\ RequestOK(d)
      BY <1>8, <2>2 DEF RestoreInv
    <3> QED
      BY <1>2, <1>3, <3>1 DEF RequestOK
  <2> QED
    BY <2>1, <2>2
<1>13. RestoreAlone'
  <2>1. \A d \in Callers \ {c} : restorer[d].step \in Preparing => restorer[d].stage \in 1 .. requests
    BY DEF RestoreInv, RequestOK, Preparing
  <2>2. step \in Preparing => s = requests + 1
    BY DEF Preparing
  <2>3. \A d \in Callers \ {c} :
          step \in Preparing /\ restorer[d].step \in Preparing => restorer[d].stage # s
    BY <1>2, <2>1, <2>2
  <2> QED
    BY <1>6, <1>8, <2>3 DEF RestoreInv, RestoreAlone
<1> QED
  BY <1>9, <1>10, <1>12, <1>13 DEF RestoreInv


\* A stage gets a status, and no other changes; nobody had loaded it if it was
\* not there.
LEMMA StageChanges ==
  ASSUME RestoreInv, NEW s \in 1 .. requests,
         stage' \in [Stages -> StageType], data' \in Contents,
         restorer' \in [Callers -> RestorerType],
         requests' \in Nat, requests <= requests', ProcessTypeOK',
         \A x \in Stages \ {s} : stage'[x] = stage[x],
         \A d \in Callers : \/ restorer'[d] = restorer[d]
                            \/ restorer'[d].step = "idle",
         stage'[s].status # "none",
         stage[s].status # "none" => stage'[s].document = stage[s].document,
         \A d \in Callers :
           restorer[d].step \in Preparing /\ restorer[d].stage = s => restorer'[d].step = "idle"
  PROVE  RestoreInv'
<1>1. /\ s \in Stages /\ requests \in Nat
      /\ \A x \in Stages : x > requests' => x # s /\ x > requests
  BY RestoreConstants DEF RestoreInv, ProcessTypeOK, Stages
<1>2. RestoreTypeOK'
  BY TypesSplit DEF RestoreTypeOK, StageType, RestorerType, Stages, Preparing, Committing
<1>3. \A x \in Stages : x > requests' => stage'[x].status = "none"
  BY <1>1 DEF RestoreInv
<1>4. \A d \in Callers : RequestOK(d)'
  <2> SUFFICES ASSUME NEW d \in Callers PROVE RequestOK(d)'
    OBVIOUS
  <2>1. CASE restorer'[d].step = "idle"
    BY <2>1 DEF RequestOK, Preparing
  <2>2. CASE restorer'[d] = restorer[d] /\ restorer[d].step # "idle"
    <3>1. RequestOK(d) /\ restorer[d].stage \in 1 .. requests
      BY <2>2 DEF RestoreInv, RequestOK
    <3>2. restorer[d].stage \in Stages /\ restorer[d].stage \in 1 .. requests'
      BY <1>1, <3>1, RestoreConstants DEF RestoreInv, ProcessTypeOK, Stages
    <3>3. CASE restorer[d].stage = s
      BY <2>2, <3>1, <3>2, <3>3 DEF RequestOK
    <3>4. CASE restorer[d].stage # s
      BY <2>2, <3>1, <3>2, <3>4 DEF RequestOK
    <3> QED
      BY <3>3, <3>4
  <2> QED
    BY <2>1, <2>2
<1>5. RestoreAlone'
  BY DEF RestoreInv, RestoreAlone, Preparing
<1> QED
  BY <1>2, <1>3, <1>4, <1>5 DEF RestoreInv

\* A request that ends: nobody else changes.
LEMMA CloseTypes ==
  ASSUME NEW c \in Callers, restorer \in [Callers -> RestorerType], CloseRestore(c)
  PROVE  /\ restorer' \in [Callers -> RestorerType]
         /\ restorer'[c].step = "idle" /\ \A d \in Callers \ {c} : restorer'[d] = restorer[d]
<1>1. NoRestorer.step = "idle"
  BY DEF NoRestorer
<1> QED
  BY <1>1, BlankTypes DEF CloseRestore

\* The checked document becomes a stage.
LEMMA StageKeeps ==
  ASSUME RestoreInv, NEW c \in Callers, NEW backup \in Backups, StageRestore(c, backup)
  PROVE  RestoreInv'
<1> DEFINE s == restorer[c].stage
           next == [status |-> "prepared", expires |-> clock + Lifetime,
                    document |-> restorer[c].copy, backup |-> backup]
<1>1. /\ restorer \in [Callers -> RestorerType] /\ stage \in [Stages -> StageType]
      /\ data \in Contents /\ ProcessTypeOK
  BY TypesSplit DEF RestoreInv
<1>2. /\ UNCHANGED <<data, process>> /\ restorer[c].step = "stage" /\ CloseRestore(c)
      /\ stage' = [stage EXCEPT ![s] = next]
  BY DEF StageRestore
<1>3. s \in 1 .. requests /\ s \in Stages /\ stage[s].status = "none" /\ requests \in Nat
  BY <1>2, RestoreConstants DEF RestoreInv, RequestOK, ProcessTypeOK, Stages, Preparing
<1>4. next \in StageType /\ next.status = "prepared"
  <2>1. clock + Lifetime \in 0 .. MaxTime + Lifetime
    BY <1>1, RestoreConstants DEF ProcessTypeOK
  <2> QED
    BY <1>1, <2>1 DEF StageType, RestorerType
<1> HIDE DEF next
<1>5. /\ stage' \in [Stages -> StageType]
      /\ stage'[s] = next /\ \A x \in Stages \ {s} : stage'[x] = stage[x]
  BY <1>1, <1>2, <1>3, <1>4
<1>6. /\ restorer' \in [Callers -> RestorerType]
      /\ restorer'[c].step = "idle" /\ \A d \in Callers \ {c} : restorer'[d] = restorer[d]
  BY <1>1, <1>2, CloseTypes
<1>7. \A d \in Callers :
        restorer[d].step \in Preparing /\ restorer[d].stage = s => restorer'[d].step = "idle"
  BY <1>2, <1>6 DEF RestoreInv, RestoreAlone, Preparing
<1>8. requests' \in Nat /\ requests <= requests' /\ ProcessTypeOK' /\ data' \in Contents
  BY <1>1, <1>2, <1>3 DEF process, ProcessTypeOK
<1>9. stage'[s].status # "none"
  BY <1>4, <1>5
<1> HIDE DEF s
<1> QED
  BY <1>3, <1>5, <1>6, <1>7, <1>8, <1>9, StageChanges

\* The batch that claims the stage and replaces the tables.
LEMMA ReplaceKeeps ==
  ASSUME RestoreInv, NEW c \in Callers, ReplaceTables(c)
  PROVE  RestoreInv'
<1> DEFINE s == restorer[c].stage
           claimed == /\ Prepared(s, restorer[c].now)
                      /\ \A t \in Tables : data[t] = restorer[c].copy[t]
           next == [stage[s] EXCEPT !.status = "committed"]
<1>1. /\ restorer \in [Callers -> RestorerType] /\ stage \in [Stages -> StageType]
      /\ data \in Contents /\ ProcessTypeOK
  BY TypesSplit DEF RestoreInv
<1>2. UNCHANGED process /\ restorer[c].step = "write" /\ CloseRestore(c)
  BY DEF ReplaceTables, ReplaceIf
<1>3. CASE ~claimed
  BY <1>2, <1>3, CloseKeeps DEF ReplaceTables, ReplaceIf
<1>4. CASE claimed
  <2>1. stage' = [stage EXCEPT ![s] = next] /\ data' = stage[s].backup
    BY <1>4 DEF ReplaceTables, ReplaceIf
  <2>2. s \in 1 .. requests /\ s \in Stages /\ requests \in Nat
    BY <1>2, RestoreConstants DEF RestoreInv, RequestOK, ProcessTypeOK, Stages
  <2>3. stage[s].status = "prepared"
    BY <1>4 DEF Prepared
  <2>4. /\ next \in StageType /\ next.status = "committed"
        /\ next.document = stage[s].document /\ stage[s].backup \in Contents
    BY <1>1, <2>2 DEF StageType, Backups
  <2> HIDE DEF next
  <2>5. /\ stage' \in [Stages -> StageType]
        /\ stage'[s] = next /\ \A x \in Stages \ {s} : stage'[x] = stage[x]
    BY <1>1, <2>1, <2>2, <2>4
  <2>6. /\ restorer' \in [Callers -> RestorerType]
        /\ restorer'[c].step = "idle" /\ \A d \in Callers \ {c} : restorer'[d] = restorer[d]
    BY <1>1, <1>2, CloseTypes
  <2>7. \A d \in Callers : ~(restorer[d].step \in Preparing /\ restorer[d].stage = s)
    BY <2>3 DEF RestoreInv, RequestOK
  <2>8. requests' \in Nat /\ requests <= requests' /\ ProcessTypeOK' /\ data' \in Contents
    BY <1>1, <1>2, <2>1, <2>2, <2>4 DEF process, ProcessTypeOK
  <2>9. stage'[s].status # "none" /\ stage'[s].document = stage[s].document
    BY <2>4, <2>5
  <2> HIDE DEF s
  <2> QED
    BY <2>2, <2>5, <2>6, <2>7, <2>8, <2>9, StageChanges
<1> QED
  BY <1>3, <1>4

\* A stage is cancelled under the requests that loaded it.
LEMMA CancelKeeps ==
  ASSUME RestoreInv, NEW s \in Stages, CancelRestore(s)
  PROVE  RestoreInv'
<1> DEFINE next == [stage[s] EXCEPT !.status = "cancelled"]
<1>1. /\ restorer \in [Callers -> RestorerType] /\ stage \in [Stages -> StageType]
      /\ data \in Contents /\ ProcessTypeOK
  BY TypesSplit DEF RestoreInv
<1>2. stage[s].status = "prepared" /\ Arrive /\ UNCHANGED <<data, restorer>>
  BY DEF CancelRestore, Prepared
<1>3. stage' = [stage EXCEPT ![s] = next]
  BY DEF CancelRestore
<1>4. s \in 1 .. requests
  BY <1>1, <1>2, RestoreConstants DEF RestoreInv, Stages, ProcessTypeOK
<1>5. next \in StageType /\ next.status = "cancelled" /\ next.document = stage[s].document
  BY <1>1 DEF StageType
<1> HIDE DEF next
<1>6. /\ stage' \in [Stages -> StageType]
      /\ stage'[s] = next /\ \A x \in Stages \ {s} : stage'[x] = stage[x]
  BY <1>1, <1>3, <1>5
<1>7. requests' \in Nat /\ requests <= requests' /\ ProcessTypeOK'
  BY <1>1, <1>2, RestoreConstants DEF Arrive, ProcessTypeOK
<1>8. \A d \in Callers : ~(restorer[d].step \in Preparing /\ restorer[d].stage = s)
  BY <1>2 DEF RestoreInv, RequestOK
<1> QED
  BY <1>1, <1>2, <1>4, <1>5, <1>6, <1>7, <1>8, StageChanges


\* The rest of the portal and the clock: no request and no stage changes.
LEMMA OtherRestoresKeep ==
  ASSUME RestoreInv, UNCHANGED <<stage, restorer, requests>>, data' \in Contents, ProcessTypeOK'
  PROVE  RestoreInv'
<1>1. RestoreTypeOK'
  BY TypesSplit DEF RestoreInv, RestoreTypeOK, StageType, RestorerType, Stages, Preparing, Committing
<1>2. \A d \in Callers : RequestOK(d)'
  BY DEF RestoreInv, RequestOK
<1>3. RestoreAlone'
  BY DEF RestoreInv, RestoreAlone
<1> QED
  BY <1>1, <1>2, <1>3 DEF RestoreInv

\* The rest of the portal writes a table between two reads.
LEMMA PortalWriteKeeps ==
  ASSUME RestoreInv, NEW t \in Tables, NEW v \in 0 .. MaxContent, PortalWrites(t, v)
  PROVE  RestoreInv'
<1>1. data \in Contents /\ ProcessTypeOK
  BY TypesSplit DEF RestoreInv
<1>2. data' \in Contents
  BY <1>1 DEF PortalWrites, Contents
<1>3. UNCHANGED <<stage, restorer, requests>> /\ ProcessTypeOK'
  BY <1>1 DEF PortalWrites, process, ProcessTypeOK
<1> QED
  BY <1>2, <1>3, OtherRestoresKeep

\* Time passes, beyond the end of a stage too.
LEMMA TickKeeps ==
  ASSUME RestoreInv, RestoreTick
  PROVE  RestoreInv'
<1>1. data \in Contents /\ ProcessTypeOK
  BY TypesSplit DEF RestoreInv
<1>2. UNCHANGED <<stage, restorer, requests>> /\ data' \in Contents
  BY <1>1 DEF RestoreTick, Tick
<1>3. ProcessTypeOK'
  BY <1>1, RestoreConstants DEF RestoreTick, Tick, ProcessTypeOK
<1> QED
  BY <1>2, <1>3, OtherRestoresKeep

\* Every statement of a request preserves the invariant.
LEMMA RestoreStepKeeps ==
  ASSUME RestoreInv, NEW c \in Callers, RestoreStep(c)
  PROVE  RestoreInv'
<1>1. CASE PrepareRestore(c)
  <2>1. PICK s : s = requests + 1
    OBVIOUS
  <2> QED
    BY <1>1, <2>1, OpenStageKeeps DEF PrepareRestore
<1>2. CASE ExportTable(c)
  BY <1>2, ExportKeeps
<1>3. CASE VerifyTable(c)
  BY <1>3, VerifyKeeps
<1>4. CASE \E backup \in Backups : StageRestore(c, backup)
  BY <1>4, StageKeeps
<1>5. CASE \E s \in 1 .. requests : CommitRestore(c, s)
  BY <1>5, OpenStageKeeps DEF CommitRestore
<1>6. CASE LoadStage(c)
  BY <1>6, LoadKeeps
<1>7. CASE ReplaceTables(c)
  BY <1>7, ReplaceKeeps
<1>8. CASE RestoreRefused(c)
  BY <1>8, CloseKeeps DEF RestoreRefused
<1> QED
  BY <1>1, <1>2, <1>3, <1>4, <1>5, <1>6, <1>7, <1>8 DEF RestoreStep

\* Every step of the component preserves the invariant.
LEMMA RestoreNextKeeps == RestoreInv /\ [RestoreNext]_restoreVars => RestoreInv'
<1> SUFFICES ASSUME RestoreInv, [RestoreNext]_restoreVars PROVE RestoreInv'
  OBVIOUS
<1>1. CASE \E c \in Callers : RestoreStep(c)
  BY <1>1, RestoreStepKeeps
<1>2. CASE \E s \in 1 .. MaxRequests : CancelRestore(s)
  BY <1>2, CancelKeeps DEF Stages
<1>3. CASE \E t \in Tables, v \in 0 .. MaxContent : PortalWrites(t, v)
  BY <1>3, PortalWriteKeeps
<1>4. CASE RestoreTick
  BY <1>4, TickKeeps
<1>5. CASE UNCHANGED restoreVars
  BY <1>5, OtherRestoresKeep, TypesSplit DEF restoreVars, process, RestoreInv, ProcessTypeOK
<1> QED
  BY <1>1, <1>2, <1>3, <1>4, <1>5 DEF RestoreNext

\* What a request knows of its stage stays true through the exports, checks and
\* batches of every other request.
THEOREM RequestsKnowTheirStage == RestoreSpec => []RestoreInv
<1> QED
  BY RestoreInvHolds, RestoreNextKeeps, PTL DEF RestoreSpec

\* Every variable of the selective restore keeps its type.
THEOREM RestoreTypesAreRight == RestoreSpec => [](ProcessTypeOK /\ RestoreTypeOK)
<1>1. RestoreInv => ProcessTypeOK /\ RestoreTypeOK
  BY DEF RestoreInv
<1> QED
  BY <1>1, RequestsKnowTheirStage, PTL

---------------------------------------------------------------------------------
(* The property. *)

Recoverable ==
  \A s \in 1 .. MaxRequests :
    stage[s].status # "committed" /\ stage'[s].status = "committed"
    => /\ stage[s].status = "prepared"
       /\ data = stage[s].document
       /\ data' = stage[s].backup

\* The batch that claims the stage replaces tables that are as its document.
LEMMA ReplaceIsRecoverable ==
  ASSUME RestoreInv, NEW c \in Callers, ReplaceTables(c)
  PROVE  Recoverable
<1> DEFINE own == restorer[c].stage
           claimed == /\ Prepared(own, restorer[c].now)
                      /\ \A t \in Tables : data[t] = restorer[c].copy[t]
<1>1. CASE ~claimed
  BY <1>1 DEF ReplaceTables, ReplaceIf, Recoverable
<1>2. CASE claimed
  <2>1. /\ restorer[c] \in RestorerType /\ data \in Contents /\ stage \in [Stages -> StageType]
        /\ restorer[c].step = "write" /\ RequestOK(c)
    BY TypesSplit DEF RestoreInv, ReplaceTables, ReplaceIf
  <2>2. restorer[c].copy = stage[own].document /\ restorer[c].copy \in Contents
    BY <2>1 DEF RequestOK, RestorerType
  <2>3. data = restorer[c].copy
    BY <1>2, <2>1, <2>2 DEF Contents
  <2>4. stage[own].status = "prepared" /\ data' = stage[own].backup
    BY <1>2 DEF ReplaceTables, ReplaceIf, Prepared
  <2>5. \A s \in Stages : s # own => stage'[s] = stage[s]
    BY <1>2, <2>1 DEF ReplaceTables, ReplaceIf
  <2> QED
    BY <2>2, <2>3, <2>4, <2>5 DEF Recoverable, Stages
<1> QED
  BY <1>1, <1>2

\* A step that replaces tables does so under a stage with their content.
LEMMA StepIsRecoverable == RestoreInv /\ [RestoreNext]_restoreVars => Recoverable
<1> SUFFICES ASSUME RestoreInv, [RestoreNext]_restoreVars PROVE Recoverable
  OBVIOUS
<1>1. stage \in [Stages -> StageType]
  BY TypesSplit DEF RestoreInv
<1>2. CASE stage' = stage
  BY <1>2 DEF Recoverable
<1>3. CASE \E c \in Callers : ReplaceTables(c)
  BY <1>3, ReplaceIsRecoverable
<1>4. CASE \E c \in Callers, backup \in Backups : StageRestore(c, backup)
  <2>1. PICK c \in Callers, backup \in Backups : StageRestore(c, backup)
    BY <1>4
  <2> DEFINE next == [status |-> "prepared", expires |-> clock + Lifetime,
                      document |-> restorer[c].copy, backup |-> backup]
  <2>2. stage' = [stage EXCEPT ![restorer[c].stage] = next] /\ next.status = "prepared"
    BY <2>1 DEF StageRestore
  <2> HIDE DEF next
  <2>3. \A s \in Stages : stage'[s] = stage[s] \/ stage'[s].status = "prepared"
    BY <1>1, <2>2
  <2> QED
    BY <2>3 DEF Recoverable, Stages
<1>5. CASE \E s \in 1 .. MaxRequests : CancelRestore(s)
  <2>1. PICK s \in Stages : CancelRestore(s)
    BY <1>5 DEF Stages
  <2> DEFINE next == [stage[s] EXCEPT !.status = "cancelled"]
  <2>2. stage' = [stage EXCEPT ![s] = next]
    BY <2>1 DEF CancelRestore
  <2>3. next.status = "cancelled"
    BY <1>1 DEF StageType
  <2> HIDE DEF next
  <2>4. \A x \in Stages : stage'[x] = stage[x] \/ stage'[x].status = "cancelled"
    BY <1>1, <2>2, <2>3
  <2> QED
    BY <2>4 DEF Recoverable, Stages
<1> QED
  BY <1>2, <1>3, <1>4, <1>5 DEF RestoreNext, RestoreStep, restoreVars, PrepareRestore, OpenRestore,
     ExportTable, VerifyTable, CommitRestore, LoadStage, RestoreRefused, PortalWrites, RestoreTick

\* A restore replaces exactly what its administrator can get back: whatever
\* other requests and the rest of the portal wrote between the export, the
\* checks and the batch, the tables it replaces are as the stage's document.
THEOREM RestoreReplacesDocument == RestoreSpec => RestoreIsRecoverable
<1>1. RestoreInv /\ [RestoreNext]_restoreVars => [Recoverable]_restoreVars
  BY StepIsRecoverable
<1>2. RestoreSpec => [][Recoverable]_restoreVars
  BY <1>1, RequestsKnowTheirStage, PTL DEF RestoreSpec
<1> QED
  BY <1>2 DEF RestoreIsRecoverable, Recoverable

=================================================================================
