------------------------------ MODULE DependencyHealth ------------------------------
(***************************************************************************)
(* GET /health/dependencies: the health of FreeIPA and XYOps, from a cache *)
(* of the process or from a probe the requests of the moment share. The    *)
(* probe remembers, for each service that does not answer, when it last    *)
(* did, from the snapshot that was cached when the probe began.            *)
(*                                                                         *)
(* A snapshot is when it was observed and the last success of each         *)
(* service, -1 for never; a service is healthy when the two are equal. Why *)
(* one is not, and the settings the probe takes from the request that      *)
(* starts it, are left out. A probe belongs to the request that starts it  *)
(* and outlives no restart.                                                *)
(***************************************************************************)
EXTENDS PortalProcess

CONSTANTS Services,  \* freeipa, xyops
          CacheTtl   \* cacheTtlMs

ASSUME HealthAssumption == CacheTtl \in Nat

VARIABLES
  cachedSnapshot,  \* the snapshot of the last probe
  inFlightProbe,   \* the caller whose probe requests wait for, or nobody
  probe,           \* the probe each caller started
  poll             \* the request of each caller: its step, whose probe it waits for

healthVars == <<cachedSnapshot, inFlightProbe, probe, poll, process>>

Never == -1
NoSnapshot == [observed |-> Never, success |-> [s \in Services |-> Never]]
NoProbe == [step |-> "none", snapshot |-> NoSnapshot]
NoPoll == [step |-> "idle", of |-> {}]

HealthInit ==
  /\ ProcessInit
  /\ cachedSnapshot = NoSnapshot
  /\ inFlightProbe = {}
  /\ probe = [c \in Callers |-> NoProbe]
  /\ poll = [c \in Callers |-> NoPoll]

\* A caller polls again when its own probe is over.
PollHealth(c) ==
  /\ poll[c].step = "idle" /\ probe[c].step = "none"
  /\ Arrive
  /\ poll' = [poll EXCEPT ![c].step = "settings"]
  /\ UNCHANGED <<cachedSnapshot, inFlightProbe, probe>>

\* The schema and the settings are read; without either the answer is 503.
ReadHealthSettings(c) ==
  /\ poll[c].step = "settings"
  /\ \E step \in {"idle", "decide"} : poll' = [poll EXCEPT ![c].step = step]
  /\ UNCHANGED <<cachedSnapshot, inFlightProbe, probe, process>>

Fresh == cachedSnapshot # NoSnapshot /\ clock - cachedSnapshot.observed < CacheTtl

\* freshSnapshot begins: the time is taken, and the snapshot to go back to.
StartProbe(c) ==
  probe' = [probe EXCEPT ![c] =
    [step |-> "probing", snapshot |-> [cachedSnapshot EXCEPT !.observed = clock]]]

\* Slip: every request probes.
DecideAlone(c) ==
  /\ poll[c].step = "decide"
  /\ \/ Fresh /\ poll' = [poll EXCEPT ![c] = NoPoll] /\ UNCHANGED <<inFlightProbe, probe>>
     \/ /\ ~Fresh
        /\ StartProbe(c) /\ inFlightProbe' = {c}
        /\ poll' = [poll EXCEPT ![c] = [step |-> "wait", of |-> {c}]]
  /\ UNCHANGED <<cachedSnapshot, process>>

\* The cache answers, or the probe in flight, or a new one.
DecideHealth(c) ==
  /\ poll[c].step = "decide"
  /\ \/ /\ Fresh
        /\ poll' = [poll EXCEPT ![c] = NoPoll]
        /\ UNCHANGED <<inFlightProbe, probe>>
     \/ /\ ~Fresh /\ inFlightProbe # {}
        /\ poll' = [poll EXCEPT ![c] = [step |-> "wait", of |-> inFlightProbe]]
        /\ UNCHANGED <<inFlightProbe, probe>>
     \/ /\ ~Fresh /\ inFlightProbe = {}
        /\ StartProbe(c) /\ inFlightProbe' = {c}
        /\ poll' = [poll EXCEPT ![c] = [step |-> "wait", of |-> {c}]]
  /\ UNCHANGED <<cachedSnapshot, process>>

\* Both services have answered, or not in time.
ProbeAnswered(c) ==
  /\ probe[c].step = "probing"
  /\ LET began == probe[c].snapshot
     IN \E healthy \in SUBSET Services :
          probe' = [probe EXCEPT ![c] = [step |-> "then", snapshot |->
            [observed |-> began.observed,
             success |-> [s \in Services |-> IF s \in healthy THEN began.observed
                                                             ELSE began.success[s]]]]]
  /\ UNCHANGED <<cachedSnapshot, inFlightProbe, poll, process>>

\* then: the snapshot is cached.
CacheProbe(c) ==
  /\ probe[c].step = "then"
  /\ cachedSnapshot' = probe[c].snapshot
  /\ probe' = [probe EXCEPT ![c].step = "finally"]
  /\ UNCHANGED <<inFlightProbe, poll, process>>

\* finally: the next request may probe; those waiting get the snapshot.
ProbeEnds(c) ==
  /\ probe[c].step = "finally"
  /\ inFlightProbe' = {}
  /\ probe' = [probe EXCEPT ![c] = NoProbe]
  /\ poll' = [d \in Callers |-> IF c \in poll[d].of THEN NoPoll ELSE poll[d]]
  /\ UNCHANGED <<cachedSnapshot, process>>

HealthProcessDies ==
  /\ Die
  /\ cachedSnapshot' = NoSnapshot /\ inFlightProbe' = {}
  /\ probe' = [c \in Callers |-> NoProbe]
  /\ poll' = [c \in Callers |-> NoPoll]

HealthTick == Tick /\ UNCHANGED <<cachedSnapshot, inFlightProbe, probe, poll>>

HealthStep(c) ==
  \/ PollHealth(c) \/ ReadHealthSettings(c) \/ DecideHealth(c)
  \/ ProbeAnswered(c) \/ CacheProbe(c) \/ ProbeEnds(c)

HealthNext == (\E c \in Callers : HealthStep(c)) \/ HealthProcessDies \/ HealthTick

HealthSpec == HealthInit /\ [][HealthNext]_healthVars

---------------------------------------------------------------------------------
(* Properties. *)

SnapshotType == [observed : {Never} \cup 0 .. MaxTime,
                 success : [Services -> {Never} \cup 0 .. MaxTime]]

HealthTypeOK ==
  /\ cachedSnapshot \in SnapshotType
  /\ inFlightProbe \in SUBSET Callers
  /\ probe \in [Callers -> [step : {"none", "probing", "then", "finally"},
                            snapshot : SnapshotType]]
  /\ poll \in [Callers -> [step : {"idle", "settings", "decide", "wait"},
                           of : SUBSET Callers]]

\* While the process lives the health it shows does not go back: a newer
\* snapshot is never replaced by an older one, and no service that answered is
\* shown with an earlier last success, or as one that never answered, however
\* the requests and the probes overlap.
HealthGoesForward ==
  [][\/ cachedSnapshot' = NoSnapshot /\ crashes' > crashes
     \/ /\ cachedSnapshot'.observed >= cachedSnapshot.observed
        /\ \A s \in Services : cachedSnapshot'.success[s] >= cachedSnapshot.success[s]]_healthVars
===================================================================================
