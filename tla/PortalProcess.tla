------------------------------- MODULE PortalProcess -------------------------------
(***************************************************************************)
(* The process every online component runs in: one Node.js process that    *)
(* serves several requests, whose handlers interleave at their awaits; a   *)
(* database whose statements are atomic, and whose batches are             *)
(* transactions; a clock; and the failures the handlers are written for,   *)
(* a statement that throws and a process that dies.                        *)
(*                                                                         *)
(* A caller runs one request at a time. A request record has a field       *)
(* "step", the statement it executes next; "idle" is no request.           *)
(***************************************************************************)
EXTENDS Integers

CONSTANTS Callers,      \* who sends requests
          MaxRequests,  \* bound: requests of a behaviour
          MaxTime,      \* bound: the clock
          MaxFaults,    \* bound: statements that throw
          MaxCrashes    \* bound: deaths of the process

ASSUME ProcessAssumption ==
  /\ MaxRequests \in Nat
  /\ MaxTime \in Nat
  /\ MaxFaults \in Nat
  /\ MaxCrashes \in Nat

VARIABLES clock,     \* Date.now()
          requests,  \* how many requests were sent; the last one's number
          faults,    \* how many statements threw
          crashes    \* how many times the process died

process == <<clock, requests, faults, crashes>>

ProcessTypeOK ==
  /\ clock \in 0 .. MaxTime
  /\ requests \in 0 .. MaxRequests
  /\ faults \in 0 .. MaxFaults
  /\ crashes \in 0 .. MaxCrashes

ProcessInit ==
  /\ clock = 0
  /\ requests = 0
  /\ faults = 0
  /\ crashes = 0

\* A request arrives; its number is its random identifier.
Arrive ==
  /\ requests < MaxRequests
  /\ requests' = requests + 1
  /\ UNCHANGED <<clock, faults, crashes>>

\* A statement throws and changes nothing.
Fault ==
  /\ faults < MaxFaults
  /\ faults' = faults + 1
  /\ UNCHANGED <<clock, requests, crashes>>

\* The process dies and is started again: its requests are gone.
Die ==
  /\ crashes < MaxCrashes
  /\ crashes' = crashes + 1
  /\ UNCHANGED <<clock, requests, faults>>

Tick ==
  /\ clock < MaxTime
  /\ clock' = clock + 1
  /\ UNCHANGED <<requests, faults, crashes>>
===================================================================================
