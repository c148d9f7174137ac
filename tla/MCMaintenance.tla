-------------------------------- MODULE MCMaintenance --------------------------------
(***************************************************************************)
(* The maintenance on small instances. In a behaviour that is verified the *)
(* controller Cli and the Administrator are the verify command, and the    *)
(* clock stands, which an entered operation does not look at; in one that  *)
(* is not, both controllers do as they like and the Administrator stays    *)
(* away. Operations, stops and the clock share a bound, so that there is a *)
(* second maintenance, or a second stop, or time passes.                   *)
(***************************************************************************)
EXTENDS OnlineVerification

VARIABLE verified

mcVars == <<onlineVars, verified>>

MCInit == OnlineInit /\ verified \in BOOLEAN

\* A verification takes an operation and a stop, and leaves one event more.
EventBound == IF verified THEN 3 ELSE 2

MCNext ==
  /\ verified' = verified
  /\ \/ verified /\ OnlineNext /\ clock' = clock
     \/ /\ ~verified /\ Next
        /\ request'[Administrator] = request[Administrator]
        /\ UNCHANGED verification
  /\ operations' + stops' + clock' <= EventBound

MCSpec == MCInit /\ [][MCNext]_mcVars /\ RequestsEnd
===================================================================================
