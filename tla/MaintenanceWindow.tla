------------------------------ MODULE MaintenanceWindow ------------------------------
(***************************************************************************)
(* What the maintenance mode promises, without rows, secrets, requests and *)
(* answers: a maintenance closes the portal for new users first and logs   *)
(* everybody out as it begins; from then on nobody is let in, and only who *)
(* was let in before may still log in; and the portal opens again because  *)
(* the maintenance was withdrawn before it began, because its checks were  *)
(* accepted, or after a recovery while it was down.                        *)
(***************************************************************************)

CONSTANTS Users

VARIABLES access,    \* "open", "closing", "closed", "accepted" or "recovered"
          inside,    \* the users whose request was let in
          loggedIn,  \* the users with a session
          up         \* is the portal running

vars == <<access, inside, loggedIn, up>>

Init == access = "open" /\ inside = {} /\ loggedIn = {} /\ up = TRUE

\* Nobody else is let in.
Prepare ==
  /\ up /\ access \in {"open", "recovered"} /\ access' = "closing"
  /\ UNCHANGED <<inside, loggedIn, up>>

Withdraw == up /\ access = "closing" /\ access' = "open" /\ UNCHANGED <<inside, loggedIn, up>>

\* The maintenance begins, and with it everybody is logged out.
Begin ==
  /\ up /\ access = "closing" /\ access' = "closed"
  /\ loggedIn' = {}
  /\ UNCHANGED <<inside, up>>

\* Its checks are accepted; until it ends it may still be called failed.
Accept == up /\ access = "closed" /\ access' = "accepted" /\ UNCHANGED <<inside, loggedIn, up>>
Reject == up /\ access = "accepted" /\ access' = "closed" /\ UNCHANGED <<inside, loggedIn, up>>
Reopen == up /\ access = "accepted" /\ access' = "open" /\ UNCHANGED <<inside, loggedIn, up>>

\* A maintenance nobody ends is ended from outside, with the portal down.
Recover ==
  /\ ~up /\ access = "closed" /\ access' = "recovered"
  /\ loggedIn' = {}
  /\ UNCHANGED <<inside, up>>

LetIn(u) ==
  /\ up /\ access = "open" /\ u \notin inside
  /\ inside' = inside \cup {u}
  /\ UNCHANGED <<access, loggedIn, up>>

LogIn(u) ==
  /\ u \in inside
  /\ inside' = inside \ {u} /\ loggedIn' = loggedIn \cup {u}
  /\ UNCHANGED <<access, up>>

Leave(u) ==
  /\ u \in inside
  /\ inside' = inside \ {u} /\ loggedIn' \in {loggedIn, loggedIn \ {u}}
  /\ UNCHANGED <<access, up>>

Revoke == loggedIn' \subseteq loggedIn /\ UNCHANGED <<access, inside, up>>

Stop == up /\ up' = FALSE /\ inside' = {} /\ UNCHANGED <<access, loggedIn>>
Start == ~up /\ up' = TRUE /\ UNCHANGED <<access, inside, loggedIn>>

Next ==
  \/ Prepare \/ Withdraw \/ Begin \/ Accept \/ Reject \/ Reopen \/ Recover
  \/ \E u \in Users : LetIn(u) \/ LogIn(u) \/ Leave(u)
  \/ Revoke \/ Stop \/ Start

Spec == Init /\ [][Next]_vars
===================================================================================
