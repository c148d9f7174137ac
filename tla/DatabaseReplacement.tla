-------------------------- MODULE DatabaseReplacement --------------------------
(***************************************************************************)
(* What the offline replacement of a database promises, without files,     *)
(* renames or commands: while the receipt says that the database was       *)
(* replaced, the portal serves the replacement, and while it says that the *)
(* original is back, the portal serves the original.  Between the two the  *)
(* database may be anything, and no verdict is given.                      *)
(***************************************************************************)

VARIABLES serving, verdict

vars == <<serving, verdict>>

Servings == {"original", "replacement", "foreign", "none"}
Verdicts == {"open", "replaced", "restored"}

Init == serving = "original" /\ verdict = "open"

\* Work on the database, possible only while no verdict stands.
Move == verdict = "open" /\ serving' \in Servings /\ UNCHANGED verdict

Commit == verdict = "open" /\ serving = "replacement" /\ verdict' = "replaced" /\ UNCHANGED serving

Restore == verdict = "open" /\ serving = "original" /\ verdict' = "restored" /\ UNCHANGED serving

\* A rollback withdraws the verdict before it touches the database; so does a
\* power loss that takes the receipt with it.
Withdraw == verdict # "open" /\ verdict' = "open" /\ UNCHANGED serving

Next == Move \/ Commit \/ Restore \/ Withdraw

Spec == Init /\ [][Next]_vars
=============================================================================
