------------------------------- MODULE ApprovedLaunch -------------------------------
(***************************************************************************)
(* What the approval of a dangerous operation promises, without requests,  *)
(* statements and times: a launch is asked for, with the number of votes   *)
(* it needs; it is granted by that many votes and not otherwise; it is     *)
(* taken by one executor, who starts at most one job; and what is told of  *)
(* it in the end is final, and "failed" means that none was. "executed"    *)
(* says that the answer to the launch was a success, "unknown" that there  *)
(* was none or an error that leaves it open.                               *)
(***************************************************************************)
EXTENDS Integers, FiniteSets

VARIABLES stage,    \* how far the launch is
          quorum,   \* the votes it needs
          votes,    \* who voted for it
          started,  \* the jobs that were started
          told      \* what became of it

vars == <<stage, quorum, votes, started, told>>

Init == stage = "none" /\ quorum = 0 /\ votes = {} /\ started = 0 /\ told = "nothing"

Ask ==
  /\ stage = "none" /\ stage' = "open"
  /\ quorum' \in Nat \ {0}
  /\ UNCHANGED <<votes, started, told>>

\* Votes are counted when a launch is granted; later ones change nothing.
Vote ==
  /\ stage # "none"
  /\ \E voter \in votes' : voter \notin votes /\ votes' = votes \cup {voter}
  /\ UNCHANGED <<stage, quorum, started, told>>

Grant ==
  /\ stage = "open" /\ stage' = "granted"
  /\ Cardinality(votes) >= quorum
  /\ UNCHANGED <<quorum, votes, started, told>>

\* Rejected, cancelled or expired.
Withdraw ==
  /\ stage \in {"open", "granted"} /\ stage' = "over"
  /\ UNCHANGED <<quorum, votes, started, told>>

Take ==
  /\ stage = "granted" /\ stage' = "taken"
  /\ UNCHANGED <<quorum, votes, started, told>>

StartJob ==
  /\ stage = "taken" /\ started = 0 /\ started' = 1
  /\ UNCHANGED <<stage, quorum, votes, told>>

Tell ==
  /\ stage = "taken" /\ stage' = "over"
  /\ told' \in {"executed", "failed", "unknown"}
  /\ told' = "failed" => started = 0
  /\ UNCHANGED <<quorum, votes, started>>

Next == Ask \/ Vote \/ Grant \/ Withdraw \/ Take \/ StartJob \/ Tell

Spec == Init /\ [][Next]_vars
===================================================================================
