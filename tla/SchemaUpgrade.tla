-------------------------------- MODULE SchemaUpgrade --------------------------------
(***************************************************************************)
(* What the migrations promise, without locks, batches, requests and       *)
(* crashes: the schema goes through its versions one by one and in order;  *)
(* a controlled version is only added while the portal is closed; a portal *)
(* that is closed opens again only with the last version; and an operation *)
(* is called complete only if the schema is.                               *)
(***************************************************************************)
EXTENDS Integers

CONSTANTS Latest,    \* the last version
          Automatic  \* the last version that is added without an operator

VARIABLES version,  \* the last version of the schema
          open,     \* is the portal open for users
          verdict   \* what is recorded of the last operation

vars == <<version, open, verdict>>

Verdicts == {"none", "running", "incomplete", "complete"}

Init == version \in 0 .. Automatic /\ open \in BOOLEAN /\ verdict = "none"

Upgrade ==
  /\ version < Latest /\ version' = version + 1
  /\ version' > Automatic => ~open
  /\ UNCHANGED <<open, verdict>>

Close == open /\ open' = FALSE /\ UNCHANGED <<version, verdict>>

Reopen == ~open /\ version = Latest /\ open' = TRUE /\ UNCHANGED <<version, verdict>>

\* An operation begins, ends, or is reconciled; what was complete stays so
\* until the next one begins.
Record ==
  /\ verdict' \in Verdicts \ {"none", verdict}
  /\ verdict = "complete" => verdict' = "running"
  /\ verdict' = "complete" => version = Latest
  /\ UNCHANGED <<version, open>>

Next == Upgrade \/ Close \/ Reopen \/ Record

Spec == Init /\ [][Next]_vars
===================================================================================
