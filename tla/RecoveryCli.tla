----------------------------- MODULE RecoveryCli -----------------------------
(***************************************************************************)
(* The restore command as the command line runs it: before anything else   *)
(* the preflight searches the data root for portal databases and binds the *)
(* one it finds to the receipt (cli/recovery-command-handlers.ts).  The    *)
(* candidate and the retained original lie beside the live database, so    *)
(* they are found as well.                                                 *)
(***************************************************************************)
EXTENDS RecoverySwap

discoverPortalDatabase == {p \in Paths : ~absent(p)}

\* runFreshPreflight and validateReceiptBindings: exactly one database, at the
\* path and with the hash the receipt has.
runFreshPreflight == discoverPortalDatabase = {"live"} /\ isHash("live", originalSha256)

\* restore: the phase of the receipt selects what runs.
restoreHandler ==
    /\ runFreshPreflight
    /\ \/ buildRecoveryCandidate
       \/ cmd = Idle /\ swapBegin
       \/ reconcileBegin

cliBegin ==
    \/ createRecoveryPoint /\ runFreshPreflight
    \/ restoreHandler
    \/ rollbackBegin

CliNext ==
    \/ verifier = NoVerify /\ cliBegin
    \/ commandNext
    \/ cmd = Idle /\ verifyBegin
    \/ verifyNext
    \/ environment

CliSpec == Init /\ [][CliNext]_vars

-----------------------------------------------------------------------------
\* docs/operations/OFFLINE_FULL_RESTORE.md: when the receipt says `swap_started'
\* a second restore with the same arguments runs the reconciliation.  It would
\* have to be admitted wherever the reconciliation knows what to do.
RestoreRerunAdmitted ==
    (/\ cmd = Idle /\ receipt = "swap_started"
     /\ classifyRecoveryFilesystem \in {"finish_swap", "restore_original", "continue_verification"})
        => runFreshPreflight
=============================================================================
