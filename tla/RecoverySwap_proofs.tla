------------------------- MODULE RecoverySwap_proofs -------------------------
(***************************************************************************)
(* Proofs about the offline replacement, for every value of the constants: *)
(* the invariant Inv is inductive, and with it the types are right, the    *)
(* original database survives everything but a catch block that cannot see *)
(* it, no power loss separates the receipt from the directory where        *)
(* CrashConsistent says so, and an interrupted swap is recognised. None of *)
(* it needs the operator's discipline: it holds of OverlapSpec, where a    *)
(* late verify writes its phase under a running command. What the phase of *)
(* the receipt says of the running command needs it. The command line only *)
(* narrows what the operations admit, so that what is proved of the        *)
(* operations holds of the command line.                                   *)
(***************************************************************************)
EXTENDS RecoveryCli, TLAPS

\* Two names only ever hold the file made for them.
Slots ==
    \A dir \in images : /\ dir["candidate"] \in {"none", "candidate"}
                        /\ dir["recoveryTemp"] \in {"none", "materialized"}

\* The phases before the first rename, and those that say of the directory what a
\* rename of the live database ends.
EarlyPhases == {"absent", "recovery_point_ready", "candidate_ready"}
BindingPhases == EarlyPhases \cup {"rolled_back"}

\* Where a command is, its next rename goes to a free name, and a rename that takes
\* the live database away comes after a receipt that is on disk, so that no power
\* loss brings an earlier phase back, whatever verify writes meanwhile.
StepOK ==
    /\ At("restore", "bind") => receipt = "recovery_point_ready"
    /\ At("swap", "recordStart") => receipt = "candidate_ready"
    /\ At("swap", "renameLive") => receiptImages \cap BindingPhases = {} /\ absent("rollback")
    /\ At("swap", "renameCandidate") => absent("live")
    /\ At("reconcile", "rename") => absent("live") /\ cmd.source \in {"candidate", "rollback"}
    /\ cmd.op = "rollback" => cmd.source \in {"rollback", "recoveryTemp"}
    /\ At("rollback", "materialize") => absent("recoveryTemp") /\ absent("failed")
    /\ At("rollback", "recordStart") => absent("failed")
    /\ At("rollback", "renameLive") => receiptImages \cap BindingPhases = {} /\ absent("failed")
    /\ At("rollback", "renameSource") => absent("live")
    /\ At("rollback", "recordEnd") => images = {files}
    /\ At("rollback", "putBack") => ~absent("failed")

\* verify waits only after the exchange, from which no power loss leads back before
\* the first rename, and it only fails into a phase that says so.
VerifierOK ==
    /\ verifier # NoVerify \/ receipt = "swapped" => receiptImages \cap EarlyPhases = {}
    /\ verifier = NoVerify \/ verifier.step = "online"
       \/ (verifier.step = "recordFailure"
           /\ verifier.phase \in {"failed", "post_complete_failed"})

\* Every directory that may be left holds the original, unless it was overwritten.
Survives == overwrote \/ \A dir \in images : \E p \in Paths : dir[p] = "original"

\* How many calls have failed before a catch block overwrites a live database: the
\* one that led to it, and the inspection.
FailuresOK ==
    /\ At("rollback", "undo") => faults >= 1
    /\ At("rollback", "putBack") /\ ~absent("live") => faults >= 2
    /\ overwrote => faults >= 2

\* The inductive invariant. It needs the lock only: commands may overlap with a
\* verify that still waits.
Inv == TypeOK /\ Survives /\ Slots /\ StepOK /\ VerifierOK /\ CrashConsistent

USE DEF Paths, Databases, Directories, EarlyPhases, BindingPhases

\* The initial state satisfies the invariant.
LEMMA InitInv == Init => Inv
<1> SUFFICES ASSUME Init PROVE Inv
  OBVIOUS
<1>1. TypeOK
  BY DEF Init, TypeOK, DirectoryTypeOK, ReceiptTypeOK, ControlTypeOK, Phases, Idle, NoVerify
<1>2. Survives /\ Slots /\ CrashConsistent
  BY DEF Init, Survives, Slots, CrashConsistent, Agree, UntouchedFiles, RestoredFiles
<1>3. StepOK /\ VerifierOK
  BY DEF Init, StepOK, VerifierOK, Idle, NoVerify, At
<1> QED
  BY <1>1, <1>2, <1>3 DEF Inv

\* A live candidate means that the phases before the first rename are gone.
LEMMA ExchangedIsLate ==
  ASSUME TypeOK, CrashConsistent, isHash("live", candidateSha256)
  PROVE  receiptImages \cap EarlyPhases = {}
<1>1. files \in images /\ files["live"] # "original"
  BY DEF TypeOK, DirectoryTypeOK, isHash, Bytes, candidateSha256
<1> QED
  BY <1>1 DEF CrashConsistent, Agree, UntouchedFiles

\* Each step of the commands, of verify and of the surroundings keeps it.
LEMMA NextInv == Inv /\ [OverlapNext]_vars => Inv'
<1> SUFFICES ASSUME Inv, [OverlapNext]_vars PROVE Inv'
  OBVIOUS
<1> USE SwapAssumption DEF Inv, TypeOK, disk, paper, budget, Idle, NoVerify, At, Goto,
        absent, Works, Fails, WriteReceipt, Change, rename, Renamed, fsyncDirectory
<1>1. CASE createRecoveryPoint
  <2>1. DirectoryTypeOK'
    BY <1>1 DEF createRecoveryPoint, isHash, originalSha256, Bytes, DirectoryTypeOK
  <2>2. ReceiptTypeOK'
    BY <1>1 DEF createRecoveryPoint, isHash, originalSha256, Bytes, ReceiptTypeOK,
       Phases
  <2>3. ControlTypeOK'
    BY <1>1 DEF createRecoveryPoint, isHash, originalSha256, Bytes, ControlTypeOK
  <2>4. (Survives /\ Slots)'
    BY <1>1 DEF createRecoveryPoint, isHash, originalSha256, Bytes, Survives,
       Slots, DirectoryTypeOK, ReceiptTypeOK, ControlTypeOK, Phases
  <2>5. (StepOK /\ VerifierOK)'
    BY <1>1 DEF createRecoveryPoint, isHash, originalSha256, Bytes, StepOK,
       VerifierOK, DirectoryTypeOK, ReceiptTypeOK, ControlTypeOK, Phases
  <2>6. CrashConsistent'
    BY <1>1 DEF createRecoveryPoint, isHash, originalSha256, Bytes, CrashConsistent,
       Agree, RestoredFiles, UntouchedFiles, DirectoryTypeOK, ReceiptTypeOK,
       ControlTypeOK, Phases
  <2> QED
    BY <2>1, <2>2, <2>3, <2>4, <2>5, <2>6
<1>2. CASE buildRecoveryCandidate
  <2>1. DirectoryTypeOK'
    BY <1>2 DEF buildRecoveryCandidate, isHash, originalSha256, Bytes, DirectoryTypeOK
  <2>2. ReceiptTypeOK'
    BY <1>2 DEF buildRecoveryCandidate, isHash, originalSha256, Bytes, ReceiptTypeOK,
       Phases
  <2>3. ControlTypeOK'
    BY <1>2 DEF buildRecoveryCandidate, isHash, originalSha256, Bytes, ControlTypeOK
  <2>4. (Survives /\ Slots)'
    BY <1>2 DEF buildRecoveryCandidate, isHash, originalSha256, Bytes,
       Survives, Slots, DirectoryTypeOK, ReceiptTypeOK, ControlTypeOK, Phases
  <2>5. (StepOK /\ VerifierOK)'
    BY <1>2 DEF buildRecoveryCandidate, isHash, originalSha256, Bytes, StepOK,
       VerifierOK, DirectoryTypeOK, ReceiptTypeOK, ControlTypeOK, Phases
  <2>6. CrashConsistent'
    BY <1>2 DEF buildRecoveryCandidate, isHash, originalSha256, Bytes,
       CrashConsistent, Agree, RestoredFiles, UntouchedFiles, DirectoryTypeOK,
       ReceiptTypeOK, ControlTypeOK, Phases
  <2> QED
    BY <2>1, <2>2, <2>3, <2>4, <2>5, <2>6
<1>3. CASE candidateRejected
  <2>1. DirectoryTypeOK'
    BY <1>3 DEF candidateRejected, DirectoryTypeOK
  <2>2. ReceiptTypeOK'
    BY <1>3 DEF candidateRejected, ReceiptTypeOK, Phases
  <2>3. ControlTypeOK'
    BY <1>3 DEF candidateRejected, ControlTypeOK
  <2>4. (Survives /\ Slots)'
    BY <1>3 DEF candidateRejected, Survives, Slots, DirectoryTypeOK,
       ReceiptTypeOK, ControlTypeOK, Phases
  <2>5. (StepOK /\ VerifierOK)'
    BY <1>3 DEF candidateRejected, StepOK, VerifierOK, DirectoryTypeOK, ReceiptTypeOK,
       ControlTypeOK, Phases
  <2>6. CrashConsistent'
    BY <1>3 DEF candidateRejected, CrashConsistent, Agree, RestoredFiles,
       UntouchedFiles, DirectoryTypeOK, ReceiptTypeOK, ControlTypeOK, Phases
  <2> QED
    BY <2>1, <2>2, <2>3, <2>4, <2>5, <2>6
<1>4. CASE bindRecoveryCandidateReceipt
  <2>1. DirectoryTypeOK'
    BY <1>4 DEF bindRecoveryCandidateReceipt, DirectoryTypeOK
  <2>2. ReceiptTypeOK'
    BY <1>4 DEF bindRecoveryCandidateReceipt, ReceiptTypeOK, Phases
  <2>3. ControlTypeOK'
    BY <1>4 DEF bindRecoveryCandidateReceipt, ControlTypeOK
  <2>4. (Survives /\ Slots)'
    BY <1>4 DEF bindRecoveryCandidateReceipt, Survives, Slots,
       DirectoryTypeOK, ReceiptTypeOK, ControlTypeOK, Phases
  <2>5. (StepOK /\ VerifierOK)'
    BY <1>4 DEF bindRecoveryCandidateReceipt, StepOK, VerifierOK, DirectoryTypeOK,
       ReceiptTypeOK, ControlTypeOK, Phases
  <2>6. CrashConsistent'
    BY <1>4 DEF bindRecoveryCandidateReceipt, CrashConsistent, Agree, RestoredFiles,
       UntouchedFiles, DirectoryTypeOK, ReceiptTypeOK, ControlTypeOK, Phases,
       Survives, Slots, StepOK, VerifierOK
  <2> QED
    BY <2>1, <2>2, <2>3, <2>4, <2>5, <2>6
<1>5. CASE swapBegin
  <2>1. DirectoryTypeOK'
    BY <1>5 DEF swapBegin, swapAdmits, candidateSha256, isHash, originalSha256, Bytes,
       DirectoryTypeOK
  <2>2. ReceiptTypeOK'
    BY <1>5 DEF swapBegin, swapAdmits, candidateSha256, isHash, originalSha256, Bytes,
       ReceiptTypeOK, Phases
  <2>3. ControlTypeOK'
    BY <1>5 DEF swapBegin, swapAdmits, candidateSha256, isHash, originalSha256, Bytes,
       ControlTypeOK
  <2>4. (Survives /\ Slots)'
    BY <1>5 DEF swapBegin, swapAdmits, candidateSha256, isHash, originalSha256, Bytes,
       Survives, Slots, DirectoryTypeOK, ReceiptTypeOK, ControlTypeOK, Phases
  <2>5. (StepOK /\ VerifierOK)'
    BY <1>5 DEF swapBegin, swapAdmits, candidateSha256, isHash, originalSha256, Bytes,
       StepOK, VerifierOK, DirectoryTypeOK, ReceiptTypeOK, ControlTypeOK, Phases
  <2>6. CrashConsistent'
    BY <1>5 DEF swapBegin, swapAdmits, candidateSha256, isHash, originalSha256, Bytes,
       CrashConsistent, Agree, RestoredFiles, UntouchedFiles, DirectoryTypeOK,
       ReceiptTypeOK, ControlTypeOK, Phases
  <2> QED
    BY <2>1, <2>2, <2>3, <2>4, <2>5, <2>6
<1>6. CASE swapRecordStart
  <2>1. DirectoryTypeOK'
    BY <1>6 DEF swapRecordStart, DirectoryTypeOK
  <2>2. ReceiptTypeOK'
    BY <1>6 DEF swapRecordStart, ReceiptTypeOK, Phases
  <2>3. ControlTypeOK'
    BY <1>6 DEF swapRecordStart, ControlTypeOK
  <2>4. (Survives /\ Slots)'
    BY <1>6 DEF swapRecordStart, Survives, Slots, DirectoryTypeOK,
       ReceiptTypeOK, ControlTypeOK, Phases
  <2>5. (StepOK /\ VerifierOK)'
    BY <1>6 DEF swapRecordStart, StepOK, VerifierOK, DirectoryTypeOK, ReceiptTypeOK,
       ControlTypeOK, Phases, Survives, Slots, CrashConsistent, Agree,
       RestoredFiles, UntouchedFiles
  <2>6. CrashConsistent'
    BY <1>6 DEF swapRecordStart, CrashConsistent, Agree, RestoredFiles,
       UntouchedFiles, DirectoryTypeOK, ReceiptTypeOK, ControlTypeOK, Phases
  <2> QED
    BY <2>1, <2>2, <2>3, <2>4, <2>5, <2>6
<1>7. CASE swapRenameLive
  <2>1. DirectoryTypeOK'
    BY <1>7 DEF swapRenameLive, DirectoryTypeOK
  <2>2. ReceiptTypeOK'
    BY <1>7 DEF swapRenameLive, ReceiptTypeOK, Phases
  <2>3. ControlTypeOK'
    BY <1>7 DEF swapRenameLive, ControlTypeOK
  <2>4. (Survives /\ Slots)'
    BY <1>7 DEF swapRenameLive, Survives, Slots, DirectoryTypeOK,
       ReceiptTypeOK, ControlTypeOK, Phases, StepOK, VerifierOK, CrashConsistent,
       Agree, RestoredFiles, UntouchedFiles
  <2>5. (StepOK /\ VerifierOK)'
    BY <1>7 DEF swapRenameLive, StepOK, VerifierOK, DirectoryTypeOK, ReceiptTypeOK,
       ControlTypeOK, Phases
  <2>6. CrashConsistent'
    BY <1>7 DEF swapRenameLive, CrashConsistent, Agree, RestoredFiles, UntouchedFiles,
       DirectoryTypeOK, ReceiptTypeOK, ControlTypeOK, Phases, Survives, Slots,
       StepOK, VerifierOK
  <2> QED
    BY <2>1, <2>2, <2>3, <2>4, <2>5, <2>6
<1>8. CASE swapRenameCandidate
  <2>1. DirectoryTypeOK'
    BY <1>8 DEF swapRenameCandidate, DirectoryTypeOK
  <2>2. ReceiptTypeOK'
    BY <1>8 DEF swapRenameCandidate, ReceiptTypeOK, Phases
  <2>3. ControlTypeOK'
    BY <1>8 DEF swapRenameCandidate, ControlTypeOK
  <2>4. (Survives /\ Slots)'
    BY <1>8 DEF swapRenameCandidate, Survives, Slots, DirectoryTypeOK,
       ReceiptTypeOK, ControlTypeOK, Phases, StepOK, VerifierOK, CrashConsistent,
       Agree, RestoredFiles, UntouchedFiles
  <2>5. (StepOK /\ VerifierOK)'
    BY <1>8 DEF swapRenameCandidate, StepOK, VerifierOK, DirectoryTypeOK,
       ReceiptTypeOK, ControlTypeOK, Phases
  <2>6. CrashConsistent'
    BY <1>8 DEF swapRenameCandidate, CrashConsistent, Agree, RestoredFiles,
       UntouchedFiles, DirectoryTypeOK, ReceiptTypeOK, ControlTypeOK, Phases,
       Survives, Slots, StepOK, VerifierOK
  <2> QED
    BY <2>1, <2>2, <2>3, <2>4, <2>5, <2>6
<1>9. CASE swapFsync
  <2>1. DirectoryTypeOK'
    BY <1>9 DEF swapFsync, DirectoryTypeOK
  <2>2. ReceiptTypeOK'
    BY <1>9 DEF swapFsync, ReceiptTypeOK, Phases
  <2>3. ControlTypeOK'
    BY <1>9 DEF swapFsync, ControlTypeOK
  <2>4. (Survives /\ Slots)'
    BY <1>9 DEF swapFsync, Survives, Slots, DirectoryTypeOK, ReceiptTypeOK,
       ControlTypeOK, Phases
  <2>5. (StepOK /\ VerifierOK)'
    BY <1>9 DEF swapFsync, StepOK, VerifierOK, DirectoryTypeOK, ReceiptTypeOK,
       ControlTypeOK, Phases
  <2>6. CrashConsistent'
    BY <1>9 DEF swapFsync, CrashConsistent, Agree, RestoredFiles, UntouchedFiles,
       DirectoryTypeOK, ReceiptTypeOK, ControlTypeOK, Phases
  <2> QED
    BY <2>1, <2>2, <2>3, <2>4, <2>5, <2>6
<1>10. CASE swapRecordEnd
  <2>1. DirectoryTypeOK'
    BY <1>10 DEF swapRecordEnd, candidateSha256, isHash, originalSha256, Bytes,
       DirectoryTypeOK
  <2>2. ReceiptTypeOK'
    BY <1>10 DEF swapRecordEnd, candidateSha256, isHash, originalSha256, Bytes,
       ReceiptTypeOK, Phases
  <2>3. ControlTypeOK'
    BY <1>10 DEF swapRecordEnd, candidateSha256, isHash, originalSha256, Bytes,
       ControlTypeOK
  <2>4. (Survives /\ Slots)'
    BY <1>10 DEF swapRecordEnd, candidateSha256, isHash, originalSha256, Bytes,
       Survives, Slots, DirectoryTypeOK, ReceiptTypeOK, ControlTypeOK, Phases
  <2>5. (StepOK /\ VerifierOK)'
    <3>1. receiptImages \cap EarlyPhases = {}
      BY <1>10, ExchangedIsLate DEF swapRecordEnd
    <3> QED
      BY <1>10, <3>1 DEF swapRecordEnd, StepOK, VerifierOK, DirectoryTypeOK, ReceiptTypeOK,
         ControlTypeOK, Phases
  <2>6. CrashConsistent'
    BY <1>10 DEF swapRecordEnd, candidateSha256, isHash, originalSha256, Bytes,
       CrashConsistent, Agree, RestoredFiles, UntouchedFiles, DirectoryTypeOK,
       ReceiptTypeOK, ControlTypeOK, Phases
  <2> QED
    BY <2>1, <2>2, <2>3, <2>4, <2>5, <2>6
<1>11. CASE reconcileBegin
  <2>1. DirectoryTypeOK'
    BY <1>11 DEF reconcileBegin, classifyRecoveryFilesystem, candidateSha256, isHash,
       originalSha256, Bytes, DirectoryTypeOK
  <2>2. ReceiptTypeOK'
    BY <1>11 DEF reconcileBegin, classifyRecoveryFilesystem, candidateSha256, isHash,
       originalSha256, Bytes, ReceiptTypeOK, Phases
  <2>3. ControlTypeOK'
    BY <1>11 DEF reconcileBegin, classifyRecoveryFilesystem, candidateSha256, isHash,
       originalSha256, Bytes, ControlTypeOK
  <2>4. (Survives /\ Slots)'
    BY <1>11 DEF reconcileBegin, classifyRecoveryFilesystem, candidateSha256, isHash,
       originalSha256, Bytes, Survives, Slots, DirectoryTypeOK, ReceiptTypeOK,
       ControlTypeOK, Phases
  <2>5. (StepOK /\ VerifierOK)'
    BY <1>11 DEF reconcileBegin, classifyRecoveryFilesystem, candidateSha256, isHash,
       originalSha256, Bytes, StepOK, VerifierOK, DirectoryTypeOK, ReceiptTypeOK,
       ControlTypeOK, Phases
  <2>6. CrashConsistent'
    BY <1>11 DEF reconcileBegin, classifyRecoveryFilesystem, candidateSha256, isHash,
       originalSha256, Bytes, CrashConsistent, Agree, RestoredFiles, UntouchedFiles,
       DirectoryTypeOK, ReceiptTypeOK, ControlTypeOK, Phases
  <2> QED
    BY <2>1, <2>2, <2>3, <2>4, <2>5, <2>6
<1>12. CASE reconcileRename
  <2>1. DirectoryTypeOK'
    BY <1>12 DEF reconcileRename, DirectoryTypeOK, ReceiptTypeOK, ControlTypeOK,
       Survives, Slots, StepOK, VerifierOK, CrashConsistent, Phases, Agree,
       RestoredFiles, UntouchedFiles
  <2>2. ReceiptTypeOK'
    BY <1>12 DEF reconcileRename, ReceiptTypeOK, Phases
  <2>3. ControlTypeOK'
    BY <1>12 DEF reconcileRename, ControlTypeOK
  <2>4. (Survives /\ Slots)'
    BY <1>12 DEF reconcileRename, Survives, Slots, DirectoryTypeOK,
       ReceiptTypeOK, ControlTypeOK, Phases, StepOK, VerifierOK, CrashConsistent,
       Agree, RestoredFiles, UntouchedFiles
  <2>5. (StepOK /\ VerifierOK)'
    BY <1>12 DEF reconcileRename, StepOK, VerifierOK, DirectoryTypeOK, ReceiptTypeOK,
       ControlTypeOK, Phases
  <2>6. CrashConsistent'
    BY <1>12 DEF reconcileRename, CrashConsistent, Agree, RestoredFiles,
       UntouchedFiles, DirectoryTypeOK, ReceiptTypeOK, ControlTypeOK, Phases,
       Survives, Slots, StepOK, VerifierOK
  <2> QED
    BY <2>1, <2>2, <2>3, <2>4, <2>5, <2>6
<1>13. CASE reconcileFsync
  <2>1. DirectoryTypeOK'
    BY <1>13 DEF reconcileFsync, DirectoryTypeOK
  <2>2. ReceiptTypeOK'
    BY <1>13 DEF reconcileFsync, ReceiptTypeOK, Phases
  <2>3. ControlTypeOK'
    BY <1>13 DEF reconcileFsync, ControlTypeOK
  <2>4. (Survives /\ Slots)'
    BY <1>13 DEF reconcileFsync, Survives, Slots, DirectoryTypeOK,
       ReceiptTypeOK, ControlTypeOK, Phases
  <2>5. (StepOK /\ VerifierOK)'
    BY <1>13 DEF reconcileFsync, StepOK, VerifierOK, DirectoryTypeOK, ReceiptTypeOK,
       ControlTypeOK, Phases
  <2>6. CrashConsistent'
    BY <1>13 DEF reconcileFsync, CrashConsistent, Agree, RestoredFiles,
       UntouchedFiles, DirectoryTypeOK, ReceiptTypeOK, ControlTypeOK, Phases
  <2> QED
    BY <2>1, <2>2, <2>3, <2>4, <2>5, <2>6
<1>14. CASE reconcileRecord
  <2>1. DirectoryTypeOK'
    BY <1>14 DEF reconcileRecord, candidateSha256, isHash, originalSha256, Bytes,
       DirectoryTypeOK
  <2>2. ReceiptTypeOK'
    BY <1>14 DEF reconcileRecord, candidateSha256, isHash, originalSha256, Bytes,
       ReceiptTypeOK, Phases
  <2>3. ControlTypeOK'
    BY <1>14 DEF reconcileRecord, candidateSha256, isHash, originalSha256, Bytes,
       ControlTypeOK
  <2>4. (Survives /\ Slots)'
    BY <1>14 DEF reconcileRecord, candidateSha256, isHash, originalSha256, Bytes,
       Survives, Slots, DirectoryTypeOK, ReceiptTypeOK, ControlTypeOK, Phases
  <2>5. (StepOK /\ VerifierOK)'
    <3>1. cmd.source = "candidate" => receiptImages \cap EarlyPhases = {}
      BY <1>14, ExchangedIsLate DEF reconcileRecord
    <3> QED
      BY <1>14, <3>1 DEF reconcileRecord, StepOK, VerifierOK, DirectoryTypeOK, ReceiptTypeOK,
         ControlTypeOK, Phases
  <2>6. CrashConsistent'
    BY <1>14 DEF reconcileRecord, candidateSha256, isHash, originalSha256, Bytes,
       CrashConsistent, Agree, RestoredFiles, UntouchedFiles, DirectoryTypeOK,
       ReceiptTypeOK, ControlTypeOK, Phases
  <2> QED
    BY <2>1, <2>2, <2>3, <2>4, <2>5, <2>6
<1>15. CASE rollbackBegin
  <2>1. DirectoryTypeOK'
    BY <1>15 DEF rollbackBegin, rollbackAdmits, isHash, originalSha256,
       rollbackPhases, Bytes, DirectoryTypeOK
  <2>2. ReceiptTypeOK'
    BY <1>15 DEF rollbackBegin, rollbackAdmits, isHash, originalSha256,
       rollbackPhases, Bytes, ReceiptTypeOK, Phases
  <2>3. ControlTypeOK'
    BY <1>15 DEF rollbackBegin, rollbackAdmits, isHash, originalSha256,
       rollbackPhases, Bytes, ControlTypeOK
  <2>4. (Survives /\ Slots)'
    BY <1>15 DEF rollbackBegin, rollbackAdmits, isHash, originalSha256,
       rollbackPhases, Bytes, Survives, Slots, DirectoryTypeOK, ReceiptTypeOK,
       ControlTypeOK, Phases
  <2>5. (StepOK /\ VerifierOK)'
    BY <1>15 DEF rollbackBegin, rollbackAdmits, isHash, originalSha256,
       rollbackPhases, Bytes, StepOK, VerifierOK, DirectoryTypeOK, ReceiptTypeOK,
       ControlTypeOK, Phases
  <2>6. CrashConsistent'
    BY <1>15 DEF rollbackBegin, rollbackAdmits, isHash, originalSha256,
       rollbackPhases, Bytes, CrashConsistent, Agree, RestoredFiles, UntouchedFiles,
       DirectoryTypeOK, ReceiptTypeOK, ControlTypeOK, Phases
  <2> QED
    BY <2>1, <2>2, <2>3, <2>4, <2>5, <2>6
<1>16. CASE materializeRecoveryPoint
  <2>1. DirectoryTypeOK'
    BY <1>16 DEF materializeRecoveryPoint, DirectoryTypeOK
  <2>2. ReceiptTypeOK'
    BY <1>16 DEF materializeRecoveryPoint, ReceiptTypeOK, Phases
  <2>3. ControlTypeOK'
    BY <1>16 DEF materializeRecoveryPoint, ControlTypeOK
  <2>4. (Survives /\ Slots)'
    BY <1>16 DEF materializeRecoveryPoint, Survives, Slots, DirectoryTypeOK,
       ReceiptTypeOK, ControlTypeOK, Phases
  <2>5. (StepOK /\ VerifierOK)'
    BY <1>16 DEF materializeRecoveryPoint, StepOK, VerifierOK, DirectoryTypeOK,
       ReceiptTypeOK, ControlTypeOK, Phases
  <2>6. CrashConsistent'
    BY <1>16 DEF materializeRecoveryPoint, CrashConsistent, Agree, RestoredFiles,
       UntouchedFiles, DirectoryTypeOK, ReceiptTypeOK, ControlTypeOK, Phases
  <2> QED
    BY <2>1, <2>2, <2>3, <2>4, <2>5, <2>6
<1>17. CASE rollbackRecordStart
  <2>1. DirectoryTypeOK'
    BY <1>17 DEF rollbackRecordStart, DirectoryTypeOK
  <2>2. ReceiptTypeOK'
    BY <1>17 DEF rollbackRecordStart, ReceiptTypeOK, Phases
  <2>3. ControlTypeOK'
    BY <1>17 DEF rollbackRecordStart, ControlTypeOK
  <2>4. (Survives /\ Slots)'
    BY <1>17 DEF rollbackRecordStart, Survives, Slots, DirectoryTypeOK,
       ReceiptTypeOK, ControlTypeOK, Phases
  <2>5. (StepOK /\ VerifierOK)'
    BY <1>17 DEF rollbackRecordStart, StepOK, VerifierOK, DirectoryTypeOK,
       ReceiptTypeOK, ControlTypeOK, Phases
  <2>6. CrashConsistent'
    BY <1>17 DEF rollbackRecordStart, CrashConsistent, Agree, RestoredFiles,
       UntouchedFiles, DirectoryTypeOK, ReceiptTypeOK, ControlTypeOK, Phases
  <2> QED
    BY <2>1, <2>2, <2>3, <2>4, <2>5, <2>6
<1>18. CASE rollbackRenameLive
  <2>1. DirectoryTypeOK'
    BY <1>18 DEF rollbackRenameLive, DirectoryTypeOK
  <2>2. ReceiptTypeOK'
    BY <1>18 DEF rollbackRenameLive, ReceiptTypeOK, Phases
  <2>3. ControlTypeOK'
    BY <1>18 DEF rollbackRenameLive, ControlTypeOK
  <2>4. (Survives /\ Slots)'
    BY <1>18 DEF rollbackRenameLive, Survives, Slots, DirectoryTypeOK,
       ReceiptTypeOK, ControlTypeOK, Phases, StepOK, VerifierOK, CrashConsistent,
       Agree, RestoredFiles, UntouchedFiles
  <2>5. (StepOK /\ VerifierOK)'
    BY <1>18 DEF rollbackRenameLive, StepOK, VerifierOK, DirectoryTypeOK,
       ReceiptTypeOK, ControlTypeOK, Phases
  <2>6. CrashConsistent'
    BY <1>18 DEF rollbackRenameLive, CrashConsistent, Agree, RestoredFiles,
       UntouchedFiles, DirectoryTypeOK, ReceiptTypeOK, ControlTypeOK, Phases,
       Survives, Slots, StepOK, VerifierOK
  <2> QED
    BY <2>1, <2>2, <2>3, <2>4, <2>5, <2>6
<1>19. CASE rollbackRenameSource
  <2>1. DirectoryTypeOK'
    BY <1>19 DEF rollbackRenameSource, DirectoryTypeOK, ReceiptTypeOK, ControlTypeOK,
       Survives, Slots, StepOK, VerifierOK, CrashConsistent, Phases, Agree,
       RestoredFiles, UntouchedFiles
  <2>2. ReceiptTypeOK'
    BY <1>19 DEF rollbackRenameSource, ReceiptTypeOK, Phases
  <2>3. ControlTypeOK'
    BY <1>19 DEF rollbackRenameSource, ControlTypeOK
  <2>4. (Survives /\ Slots)'
    BY <1>19 DEF rollbackRenameSource, Survives, Slots, DirectoryTypeOK,
       ReceiptTypeOK, ControlTypeOK, Phases, StepOK, VerifierOK, CrashConsistent,
       Agree, RestoredFiles, UntouchedFiles
  <2>5. (StepOK /\ VerifierOK)'
    BY <1>19 DEF rollbackRenameSource, StepOK, VerifierOK, DirectoryTypeOK,
       ReceiptTypeOK, ControlTypeOK, Phases
  <2>6. CrashConsistent'
    BY <1>19 DEF rollbackRenameSource, CrashConsistent, Agree, RestoredFiles,
       UntouchedFiles, DirectoryTypeOK, ReceiptTypeOK, ControlTypeOK, Phases,
       Survives, Slots, StepOK, VerifierOK
  <2> QED
    BY <2>1, <2>2, <2>3, <2>4, <2>5, <2>6
<1>20. CASE rollbackFsync
  <2>1. DirectoryTypeOK'
    BY <1>20 DEF rollbackFsync, DirectoryTypeOK
  <2>2. ReceiptTypeOK'
    BY <1>20 DEF rollbackFsync, ReceiptTypeOK, Phases
  <2>3. ControlTypeOK'
    BY <1>20 DEF rollbackFsync, ControlTypeOK
  <2>4. (Survives /\ Slots)'
    BY <1>20 DEF rollbackFsync, Survives, Slots, DirectoryTypeOK,
       ReceiptTypeOK, ControlTypeOK, Phases
  <2>5. (StepOK /\ VerifierOK)'
    BY <1>20 DEF rollbackFsync, StepOK, VerifierOK, DirectoryTypeOK, ReceiptTypeOK,
       ControlTypeOK, Phases
  <2>6. CrashConsistent'
    BY <1>20 DEF rollbackFsync, CrashConsistent, Agree, RestoredFiles, UntouchedFiles,
       DirectoryTypeOK, ReceiptTypeOK, ControlTypeOK, Phases
  <2> QED
    BY <2>1, <2>2, <2>3, <2>4, <2>5, <2>6
<1>21. CASE rollbackRecordEnd
  <2>1. DirectoryTypeOK'
    BY <1>21 DEF rollbackRecordEnd, isHash, originalSha256, Bytes, DirectoryTypeOK
  <2>2. ReceiptTypeOK'
    BY <1>21 DEF rollbackRecordEnd, isHash, originalSha256, Bytes, ReceiptTypeOK,
       Phases
  <2>3. ControlTypeOK'
    BY <1>21 DEF rollbackRecordEnd, isHash, originalSha256, Bytes, ControlTypeOK
  <2>4. (Survives /\ Slots)'
    BY <1>21 DEF rollbackRecordEnd, isHash, originalSha256, Bytes, Survives,
       Slots, DirectoryTypeOK, ReceiptTypeOK, ControlTypeOK, Phases
  <2>5. (StepOK /\ VerifierOK)'
    BY <1>21 DEF rollbackRecordEnd, isHash, originalSha256, Bytes, StepOK, VerifierOK,
       DirectoryTypeOK, ReceiptTypeOK, ControlTypeOK, Phases
  <2>6. CrashConsistent'
    BY <1>21 DEF rollbackRecordEnd, isHash, originalSha256, Bytes, CrashConsistent,
       Agree, RestoredFiles, UntouchedFiles, DirectoryTypeOK, ReceiptTypeOK,
       ControlTypeOK, Phases, Survives, Slots, StepOK, VerifierOK
  <2> QED
    BY <2>1, <2>2, <2>3, <2>4, <2>5, <2>6
<1>22. CASE rollbackInspect
  <2>1. DirectoryTypeOK'
    BY <1>22 DEF rollbackInspect, DirectoryTypeOK
  <2>2. ReceiptTypeOK'
    BY <1>22 DEF rollbackInspect, ReceiptTypeOK, Phases
  <2>3. ControlTypeOK'
    BY <1>22 DEF rollbackInspect, ControlTypeOK
  <2>4. (Survives /\ Slots)'
    BY <1>22 DEF rollbackInspect, Survives, Slots, DirectoryTypeOK,
       ReceiptTypeOK, ControlTypeOK, Phases
  <2>5. (StepOK /\ VerifierOK)'
    BY <1>22 DEF rollbackInspect, StepOK, VerifierOK, DirectoryTypeOK, ReceiptTypeOK,
       ControlTypeOK, Phases
  <2>6. CrashConsistent'
    BY <1>22 DEF rollbackInspect, CrashConsistent, Agree, RestoredFiles, UntouchedFiles,
       DirectoryTypeOK, ReceiptTypeOK, ControlTypeOK, Phases
  <2> QED
    BY <2>1, <2>2, <2>3, <2>4, <2>5, <2>6
<1>22a. CASE rollbackPutBack
  <2>1. DirectoryTypeOK'
    BY <1>22a DEF rollbackPutBack, DirectoryTypeOK
  <2>2. ReceiptTypeOK'
    BY <1>22a DEF rollbackPutBack, ReceiptTypeOK, Phases
  <2>3. ControlTypeOK'
    <3>1. overwrote' \in BOOLEAN
      BY <1>22a, Zenon DEF rollbackPutBack, ControlTypeOK
    <3> QED
      BY <1>22a, <3>1 DEF rollbackPutBack, ControlTypeOK
  <2>4. \/ images' \subseteq images /\ overwrote' = overwrote
        \/ overwrote'
        \/ absent("live") /\ ~overwrote /\ images' \subseteq images \cup {Renamed("failed", "live")}
    BY <1>22a DEF rollbackPutBack, DirectoryTypeOK, ControlTypeOK
  <2>5. (Survives /\ Slots)'
    <3>1. Slots'
      BY <1>22a DEF rollbackPutBack, Slots, DirectoryTypeOK
    <3>2. Survives'
      BY <2>4 DEF Survives, DirectoryTypeOK
    <3> QED
      BY <3>1, <3>2
  <2>6. (StepOK /\ VerifierOK)'
    BY <1>22a DEF rollbackPutBack, StepOK, VerifierOK, DirectoryTypeOK, ReceiptTypeOK,
       ControlTypeOK, Phases
  <2>7. receiptImages' = receiptImages /\ pointMatches' = pointMatches
    BY <1>22a DEF rollbackPutBack, paper
  <2>8. receiptImages \cap EarlyPhases = {}
    BY <1>22a DEF rollbackPutBack, StepOK, DirectoryTypeOK, CrashConsistent, Agree, UntouchedFiles
  <2>9. absent("live") /\ ~overwrote => "rolled_back" \notin receiptImages
    BY DEF DirectoryTypeOK, CrashConsistent, Agree, RestoredFiles
  <2>10. CrashConsistent'
    BY <2>4, <2>7, <2>8, <2>9 DEF CrashConsistent, Agree, RestoredFiles
  <2> QED
    BY <2>1, <2>2, <2>3, <2>5, <2>6, <2>10
<1>23. CASE rollbackDiscard
  <2>1. DirectoryTypeOK'
    BY <1>23 DEF rollbackDiscard, DirectoryTypeOK
  <2>2. ReceiptTypeOK'
    BY <1>23 DEF rollbackDiscard, ReceiptTypeOK, Phases
  <2>3. ControlTypeOK'
    BY <1>23 DEF rollbackDiscard, ControlTypeOK
  <2>4. (Survives /\ Slots)'
    BY <1>23 DEF rollbackDiscard, Survives, Slots, DirectoryTypeOK,
       ReceiptTypeOK, ControlTypeOK, Phases
  <2>5. (StepOK /\ VerifierOK)'
    BY <1>23 DEF rollbackDiscard, StepOK, VerifierOK, DirectoryTypeOK, ReceiptTypeOK,
       ControlTypeOK, Phases
  <2>6. CrashConsistent'
    BY <1>23 DEF rollbackDiscard, CrashConsistent, Agree, RestoredFiles,
       UntouchedFiles, DirectoryTypeOK, ReceiptTypeOK, ControlTypeOK, Phases
  <2> QED
    BY <2>1, <2>2, <2>3, <2>4, <2>5, <2>6
<1>24. CASE cmd = Idle /\ verifyBegin
  <2>1. DirectoryTypeOK'
    BY <1>24 DEF verifyBegin, DirectoryTypeOK
  <2>2. ReceiptTypeOK'
    BY <1>24 DEF verifyBegin, ReceiptTypeOK, Phases
  <2>3. ControlTypeOK'
    BY <1>24 DEF verifyBegin, ControlTypeOK
  <2>4. (Survives /\ Slots)'
    BY <1>24 DEF verifyBegin, Survives, Slots, DirectoryTypeOK, ReceiptTypeOK,
       ControlTypeOK, Phases
  <2>5. (StepOK /\ VerifierOK)'
    BY <1>24 DEF verifyBegin, StepOK, VerifierOK, DirectoryTypeOK, ReceiptTypeOK,
       ControlTypeOK, Phases
  <2>6. CrashConsistent'
    BY <1>24 DEF verifyBegin, CrashConsistent, Agree, RestoredFiles, UntouchedFiles,
       DirectoryTypeOK, ReceiptTypeOK, ControlTypeOK, Phases
  <2> QED
    BY <2>1, <2>2, <2>3, <2>4, <2>5, <2>6
<1>25. CASE verifySucceeds
  <2>1. DirectoryTypeOK'
    BY <1>25 DEF verifySucceeds, DirectoryTypeOK
  <2>2. ReceiptTypeOK'
    BY <1>25 DEF verifySucceeds, ReceiptTypeOK, Phases
  <2>3. ControlTypeOK'
    BY <1>25 DEF verifySucceeds, ControlTypeOK
  <2>4. (Survives /\ Slots)'
    BY <1>25 DEF verifySucceeds, Survives, Slots, DirectoryTypeOK,
       ReceiptTypeOK, ControlTypeOK, Phases
  <2>5. (StepOK /\ VerifierOK)'
    BY <1>25 DEF verifySucceeds, StepOK, VerifierOK, DirectoryTypeOK, ReceiptTypeOK,
       ControlTypeOK, Phases
  <2>6. CrashConsistent'
    BY <1>25 DEF verifySucceeds, CrashConsistent, Agree, RestoredFiles,
       UntouchedFiles, DirectoryTypeOK, ReceiptTypeOK, ControlTypeOK, Phases
  <2> QED
    BY <2>1, <2>2, <2>3, <2>4, <2>5, <2>6
<1>26. CASE verifyFails
  <2>1. DirectoryTypeOK'
    BY <1>26 DEF verifyFails, DirectoryTypeOK
  <2>2. ReceiptTypeOK'
    BY <1>26 DEF verifyFails, ReceiptTypeOK, Phases
  <2>3. ControlTypeOK'
    BY <1>26 DEF verifyFails, ControlTypeOK
  <2>4. (Survives /\ Slots)'
    BY <1>26 DEF verifyFails, Survives, Slots, DirectoryTypeOK, ReceiptTypeOK,
       ControlTypeOK, Phases
  <2>5. (StepOK /\ VerifierOK)'
    BY <1>26 DEF verifyFails, StepOK, VerifierOK, DirectoryTypeOK, ReceiptTypeOK,
       ControlTypeOK, Phases
  <2>6. CrashConsistent'
    BY <1>26 DEF verifyFails, CrashConsistent, Agree, RestoredFiles, UntouchedFiles,
       DirectoryTypeOK, ReceiptTypeOK, ControlTypeOK, Phases
  <2> QED
    BY <2>1, <2>2, <2>3, <2>4, <2>5, <2>6
<1>27. CASE recordVerificationFailure
  <2>1. DirectoryTypeOK'
    BY <1>27 DEF recordVerificationFailure, DirectoryTypeOK
  <2>2. ReceiptTypeOK'
    <3>1. verifier.phase \in Phases
      BY <1>27 DEF recordVerificationFailure, VerifierOK, Phases
    <3> QED
      BY <1>27, <3>1 DEF recordVerificationFailure, ReceiptTypeOK
  <2>3. ControlTypeOK'
    BY <1>27 DEF recordVerificationFailure, ControlTypeOK
  <2>4. (Survives /\ Slots)'
    BY <1>27 DEF recordVerificationFailure, Survives, Slots, DirectoryTypeOK,
       ReceiptTypeOK, ControlTypeOK, Phases
  <2>5. (StepOK /\ VerifierOK)'
    BY <1>27 DEF recordVerificationFailure, StepOK, VerifierOK, DirectoryTypeOK,
       ReceiptTypeOK, ControlTypeOK, Phases
  <2>6. CrashConsistent'
    BY <1>27 DEF recordVerificationFailure, CrashConsistent, Agree, RestoredFiles,
       UntouchedFiles, DirectoryTypeOK, ReceiptTypeOK, ControlTypeOK, Phases
  <2> QED
    BY <2>1, <2>2, <2>3, <2>4, <2>5, <2>6
<1>28. CASE portalWrites
  <2>1. DirectoryTypeOK'
    BY <1>28 DEF portalWrites, DirectoryTypeOK
  <2>2. ReceiptTypeOK'
    BY <1>28 DEF portalWrites, ReceiptTypeOK, Phases
  <2>3. ControlTypeOK'
    BY <1>28 DEF portalWrites, ControlTypeOK
  <2>4. (Survives /\ Slots)'
    BY <1>28 DEF portalWrites, Survives, Slots, DirectoryTypeOK,
       ReceiptTypeOK, ControlTypeOK, Phases
  <2>5. (StepOK /\ VerifierOK)'
    BY <1>28 DEF portalWrites, StepOK, VerifierOK, DirectoryTypeOK, ReceiptTypeOK,
       ControlTypeOK, Phases
  <2>6. CrashConsistent'
    BY <1>28 DEF portalWrites, CrashConsistent, Agree, RestoredFiles, UntouchedFiles,
       DirectoryTypeOK, ReceiptTypeOK, ControlTypeOK, Phases
  <2> QED
    BY <2>1, <2>2, <2>3, <2>4, <2>5, <2>6
<1>29. CASE portalCreates
  <2>1. DirectoryTypeOK'
    BY <1>29 DEF portalCreates, DirectoryTypeOK
  <2>2. ReceiptTypeOK'
    BY <1>29 DEF portalCreates, ReceiptTypeOK, Phases
  <2>3. ControlTypeOK'
    BY <1>29 DEF portalCreates, ControlTypeOK
  <2>4. (Survives /\ Slots)'
    BY <1>29 DEF portalCreates, Survives, Slots, DirectoryTypeOK,
       ReceiptTypeOK, ControlTypeOK, Phases
  <2>5. (StepOK /\ VerifierOK)'
    BY <1>29 DEF portalCreates, StepOK, VerifierOK, DirectoryTypeOK, ReceiptTypeOK,
       ControlTypeOK, Phases
  <2>6. CrashConsistent'
    BY <1>29 DEF portalCreates, CrashConsistent, Agree, RestoredFiles, UntouchedFiles,
       DirectoryTypeOK, ReceiptTypeOK, ControlTypeOK, Phases
  <2> QED
    BY <2>1, <2>2, <2>3, <2>4, <2>5, <2>6
<1>30. CASE candidateVanishes
  <2>1. DirectoryTypeOK'
    <3>1. \A dir \in images : [dir EXCEPT !["candidate"] = "none"] \in Directories
      BY DEF DirectoryTypeOK
    <3>2. /\ files' = [files EXCEPT !["candidate"] = "none"]
          /\ images' = {[dir EXCEPT !["candidate"] = "none"] : dir \in images}
          /\ edits' = edits
      BY <1>30 DEF candidateVanishes
    <3>3. files \in images /\ images \subseteq Directories /\ edits \in [Databases -> Nat]
      BY DEF DirectoryTypeOK
    <3>4. files' \in images'
      BY ONLY <3>2, <3>3, Zenon
    <3>5. images' \subseteq Directories
      <4> SUFFICES ASSUME NEW new \in images' PROVE new \in Directories
        OBVIOUS
      <4>1. PICK dir \in images : new = [dir EXCEPT !["candidate"] = "none"]
        BY <3>2
      <4> QED
        BY <3>1, <4>1
    <3> QED
      BY <3>2, <3>3, <3>4, <3>5 DEF DirectoryTypeOK
  <2>2. ReceiptTypeOK'
    BY <1>30 DEF candidateVanishes, ReceiptTypeOK, Phases
  <2>3. ControlTypeOK'
    BY <1>30 DEF candidateVanishes, ControlTypeOK
  <2>4. (Survives /\ Slots)'
    BY <1>30 DEF candidateVanishes, Survives, Slots, DirectoryTypeOK,
       ReceiptTypeOK, ControlTypeOK, Phases
  <2>5. (StepOK /\ VerifierOK)'
    BY <1>30 DEF candidateVanishes, StepOK, VerifierOK, DirectoryTypeOK,
       ReceiptTypeOK, ControlTypeOK, Phases
  <2>6. CrashConsistent'
    BY <1>30 DEF candidateVanishes, CrashConsistent, Agree, RestoredFiles,
       UntouchedFiles, DirectoryTypeOK, ReceiptTypeOK, ControlTypeOK, Phases
  <2> QED
    BY <2>1, <2>2, <2>3, <2>4, <2>5, <2>6
<1>31. CASE processCrash
  <2>1. DirectoryTypeOK'
    BY <1>31 DEF processCrash, DirectoryTypeOK
  <2>2. ReceiptTypeOK'
    BY <1>31 DEF processCrash, ReceiptTypeOK, Phases
  <2>3. ControlTypeOK'
    BY <1>31 DEF processCrash, ControlTypeOK
  <2>4. (Survives /\ Slots)'
    BY <1>31 DEF processCrash, Survives, Slots, DirectoryTypeOK,
       ReceiptTypeOK, ControlTypeOK, Phases
  <2>5. (StepOK /\ VerifierOK)'
    BY <1>31 DEF processCrash, StepOK, VerifierOK, DirectoryTypeOK, ReceiptTypeOK,
       ControlTypeOK, Phases
  <2>6. CrashConsistent'
    BY <1>31 DEF processCrash, CrashConsistent, Agree, RestoredFiles, UntouchedFiles,
       DirectoryTypeOK, ReceiptTypeOK, ControlTypeOK, Phases
  <2> QED
    BY <2>1, <2>2, <2>3, <2>4, <2>5, <2>6
<1>32. CASE powerLoss
  <2>1. DirectoryTypeOK'
    BY <1>32 DEF powerLoss, DirectoryTypeOK
  <2>2. ReceiptTypeOK'
    BY <1>32 DEF powerLoss, ReceiptTypeOK, Phases
  <2>3. ControlTypeOK'
    BY <1>32 DEF powerLoss, ControlTypeOK
  <2>4. (Survives /\ Slots)'
    BY <1>32 DEF powerLoss, Survives, Slots, DirectoryTypeOK, ReceiptTypeOK,
       ControlTypeOK, Phases
  <2>5. (StepOK /\ VerifierOK)'
    BY <1>32 DEF powerLoss, StepOK, VerifierOK, DirectoryTypeOK, ReceiptTypeOK,
       ControlTypeOK, Phases
  <2>6. CrashConsistent'
    BY <1>32 DEF powerLoss, CrashConsistent, Agree, RestoredFiles, UntouchedFiles,
       DirectoryTypeOK, ReceiptTypeOK, ControlTypeOK, Phases
  <2> QED
    BY <2>1, <2>2, <2>3, <2>4, <2>5, <2>6
<1>33. CASE UNCHANGED vars
  <2>1. DirectoryTypeOK'
    BY <1>33 DEF vars, DirectoryTypeOK
  <2>2. ReceiptTypeOK'
    BY <1>33 DEF vars, ReceiptTypeOK, Phases
  <2>3. ControlTypeOK'
    BY <1>33 DEF vars, ControlTypeOK
  <2>4. (Survives /\ Slots)'
    BY <1>33 DEF vars, Survives, Slots, DirectoryTypeOK, ReceiptTypeOK,
       ControlTypeOK, Phases
  <2>5. (StepOK /\ VerifierOK)'
    BY <1>33 DEF vars, StepOK, VerifierOK, DirectoryTypeOK, ReceiptTypeOK,
       ControlTypeOK, Phases
  <2>6. CrashConsistent'
    BY <1>33 DEF vars, CrashConsistent, Agree, RestoredFiles, UntouchedFiles,
       DirectoryTypeOK, ReceiptTypeOK, ControlTypeOK, Phases
  <2> QED
    BY <2>1, <2>2, <2>3, <2>4, <2>5, <2>6
<1> QED
  BY <1>1, <1>2, <1>3, <1>4, <1>5, <1>6, <1>7, <1>8, <1>9, <1>10, <1>11, <1>12, <1>13,
     <1>14, <1>15, <1>16, <1>17, <1>18, <1>19, <1>20, <1>21, <1>22, <1>22a, <1>23, <1>24,
     <1>25, <1>26, <1>27, <1>28, <1>29, <1>30, <1>31, <1>32, <1>33 DEF OverlapNext,
     commandBegin, commandNext, swapNext, reconcileNext, rollbackNext, verifyNext,
     environment

\* The operator's discipline only takes steps away.
LEMMA DisciplineIsOverlap == [Next]_vars => [OverlapNext]_vars
  BY DEF Next, OverlapNext

\* The invariant holds in every reachable state, with and without the discipline.
THEOREM InvHolds == Spec \/ OverlapSpec => []Inv
  BY InitInv, NextInv, DisciplineIsOverlap, PTL DEF Spec, OverlapSpec

\* In every reachable state paths hold databases, the receipt holds a phase, and
\* what a process sees is among what a power loss may leave.
THEOREM TypesAreRight == Spec \/ OverlapSpec => []TypeOK
<1>1. Inv => TypeOK
  BY DEF Inv
<1> QED
  BY <1>1, InvHolds, PTL

\* Whatever fails, crashes or loses power, however often, and although a verify may
\* still wait while a command runs, every directory that may be left holds the
\* original database under one of its names, until the catch block of a rollback
\* that could not inspect the restored live database renames the failed one over it.
\* That takes two failing calls, since the block is entered with one.
THEOREM OriginalAlwaysSurvives == Spec \/ OverlapSpec => []OriginalSurvives
<1>1. Init => FailuresOK
  BY DEF Init, FailuresOK, At, Idle
<1>2. ASSUME TypeOK, FailuresOK, [OverlapNext]_vars
      PROVE  FailuresOK'
  <2> USE DEF TypeOK, ControlTypeOK, FailuresOK, At, Goto, Idle, absent, Fails, Works
  <2>1. CASE commandBegin
    BY <1>2, <2>1 DEF commandBegin, createRecoveryPoint, buildRecoveryCandidate, swapBegin,
       reconcileBegin, rollbackBegin, WriteReceipt, budget
  <2>2. CASE commandNext
    <3>1. CASE rollbackNext
      <4>1. CASE materializeRecoveryPoint \/ rollbackRecordStart \/ rollbackRenameLive
        BY <1>2, <4>1 DEF materializeRecoveryPoint, rollbackRecordStart, rollbackRenameLive, WriteReceipt
      <4>2. CASE rollbackRenameSource \/ rollbackFsync \/ rollbackRecordEnd
        BY <1>2, <4>2 DEF rollbackRenameSource, rollbackFsync, rollbackRecordEnd, WriteReceipt
      <4>3. CASE rollbackInspect
        BY <1>2, <4>3 DEF rollbackInspect, disk
      <4>4. CASE rollbackPutBack
        BY <1>2, <4>4 DEF rollbackPutBack
      <4>5. CASE rollbackDiscard
        BY <1>2, <4>5 DEF rollbackDiscard
      <4> QED
        BY <3>1, <4>1, <4>2, <4>3, <4>4, <4>5 DEF rollbackNext
    <3>2. CASE candidateRejected \/ bindRecoveryCandidateReceipt \/ (At("restore", "swap") /\ swapBegin)
      BY <1>2, <3>2 DEF candidateRejected, bindRecoveryCandidateReceipt, swapBegin,
         WriteReceipt, budget
    <3>3. CASE swapNext
      BY <1>2, <3>3 DEF swapNext, swapRecordStart, swapRenameLive, swapRenameCandidate, swapFsync,
         swapRecordEnd, WriteReceipt
    <3>4. CASE reconcileNext
      BY <1>2, <3>4 DEF reconcileNext, reconcileRename, reconcileFsync, reconcileRecord, WriteReceipt
    <3> QED
      BY <2>2, <3>1, <3>2, <3>3, <3>4 DEF commandNext
  <2>3. CASE (cmd = Idle /\ verifyBegin) \/ verifyNext
    BY <1>2, <2>3 DEF verifyBegin, verifyNext, verifySucceeds, verifyFails,
       recordVerificationFailure, WriteReceipt, disk, budget
  <2>4. CASE environment
    BY <1>2, <2>4 DEF environment, portalWrites, portalCreates, candidateVanishes, processCrash,
       powerLoss, disk, budget, DirectoryTypeOK
  <2>5. CASE UNCHANGED vars
    BY <1>2, <2>5 DEF vars
  <2> QED
    BY <1>2, <2>1, <2>2, <2>3, <2>4, <2>5 DEF OverlapNext
<1>3. Next => OverlapNext
  BY DEF Next, OverlapNext
<1>4. Inv => TypeOK /\ Survives
  BY DEF Inv
<1>5. Survives /\ FailuresOK => OriginalSurvives
  BY DEF Survives, FailuresOK, OriginalSurvives
<1> QED
  BY <1>1, <1>2, <1>3, <1>4, <1>5, InvHolds, PTL DEF Spec, OverlapSpec

\* Receipt and directory reach the disk separately, and still no power loss leaves
\* an early phase beside a changed directory, or rolled_back beside one that was
\* not restored (or, after that, overwritten by a catch block that could not see
\* it), even when a late verify writes its phase over that of a command.
THEOREM CrashesStayConsistent == Spec \/ OverlapSpec => []CrashConsistent
<1>1. Inv => CrashConsistent
  BY DEF Inv
<1> QED
  BY <1>1, InvHolds, PTL
-----------------------------------------------------------------------------
(* What the running command knows, with power losses. *)

\* Where a command is, the receipt is in the phase it found or wrote: this takes the
\* discipline of the operator, for a late verify would write another.
PhaseOK ==
    /\ cmd.op = "swap" /\ cmd.step # "recordStart" => receipt = "swap_started"
    /\ cmd.op = "reconcile" => receipt = "swap_started"
    /\ cmd.op = "rollback" /\ cmd.step \in {"materialize", "recordStart"} => receipt \in rollbackPhases
    /\ cmd.op = "rollback" /\ cmd.step \in {"renameLive", "renameSource", "fsync", "recordEnd"}
          => receipt = "rollback_started"
    /\ At("rollback", "undo") \/ At("rollback", "putBack") => receipt \in {"rollback_started", "rolled_back"}
    /\ verifier # NoVerify => cmd = Idle
    /\ verifier.step = "online" => receipt = "swapped"
    /\ verifier.step = "recordFailure" => receipt \in {"swapped", "verified"}

\* A rollback has a live database, or the means to put one back.
LiveOK ==
    /\ cmd.op = "rollback" /\ cmd.step \in {"materialize", "recordStart", "renameLive", "fsync", "recordEnd"}
          => ~absent("live")
    /\ At("rollback", "recordStart") \/ At("rollback", "renameLive") \/ At("rollback", "renameSource")
          => ~absent(cmd.source)
    /\ At("rollback", "materialize") => cmd.source = "recoveryTemp"
    /\ At("rollback", "renameSource") => ~absent("failed")
    /\ At("rollback", "undo") => (absent("live") => ~absent("failed")) /\ faults >= 1
    /\ At("rollback", "putBack") => faults >= 1
    /\ At("rollback", "discard") => ~absent("live") \/ faults >= 2

\* Each step keeps both.
LEMMA PhaseKeeps == Inv /\ PhaseOK /\ [Next]_vars => PhaseOK'
<1> SUFFICES ASSUME Inv, PhaseOK, [Next]_vars PROVE PhaseOK'
  OBVIOUS
<1> USE DEF disk, paper, budget, Idle, NoVerify, At, Goto, absent, Works, Fails, WriteReceipt, PhaseOK,
        rollbackPhases
<1>1. CASE verifier = NoVerify /\ createRecoveryPoint
  BY <1>1 DEF createRecoveryPoint, Inv, TypeOK, ControlTypeOK, StepOK, VerifierOK
<1>2. CASE verifier = NoVerify /\ buildRecoveryCandidate
  BY <1>2 DEF buildRecoveryCandidate, Inv, TypeOK, ControlTypeOK, StepOK, VerifierOK
<1>3. CASE candidateRejected
  BY <1>3 DEF candidateRejected, Inv, TypeOK, ControlTypeOK, StepOK, VerifierOK
<1>4. CASE bindRecoveryCandidateReceipt
  BY <1>4 DEF bindRecoveryCandidateReceipt, Inv, TypeOK, ControlTypeOK, StepOK, VerifierOK
<1>5. CASE swapBegin /\ (verifier = NoVerify \/ At("restore", "swap"))
  BY <1>5 DEF swapBegin, swapAdmits, Inv, TypeOK, ControlTypeOK, StepOK, VerifierOK
<1>6. CASE swapRecordStart
  BY <1>6 DEF swapRecordStart, Inv, TypeOK, ControlTypeOK, StepOK, VerifierOK
<1>7. CASE swapRenameLive
  BY <1>7 DEF swapRenameLive, Inv, TypeOK, ControlTypeOK, StepOK, VerifierOK
<1>8. CASE swapRenameCandidate
  BY <1>8 DEF swapRenameCandidate, Inv, TypeOK, ControlTypeOK, StepOK, VerifierOK
<1>9. CASE swapFsync
  BY <1>9 DEF swapFsync, Inv, TypeOK, ControlTypeOK, StepOK, VerifierOK
<1>10. CASE swapRecordEnd
  BY <1>10 DEF swapRecordEnd, Inv, TypeOK, ControlTypeOK, StepOK, VerifierOK
<1>11. CASE verifier = NoVerify /\ reconcileBegin
  BY <1>11 DEF reconcileBegin, classifyRecoveryFilesystem, Inv, TypeOK, ControlTypeOK,
     StepOK, VerifierOK
<1>12. CASE reconcileRename
  BY <1>12 DEF reconcileRename, Inv, TypeOK, ControlTypeOK, StepOK, VerifierOK
<1>13. CASE reconcileFsync
  BY <1>13 DEF reconcileFsync, Inv, TypeOK, ControlTypeOK, StepOK, VerifierOK
<1>14. CASE reconcileRecord
  BY <1>14 DEF reconcileRecord, Inv, TypeOK, ControlTypeOK, StepOK, VerifierOK
<1>15. CASE verifier = NoVerify /\ rollbackBegin
  BY <1>15 DEF rollbackBegin, rollbackAdmits, Inv, TypeOK, ControlTypeOK, StepOK,
     VerifierOK
<1>16. CASE materializeRecoveryPoint
  BY <1>16 DEF materializeRecoveryPoint, Inv, TypeOK, ControlTypeOK, StepOK, VerifierOK
<1>17. CASE rollbackRecordStart
  BY <1>17 DEF rollbackRecordStart, Inv, TypeOK, ControlTypeOK, StepOK, VerifierOK
<1>18. CASE rollbackRenameLive
  BY <1>18 DEF rollbackRenameLive, Inv, TypeOK, ControlTypeOK, StepOK, VerifierOK
<1>19. CASE rollbackRenameSource
  BY <1>19 DEF rollbackRenameSource, Inv, TypeOK, ControlTypeOK, StepOK, VerifierOK
<1>20. CASE rollbackFsync
  BY <1>20 DEF rollbackFsync, Inv, TypeOK, ControlTypeOK, StepOK, VerifierOK
<1>21. CASE rollbackRecordEnd
  BY <1>21 DEF rollbackRecordEnd, Inv, TypeOK, ControlTypeOK, StepOK, VerifierOK
<1>22. CASE rollbackInspect
  BY <1>22 DEF rollbackInspect, Inv, TypeOK, ControlTypeOK, StepOK, VerifierOK
<1>22a. CASE rollbackPutBack
  BY <1>22a DEF rollbackPutBack, Inv, TypeOK, ControlTypeOK, StepOK, VerifierOK
<1>23. CASE rollbackDiscard
  BY <1>23 DEF rollbackDiscard, Inv, TypeOK, ControlTypeOK, StepOK, VerifierOK
<1>24. CASE cmd = Idle /\ verifyBegin
  BY <1>24 DEF verifyBegin, Inv, TypeOK, ControlTypeOK, StepOK, VerifierOK
<1>25. CASE verifySucceeds
  BY <1>25 DEF verifySucceeds, Inv, TypeOK, ControlTypeOK, StepOK, VerifierOK
<1>26. CASE verifyFails
  BY <1>26 DEF verifyFails, Inv, TypeOK, ControlTypeOK, StepOK, VerifierOK
<1>27. CASE recordVerificationFailure
  BY <1>27 DEF recordVerificationFailure, Inv, TypeOK, ControlTypeOK, StepOK, VerifierOK
<1>28. CASE portalWrites
  BY <1>28 DEF portalWrites, Inv, TypeOK, ControlTypeOK, StepOK, VerifierOK
<1>29. CASE portalCreates
  BY <1>29 DEF portalCreates, Inv, TypeOK, ControlTypeOK, StepOK, VerifierOK
<1>30. CASE candidateVanishes
  BY <1>30 DEF candidateVanishes, Inv, TypeOK, ControlTypeOK, StepOK, VerifierOK
<1>31. CASE processCrash
  BY <1>31 DEF processCrash, Inv, TypeOK, ControlTypeOK, StepOK, VerifierOK
<1>32. CASE powerLoss
  BY <1>32 DEF powerLoss, Inv, TypeOK, ControlTypeOK, StepOK, VerifierOK
<1>33. CASE UNCHANGED vars
  BY <1>33 DEF vars, Inv, TypeOK, ControlTypeOK, StepOK, VerifierOK
<1> QED
  BY <1>1, <1>2, <1>3, <1>4, <1>5, <1>6, <1>7, <1>8, <1>9, <1>10, <1>11, <1>12, <1>13,
     <1>14, <1>15, <1>16, <1>17, <1>18, <1>19, <1>20, <1>21, <1>22, <1>22a, <1>23, <1>24, <1>25,
     <1>26, <1>27, <1>28, <1>29, <1>30, <1>31, <1>32, <1>33 DEF Next, commandBegin,
     commandNext, swapNext, reconcileNext, rollbackNext, verifyNext, environment

LEMMA LiveKeeps == Inv /\ LiveOK /\ [OverlapNext]_vars => LiveOK'
<1> SUFFICES ASSUME Inv, LiveOK, [OverlapNext]_vars PROVE LiveOK'
  OBVIOUS
<1> USE DEF disk, paper, budget, Idle, NoVerify, At, Goto, absent, Works, Fails, WriteReceipt, LiveOK,
        Change, rename, Renamed, fsyncDirectory
<1>1. CASE createRecoveryPoint
  BY <1>1 DEF createRecoveryPoint, Inv, TypeOK, DirectoryTypeOK, ControlTypeOK, StepOK,
     VerifierOK
<1>2. CASE buildRecoveryCandidate
  BY <1>2 DEF buildRecoveryCandidate, Inv, TypeOK, DirectoryTypeOK, ControlTypeOK, StepOK,
     VerifierOK
<1>3. CASE candidateRejected
  BY <1>3 DEF candidateRejected, Inv, TypeOK, DirectoryTypeOK, ControlTypeOK, StepOK,
     VerifierOK
<1>4. CASE bindRecoveryCandidateReceipt
  BY <1>4 DEF bindRecoveryCandidateReceipt, Inv, TypeOK, DirectoryTypeOK, ControlTypeOK,
     StepOK, VerifierOK
<1>5. CASE swapBegin
  BY <1>5 DEF swapBegin, swapAdmits, Inv, TypeOK, DirectoryTypeOK, ControlTypeOK, StepOK,
     VerifierOK
<1>6. CASE swapRecordStart
  BY <1>6 DEF swapRecordStart, Inv, TypeOK, DirectoryTypeOK, ControlTypeOK, StepOK,
     VerifierOK
<1>7. CASE swapRenameLive
  BY <1>7 DEF swapRenameLive, Inv, TypeOK, DirectoryTypeOK, ControlTypeOK, StepOK,
     VerifierOK
<1>8. CASE swapRenameCandidate
  BY <1>8 DEF swapRenameCandidate, Inv, TypeOK, DirectoryTypeOK, ControlTypeOK, StepOK,
     VerifierOK
<1>9. CASE swapFsync
  BY <1>9 DEF swapFsync, Inv, TypeOK, DirectoryTypeOK, ControlTypeOK, StepOK, VerifierOK
<1>10. CASE swapRecordEnd
  BY <1>10 DEF swapRecordEnd, Inv, TypeOK, DirectoryTypeOK, ControlTypeOK, StepOK,
     VerifierOK
<1>11. CASE reconcileBegin
  BY <1>11 DEF reconcileBegin, classifyRecoveryFilesystem, Inv, TypeOK, DirectoryTypeOK,
     ControlTypeOK, StepOK, VerifierOK
<1>12. CASE reconcileRename
  BY <1>12 DEF reconcileRename, Inv, TypeOK, DirectoryTypeOK, ControlTypeOK, StepOK,
     VerifierOK
<1>13. CASE reconcileFsync
  BY <1>13 DEF reconcileFsync, Inv, TypeOK, DirectoryTypeOK, ControlTypeOK, StepOK,
     VerifierOK
<1>14. CASE reconcileRecord
  BY <1>14 DEF reconcileRecord, Inv, TypeOK, DirectoryTypeOK, ControlTypeOK, StepOK,
     VerifierOK
<1>15. CASE rollbackBegin
  BY <1>15 DEF rollbackBegin, rollbackAdmits, Inv, TypeOK, DirectoryTypeOK, ControlTypeOK,
     StepOK, VerifierOK
<1>16. CASE materializeRecoveryPoint
  BY <1>16 DEF materializeRecoveryPoint, Inv, TypeOK, DirectoryTypeOK, ControlTypeOK,
     StepOK, VerifierOK
<1>17. CASE rollbackRecordStart
  BY <1>17 DEF rollbackRecordStart, Inv, TypeOK, DirectoryTypeOK, ControlTypeOK, StepOK,
     VerifierOK
<1>18. CASE rollbackRenameLive
  BY <1>18 DEF rollbackRenameLive, Inv, TypeOK, DirectoryTypeOK, ControlTypeOK, StepOK,
     VerifierOK
<1>19. CASE rollbackRenameSource
  BY <1>19 DEF rollbackRenameSource, Inv, TypeOK, DirectoryTypeOK, ControlTypeOK, StepOK,
     VerifierOK
<1>20. CASE rollbackFsync
  BY <1>20 DEF rollbackFsync, Inv, TypeOK, DirectoryTypeOK, ControlTypeOK, StepOK,
     VerifierOK
<1>21. CASE rollbackRecordEnd
  BY <1>21 DEF rollbackRecordEnd, Inv, TypeOK, DirectoryTypeOK, ControlTypeOK, StepOK,
     VerifierOK
<1>22. CASE rollbackInspect
  BY <1>22 DEF rollbackInspect, Inv, TypeOK, DirectoryTypeOK, ControlTypeOK, StepOK,
     VerifierOK
<1>22a. CASE rollbackPutBack
  BY <1>22a DEF rollbackPutBack, Inv, TypeOK, DirectoryTypeOK, ControlTypeOK, StepOK,
     VerifierOK
<1>23. CASE rollbackDiscard
  BY <1>23 DEF rollbackDiscard, Inv, TypeOK, DirectoryTypeOK, ControlTypeOK, StepOK,
     VerifierOK
<1>24. CASE cmd = Idle /\ verifyBegin
  BY <1>24 DEF verifyBegin, Inv, TypeOK, DirectoryTypeOK, ControlTypeOK, StepOK, VerifierOK
<1>25. CASE verifySucceeds
  BY <1>25 DEF verifySucceeds, Inv, TypeOK, DirectoryTypeOK, ControlTypeOK, StepOK,
     VerifierOK
<1>26. CASE verifyFails
  BY <1>26 DEF verifyFails, Inv, TypeOK, DirectoryTypeOK, ControlTypeOK, StepOK, VerifierOK
<1>27. CASE recordVerificationFailure
  BY <1>27 DEF recordVerificationFailure, Inv, TypeOK, DirectoryTypeOK, ControlTypeOK,
     StepOK, VerifierOK
<1>28. CASE portalWrites
  BY <1>28 DEF portalWrites, Inv, TypeOK, DirectoryTypeOK, ControlTypeOK, StepOK,
     VerifierOK
<1>29. CASE portalCreates
  BY <1>29 DEF portalCreates, Inv, TypeOK, DirectoryTypeOK, ControlTypeOK, StepOK,
     VerifierOK
<1>30. CASE candidateVanishes
  BY <1>30 DEF candidateVanishes, Inv, TypeOK, DirectoryTypeOK, ControlTypeOK, StepOK,
     VerifierOK
<1>31. CASE processCrash
  BY <1>31 DEF processCrash, Inv, TypeOK, DirectoryTypeOK, ControlTypeOK, StepOK,
     VerifierOK
<1>32. CASE powerLoss
  BY <1>32 DEF powerLoss, Inv, TypeOK, DirectoryTypeOK, ControlTypeOK, StepOK, VerifierOK
<1>33. CASE UNCHANGED vars
  BY <1>33 DEF vars, Inv, TypeOK, DirectoryTypeOK, ControlTypeOK, StepOK, VerifierOK
<1> QED
  BY <1>1, <1>2, <1>3, <1>4, <1>5, <1>6, <1>7, <1>8, <1>9, <1>10, <1>11, <1>12, <1>13,
     <1>14, <1>15, <1>16, <1>17, <1>18, <1>19, <1>20, <1>21, <1>22, <1>22a, <1>23, <1>24, <1>25,
     <1>26, <1>27, <1>28, <1>29, <1>30, <1>31, <1>32, <1>33 DEF OverlapNext, commandBegin,
     commandNext, swapNext, reconcileNext, rollbackNext, verifyNext, environment

-----------------------------------------------------------------------------
(* The directory, without power losses. *)

\* Without a power loss the directory is the one the last rename left: no file has
\* two names, the retained original is as old as the receipt, and the swap retains
\* what it hashed.
RetainedOK ==
    /\ \A p, q \in Paths : ~absent(p) /\ files[p] = files[q] => p = q
    /\ files["rollback"] \in {"none", "original"}
    /\ files["rollback"] = "original" => edits["original"] = 0
    /\ files["live"] = "materialized" => ~absent("failed")
    /\ files["failed"] # "materialized"
    /\ At("swap", "recordStart") \/ At("swap", "renameLive")
          => files["live"] = "original" /\ edits["original"] = 0 /\ absent("rollback")

\* With the operator's discipline the receipt says so, and what a command found
\* before its renames is still so.
FilesOK ==
    /\ files["live"] = "materialized" => receipt \in {"rollback_started", "rolled_back"}
    /\ At("swap", "renameCandidate") => files["rollback"] = "original"
    /\ At("swap", "fsync") \/ At("swap", "recordEnd") => absent("candidate")
    /\ cmd.op = "reconcile" /\ cmd.source = "candidate" /\ cmd.step # "rename" => absent("candidate")

\* Each step but a power loss keeps what is retained, also while a verify still waits.
LEMMA RetainedKeeps ==
  ASSUME ~PowerMayFail, Inv, LiveOK, RetainedOK, [OverlapNext]_vars
  PROVE  RetainedOK'
<1> USE DEF disk, paper, budget, Idle, NoVerify, At, Goto, absent, Works, Fails, WriteReceipt,
        Change, rename, Renamed, fsyncDirectory, rollbackPhases
<1>1. CASE createRecoveryPoint
  BY <1>1 DEF createRecoveryPoint, RetainedOK, Inv, TypeOK, DirectoryTypeOK,
     ControlTypeOK, StepOK, VerifierOK, Slots
<1>2. CASE buildRecoveryCandidate
  BY <1>2 DEF buildRecoveryCandidate, RetainedOK, Inv, TypeOK, DirectoryTypeOK,
     ControlTypeOK, StepOK, VerifierOK, Slots, isHash, Bytes, originalSha256,
     candidateSha256, CrashConsistent, Agree, UntouchedFiles, ReceiptTypeOK
<1>3. CASE candidateRejected
  BY <1>3 DEF candidateRejected, RetainedOK, Inv, TypeOK, DirectoryTypeOK,
     ControlTypeOK, StepOK, VerifierOK, Slots, CrashConsistent, Agree, UntouchedFiles,
     ReceiptTypeOK
<1>4. CASE bindRecoveryCandidateReceipt
  BY <1>4 DEF bindRecoveryCandidateReceipt, RetainedOK, Inv, TypeOK, DirectoryTypeOK,
     ControlTypeOK, StepOK, VerifierOK, Slots
<1>5. CASE swapBegin
  BY <1>5 DEF swapBegin, swapAdmits, RetainedOK, Inv, TypeOK, DirectoryTypeOK,
     ReceiptTypeOK, ControlTypeOK, StepOK, VerifierOK, Slots, isHash, Bytes, originalSha256,
     candidateSha256, CrashConsistent, Agree, UntouchedFiles
<1>6. CASE swapRecordStart
  BY <1>6 DEF swapRecordStart, RetainedOK, Inv, TypeOK, DirectoryTypeOK,
     ControlTypeOK, StepOK, VerifierOK, Slots
<1>7. CASE swapRenameLive
  BY <1>7 DEF swapRenameLive, RetainedOK, Inv, TypeOK, DirectoryTypeOK,
     ControlTypeOK, StepOK, VerifierOK, Slots
<1>8. CASE swapRenameCandidate
  BY <1>8 DEF swapRenameCandidate, RetainedOK, Inv, TypeOK, DirectoryTypeOK,
     ControlTypeOK, StepOK, VerifierOK, Slots
<1>9. CASE swapFsync
  BY <1>9 DEF swapFsync, RetainedOK, Inv, TypeOK, DirectoryTypeOK, ControlTypeOK,
     StepOK, VerifierOK, Slots
<1>10. CASE swapRecordEnd
  BY <1>10 DEF swapRecordEnd, RetainedOK, Inv, TypeOK, DirectoryTypeOK,
     ControlTypeOK, StepOK, VerifierOK, Slots, isHash, Bytes, originalSha256,
     candidateSha256
<1>11. CASE reconcileBegin
  BY <1>11 DEF reconcileBegin, classifyRecoveryFilesystem, RetainedOK, Inv, TypeOK,
     DirectoryTypeOK, ControlTypeOK, StepOK, VerifierOK, Slots, isHash, Bytes,
     originalSha256, candidateSha256
<1>12. CASE reconcileRename
  BY <1>12 DEF reconcileRename, RetainedOK, Inv, TypeOK, DirectoryTypeOK,
     ControlTypeOK, StepOK, VerifierOK, Slots
<1>13. CASE reconcileFsync
  BY <1>13 DEF reconcileFsync, RetainedOK, Inv, TypeOK, DirectoryTypeOK,
     ControlTypeOK, StepOK, VerifierOK, Slots
<1>14. CASE reconcileRecord
  BY <1>14 DEF reconcileRecord, RetainedOK, Inv, TypeOK, DirectoryTypeOK,
     ControlTypeOK, StepOK, VerifierOK, Slots, isHash, Bytes, originalSha256,
     candidateSha256
<1>15. CASE rollbackBegin
  BY <1>15 DEF rollbackBegin, rollbackAdmits, RetainedOK, Inv, TypeOK,
     DirectoryTypeOK, ControlTypeOK, StepOK, VerifierOK, Slots, isHash, Bytes,
     originalSha256, candidateSha256
<1>16. CASE materializeRecoveryPoint
  BY <1>16 DEF materializeRecoveryPoint, RetainedOK, Inv, TypeOK, DirectoryTypeOK,
     ControlTypeOK, StepOK, VerifierOK, Slots
<1>17. CASE rollbackRecordStart
  BY <1>17 DEF rollbackRecordStart, RetainedOK, Inv, TypeOK, DirectoryTypeOK,
     ControlTypeOK, StepOK, VerifierOK, Slots, LiveOK
<1>18. CASE rollbackRenameLive
  BY <1>18 DEF rollbackRenameLive, RetainedOK, Inv, TypeOK, DirectoryTypeOK,
     ControlTypeOK, StepOK, VerifierOK, Slots
<1>19. CASE rollbackRenameSource
  BY <1>19 DEF rollbackRenameSource, LiveOK, RetainedOK, Inv, TypeOK, DirectoryTypeOK,
     ControlTypeOK, StepOK, VerifierOK, Slots
<1>20. CASE rollbackFsync
  BY <1>20 DEF rollbackFsync, RetainedOK, Inv, TypeOK, DirectoryTypeOK,
     ControlTypeOK, StepOK, VerifierOK, Slots
<1>21. CASE rollbackRecordEnd
  BY <1>21 DEF rollbackRecordEnd, RetainedOK, Inv, TypeOK, DirectoryTypeOK,
     ControlTypeOK, StepOK, VerifierOK, Slots, isHash, Bytes, originalSha256,
     candidateSha256
<1>22. CASE rollbackInspect
  BY <1>22 DEF rollbackInspect, RetainedOK, Inv, TypeOK, DirectoryTypeOK, ControlTypeOK,
     StepOK, VerifierOK, Slots
<1>22a. CASE rollbackPutBack
  BY <1>22a DEF rollbackPutBack, RetainedOK, Inv, TypeOK, DirectoryTypeOK, ControlTypeOK,
     StepOK, VerifierOK, Slots
<1>23. CASE rollbackDiscard
  BY <1>23 DEF rollbackDiscard, RetainedOK, Inv, TypeOK, DirectoryTypeOK,
     ControlTypeOK, StepOK, VerifierOK, Slots
<1>24. CASE cmd = Idle /\ verifyBegin
  BY <1>24 DEF verifyBegin, RetainedOK, Inv, TypeOK, DirectoryTypeOK, ControlTypeOK,
     StepOK, VerifierOK, Slots
<1>25. CASE verifySucceeds
  BY <1>25 DEF verifySucceeds, RetainedOK, Inv, TypeOK, DirectoryTypeOK,
     ControlTypeOK, StepOK, VerifierOK, Slots
<1>26. CASE verifyFails
  BY <1>26 DEF verifyFails, RetainedOK, Inv, TypeOK, DirectoryTypeOK, ControlTypeOK,
     StepOK, VerifierOK, Slots
<1>27. CASE recordVerificationFailure
  BY <1>27 DEF recordVerificationFailure, RetainedOK, Inv, TypeOK, DirectoryTypeOK,
     ControlTypeOK, StepOK, VerifierOK, Slots
<1>28. CASE portalWrites
  BY <1>28 DEF portalWrites, RetainedOK, Inv, TypeOK, DirectoryTypeOK, ControlTypeOK,
     StepOK, VerifierOK, Slots
<1>29. CASE portalCreates
  BY <1>29 DEF portalCreates, RetainedOK, Inv, TypeOK, DirectoryTypeOK,
     ControlTypeOK, StepOK, VerifierOK, Slots
<1>30. CASE candidateVanishes
  BY <1>30 DEF candidateVanishes, RetainedOK, Inv, TypeOK, DirectoryTypeOK,
     ControlTypeOK, StepOK, VerifierOK, Slots
<1>31. CASE processCrash
  BY <1>31 DEF processCrash, RetainedOK, Inv, TypeOK, DirectoryTypeOK, ControlTypeOK,
     StepOK, VerifierOK, Slots
<1>32. CASE powerLoss
  BY <1>32 DEF powerLoss, RetainedOK, Inv, TypeOK, DirectoryTypeOK, ControlTypeOK,
     StepOK, VerifierOK, Slots
<1>33. CASE UNCHANGED vars
  BY <1>33 DEF vars, RetainedOK, Inv, TypeOK, DirectoryTypeOK, ControlTypeOK, StepOK,
     VerifierOK, Slots
<1> QED
  BY <1>1, <1>2, <1>3, <1>4, <1>5, <1>6, <1>7, <1>8, <1>9, <1>10, <1>11, <1>12, <1>13,
     <1>14, <1>15, <1>16, <1>17, <1>18, <1>19, <1>20, <1>21, <1>22, <1>22a, <1>23, <1>24, <1>25,
     <1>26, <1>27, <1>28, <1>29, <1>30, <1>31, <1>32, <1>33 DEF OverlapNext, commandBegin,
     commandNext, swapNext, reconcileNext, rollbackNext, verifyNext, environment

\* Each step but a power loss keeps it, and with it what `swapped' says.
LEMMA FilesKeep ==
  ASSUME ~PowerMayFail, Inv, PhaseOK, LiveOK, SwappedAgrees, RetainedOK, FilesOK, [Next]_vars
  PROVE  FilesOK'
<1> USE DEF RetainedOK, disk, paper, budget, Idle, NoVerify, At, Goto, absent, Works, Fails, WriteReceipt,
        Change, rename, Renamed, fsyncDirectory, rollbackPhases
<1>1. CASE verifier = NoVerify /\ createRecoveryPoint
  BY <1>1 DEF createRecoveryPoint, FilesOK, Inv, PhaseOK, TypeOK, DirectoryTypeOK,
     ControlTypeOK, StepOK, VerifierOK, Slots
<1>2. CASE verifier = NoVerify /\ buildRecoveryCandidate
  BY <1>2 DEF buildRecoveryCandidate, FilesOK, Inv, PhaseOK, TypeOK, DirectoryTypeOK,
     ControlTypeOK, StepOK, VerifierOK, Slots, isHash, Bytes, originalSha256,
     candidateSha256, CrashConsistent, Agree, UntouchedFiles, ReceiptTypeOK
<1>3. CASE candidateRejected
  BY <1>3 DEF candidateRejected, FilesOK, Inv, PhaseOK, TypeOK, DirectoryTypeOK,
     ControlTypeOK, StepOK, VerifierOK, Slots, CrashConsistent, Agree, UntouchedFiles,
     ReceiptTypeOK
<1>4. CASE bindRecoveryCandidateReceipt
  BY <1>4 DEF bindRecoveryCandidateReceipt, FilesOK, Inv, PhaseOK, TypeOK, DirectoryTypeOK,
     ControlTypeOK, StepOK, VerifierOK, Slots
<1>5. CASE swapBegin /\ (verifier = NoVerify \/ At("restore", "swap"))
  BY <1>5 DEF swapBegin, swapAdmits, FilesOK, Inv, PhaseOK, TypeOK, DirectoryTypeOK,
     ControlTypeOK, StepOK, VerifierOK, Slots, isHash, Bytes, originalSha256,
     candidateSha256
<1>6. CASE swapRecordStart
  BY <1>6 DEF swapRecordStart, FilesOK, Inv, PhaseOK, TypeOK, DirectoryTypeOK,
     ControlTypeOK, StepOK, VerifierOK, Slots
<1>7. CASE swapRenameLive
  BY <1>7 DEF swapRenameLive, FilesOK, Inv, PhaseOK, TypeOK, DirectoryTypeOK,
     ControlTypeOK, StepOK, VerifierOK, Slots
<1>8. CASE swapRenameCandidate
  BY <1>8 DEF swapRenameCandidate, FilesOK, Inv, PhaseOK, TypeOK, DirectoryTypeOK,
     ControlTypeOK, StepOK, VerifierOK, Slots
<1>9. CASE swapFsync
  BY <1>9 DEF swapFsync, FilesOK, Inv, PhaseOK, TypeOK, DirectoryTypeOK, ControlTypeOK,
     StepOK, VerifierOK, Slots
<1>10. CASE swapRecordEnd
  BY <1>10 DEF swapRecordEnd, FilesOK, Inv, PhaseOK, TypeOK, DirectoryTypeOK,
     ControlTypeOK, StepOK, VerifierOK, Slots, isHash, Bytes, originalSha256,
     candidateSha256
<1>11. CASE verifier = NoVerify /\ reconcileBegin
  BY <1>11 DEF reconcileBegin, classifyRecoveryFilesystem, FilesOK, Inv, PhaseOK, TypeOK,
     DirectoryTypeOK, ControlTypeOK, StepOK, VerifierOK, Slots, isHash, Bytes,
     originalSha256, candidateSha256
<1>12. CASE reconcileRename
  BY <1>12 DEF reconcileRename, FilesOK, Inv, PhaseOK, TypeOK, DirectoryTypeOK,
     ControlTypeOK, StepOK, VerifierOK, Slots
<1>13. CASE reconcileFsync
  BY <1>13 DEF reconcileFsync, FilesOK, Inv, PhaseOK, TypeOK, DirectoryTypeOK,
     ControlTypeOK, StepOK, VerifierOK, Slots
<1>14. CASE reconcileRecord
  BY <1>14 DEF reconcileRecord, FilesOK, Inv, PhaseOK, TypeOK, DirectoryTypeOK,
     ControlTypeOK, StepOK, VerifierOK, Slots, isHash, Bytes, originalSha256,
     candidateSha256
<1>15. CASE verifier = NoVerify /\ rollbackBegin
  BY <1>15 DEF rollbackBegin, rollbackAdmits, FilesOK, Inv, PhaseOK, TypeOK,
     DirectoryTypeOK, ControlTypeOK, StepOK, VerifierOK, Slots, isHash, Bytes,
     originalSha256, candidateSha256
<1>16. CASE materializeRecoveryPoint
  BY <1>16 DEF materializeRecoveryPoint, FilesOK, Inv, PhaseOK, TypeOK, DirectoryTypeOK,
     ControlTypeOK, StepOK, VerifierOK, Slots
<1>17. CASE rollbackRecordStart
  BY <1>17 DEF rollbackRecordStart, FilesOK, Inv, PhaseOK, TypeOK, DirectoryTypeOK,
     ControlTypeOK, StepOK, VerifierOK, Slots, LiveOK
<1>18. CASE rollbackRenameLive
  BY <1>18 DEF rollbackRenameLive, FilesOK, Inv, PhaseOK, TypeOK, DirectoryTypeOK,
     ControlTypeOK, StepOK, VerifierOK, Slots
<1>19. CASE rollbackRenameSource
  BY <1>19 DEF rollbackRenameSource, FilesOK, Inv, PhaseOK, TypeOK, DirectoryTypeOK,
     ControlTypeOK, StepOK, VerifierOK, Slots
<1>20. CASE rollbackFsync
  BY <1>20 DEF rollbackFsync, FilesOK, Inv, PhaseOK, TypeOK, DirectoryTypeOK,
     ControlTypeOK, StepOK, VerifierOK, Slots
<1>21. CASE rollbackRecordEnd
  BY <1>21 DEF rollbackRecordEnd, FilesOK, Inv, PhaseOK, TypeOK, DirectoryTypeOK,
     ControlTypeOK, StepOK, VerifierOK, Slots, isHash, Bytes, originalSha256,
     candidateSha256
<1>22. CASE rollbackInspect
  BY <1>22 DEF rollbackInspect, FilesOK, Inv, PhaseOK, TypeOK, DirectoryTypeOK, ControlTypeOK,
     StepOK, VerifierOK, Slots
<1>22a. CASE rollbackPutBack
  BY <1>22a DEF rollbackPutBack, FilesOK, Inv, PhaseOK, TypeOK, DirectoryTypeOK, ControlTypeOK,
     StepOK, VerifierOK, Slots
<1>23. CASE rollbackDiscard
  BY <1>23 DEF rollbackDiscard, FilesOK, Inv, PhaseOK, TypeOK, DirectoryTypeOK,
     ControlTypeOK, StepOK, VerifierOK, Slots
<1>24. CASE cmd = Idle /\ verifyBegin
  BY <1>24 DEF verifyBegin, FilesOK, Inv, PhaseOK, TypeOK, DirectoryTypeOK, ControlTypeOK,
     StepOK, VerifierOK, Slots
<1>25. CASE verifySucceeds
  BY <1>25 DEF verifySucceeds, FilesOK, Inv, PhaseOK, TypeOK, DirectoryTypeOK,
     ControlTypeOK, StepOK, VerifierOK, Slots
<1>26. CASE verifyFails
  BY <1>26 DEF verifyFails, FilesOK, Inv, PhaseOK, TypeOK, DirectoryTypeOK, ControlTypeOK,
     StepOK, VerifierOK, Slots
<1>27. CASE recordVerificationFailure
  BY <1>27 DEF recordVerificationFailure, FilesOK, Inv, PhaseOK, TypeOK, DirectoryTypeOK,
     ControlTypeOK, StepOK, VerifierOK, Slots
<1>28. CASE portalWrites
  BY <1>28 DEF portalWrites, FilesOK, Inv, PhaseOK, TypeOK, DirectoryTypeOK, ControlTypeOK,
     StepOK, VerifierOK, Slots
<1>29. CASE portalCreates
  BY <1>29 DEF portalCreates, FilesOK, Inv, PhaseOK, TypeOK, DirectoryTypeOK,
     ControlTypeOK, StepOK, VerifierOK, Slots
<1>30. CASE candidateVanishes
  BY <1>30 DEF candidateVanishes, FilesOK, Inv, PhaseOK, TypeOK, DirectoryTypeOK,
     ControlTypeOK, StepOK, VerifierOK, Slots
<1>31. CASE processCrash
  BY <1>31 DEF processCrash, FilesOK, Inv, PhaseOK, TypeOK, DirectoryTypeOK, ControlTypeOK,
     StepOK, VerifierOK, Slots
<1>32. CASE powerLoss
  BY <1>32 DEF powerLoss, FilesOK, Inv, PhaseOK, TypeOK, DirectoryTypeOK, ControlTypeOK,
     StepOK, VerifierOK, Slots
<1>33. CASE UNCHANGED vars
  BY <1>33 DEF vars, FilesOK, Inv, PhaseOK, TypeOK, DirectoryTypeOK, ControlTypeOK, StepOK,
     VerifierOK, Slots
<1> QED
  BY <1>1, <1>2, <1>3, <1>4, <1>5, <1>6, <1>7, <1>8, <1>9, <1>10, <1>11, <1>12, <1>13,
     <1>14, <1>15, <1>16, <1>17, <1>18, <1>19, <1>20, <1>21, <1>22, <1>22a, <1>23, <1>24, <1>25,
     <1>26, <1>27, <1>28, <1>29, <1>30, <1>31, <1>32, <1>33 DEF Next, commandBegin,
     commandNext, swapNext, reconcileNext, rollbackNext, verifyNext, environment

LEMMA SwappedKeeps ==
  ASSUME ~PowerMayFail, Inv, PhaseOK, LiveOK, SwappedAgrees, RetainedOK, FilesOK, [Next]_vars
  PROVE  SwappedAgrees'
<1> USE DEF RetainedOK, disk, paper, budget, Idle, NoVerify, At, Goto, absent, Works, Fails, WriteReceipt,
        Change, rename, Renamed, fsyncDirectory, rollbackPhases, SwappedAgrees, SwappedFiles
<1>1. CASE verifier = NoVerify /\ createRecoveryPoint
  BY <1>1 DEF createRecoveryPoint, FilesOK, Inv, PhaseOK, TypeOK, DirectoryTypeOK,
     ControlTypeOK, StepOK, VerifierOK, Slots
<1>2. CASE verifier = NoVerify /\ buildRecoveryCandidate
  BY <1>2 DEF buildRecoveryCandidate, FilesOK, Inv, PhaseOK, TypeOK, DirectoryTypeOK,
     ControlTypeOK, StepOK, VerifierOK, Slots, isHash, Bytes, originalSha256,
     candidateSha256, CrashConsistent, Agree, UntouchedFiles, ReceiptTypeOK
<1>3. CASE candidateRejected
  BY <1>3 DEF candidateRejected, FilesOK, Inv, PhaseOK, TypeOK, DirectoryTypeOK,
     ControlTypeOK, StepOK, VerifierOK, Slots, CrashConsistent, Agree, UntouchedFiles,
     ReceiptTypeOK
<1>4. CASE bindRecoveryCandidateReceipt
  BY <1>4 DEF bindRecoveryCandidateReceipt, FilesOK, Inv, PhaseOK, TypeOK, DirectoryTypeOK,
     ControlTypeOK, StepOK, VerifierOK, Slots
<1>5. CASE swapBegin /\ (verifier = NoVerify \/ At("restore", "swap"))
  BY <1>5 DEF swapBegin, swapAdmits, FilesOK, Inv, PhaseOK, TypeOK, DirectoryTypeOK,
     ControlTypeOK, StepOK, VerifierOK, Slots, isHash, Bytes, originalSha256,
     candidateSha256
<1>6. CASE swapRecordStart
  BY <1>6 DEF swapRecordStart, FilesOK, Inv, PhaseOK, TypeOK, DirectoryTypeOK,
     ControlTypeOK, StepOK, VerifierOK, Slots
<1>7. CASE swapRenameLive
  BY <1>7 DEF swapRenameLive, FilesOK, Inv, PhaseOK, TypeOK, DirectoryTypeOK,
     ControlTypeOK, StepOK, VerifierOK, Slots
<1>8. CASE swapRenameCandidate
  BY <1>8 DEF swapRenameCandidate, FilesOK, Inv, PhaseOK, TypeOK, DirectoryTypeOK,
     ControlTypeOK, StepOK, VerifierOK, Slots
<1>9. CASE swapFsync
  BY <1>9 DEF swapFsync, FilesOK, Inv, PhaseOK, TypeOK, DirectoryTypeOK, ControlTypeOK,
     StepOK, VerifierOK, Slots
<1>10. CASE swapRecordEnd
  BY <1>10 DEF swapRecordEnd, FilesOK, Inv, PhaseOK, TypeOK, DirectoryTypeOK,
     ControlTypeOK, StepOK, VerifierOK, Slots, isHash, Bytes, originalSha256,
     candidateSha256
<1>11. CASE verifier = NoVerify /\ reconcileBegin
  BY <1>11 DEF reconcileBegin, classifyRecoveryFilesystem, FilesOK, Inv, PhaseOK, TypeOK,
     DirectoryTypeOK, ControlTypeOK, StepOK, VerifierOK, Slots, isHash, Bytes,
     originalSha256, candidateSha256
<1>12. CASE reconcileRename
  BY <1>12 DEF reconcileRename, FilesOK, Inv, PhaseOK, TypeOK, DirectoryTypeOK,
     ControlTypeOK, StepOK, VerifierOK, Slots
<1>13. CASE reconcileFsync
  BY <1>13 DEF reconcileFsync, FilesOK, Inv, PhaseOK, TypeOK, DirectoryTypeOK,
     ControlTypeOK, StepOK, VerifierOK, Slots
<1>14. CASE reconcileRecord
  BY <1>14 DEF reconcileRecord, FilesOK, Inv, PhaseOK, TypeOK, DirectoryTypeOK,
     ControlTypeOK, StepOK, VerifierOK, Slots, isHash, Bytes, originalSha256,
     candidateSha256
<1>15. CASE verifier = NoVerify /\ rollbackBegin
  BY <1>15 DEF rollbackBegin, rollbackAdmits, FilesOK, Inv, PhaseOK, TypeOK,
     DirectoryTypeOK, ControlTypeOK, StepOK, VerifierOK, Slots, isHash, Bytes,
     originalSha256, candidateSha256
<1>16. CASE materializeRecoveryPoint
  BY <1>16 DEF materializeRecoveryPoint, FilesOK, Inv, PhaseOK, TypeOK, DirectoryTypeOK,
     ControlTypeOK, StepOK, VerifierOK, Slots
<1>17. CASE rollbackRecordStart
  BY <1>17 DEF rollbackRecordStart, FilesOK, Inv, PhaseOK, TypeOK, DirectoryTypeOK,
     ControlTypeOK, StepOK, VerifierOK, Slots, LiveOK
<1>18. CASE rollbackRenameLive
  BY <1>18 DEF rollbackRenameLive, FilesOK, Inv, PhaseOK, TypeOK, DirectoryTypeOK,
     ControlTypeOK, StepOK, VerifierOK, Slots
<1>19. CASE rollbackRenameSource
  BY <1>19 DEF rollbackRenameSource, FilesOK, Inv, PhaseOK, TypeOK, DirectoryTypeOK,
     ControlTypeOK, StepOK, VerifierOK, Slots
<1>20. CASE rollbackFsync
  BY <1>20 DEF rollbackFsync, FilesOK, Inv, PhaseOK, TypeOK, DirectoryTypeOK,
     ControlTypeOK, StepOK, VerifierOK, Slots
<1>21. CASE rollbackRecordEnd
  BY <1>21 DEF rollbackRecordEnd, FilesOK, Inv, PhaseOK, TypeOK, DirectoryTypeOK,
     ControlTypeOK, StepOK, VerifierOK, Slots, isHash, Bytes, originalSha256,
     candidateSha256
<1>22. CASE rollbackInspect
  BY <1>22 DEF rollbackInspect, FilesOK, Inv, PhaseOK, TypeOK, DirectoryTypeOK, ControlTypeOK,
     StepOK, VerifierOK, Slots
<1>22a. CASE rollbackPutBack
  BY <1>22a DEF rollbackPutBack, FilesOK, Inv, PhaseOK, TypeOK, DirectoryTypeOK, ControlTypeOK,
     StepOK, VerifierOK, Slots
<1>23. CASE rollbackDiscard
  BY <1>23 DEF rollbackDiscard, FilesOK, Inv, PhaseOK, TypeOK, DirectoryTypeOK,
     ControlTypeOK, StepOK, VerifierOK, Slots
<1>24. CASE cmd = Idle /\ verifyBegin
  BY <1>24 DEF verifyBegin, FilesOK, Inv, PhaseOK, TypeOK, DirectoryTypeOK, ControlTypeOK,
     StepOK, VerifierOK, Slots
<1>25. CASE verifySucceeds
  BY <1>25 DEF verifySucceeds, FilesOK, Inv, PhaseOK, TypeOK, DirectoryTypeOK,
     ControlTypeOK, StepOK, VerifierOK, Slots
<1>26. CASE verifyFails
  BY <1>26 DEF verifyFails, FilesOK, Inv, PhaseOK, TypeOK, DirectoryTypeOK, ControlTypeOK,
     StepOK, VerifierOK, Slots
<1>27. CASE recordVerificationFailure
  BY <1>27 DEF recordVerificationFailure, FilesOK, Inv, PhaseOK, TypeOK, DirectoryTypeOK,
     ControlTypeOK, StepOK, VerifierOK, Slots
<1>28. CASE portalWrites
  BY <1>28 DEF portalWrites, FilesOK, Inv, PhaseOK, TypeOK, DirectoryTypeOK, ControlTypeOK,
     StepOK, VerifierOK, Slots
<1>29. CASE portalCreates
  BY <1>29 DEF portalCreates, FilesOK, Inv, PhaseOK, TypeOK, DirectoryTypeOK,
     ControlTypeOK, StepOK, VerifierOK, Slots
<1>30. CASE candidateVanishes
  BY <1>30 DEF candidateVanishes, FilesOK, Inv, PhaseOK, TypeOK, DirectoryTypeOK,
     ControlTypeOK, StepOK, VerifierOK, Slots
<1>31. CASE processCrash
  BY <1>31 DEF processCrash, FilesOK, Inv, PhaseOK, TypeOK, DirectoryTypeOK, ControlTypeOK,
     StepOK, VerifierOK, Slots
<1>32. CASE powerLoss
  BY <1>32 DEF powerLoss, FilesOK, Inv, PhaseOK, TypeOK, DirectoryTypeOK, ControlTypeOK,
     StepOK, VerifierOK, Slots
<1>33. CASE UNCHANGED vars
  BY <1>33 DEF vars, FilesOK, Inv, PhaseOK, TypeOK, DirectoryTypeOK, ControlTypeOK, StepOK,
     VerifierOK, Slots
<1> QED
  BY <1>1, <1>2, <1>3, <1>4, <1>5, <1>6, <1>7, <1>8, <1>9, <1>10, <1>11, <1>12, <1>13,
     <1>14, <1>15, <1>16, <1>17, <1>18, <1>19, <1>20, <1>21, <1>22, <1>22a, <1>23, <1>24, <1>25,
     <1>26, <1>27, <1>28, <1>29, <1>30, <1>31, <1>32, <1>33 DEF Next, commandBegin,
     commandNext, swapNext, reconcileNext, rollbackNext, verifyNext, environment

\* Inv, and what the running command knows.
CommandInv == Inv /\ PhaseOK /\ LiveOK
FilesInv == SwappedAgrees /\ FilesOK

LEMMA InitCommand == Init => CommandInv
<1> SUFFICES ASSUME Init PROVE CommandInv
  OBVIOUS
<1>1. Inv
  BY InitInv
<1>2. PhaseOK /\ LiveOK
  BY DEF Init, PhaseOK, LiveOK, Idle, NoVerify, At
<1> QED
  BY <1>1, <1>2 DEF CommandInv

LEMMA InitFiles == Init => RetainedOK /\ FilesInv
BY DEF Init, FilesInv, RetainedOK, FilesOK, SwappedAgrees, Idle, At, absent

\* With the lock alone: what a rollback and, without power losses, what the retained
\* original needs.
LEMMA LiveHolds == Spec \/ OverlapSpec => [](Inv /\ LiveOK)
<1>1. Init => Inv /\ LiveOK
  BY InitCommand DEF CommandInv
<1> QED
  BY <1>1, NextInv, LiveKeeps, DisciplineIsOverlap, PTL DEF Spec, OverlapSpec

LEMMA RetainedHolds == ~PowerMayFail => (Spec \/ OverlapSpec => []RetainedOK)
<1> SUFFICES ASSUME ~PowerMayFail PROVE Spec \/ OverlapSpec => []RetainedOK
  OBVIOUS
<1>1. Inv /\ LiveOK /\ RetainedOK /\ [OverlapNext]_vars => RetainedOK'
  BY RetainedKeeps
<1>2. Init => RetainedOK
  BY InitFiles
<1> QED
  BY <1>1, <1>2, LiveHolds, DisciplineIsOverlap, PTL DEF Spec, OverlapSpec

\* With the discipline of the operator as well.
LEMMA CommandInvHolds == Spec => []CommandInv
<1>1. CommandInv /\ [Next]_vars => CommandInv'
  BY NextInv, PhaseKeeps, LiveKeeps, DisciplineIsOverlap DEF CommandInv
<1> QED
  BY <1>1, InitCommand, PTL DEF Spec

LEMMA FilesInvHolds == ~PowerMayFail => (Spec => []FilesInv)
<1> SUFFICES ASSUME ~PowerMayFail PROVE Spec => []FilesInv
  OBVIOUS
<1>1. CommandInv /\ RetainedOK /\ FilesInv /\ [Next]_vars => FilesInv'
  BY FilesKeep, SwappedKeeps DEF CommandInv, FilesInv
<1>2. Init => FilesInv
  BY InitFiles
<1> QED
  BY <1>1, <1>2, RetainedHolds, CommandInvHolds, PTL DEF Spec

\* The phases verify may write: it is no command and takes no lock.
verifications ==
    {<<"swapped", "verified">>, <<"swapped", "failed">>, <<"swapped", "post_complete_failed">>,
     <<"verified", "failed">>, <<"verified", "post_complete_failed">>}

\* The receipt moves by a write, which leaves the directory alone.
LEMMA ReceiptMoves ==
  ASSUME CommandInv, [Next]_vars, receipt' # receipt, ~powerLoss
  PROVE  /\ files' = files
         /\ \/ <<receipt, receipt'>> \in phaseTransitions
            \/ cmd = Idle /\ receipt = "absent" /\ receipt' = "recovery_point_ready"
            \/ cmd = Idle /\ <<receipt, receipt'>> \in verifications
<1> USE DEF CommandInv, disk, paper, budget, Idle, NoVerify, At, Goto, Works, Fails, WriteReceipt, PhaseOK,
        rollbackPhases, phaseTransitions, verifications
<1>1. CASE verifier = NoVerify /\ createRecoveryPoint
  BY <1>1 DEF createRecoveryPoint, Inv, TypeOK, ControlTypeOK, StepOK, VerifierOK
<1>2. CASE verifier = NoVerify /\ buildRecoveryCandidate
  BY <1>2 DEF buildRecoveryCandidate, Inv, TypeOK, ControlTypeOK, StepOK, VerifierOK
<1>3. CASE candidateRejected
  BY <1>3 DEF candidateRejected, Inv, TypeOK, ControlTypeOK, StepOK, VerifierOK
<1>4. CASE bindRecoveryCandidateReceipt
  BY <1>4 DEF bindRecoveryCandidateReceipt, Inv, TypeOK, ControlTypeOK, StepOK, VerifierOK
<1>5. CASE swapBegin /\ (verifier = NoVerify \/ At("restore", "swap"))
  BY <1>5 DEF swapBegin, swapAdmits, Inv, TypeOK, ControlTypeOK, StepOK, VerifierOK
<1>6. CASE swapRecordStart
  BY <1>6 DEF swapRecordStart, Inv, TypeOK, ControlTypeOK, StepOK, VerifierOK
<1>7. CASE swapRenameLive
  BY <1>7 DEF swapRenameLive, Inv, TypeOK, ControlTypeOK, StepOK, VerifierOK
<1>8. CASE swapRenameCandidate
  BY <1>8 DEF swapRenameCandidate, Inv, TypeOK, ControlTypeOK, StepOK, VerifierOK
<1>9. CASE swapFsync
  BY <1>9 DEF swapFsync, Inv, TypeOK, ControlTypeOK, StepOK, VerifierOK
<1>10. CASE swapRecordEnd
  BY <1>10 DEF swapRecordEnd, Inv, TypeOK, ControlTypeOK, StepOK, VerifierOK
<1>11. CASE verifier = NoVerify /\ reconcileBegin
  BY <1>11 DEF reconcileBegin, classifyRecoveryFilesystem, Inv, TypeOK, ControlTypeOK,
     StepOK, VerifierOK
<1>12. CASE reconcileRename
  BY <1>12 DEF reconcileRename, Inv, TypeOK, ControlTypeOK, StepOK, VerifierOK
<1>13. CASE reconcileFsync
  BY <1>13 DEF reconcileFsync, Inv, TypeOK, ControlTypeOK, StepOK, VerifierOK
<1>14. CASE reconcileRecord
  BY <1>14 DEF reconcileRecord, Inv, TypeOK, ControlTypeOK, StepOK, VerifierOK
<1>15. CASE verifier = NoVerify /\ rollbackBegin
  BY <1>15 DEF rollbackBegin, rollbackAdmits, Inv, TypeOK, ControlTypeOK, StepOK,
     VerifierOK
<1>16. CASE materializeRecoveryPoint
  BY <1>16 DEF materializeRecoveryPoint, Inv, TypeOK, ControlTypeOK, StepOK, VerifierOK
<1>17. CASE rollbackRecordStart
  BY <1>17 DEF rollbackRecordStart, Inv, TypeOK, ControlTypeOK, StepOK, VerifierOK
<1>18. CASE rollbackRenameLive
  BY <1>18 DEF rollbackRenameLive, Inv, TypeOK, ControlTypeOK, StepOK, VerifierOK
<1>19. CASE rollbackRenameSource
  BY <1>19 DEF rollbackRenameSource, Inv, TypeOK, ControlTypeOK, StepOK, VerifierOK
<1>20. CASE rollbackFsync
  BY <1>20 DEF rollbackFsync, Inv, TypeOK, ControlTypeOK, StepOK, VerifierOK
<1>21. CASE rollbackRecordEnd
  BY <1>21 DEF rollbackRecordEnd, Inv, TypeOK, ControlTypeOK, StepOK, VerifierOK
<1>22. CASE rollbackInspect
  BY <1>22 DEF rollbackInspect, Inv, TypeOK, ControlTypeOK, StepOK, VerifierOK
<1>22a. CASE rollbackPutBack
  BY <1>22a DEF rollbackPutBack, Inv, TypeOK, ControlTypeOK, StepOK, VerifierOK
<1>23. CASE rollbackDiscard
  BY <1>23 DEF rollbackDiscard, Inv, TypeOK, ControlTypeOK, StepOK, VerifierOK
<1>24. CASE cmd = Idle /\ verifyBegin
  BY <1>24 DEF verifyBegin, Inv, TypeOK, ControlTypeOK, StepOK, VerifierOK
<1>25. CASE verifySucceeds
  BY <1>25 DEF verifySucceeds, Inv, TypeOK, ControlTypeOK, StepOK, VerifierOK
<1>26. CASE verifyFails
  BY <1>26 DEF verifyFails, Inv, TypeOK, ControlTypeOK, StepOK, VerifierOK
<1>27. CASE recordVerificationFailure
  BY <1>27 DEF recordVerificationFailure, Inv, TypeOK, ControlTypeOK, StepOK, VerifierOK
<1>28. CASE portalWrites
  BY <1>28 DEF portalWrites, Inv, TypeOK, ControlTypeOK, StepOK, VerifierOK
<1>29. CASE portalCreates
  BY <1>29 DEF portalCreates, Inv, TypeOK, ControlTypeOK, StepOK, VerifierOK
<1>30. CASE candidateVanishes
  BY <1>30 DEF candidateVanishes, Inv, TypeOK, ControlTypeOK, StepOK, VerifierOK
<1>31. CASE processCrash
  BY <1>31 DEF processCrash, Inv, TypeOK, ControlTypeOK, StepOK, VerifierOK
<1>32. CASE powerLoss
  BY <1>32 DEF powerLoss, Inv, TypeOK, ControlTypeOK, StepOK, VerifierOK
<1>33. CASE UNCHANGED vars
  BY <1>33 DEF vars, Inv, TypeOK, ControlTypeOK, StepOK, VerifierOK
<1> QED
  BY <1>1, <1>2, <1>3, <1>4, <1>5, <1>6, <1>7, <1>8, <1>9, <1>10, <1>11, <1>12, <1>13,
     <1>14, <1>15, <1>16, <1>17, <1>18, <1>19, <1>20, <1>21, <1>22, <1>22a, <1>23, <1>24, <1>25,
     <1>26, <1>27, <1>28, <1>29, <1>30, <1>31, <1>32, <1>33 DEF Next, commandBegin,
     commandNext, swapNext, reconcileNext, rollbackNext, verifyNext, environment

\* A locked command moves the receipt along phaseTransitions, for any number of
\* crashes, failed calls and power losses: the phase it loaded is still the one on
\* disk when it writes the next, although verify takes no lock.
THEOREM CommandsKeepToPhases == Spec => CommandsFollowPhases
<1>1. CommandInv /\ [Next]_vars
        => [(cmd # Idle /\ receipt' # receipt /\ crashes' = crashes)
              => <<receipt, receipt'>> \in phaseTransitions]_vars
  <2> SUFFICES ASSUME CommandInv, [Next]_vars, cmd # Idle, receipt' # receipt, crashes' = crashes
               PROVE  <<receipt, receipt'>> \in phaseTransitions
    OBVIOUS
  <2>1. ~powerLoss
    BY DEF powerLoss, CommandInv, Inv, TypeOK, ControlTypeOK
  <2> QED
    BY <2>1, ReceiptMoves
<1> QED
  BY <1>1, CommandInvHolds, PTL DEF Spec, CommandsFollowPhases

\* The steps at which a rollback ends.
LEMMA RollbackEnds ==
  ASSUME Inv, LiveOK, [OverlapNext]_vars, cmd.op = "rollback", cmd' = Idle, crashes' = crashes, faults' < 2
  PROVE  files'["live"] # "none"
<1> USE DEF disk, paper, budget, Idle, NoVerify, At, Goto, absent, Works, Fails, WriteReceipt, LiveOK,
        Change, rename, Renamed, fsyncDirectory
<1>1. CASE createRecoveryPoint
  BY <1>1 DEF createRecoveryPoint, Inv, TypeOK, DirectoryTypeOK, ControlTypeOK, StepOK,
     VerifierOK
<1>2. CASE buildRecoveryCandidate
  BY <1>2 DEF buildRecoveryCandidate, Inv, TypeOK, DirectoryTypeOK, ControlTypeOK, StepOK,
     VerifierOK
<1>3. CASE candidateRejected
  BY <1>3 DEF candidateRejected, Inv, TypeOK, DirectoryTypeOK, ControlTypeOK, StepOK,
     VerifierOK
<1>4. CASE bindRecoveryCandidateReceipt
  BY <1>4 DEF bindRecoveryCandidateReceipt, Inv, TypeOK, DirectoryTypeOK, ControlTypeOK,
     StepOK, VerifierOK
<1>5. CASE swapBegin
  BY <1>5 DEF swapBegin, swapAdmits, Inv, TypeOK, DirectoryTypeOK, ControlTypeOK, StepOK,
     VerifierOK
<1>6. CASE swapRecordStart
  BY <1>6 DEF swapRecordStart, Inv, TypeOK, DirectoryTypeOK, ControlTypeOK, StepOK,
     VerifierOK
<1>7. CASE swapRenameLive
  BY <1>7 DEF swapRenameLive, Inv, TypeOK, DirectoryTypeOK, ControlTypeOK, StepOK,
     VerifierOK
<1>8. CASE swapRenameCandidate
  BY <1>8 DEF swapRenameCandidate, Inv, TypeOK, DirectoryTypeOK, ControlTypeOK, StepOK,
     VerifierOK
<1>9. CASE swapFsync
  BY <1>9 DEF swapFsync, Inv, TypeOK, DirectoryTypeOK, ControlTypeOK, StepOK, VerifierOK
<1>10. CASE swapRecordEnd
  BY <1>10 DEF swapRecordEnd, Inv, TypeOK, DirectoryTypeOK, ControlTypeOK, StepOK,
     VerifierOK
<1>11. CASE reconcileBegin
  BY <1>11 DEF reconcileBegin, classifyRecoveryFilesystem, Inv, TypeOK, DirectoryTypeOK,
     ControlTypeOK, StepOK, VerifierOK
<1>12. CASE reconcileRename
  BY <1>12 DEF reconcileRename, Inv, TypeOK, DirectoryTypeOK, ControlTypeOK, StepOK,
     VerifierOK
<1>13. CASE reconcileFsync
  BY <1>13 DEF reconcileFsync, Inv, TypeOK, DirectoryTypeOK, ControlTypeOK, StepOK,
     VerifierOK
<1>14. CASE reconcileRecord
  BY <1>14 DEF reconcileRecord, Inv, TypeOK, DirectoryTypeOK, ControlTypeOK, StepOK,
     VerifierOK
<1>15. CASE rollbackBegin
  BY <1>15 DEF rollbackBegin, rollbackAdmits, Inv, TypeOK, DirectoryTypeOK, ControlTypeOK,
     StepOK, VerifierOK
<1>16. CASE materializeRecoveryPoint
  BY <1>16 DEF materializeRecoveryPoint, Inv, TypeOK, DirectoryTypeOK, ControlTypeOK,
     StepOK, VerifierOK
<1>17. CASE rollbackRecordStart
  BY <1>17 DEF rollbackRecordStart, Inv, TypeOK, DirectoryTypeOK, ControlTypeOK, StepOK,
     VerifierOK
<1>18. CASE rollbackRenameLive
  BY <1>18 DEF rollbackRenameLive, Inv, TypeOK, DirectoryTypeOK, ControlTypeOK, StepOK,
     VerifierOK
<1>19. CASE rollbackRenameSource
  BY <1>19 DEF rollbackRenameSource, Inv, TypeOK, DirectoryTypeOK, ControlTypeOK, StepOK,
     VerifierOK
<1>20. CASE rollbackFsync
  BY <1>20 DEF rollbackFsync, Inv, TypeOK, DirectoryTypeOK, ControlTypeOK, StepOK,
     VerifierOK
<1>21. CASE rollbackRecordEnd
  BY <1>21 DEF rollbackRecordEnd, Inv, TypeOK, DirectoryTypeOK, ControlTypeOK, StepOK,
     VerifierOK, isHash
<1>22. CASE rollbackInspect
  BY <1>22 DEF rollbackInspect, Inv, TypeOK, DirectoryTypeOK, ControlTypeOK, StepOK,
     VerifierOK
<1>22a. CASE rollbackPutBack
  BY <1>22a DEF rollbackPutBack, Inv, TypeOK, DirectoryTypeOK, ControlTypeOK, StepOK,
     VerifierOK
<1>23. CASE rollbackDiscard
  BY <1>23 DEF rollbackDiscard, Inv, TypeOK, DirectoryTypeOK, ControlTypeOK, StepOK,
     VerifierOK
<1>24. CASE cmd = Idle /\ verifyBegin
  BY <1>24 DEF verifyBegin, Inv, TypeOK, DirectoryTypeOK, ControlTypeOK, StepOK, VerifierOK
<1>25. CASE verifySucceeds
  BY <1>25 DEF verifySucceeds, Inv, TypeOK, DirectoryTypeOK, ControlTypeOK, StepOK,
     VerifierOK
<1>26. CASE verifyFails
  BY <1>26 DEF verifyFails, Inv, TypeOK, DirectoryTypeOK, ControlTypeOK, StepOK, VerifierOK
<1>27. CASE recordVerificationFailure
  BY <1>27 DEF recordVerificationFailure, Inv, TypeOK, DirectoryTypeOK, ControlTypeOK,
     StepOK, VerifierOK
<1>28. CASE portalWrites
  BY <1>28 DEF portalWrites, Inv, TypeOK, DirectoryTypeOK, ControlTypeOK, StepOK,
     VerifierOK
<1>29. CASE portalCreates
  BY <1>29 DEF portalCreates, Inv, TypeOK, DirectoryTypeOK, ControlTypeOK, StepOK,
     VerifierOK
<1>30. CASE candidateVanishes
  BY <1>30 DEF candidateVanishes, Inv, TypeOK, DirectoryTypeOK, ControlTypeOK, StepOK,
     VerifierOK
<1>31. CASE processCrash
  BY <1>31 DEF processCrash, Inv, TypeOK, DirectoryTypeOK, ControlTypeOK, StepOK,
     VerifierOK
<1>32. CASE powerLoss
  BY <1>32 DEF powerLoss, Inv, TypeOK, DirectoryTypeOK, ControlTypeOK, StepOK, VerifierOK
<1>33. CASE UNCHANGED vars
  BY <1>33 DEF vars, Inv, TypeOK, DirectoryTypeOK, ControlTypeOK, StepOK, VerifierOK
<1> QED
  BY <1>1, <1>2, <1>3, <1>4, <1>5, <1>6, <1>7, <1>8, <1>9, <1>10, <1>11, <1>12, <1>13,
     <1>14, <1>15, <1>16, <1>17, <1>18, <1>19, <1>20, <1>21, <1>22, <1>22a, <1>23, <1>24, <1>25,
     <1>26, <1>27, <1>28, <1>29, <1>30, <1>31, <1>32, <1>33 DEF OverlapNext, commandBegin,
     commandNext, swapNext, reconcileNext, rollbackNext, verifyNext, environment

\* A rollback that ends by itself leaves a live database: its catch block puts the
\* first one back, unless that fails as well, and a verify that still waits does not
\* get in its way.
THEOREM RollbacksLeaveDatabase == Spec \/ OverlapSpec => RollbackLeavesDatabase
<1>1. Inv /\ LiveOK /\ [OverlapNext]_vars
        => [(cmd.op = "rollback" /\ cmd' = Idle /\ crashes' = crashes /\ faults' < 2)
              => files'["live"] # "none"]_vars
  BY RollbackEnds
<1> QED
  BY <1>1, LiveHolds, DisciplineIsOverlap, PTL DEF Spec, OverlapSpec, RollbackLeavesDatabase

\* While power does not fail, a receipt in `swapped', or in a phase verify gives it,
\* stands beside the exchanged files, however often processes crashed on the way.
\* (With power losses it may not: SwappedIsDurable.)
THEOREM SwappedMeansExchanged == ~PowerMayFail => (Spec => []SwappedAgrees)
<1>1. FilesInv => SwappedAgrees
  BY DEF FilesInv
<1> QED
  BY <1>1, FilesInvHolds, PTL

\* While power does not fail, the retained original is the database the receipt
\* names, without a later write of the portal, also while a verify still waits.
THEOREM RetainedIsTheOriginal == ~PowerMayFail => (Spec \/ OverlapSpec => []RetainedIsExact)
<1>1. RetainedOK => RetainedIsExact
  BY DEF RetainedOK, RetainedIsExact, isHash, absent, Bytes, originalSha256
<1> QED
  BY <1>1, RetainedHolds, PTL

(* What an interrupted swap leaves. *)

\* The directories of a swap and of its reconciliation: the original is live, or
\* retained beside nothing or the candidate, or the portal has created a database.
SwapShape(dir) ==
    \/ dir["live"] = "original" /\ dir["rollback"] = "none"
    \/ dir["live"] = "none" /\ dir["rollback"] = "original"
    \/ dir["live"] = "candidate" /\ dir["candidate"] = "none" /\ dir["rollback"] = "original"
    \/ dir["live"] = "fresh"

\* While a power loss may leave `swap_started', it leaves one of those; a rollback
\* renames only when that phase is gone from the disk.
RecognisedOK ==
    /\ "swap_started" \in receiptImages => \A dir \in images : SwapShape(dir)
    /\ At("swap", "recordStart") \/ At("swap", "renameLive") => files["live"] = "original"
    /\ cmd.op = "rollback" /\ cmd.step \notin {"materialize", "recordStart", "discard"}
       => "swap_started" \notin receiptImages

LEMMA RecognisedKeeps == Inv /\ RecognisedOK /\ [OverlapNext]_vars => RecognisedOK'
<1> SUFFICES ASSUME Inv, RecognisedOK, [OverlapNext]_vars PROVE RecognisedOK'
  OBVIOUS
<1> USE DEF Inv, TypeOK, DirectoryTypeOK, ControlTypeOK, disk, paper, budget, Idle, NoVerify, At, Goto,
        absent, Works, Fails, Change, rename, Renamed, fsyncDirectory, RecognisedOK
<1>1. CASE rollbackRecordStart \/ rollbackRecordEnd \/ rollbackInspect
  BY <1>1 DEF rollbackRecordStart, rollbackRecordEnd, rollbackInspect, WriteReceipt, SwapShape
<1>2. CASE rollbackRenameLive \/ rollbackRenameSource \/ rollbackFsync
  BY <1>2 DEF rollbackRenameLive, rollbackRenameSource, rollbackFsync
<1>3. CASE rollbackPutBack
  BY <1>3 DEF rollbackPutBack
<1>4. CASE materializeRecoveryPoint
  BY <1>4 DEF materializeRecoveryPoint, SwapShape
<1>5. CASE rollbackDiscard
  BY <1>5 DEF rollbackDiscard, SwapShape
<1>6. CASE candidateRejected
  BY <1>6 DEF candidateRejected, SwapShape
<1>7. CASE bindRecoveryCandidateReceipt
  BY <1>7 DEF bindRecoveryCandidateReceipt, WriteReceipt, SwapShape
<1>8. CASE swapBegin
  <2>1. swapAdmits => files["live"] = "original"
    BY DEF swapAdmits, ReceiptTypeOK, CrashConsistent, Agree, UntouchedFiles
  <2> QED
    BY <1>8, <2>1 DEF swapBegin, SwapShape
<1>9. CASE swapRecordStart
  <2>1. \A dir \in images : SwapShape(dir)
    BY <1>9 DEF swapRecordStart, StepOK, ReceiptTypeOK, CrashConsistent, Agree, UntouchedFiles, SwapShape
  <2> QED
    BY <1>9, <2>1 DEF swapRecordStart, WriteReceipt, SwapShape
<1>10. CASE swapRenameLive
  BY <1>10 DEF swapRenameLive, SwapShape
<1>11. CASE swapRenameCandidate
  BY <1>11 DEF swapRenameCandidate, StepOK, Slots, SwapShape
<1>12. CASE swapFsync \/ reconcileFsync
  BY <1>12 DEF swapFsync, reconcileFsync, SwapShape
<1>13. CASE swapRecordEnd \/ reconcileRecord
  BY <1>13 DEF swapRecordEnd, reconcileRecord, WriteReceipt, SwapShape
<1>14. CASE reconcileRename
  BY <1>14 DEF reconcileRename, StepOK, Slots, SwapShape
<1>15. CASE createRecoveryPoint
  BY <1>15 DEF createRecoveryPoint, WriteReceipt, SwapShape
<1>16. CASE buildRecoveryCandidate
  BY <1>16 DEF buildRecoveryCandidate, isHash, Bytes, originalSha256, SwapShape
<1>17. CASE reconcileBegin \/ rollbackBegin
  BY <1>17 DEF reconcileBegin, rollbackBegin, SwapShape
<1>18. CASE verifyBegin \/ verifyFails
  BY <1>18 DEF verifyBegin, verifyFails, SwapShape
<1>19. CASE verifySucceeds \/ recordVerificationFailure
  BY <1>19 DEF verifySucceeds, recordVerificationFailure, WriteReceipt, VerifierOK, SwapShape
<1>20. CASE portalWrites \/ portalCreates
  BY <1>20 DEF portalWrites, portalCreates, SwapShape
<1>21. CASE candidateVanishes
  BY <1>21 DEF candidateVanishes, SwapShape
<1>22. CASE processCrash \/ powerLoss
  BY <1>22 DEF processCrash, powerLoss, SwapShape
<1>23. CASE UNCHANGED vars
  BY <1>23 DEF vars, SwapShape
<1> QED
  BY <1>1, <1>2, <1>3, <1>4, <1>5, <1>6, <1>7, <1>8, <1>9, <1>10, <1>11, <1>12, <1>13, <1>14, <1>15,
     <1>16, <1>17, <1>18, <1>19, <1>20, <1>21, <1>22, <1>23
  DEF OverlapNext, commandBegin, commandNext, swapNext, reconcileNext, rollbackNext, verifyNext, environment

\* Wherever a crash or a power loss stops a swap or its reconciliation, the files
\* tell the next command what to do, also while a verify still waits.
THEOREM InterruptedSwapsAreRecognised == Spec \/ OverlapSpec => []InterruptedSwapIsRecognised
<1>1. Init => RecognisedOK
  BY DEF Init, RecognisedOK, Idle, At
<1>2. Inv /\ RecognisedOK => InterruptedSwapIsRecognised
  <2> SUFFICES ASSUME Inv, RecognisedOK, receipt = "swap_started", edits["original"] = 0,
                      edits["candidate"] = 0, files["live"] # "fresh",
                      files["live"] = "original" => ~absent("candidate")
               PROVE  classifyRecoveryFilesystem # "ambiguous"
    BY DEF InterruptedSwapIsRecognised
  <2> USE DEF absent, isHash, Bytes, originalSha256, candidateSha256
  <2>1. SwapShape(files) /\ files["candidate"] \in {"none", "candidate"}
    BY DEF Inv, TypeOK, DirectoryTypeOK, ReceiptTypeOK, RecognisedOK, Slots
  <2>2. CASE files["live"] = "original"
    BY <2>1, <2>2 DEF SwapShape, classifyRecoveryFilesystem
  <2>3. CASE files["live"] = "none"
    BY <2>1, <2>3 DEF SwapShape, classifyRecoveryFilesystem
  <2>4. CASE files["live"] = "candidate"
    BY <2>1, <2>4 DEF SwapShape, classifyRecoveryFilesystem
  <2> QED
    BY <2>1, <2>2, <2>3, <2>4 DEF SwapShape
<1> QED
  BY <1>1, <1>2, RecognisedKeeps, InvHolds, DisciplineIsOverlap, PTL DEF Spec, OverlapSpec

(* The refinement: the files and the receipt implement DatabaseReplacement. *)

\* The refinement mapping of Abstract.
serving ==
    CASE files["live"] = "none" -> "none"
      [] files["live"] = "candidate" -> "replacement"
      [] files["live"] = "fresh" -> "foreign"
      [] OTHER -> "original"
verdict ==
    CASE receipt \in {"swapped", "verified", "post_complete_failed"} -> "replaced"
      [] receipt = "rolled_back" /\ cmd.op # "rollback" /\ ~overwrote -> "restored"
      [] OTHER -> "open"

\* A verdict says what is served.
LEMMA VerdictIsTrue ==
  ASSUME CommandInv, FilesInv
  PROVE  /\ serving \in Abstract!Servings
         /\ verdict = "replaced" => serving = "replacement"
         /\ verdict = "restored" => serving = "original"
         /\ verdict \in {"open", "replaced", "restored"}
<1>1. receipt = "rolled_back" /\ ~overwrote => files["live"] \in {"original", "materialized"}
  BY DEF CommandInv, Inv, TypeOK, ReceiptTypeOK, DirectoryTypeOK, CrashConsistent, Agree, RestoredFiles
<1>2. receipt \in {"swapped", "verified", "post_complete_failed"} => files["live"] = "candidate"
  BY DEF FilesInv, SwappedAgrees, SwappedFiles
<1>3. serving \in Abstract!Servings
  BY DEF serving, Abstract!Servings
<1>4. verdict = "replaced" => serving = "replacement"
  BY <1>2 DEF verdict, serving
<1>5. verdict = "restored" => serving = "original"
  BY <1>1 DEF verdict, serving
<1> QED
  BY <1>3, <1>4, <1>5 DEF verdict

\* Beside `rolled_back' only the end of the rollback changes what the receipt tells
\* of it, and that leaves the live database alone.
LEMMA RolledBackStays ==
  ASSUME CommandInv, [Next]_vars, ~powerLoss, receipt = "rolled_back", receipt' = receipt
  PROVE  /\ cmd.op # "rollback" => cmd'.op # "rollback" /\ overwrote' = overwrote
         /\ cmd.op = "rollback" /\ cmd'.op # "rollback" => files'["live"] = files["live"]
<1> USE DEF CommandInv, Inv, TypeOK, ControlTypeOK, DirectoryTypeOK, disk, budget, Idle, NoVerify, At, Goto
<1>1. CASE \/ rollbackRecordStart \/ rollbackRecordEnd \/ rollbackInspect
  BY <1>1 DEF rollbackRecordStart, rollbackRecordEnd, rollbackInspect, WriteReceipt
<1>2. CASE rollbackRenameLive \/ rollbackRenameSource \/ rollbackFsync \/ rollbackPutBack
  BY <1>2 DEF rollbackRenameLive, rollbackRenameSource, rollbackFsync, rollbackPutBack
<1>3. CASE materializeRecoveryPoint \/ rollbackDiscard
  BY <1>3 DEF materializeRecoveryPoint, rollbackDiscard, Change
<1>4. CASE candidateRejected \/ bindRecoveryCandidateReceipt \/ swapBegin
  BY <1>4 DEF candidateRejected, bindRecoveryCandidateReceipt, swapBegin, WriteReceipt
<1>5. CASE swapNext
  BY <1>5 DEF swapNext, swapRecordStart, swapRenameLive, swapRenameCandidate, swapFsync, swapRecordEnd,
     WriteReceipt
<1>6. CASE reconcileNext
  BY <1>6 DEF reconcileNext, reconcileRename, reconcileFsync, reconcileRecord, WriteReceipt
<1>7. CASE createRecoveryPoint \/ buildRecoveryCandidate \/ reconcileBegin \/ rollbackBegin
  BY <1>7 DEF createRecoveryPoint, buildRecoveryCandidate, reconcileBegin, rollbackBegin, rollbackAdmits,
     rollbackPhases
<1>8. CASE verifyNext \/ verifyBegin
  BY <1>8 DEF verifyNext, verifyBegin, verifySucceeds, verifyFails, recordVerificationFailure
<1>9. CASE portalWrites \/ portalCreates \/ candidateVanishes \/ processCrash
  BY <1>9 DEF portalWrites, portalCreates, candidateVanishes, processCrash
<1>10. CASE UNCHANGED vars
  BY <1>10 DEF vars
<1> QED
  BY <1>1, <1>2, <1>3, <1>4, <1>5, <1>6, <1>7, <1>8, <1>9, <1>10
  DEF Next, commandBegin, commandNext, rollbackNext, environment

\* Every step maps to a step of DatabaseReplacement or to a stutter.
LEMMA VerdictMoves ==
  ASSUME ~PowerMayFail, CommandInv, FilesInv, FilesInv', CommandInv', [Next]_vars
  PROVE  \/ verdict = "open" /\ verdict' = "open" /\ serving' \in Abstract!Servings
         \/ serving' = serving /\ verdict' = verdict
         \/ serving' = serving /\ verdict = "open" /\ verdict' = "replaced" /\ serving = "replacement"
         \/ serving' = serving /\ verdict = "open" /\ verdict' = "restored" /\ serving = "original"
         \/ serving' = serving /\ verdict # "open" /\ verdict' = "open"
<1>1. ~powerLoss
  BY DEF powerLoss
<1>2. CASE receipt' = receipt /\ receipt = "rolled_back"
  <2>1. CASE cmd.op = "rollback"
    <3>1. verdict = "open"
      BY <1>2, <2>1 DEF verdict
    <3>2. serving' \in Abstract!Servings
      BY DEF serving, Abstract!Servings
    <3>3. verdict' \in {"open", "restored"}
      BY <1>2 DEF verdict
    <3>4. ASSUME verdict' = "restored" PROVE serving' = serving /\ serving = "original"
      <4>1. cmd'.op # "rollback" /\ ~overwrote'
        BY <1>2, <3>4, Zenon DEF verdict
      <4>2. files'["live"] = files["live"]
        BY <1>1, <1>2, <2>1, <4>1, RolledBackStays
      <4>3. files'["live"] \in {"original", "materialized"}
        BY <1>2, <4>1 DEF CommandInv, Inv, TypeOK, ReceiptTypeOK, DirectoryTypeOK, CrashConsistent, Agree, RestoredFiles
      <4> QED
        BY <4>2, <4>3 DEF serving
    <3> QED
      BY <3>1, <3>2, <3>3, <3>4
  <2>2. CASE cmd.op # "rollback"
    <3>1. cmd'.op # "rollback" /\ overwrote' = overwrote
      BY <1>1, <1>2, <2>2, RolledBackStays
    <3>2. verdict' = verdict /\ verdict \in {"open", "restored"}
      BY <1>2, <2>2, <3>1 DEF verdict
    <3>3. verdict = "restored" => serving = "original"
      BY VerdictIsTrue
    <3>4. verdict' = "restored" => serving' = "original"
      <4>1. SUFFICES ASSUME verdict' = "restored" PROVE serving' = "original"
        OBVIOUS
      <4>2. ~overwrote'
        BY <1>2, <4>1, Zenon DEF verdict
      <4>3. files'["live"] \in {"original", "materialized"}
        BY <1>2, <4>2 DEF CommandInv, Inv, TypeOK, ReceiptTypeOK, DirectoryTypeOK, CrashConsistent, Agree, RestoredFiles
      <4> QED
        BY <4>3 DEF serving
    <3>5. serving' \in Abstract!Servings
      BY DEF serving, Abstract!Servings
    <3> QED
      BY <3>2, <3>3, <3>4, <3>5
  <2> QED
    BY <2>1, <2>2
<1>3. CASE receipt' = receipt /\ receipt # "rolled_back"
  <2>1. verdict' = verdict /\ verdict \in {"open", "replaced"}
    BY <1>3 DEF verdict
  <2>2. serving' \in Abstract!Servings
    BY DEF serving, Abstract!Servings
  <2>3. verdict = "replaced" => serving = "replacement" /\ serving' = "replacement"
    BY <1>3 DEF FilesInv, SwappedAgrees, SwappedFiles, verdict, serving
  <2> QED
    BY <2>1, <2>2, <2>3
<1>4. CASE receipt' # receipt
  <2>1. files' = files
    BY <1>1, <1>4, ReceiptMoves
  <2>2. serving' = serving
    BY <2>1 DEF serving
  <2>3. \/ <<receipt, receipt'>> \in phaseTransitions
        \/ receipt = "absent" /\ receipt' = "recovery_point_ready"
        \/ <<receipt, receipt'>> \in verifications
    BY <1>1, <1>4, ReceiptMoves
  <2>4. \/ verdict = "open" \/ verdict' = "open" \/ verdict' = verdict
    BY <2>3 DEF phaseTransitions, verifications, verdict
  <2>5. /\ verdict' = "replaced" => serving = "replacement"
        /\ verdict' = "restored" => serving = "original"
    <3>1. receipt' = "rolled_back" /\ ~overwrote' => files["live"] \in {"original", "materialized"}
      BY <2>1 DEF CommandInv, Inv, TypeOK, ReceiptTypeOK, DirectoryTypeOK, CrashConsistent, Agree, RestoredFiles
    <3>2. receipt' \in {"swapped", "verified", "post_complete_failed"} => files["live"] = "candidate"
      BY <2>1 DEF FilesInv, SwappedAgrees, SwappedFiles
    <3> QED
      BY <3>1, <3>2 DEF verdict, serving
  <2> QED
    BY <2>2, <2>4, <2>5, VerdictIsTrue DEF verdict
<1> QED
  BY <1>2, <1>3, <1>4

\* The replacement is atomic for the portal: while power does not fail, the commands
\* implement DatabaseReplacement, which gives a verdict only while it is true, and
\* none after a catch block has overwritten a database it could not inspect.
THEOREM ReplacementIsAtomic == ~PowerMayFail => (Spec => ReplacesAtomically)
<1> SUFFICES ASSUME ~PowerMayFail PROVE Spec => ReplacesAtomically
  OBVIOUS
<1>1. Init => Abstract!Init
  BY DEF Init, Abstract!Init
<1>2. CommandInv /\ FilesInv /\ (CommandInv /\ FilesInv)' /\ [Next]_vars => [Abstract!Next]_(Abstract!vars)
  <2> SUFFICES ASSUME CommandInv, FilesInv, CommandInv', FilesInv', [Next]_vars
               PROVE  [Abstract!Next]_(Abstract!vars)
    OBVIOUS
  <2> QED
    BY VerdictMoves
    DEF serving, verdict, Abstract!Next, Abstract!Move, Abstract!Commit, Abstract!Restore, Abstract!Withdraw, Abstract!vars
<1> QED
  BY <1>1, <1>2, CommandInvHolds, FilesInvHolds, PTL DEF Spec, ReplacesAtomically, Abstract!Spec

-----------------------------------------------------------------------------

\* A command the command line starts is one the operations could start.
LEMMA CliBeginsCommand == cliBegin => commandBegin
  BY DEF cliBegin, restoreHandler, commandBegin

\* Every behaviour of the command line is a behaviour of the operations.
THEOREM CliImplementsOperations == CliSpec => Spec
<1>1. CliNext => Next
  BY CliBeginsCommand DEF CliNext, Next
<1>2. [CliNext]_vars => [Next]_vars
  BY <1>1
<1> QED
  BY <1>2, PTL DEF CliSpec, Spec

\* Hence the original database survives the command line, crashes and power losses
\* as it survives the operations.
THEOREM CliOriginalSurvives == CliSpec => []OriginalSurvives
  BY CliImplementsOperations, OriginalAlwaysSurvives, PTL
=============================================================================
