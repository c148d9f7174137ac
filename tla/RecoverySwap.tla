----------------------------- MODULE RecoverySwap -----------------------------
(***************************************************************************)
(* The offline replacement of the portal database: the receipt, the        *)
(* recovery point, the candidate, the swap, its reconciliation after a     *)
(* crash, the rollback, and the online verification that closes the        *)
(* receipt (src/src/recovery/).  One receipt, one live database.           *)
(*                                                                         *)
(* The directory is the state that matters.  `files' is what a process     *)
(* sees; `images' is every directory a power loss may leave, that is every *)
(* directory since the last fsync of it.  The receipt lives in another     *)
(* directory and has its own pair, `receipt' and `receiptImages'.  A       *)
(* database is named, not spelt out: its bytes are its name and the number *)
(* of times the portal wrote to it.                                        *)
(***************************************************************************)
EXTENDS Naturals, FiniteSets

CONSTANTS
    PowerMayFail,        \* may power be lost, or do only processes crash?
    MaxEdits,            \* bound: writes of the portal to one database
    MaxCrashes,          \* bound: process crashes and power losses
    MaxFaults            \* bound: system calls that fail

ASSUME SwapAssumption ==
    /\ PowerMayFail \in BOOLEAN
    /\ MaxEdits \in Nat /\ MaxCrashes \in Nat /\ MaxFaults \in Nat

VARIABLES
    files,          \* the database directory: path -> database, or "none"
    images,         \* the directories a power loss may leave
    edits,          \* database -> writes of the portal since it was created
    receipt,        \* phase of the receipt file, "absent" before backup-current
    receiptImages,  \* the phases a power loss may leave
    pointMatches,   \* does the recovery point hold the bytes the receipt names?
    cmd,            \* the locked command that runs, Idle when none does
    verifier,       \* the verify command that runs, NoVerify when none does
    crashes, faults,
    overwrote       \* history: did a catch block rename over a live database?

disk == <<files, images, edits>>
paper == <<receipt, receiptImages, pointMatches>>
budget == <<crashes, faults>>
vars == <<files, images, edits, receipt, receiptImages, pointMatches, cmd,
          verifier, crashes, faults, overwrote>>

Paths == {"live", "candidate", "rollback", "failed", "recoveryTemp"}
Databases == {"original", "candidate", "materialized", "fresh"}
Directories == [Paths -> Databases \cup {"none"}]

Phases == {"absent", "recovery_point_ready", "candidate_ready", "swap_started",
           "swapped", "verified", "rollback_started", "rolled_back", "failed",
           "post_complete_failed"}

\* The phases a transition may follow, as the table phaseTransitions has them.
phaseTransitions ==
    {<<"recovery_point_ready", "candidate_ready">>,
     <<"recovery_point_ready", "failed">>,
     <<"candidate_ready", "swap_started">>, <<"candidate_ready", "failed">>,
     <<"swap_started", "swapped">>, <<"swap_started", "failed">>,
     <<"swap_started", "rollback_started">>,
     <<"swapped", "verified">>, <<"swapped", "failed">>,
     <<"swapped", "post_complete_failed">>, <<"swapped", "rollback_started">>,
     <<"rollback_started", "rolled_back">>, <<"rollback_started", "failed">>,
     <<"failed", "rollback_started">>,
     <<"post_complete_failed", "rollback_started">>}

rollbackPhases == {"swap_started", "swapped", "failed", "post_complete_failed"}

Idle == [op |-> "none", step |-> "none", source |-> "none"]
NoVerify == [step |-> "none", phase |-> "none"]
At(op, step) == cmd.op = op /\ cmd.step = step
Goto(step) == [cmd EXCEPT !.step = step]

-----------------------------------------------------------------------------
\* Files and their bytes.

Bytes(db) == [db    |-> IF db = "materialized" /\ pointMatches THEN "original" ELSE db,
              edits |-> edits[db]]
originalSha256 == [db |-> "original", edits |-> 0]
candidateSha256 == [db |-> "candidate", edits |-> 0]

absent(path) == files[path] = "none"
isHash(path, sha) == ~absent(path) /\ Bytes(files[path]) = sha

\* A directory operation reaches the disk in order, at the latest with the
\* next fsync of the directory.
Change(dir) == files' = dir /\ images' = images \cup {dir}
Renamed(from, to) == [files EXCEPT ![to] = files[from], ![from] = "none"]
rename(from, to) == Change(Renamed(from, to)) /\ UNCHANGED edits
fsyncDirectory == images' = {files} /\ UNCHANGED <<files, edits>>

Fails == faults < MaxFaults /\ faults' = faults + 1
Works == UNCHANGED faults

\* writeRecoveryReceiptAtomic: done; failed with the old receipt in place; or
\* failed with the new one in place, its directory entry not yet on disk.
WriteReceipt(phase, done, onError) ==
    \/ Works /\ receipt' = phase /\ receiptImages' = {phase} /\ done
    \/ Fails /\ UNCHANGED <<receipt, receiptImages>> /\ onError
    \/ Fails /\ receipt' = phase /\ receiptImages' = receiptImages \cup {phase} /\ onError

-----------------------------------------------------------------------------
Init ==
    /\ files = [p \in Paths |-> IF p = "live" THEN "original" ELSE "none"]
    /\ images = {files}
    /\ edits = [db \in Databases |-> 0]
    /\ receipt = "absent" /\ receiptImages = {"absent"}
    /\ pointMatches \in BOOLEAN
    /\ cmd = Idle /\ verifier = NoVerify
    /\ crashes = 0 /\ faults = 0 /\ overwrote = FALSE

\* backup-current: recovery point, then a new receipt.  Nothing else changes.
createRecoveryPoint ==
    /\ cmd = Idle /\ receipt = "absent" /\ isHash("live", originalSha256)
    /\ WriteReceipt("recovery_point_ready", TRUE, TRUE)
    /\ UNCHANGED <<disk, pointMatches, cmd, verifier, crashes, overwrote>>

\* restore in recovery_point_ready: the candidate is cloned from live.
buildRecoveryCandidate ==
    /\ cmd = Idle /\ receipt = "recovery_point_ready"
    /\ isHash("live", originalSha256) /\ absent("candidate")
    /\ Change([files EXCEPT !["candidate"] = "candidate"])
    /\ cmd' = [op |-> "restore", step |-> "bind", source |-> "none"]
    /\ UNCHANGED <<edits, paper, verifier, budget, overwrote>>

\* A candidate that fails a check is removed; the receipt keeps its phase.
candidateRejected ==
    /\ At("restore", "bind") /\ Fails
    /\ \/ Change([files EXCEPT !["candidate"] = "none"])
       \/ UNCHANGED <<files, images>>            \* removeCandidate failed as well
    /\ cmd' = Idle
    /\ UNCHANGED <<edits, paper, verifier, crashes, overwrote>>

bindRecoveryCandidateReceipt ==
    /\ At("restore", "bind")
    /\ WriteReceipt("candidate_ready", cmd' = Goto("swap"), cmd' = Idle)
    /\ UNCHANGED <<disk, pointMatches, verifier, crashes, overwrote>>

-----------------------------------------------------------------------------
\* swapRecoveryCandidate.  An error after `swap_started' is reported and left
\* as it is.  The files are hashed once more before `swapped', `failed' and
\* `rolled_back' are written; nothing writes to them while a command runs, so the
\* comparison is a guard here and its error path has no step.

\* Slip: the phase is not compared with the receipt's.
swapAdmitsAnyPhase ==
    /\ receipt \in {"recovery_point_ready", "candidate_ready"}
    /\ isHash("live", originalSha256)
    /\ isHash("candidate", candidateSha256)
    /\ absent("rollback")

\* Slip: the live database is not hashed again.
swapAdmitsAnyLive ==
    /\ receipt = "candidate_ready"
    /\ ~absent("live")
    /\ isHash("candidate", candidateSha256)
    /\ absent("rollback")

swapAdmits ==
    /\ receipt = "candidate_ready"
    /\ isHash("live", originalSha256)
    /\ isHash("candidate", candidateSha256)
    /\ absent("rollback")

swapBegin ==
    /\ \/ cmd = Idle /\ swapAdmits
       \/ At("restore", "swap")
    /\ cmd' = IF swapAdmits
               THEN [op |-> "swap", step |-> "recordStart", source |-> "candidate"]
               ELSE Idle
    /\ UNCHANGED <<disk, paper, verifier, budget, overwrote>>

swapRecordStart ==
    /\ At("swap", "recordStart")
    /\ WriteReceipt("swap_started", cmd' = Goto("renameLive"), cmd' = Idle)
    /\ UNCHANGED <<disk, pointMatches, verifier, crashes, overwrote>>

\* Slip: the candidate is renamed first, over the live database.
swapRenameCandidateFirst ==
    /\ At("swap", "renameLive")
    /\ Works /\ rename("candidate", "live") /\ cmd' = Goto("renameCandidate")
    /\ UNCHANGED <<paper, verifier, crashes, overwrote>>

swapRenameLive ==
    /\ At("swap", "renameLive")
    /\ \/ Works /\ rename("live", "rollback") /\ cmd' = Goto("renameCandidate")
       \/ Fails /\ UNCHANGED disk /\ cmd' = Idle
    /\ UNCHANGED <<paper, verifier, crashes, overwrote>>

swapRenameCandidate ==
    /\ At("swap", "renameCandidate")
    /\ \/ Works /\ ~absent("candidate") /\ rename("candidate", "live") /\ cmd' = Goto("fsync")
       \/ Fails /\ UNCHANGED disk /\ cmd' = Idle
       \/ Works /\ absent("candidate") /\ UNCHANGED disk /\ cmd' = Idle
    /\ UNCHANGED <<paper, verifier, crashes, overwrote>>

swapFsync ==
    /\ At("swap", "fsync")
    /\ \/ Works /\ fsyncDirectory /\ cmd' = Goto("recordEnd")
       \/ Fails /\ UNCHANGED disk /\ cmd' = Idle
    /\ UNCHANGED <<paper, verifier, crashes, overwrote>>

swapRecordEnd ==
    /\ At("swap", "recordEnd")
    /\ isHash("live", candidateSha256) /\ isHash("rollback", originalSha256)
    /\ WriteReceipt("swapped", cmd' = Idle, cmd' = Idle)
    /\ UNCHANGED <<disk, pointMatches, verifier, crashes, overwrote>>

-----------------------------------------------------------------------------
\* reconcileRecoveryReceipt: what an interrupted swap left decides what to do.

\* Slip: a directory without a live database is always ambiguous.
classifyWithLiveOnly ==
    IF /\ receipt = "swap_started"
       /\ isHash("live", candidateSha256) /\ isHash("rollback", originalSha256)
    THEN "continue_verification" ELSE "ambiguous"

classifyRecoveryFilesystem ==
    CASE /\ receipt \in {"candidate_ready", "swap_started"}
         /\ isHash("live", originalSha256)
         /\ isHash("candidate", candidateSha256)
         /\ absent("rollback")                            -> "ready_to_swap"
      [] /\ receipt = "swap_started"
         /\ absent("live")
         /\ isHash("candidate", candidateSha256)
         /\ isHash("rollback", originalSha256)            -> "finish_swap"
      [] /\ receipt = "swap_started"
         /\ absent("live") /\ absent("candidate")
         /\ isHash("rollback", originalSha256)            -> "restore_original"
      [] /\ receipt \in {"swap_started", "swapped"}
         /\ isHash("live", candidateSha256)
         /\ absent("candidate")
         /\ isHash("rollback", originalSha256)            -> "continue_verification"
      [] OTHER                                            -> "ambiguous"

\* `ready_to_swap', and `continue_verification' in swapped, return the receipt
\* as it is; an ambiguous directory is refused.
reconcileBegin ==
    /\ cmd = Idle /\ receipt = "swap_started"
    /\ \/ /\ classifyRecoveryFilesystem = "finish_swap"
          /\ cmd' = [op |-> "reconcile", step |-> "rename", source |-> "candidate"]
       \/ /\ classifyRecoveryFilesystem = "restore_original"
          /\ cmd' = [op |-> "reconcile", step |-> "rename", source |-> "rollback"]
       \/ /\ classifyRecoveryFilesystem = "continue_verification"
          /\ cmd' = [op |-> "reconcile", step |-> "record", source |-> "candidate"]
    /\ UNCHANGED <<disk, paper, verifier, budget, overwrote>>

reconcileRename ==
    /\ At("reconcile", "rename")
    /\ \/ Works /\ ~absent(cmd.source) /\ rename(cmd.source, "live") /\ cmd' = Goto("fsync")
       \/ Fails /\ UNCHANGED disk /\ cmd' = Idle
       \/ Works /\ absent(cmd.source) /\ UNCHANGED disk /\ cmd' = Idle
    /\ UNCHANGED <<paper, verifier, crashes, overwrote>>

reconcileFsync ==
    /\ At("reconcile", "fsync")
    /\ \/ Works /\ fsyncDirectory /\ cmd' = Goto("record")
       \/ Fails /\ UNCHANGED disk /\ cmd' = Idle
    /\ UNCHANGED <<paper, verifier, crashes, overwrote>>

reconcileRecord ==
    /\ At("reconcile", "record")
    /\ \/ /\ cmd.source = "candidate"
          /\ isHash("live", candidateSha256) /\ isHash("rollback", originalSha256)
          /\ WriteReceipt("swapped", cmd' = Idle, cmd' = Idle)
       \/ /\ cmd.source = "rollback"
          /\ isHash("live", originalSha256)
          /\ WriteReceipt("failed", cmd' = Idle, cmd' = Idle)
    /\ UNCHANGED <<disk, pointMatches, verifier, crashes, overwrote>>
-----------------------------------------------------------------------------
\* rollbackRecoverySwap: live -> failed, source -> live.  The source is the
\* retained original or, without one, the decrypted recovery point.

rollbackAdmits ==
    /\ receipt \in rollbackPhases
    /\ ~absent("live") /\ ~isHash("live", originalSha256)
    /\ absent("failed") /\ absent("recoveryTemp")
    /\ absent("rollback") \/ isHash("rollback", originalSha256)

\* Slip: the first rename comes before the receipt.
rollbackBeginUnrecorded ==
    /\ cmd = Idle /\ rollbackAdmits /\ ~absent("rollback")
    /\ cmd' = [op |-> "rollback", step |-> "renameLive", source |-> "rollback"]
    /\ UNCHANGED <<disk, paper, verifier, budget, overwrote>>

rollbackBegin ==
    /\ cmd = Idle /\ rollbackAdmits
    /\ cmd' = IF absent("rollback")
               THEN [op |-> "rollback", step |-> "materialize", source |-> "recoveryTemp"]
               ELSE [op |-> "rollback", step |-> "recordStart", source |-> "rollback"]
    /\ UNCHANGED <<disk, paper, verifier, budget, overwrote>>

\* Decrypts the recovery point.  A failed decryption removes its output, a
\* failed integrity check after it does not; bytes other than the receipt's
\* end in the catch block.
materializeRecoveryPoint ==
    /\ At("rollback", "materialize")
    /\ \/ /\ Works
          /\ Change([files EXCEPT !["recoveryTemp"] = "materialized"])
          /\ edits' = [edits EXCEPT !["materialized"] = 0]
          /\ cmd' = IF pointMatches THEN Goto("recordStart") ELSE Goto("discard")
       \/ /\ Fails
          /\ UNCHANGED disk /\ cmd' = Idle
       \/ /\ Fails
          /\ Change([files EXCEPT !["recoveryTemp"] = "materialized"])
          /\ edits' = [edits EXCEPT !["materialized"] = 0]
          /\ cmd' = Idle
    /\ UNCHANGED <<paper, verifier, crashes, overwrote>>

rollbackRecordStart ==
    /\ At("rollback", "recordStart")
    /\ WriteReceipt("rollback_started", cmd' = Goto("renameLive"), cmd' = Goto("discard"))
    /\ UNCHANGED <<disk, pointMatches, verifier, crashes, overwrote>>

rollbackRenameLive ==
    /\ At("rollback", "renameLive")
    /\ \/ Works /\ rename("live", "failed") /\ cmd' = Goto("renameSource")
       \/ Fails /\ UNCHANGED disk /\ cmd' = Goto("discard")
    /\ UNCHANGED <<paper, verifier, crashes, overwrote>>

rollbackRenameSource ==
    /\ At("rollback", "renameSource")
    /\ \/ Works /\ rename(cmd.source, "live") /\ cmd' = Goto("fsync")
       \/ Fails /\ UNCHANGED disk /\ cmd' = Goto("undo")
    /\ UNCHANGED <<paper, verifier, crashes, overwrote>>

\* Slip: `rolled_back' is written without the fsync of the directory.
rollbackWithoutFsync ==
    /\ At("rollback", "fsync") /\ cmd' = Goto("recordEnd")
    /\ UNCHANGED <<disk, paper, verifier, budget, overwrote>>

rollbackFsync ==
    /\ At("rollback", "fsync")
    /\ \/ Works /\ fsyncDirectory /\ cmd' = Goto("recordEnd")
       \/ Fails /\ UNCHANGED disk /\ cmd' = Goto("undo")
    /\ UNCHANGED <<paper, verifier, crashes, overwrote>>

rollbackRecordEnd ==
    /\ At("rollback", "recordEnd")
    /\ isHash("live", originalSha256) /\ ~absent("failed")
    /\ WriteReceipt("rolled_back", cmd' = Idle, cmd' = Goto("undo"))
    /\ UNCHANGED <<disk, pointMatches, verifier, crashes, overwrote>>

\* Slip: the error is reported without undoing the first rename.
rollbackUndoSkipped ==
    /\ At("rollback", "undo") /\ cmd' = Goto("discard")
    /\ UNCHANGED <<disk, paper, verifier, budget, overwrote>>

\* The catch block, once the first rename is done: is there no live database, and
\* is there a failed one?  An inspection that fails counts as one that finds
\* nothing, so live may be there when it is not seen.
rollbackInspect ==
    /\ At("rollback", "undo")
    /\ \E blind \in {"none", "live", "failed"} :
          /\ IF blind = "none" THEN Works ELSE Fails
          /\ cmd' = IF /\ absent("live") \/ blind = "live"
                       /\ ~absent("failed") /\ blind # "failed"
                    THEN Goto("putBack") ELSE Goto("discard")
    /\ UNCHANGED <<disk, paper, verifier, crashes, overwrote>>

\* Then failed is renamed back to live; the errors of the rename and of the fsync
\* are swallowed.
rollbackPutBack ==
    /\ At("rollback", "putBack")
    /\ \/ /\ \/ Works /\ files' = Renamed("failed", "live") /\ images' = {files'}
             \/ Fails /\ Change(Renamed("failed", "live"))
          /\ overwrote' = (overwrote \/ ~absent("live"))
       \/ Fails /\ UNCHANGED <<files, overwrote>> /\ images' \in {images, {files}}
    /\ cmd' = Goto("discard")
    /\ UNCHANGED <<edits, paper, verifier, crashes>>

\* ... and removes a decrypted recovery point that was not renamed.
rollbackDiscard ==
    /\ At("rollback", "discard")
    /\ \/ /\ cmd.source = "recoveryTemp" /\ ~absent("recoveryTemp")
          /\ \/ Works /\ Change([files EXCEPT !["recoveryTemp"] = "none"])
             \/ Fails /\ UNCHANGED <<files, images>>
       \/ /\ cmd.source # "recoveryTemp" \/ absent("recoveryTemp")
          /\ Works /\ UNCHANGED <<files, images>>
    /\ cmd' = Idle
    /\ UNCHANGED <<edits, paper, verifier, crashes, overwrote>>

-----------------------------------------------------------------------------
\* verify takes no lock: it holds the receipt it loaded until the portal has
\* answered, and writes the next phase from that copy.

\* Slip: a failed receipt may be verified as well.
verifyBeginFailed ==
    /\ verifier = NoVerify /\ receipt \in {"swapped", "failed"}
    /\ verifier' = [step |-> "online", phase |-> "swapped"]
    /\ UNCHANGED <<disk, paper, cmd, budget, overwrote>>

verifyBegin ==
    /\ verifier = NoVerify /\ receipt = "swapped"
    /\ verifier' = [step |-> "online", phase |-> "swapped"]
    /\ UNCHANGED <<disk, paper, cmd, budget, overwrote>>

verifySucceeds ==
    /\ verifier.step = "online"
    /\ WriteReceipt("verified", verifier' = NoVerify,
                    verifier' = [step |-> "recordFailure", phase |-> "failed"])
    /\ UNCHANGED <<disk, pointMatches, cmd, crashes, overwrote>>

verifyFails ==
    /\ verifier.step = "online"
    /\ \E phase \in {"failed", "post_complete_failed"} :
          verifier' = [step |-> "recordFailure", phase |-> phase]
    /\ UNCHANGED <<disk, paper, cmd, budget, overwrote>>

recordVerificationFailure ==
    /\ verifier.step = "recordFailure"
    /\ WriteReceipt(verifier.phase, verifier' = NoVerify, verifier' = NoVerify)
    /\ UNCHANGED <<disk, pointMatches, cmd, crashes, overwrote>>

-----------------------------------------------------------------------------
\* The surroundings.

\* The running portal writes to the live database.
portalWrites ==
    /\ cmd = Idle
    /\ receipt # "absent" /\ ~absent("live") /\ edits[files["live"]] < MaxEdits
    /\ edits' = [edits EXCEPT ![files["live"]] = @ + 1]
    /\ UNCHANGED <<files, images, paper, cmd, verifier, budget, overwrote>>

\* SQLite creates the database the portal opens when there is none.
portalCreates ==
    /\ cmd = Idle /\ absent("live")
    /\ \A dir \in images, p \in Paths : dir[p] # "fresh"
    /\ Change([files EXCEPT !["live"] = "fresh"])
    /\ UNCHANGED <<edits, paper, cmd, verifier, budget, overwrote>>

\* The candidate is lost from outside: what restore_original is there for.
candidateVanishes ==
    /\ receipt \in {"candidate_ready", "swap_started"}
    /\ files["candidate"] = "candidate"
    /\ files' = [files EXCEPT !["candidate"] = "none"]
    /\ images' = {[dir EXCEPT !["candidate"] = "none"] : dir \in images}
    /\ UNCHANGED <<edits, paper, cmd, verifier, budget, overwrote>>

processCrash ==
    /\ crashes < MaxCrashes /\ crashes' = crashes + 1
    /\ cmd # Idle \/ verifier # NoVerify
    /\ cmd' = Idle /\ verifier' = NoVerify
    /\ UNCHANGED <<disk, paper, faults, overwrote>>

powerLoss ==
    /\ PowerMayFail
    /\ crashes < MaxCrashes /\ crashes' = crashes + 1
    /\ files' \in images /\ images' = {files'}
    /\ receipt' \in receiptImages /\ receiptImages' = {receipt'}
    /\ cmd' = Idle /\ verifier' = NoVerify
    /\ UNCHANGED <<edits, pointMatches, faults, overwrote>>

-----------------------------------------------------------------------------
swapNext == swapRecordStart \/ swapRenameLive \/ swapRenameCandidate \/ swapFsync \/ swapRecordEnd
reconcileNext == reconcileRename \/ reconcileFsync \/ reconcileRecord
rollbackNext ==
    \/ materializeRecoveryPoint \/ rollbackRecordStart \/ rollbackRenameLive
    \/ rollbackRenameSource \/ rollbackFsync \/ rollbackRecordEnd
    \/ rollbackInspect \/ rollbackPutBack \/ rollbackDiscard
verifyNext == verifySucceeds \/ verifyFails \/ recordVerificationFailure
environment ==
    portalWrites \/ portalCreates \/ candidateVanishes \/ processCrash \/ powerLoss

commandNext ==
    \/ candidateRejected \/ bindRecoveryCandidateReceipt
    \/ At("restore", "swap") /\ swapBegin
    \/ swapNext \/ reconcileNext \/ rollbackNext
commandBegin ==
    \/ createRecoveryPoint \/ buildRecoveryCandidate
    \/ cmd = Idle /\ swapBegin
    \/ reconcileBegin \/ rollbackBegin

\* The operator runs one command at a time: flock enforces it among the
\* commands that change the directory, the guide asks it of verify.
Next ==
    \/ verifier = NoVerify /\ commandBegin
    \/ commandNext
    \/ cmd = Idle /\ verifyBegin
    \/ verifyNext
    \/ environment

Spec == Init /\ [][Next]_vars

\* What the lock alone enforces: a command may start, with the dashboard stopped
\* for it, before a verify that still waits for the dashboard has ended.
OverlapNext ==
    \/ commandBegin
    \/ commandNext
    \/ cmd = Idle /\ verifyBegin
    \/ verifyNext
    \/ environment
OverlapSpec == Init /\ [][OverlapNext]_vars /\ WF_vars(commandNext) /\ WF_vars(verifyNext)

-----------------------------------------------------------------------------
(* Properties. *)

DirectoryTypeOK ==
    /\ files \in Directories
    /\ images \subseteq Directories /\ files \in images
    /\ edits \in [Databases -> Nat]

ReceiptTypeOK ==
    /\ receipt \in Phases
    /\ receiptImages \subseteq Phases /\ receipt \in receiptImages
    /\ pointMatches \in BOOLEAN

ControlTypeOK ==
    /\ cmd \in [op: {"none", "restore", "swap", "reconcile", "rollback"},
                step: {"none", "bind", "swap", "recordStart", "renameLive",
                       "renameCandidate", "fsync", "recordEnd", "rename", "record",
                       "materialize", "renameSource", "undo", "putBack", "discard"},
                source: {"none", "candidate", "rollback", "recoveryTemp"}]
    /\ verifier \in [step: {"none", "online", "recordFailure"},
                     phase: {"none", "swapped", "failed", "post_complete_failed"}]
    /\ crashes \in Nat /\ faults \in Nat /\ overwrote \in BOOLEAN

\* Paths hold databases, the receipt holds a phase, and what is visible is among
\* what a power loss may leave.
TypeOK == DirectoryTypeOK /\ ReceiptTypeOK /\ ControlTypeOK

\* No rename, no crash and no power loss, at whatever step it strikes, leaves a
\* directory without the database the operation started from.  The one exception
\* is in the code and takes two failing calls: the catch block of a rollback whose
\* fsync or receipt failed, and that then could not inspect live, puts the failed
\* database over the restored one.
OriginalSurvives ==
    /\ overwrote \/ \A dir \in images : \E p \in Paths : dir[p] = "original"
    /\ overwrote => faults >= 2

\* The retained original is the very database the receipt names: the portal never
\* wrote to it between the receipt and the rename that retained it, and no path
\* leads an original that went live again back to the rollback name.
RetainedIsExact ==
    files["rollback"] # "none" => isHash("rollback", originalSha256)

\* What a phase says of the directory.
SwappedFiles(dir) ==
    dir["live"] = "candidate" /\ dir["candidate"] = "none" /\ dir["rollback"] = "original"
RestoredFiles(dir) ==
    /\ dir["live"] = "original" \/ (dir["live"] = "materialized" /\ pointMatches)
    /\ dir["failed"] # "none"
UntouchedFiles(dir) ==
    dir["live"] = "original" /\ dir["rollback"] = "none" /\ dir["failed"] = "none"

Agree(phase, dir) ==
    /\ phase \in {"absent", "recovery_point_ready", "candidate_ready"} => UntouchedFiles(dir)
    /\ phase = "rolled_back" => overwrote \/ RestoredFiles(dir)

\* The receipt and the directory reach the disk separately, so what a phase says
\* has to hold for every pair a power loss may leave: `swap_started' and
\* `rollback_started' are on disk before the first rename, and the directory is on
\* disk before `rolled_back'.  (`swapped' is another matter: SwappedIsDurable; and
\* `rolled_back' may be in place when its write reports an error and the catch
\* block then overwrites the restored database.)
CrashConsistent ==
    \A phase \in receiptImages, dir \in images : Agree(phase, dir)

\* However many processes crashed on the way, a receipt in `swapped', or in a phase the
\* verification gives it, stands beside the exchanged files: live holds the
\* candidate and the original is retained.
SwappedAgrees ==
    receipt \in {"swapped", "verified", "post_complete_failed"} => SwappedFiles(files)

\* The locked commands move the receipt along phaseTransitions, judged by the
\* phase on disk at the write, not the one they loaded.
CommandsFollowPhases ==
    [][(cmd # Idle /\ receipt' # receipt /\ crashes' = crashes)
         => <<receipt, receipt'>> \in phaseTransitions]_vars

\* A rollback that ends by itself leaves a live database, unless a second
\* system call failed while its catch block put the first one back.
RollbackLeavesDatabase ==
    [][(cmd.op = "rollback" /\ cmd' = Idle /\ crashes' = crashes /\ faults' < 2)
         => files'["live"] # "none"]_vars

\* Wherever a crash or a power loss stops a swap or its reconciliation, the files
\* still tell classifyRecoveryFilesystem what to do, unless the portal wrote to one
\* of the two databases or created one, or the candidate was lost and the original
\* is live: before the first rename, or after `restore_original' brought it back and
\* stopped before `failed'.
InterruptedSwapIsRecognised ==
    (/\ cmd = Idle /\ receipt = "swap_started"
     /\ edits["original"] = 0 /\ edits["candidate"] = 0 /\ files["live"] # "fresh"
     /\ files["live"] = "original" => ~absent("candidate"))
        => classifyRecoveryFilesystem # "ambiguous"

\* The replacement promised to the portal, whatever the files go through.  A
\* rollback gives its verdict when it ends, and none when its catch block has
\* overwritten the restored database.
Abstract == INSTANCE DatabaseReplacement WITH
    serving <- CASE files["live"] = "none" -> "none"
                 [] files["live"] = "candidate" -> "replacement"
                 [] files["live"] = "fresh" -> "foreign"
                 [] OTHER -> "original",
    verdict <- CASE receipt \in {"swapped", "verified", "post_complete_failed"} -> "replaced"
                 [] receipt = "rolled_back" /\ cmd.op # "rollback" /\ ~overwrote -> "restored"
                 [] OTHER -> "open"
ReplacesAtomically == Abstract!Spec

-----------------------------------------------------------------------------
(* Statements of the documentation that the code does not meet. *)

\* The order of the design, rename, fsync of the directory, `swapped': once the
\* receipt says `swapped', no power loss takes the exchange back.
SwappedIsDurable ==
    receiptImages = {"swapped"} => \A dir \in images : SwappedFiles(dir)

\* docs/operations/OFFLINE_FULL_RESTORE.md: for `rollback_started' continue the rollback with the same paths.
StartedRollbackContinues ==
    (cmd = Idle /\ receipt = "rollback_started") => rollbackAdmits

\* phaseTransitions: nothing follows `verified' or `rolled_back'.
TerminalPhasesStay ==
    [][(receipt \in {"verified", "rolled_back"} /\ crashes' = crashes)
         => receipt' = receipt]_vars
=============================================================================
