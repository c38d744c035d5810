---------------------------- MODULE DisposableApply ----------------------------
(***************************************************************************)
(* The disposable apply of the workflow router: packet operations are      *)
(* applied to a copy of the target repository and rolled back, and the     *)
(* hashes taken on the way are the proof that the target was left alone    *)
(* and the copy restored.  The copy is the run's own: only the target has  *)
(* other writers.  controllers/workflow_router/plan.py,                    *)
(* invoke_disposable_copy_apply.  Hashes are seen as what they are of.     *)
(***************************************************************************)
EXTENDS TargetRepository

CONSTANTS
    Tracked,         \* the files in the target's own git index
    BackupNames,     \* file names in rollback-backups/
    BackupName       \* BackupName[f]: artifact_safe_name of f

ASSUME BackupAssumption == BackupName \in [Files -> BackupNames]

VARIABLES
    versioned,       \* whether the target is the top of a git repository
    nested,          \* whether the run directory lies inside the target
    applyAt,         \* the next statement
    copied,          \* the files copytree has been at
    copy,            \* copy[f]: the content of f in the disposable copy
    sourceSeen,      \* the digests of the target: tree, files, tree, files, tree
    copyBefore,      \* the copy's digest before the operations
    copyAfter,       \*                   and after them
    backups,         \* backups[name]: what is in that backup file
    backedUp,        \* the files with an entry in the dictionary of backups
    cursor,          \* the next operation of the implementation workflow
    applyStatus,     \* its result: "none", "completed" or "failed"
    rollback,        \* the status in the rollback proof
    applyOutcome     \* "none", "finished" or why the apply was given up

applyVars == <<versioned, nested, applyAt, copied, copy, sourceSeen, copyBefore, copyAfter,
               backups, backedUp, cursor, applyStatus, rollback, applyOutcome>>

ApplyOutcomes ==
    {"none", "finished", "raised", "source_mutation_detected",
     "disposable_copy_not_mutated", "disposable_copy_rollback_failed"}

NoTree == [f \in Files |-> Absent]

ApplyTypeOK ==
    /\ versioned \in BOOLEAN /\ nested \in BOOLEAN
    /\ applyAt \in {"idle", "copying", "prepare", "digest", "backup", "apply",
                    "digest-again", "rollback", "finish", "done"}
    /\ copied \subseteq Files
    /\ copy \in Tree /\ copyBefore \in Tree /\ copyAfter \in Tree
    /\ sourceSeen \in Seq(Tree) /\ Len(sourceSeen) <= 5
    /\ backups \in [BackupNames -> Content \cup {Absent}]
    /\ backedUp \subseteq Files
    /\ cursor \in 1 .. Len(operations) + 1
    /\ applyStatus \in {"none", "completed", "failed"}
    /\ rollback \in {"none", "restored", "failed"}
    /\ applyOutcome \in ApplyOutcomes

ApplyInit ==
    /\ versioned = FALSE
    /\ nested = FALSE
    /\ applyAt = "idle"
    /\ copied = {}
    /\ copy = NoTree /\ copyBefore = NoTree /\ copyAfter = NoTree
    /\ sourceSeen = <<>>
    /\ backups = [name \in BackupNames |-> Absent]
    /\ backedUp = {}
    /\ cursor = 1
    /\ applyStatus = "none"
    /\ rollback = "none"
    /\ applyOutcome = "none"

-----------------------------------------------------------------------------
\* Where the target and the run directory are shows only now.
StartApply ==
    /\ applyAt = "idle"
    /\ versioned' \in BOOLEAN
    /\ nested' \in BOOLEAN
    /\ applyAt' = "copying"
    /\ UNCHANGED <<copied, copy, sourceSeen, copyBefore, copyAfter,
                   backups, backedUp, cursor, applyStatus, rollback, applyOutcome>>

\* An error none of the checks below is about: no proof is written.
Raise ==
    /\ applyAt' = "done"
    /\ applyOutcome' = "raised"
    /\ UNCHANGED <<versioned, nested, copied, copy, sourceSeen, copyBefore, copyAfter,
                   backups, backedUp, cursor, applyStatus, rollback>>

\* copytree takes the files one by one, while others may write them.
CopyFile(f) ==
    /\ applyAt = "copying"
    /\ f \notin copied
    /\ copied' = copied \cup {f}
    /\ copy' = [copy EXCEPT ![f] = source[f]]
    /\ applyAt' = IF copied' = Files /\ ~ nested THEN "prepare" ELSE "copying"
    /\ UNCHANGED <<versioned, nested, sourceSeen, copyBefore, copyAfter,
                   backups, backedUp, cursor, applyStatus, rollback, applyOutcome>>

\* A directory is copied into itself, or a file has gone since it was listed.
CopyFails ==
    /\ applyAt = "copying"
    /\ \/ nested
       \/ \E f \in Files \ copied : source[f] = Absent /\ InitialTree[f] # Absent
    /\ Raise

\* The contract, which the checked paths fulfil, and initialize_disposable_git_repo:
\* git add of a path that is not there fails.
Prepare ==
    /\ applyAt = "prepare"
    /\ versioned \/ \A f \in Targets : copy[f] # Absent
    /\ applyAt' = "digest"
    /\ UNCHANGED <<versioned, nested, copied, copy, sourceSeen, copyBefore, copyAfter,
                   backups, backedUp, cursor, applyStatus, rollback, applyOutcome>>

PrepareFails ==
    /\ applyAt = "prepare"
    /\ ~ versioned
    /\ \E f \in Targets : copy[f] = Absent
    /\ Raise

\* source_tree_before and copy_tree_before; copy_before is part of the latter.
DigestTrees ==
    /\ applyAt = "digest"
    /\ sourceSeen = <<>>
    /\ sourceSeen' = <<source>>
    /\ copyBefore' = copy
    /\ UNCHANGED <<versioned, nested, applyAt, copied, copy, copyAfter,
                   backups, backedUp, cursor, applyStatus, rollback, applyOutcome>>

\* source_before.
HashSource ==
    /\ applyAt = "digest"
    /\ Len(sourceSeen) = 1
    /\ sourceSeen' = Append(sourceSeen, source)
    /\ applyAt' = "backup"
    /\ UNCHANGED <<versioned, nested, copied, copy, copyBefore, copyAfter,
                   backups, backedUp, cursor, applyStatus, rollback, applyOutcome>>

\* The operations whose target is there and has its backup in that file.
Writers(name) ==
    {i \in DOMAIN operations : copy[operations[i].path] # Absent
                               /\ BackupName[operations[i].path] = name}

\* backup_operation_targets: in the order of the operations, so that of two
\* targets with one backup name the later one is in the file.
BackUp ==
    /\ applyAt = "backup"
    /\ backedUp' = {f \in Targets : copy[f] # Absent}
    /\ backups' = [name \in BackupNames |->
                      IF Writers(name) = {} THEN backups[name]
                      ELSE copy[operations[Max(Writers(name))].path]]
    /\ applyAt' = "apply"
    /\ UNCHANGED <<versioned, nested, copied, copy, sourceSeen, copyBefore, copyAfter,
                   cursor, applyStatus, rollback, applyOutcome>>

\* process_packet_apply in the copy, whose index holds what the target's own
\* does, or the targets just added.
Refused(operation) ==
    \/ versioned /\ operation.path \notin Tracked
    \/ operation.kind = "create_file"
    \/ ~ Applicable(operation, copy[operation.path])

ApplyPacket ==
    /\ applyAt = "apply"
    /\ cursor <= Len(operations)
    /\ LET operation == operations[cursor]
       IN  /\ ~ Refused(operation)
           /\ copy' = [copy EXCEPT ![operation.path] = Applied(operation, @)]
    /\ cursor' = cursor + 1
    /\ UNCHANGED <<versioned, nested, applyAt, copied, sourceSeen, copyBefore, copyAfter,
                   backups, backedUp, applyStatus, rollback, applyOutcome>>

\* The first packet that is refused ends the implementation run, which says so
\* in its result and raises nothing.
ApplyEnds ==
    /\ applyAt = "apply"
    /\ cursor <= Len(operations) => Refused(operations[cursor])
    /\ applyStatus' = IF cursor > Len(operations) THEN "completed" ELSE "failed"
    /\ applyAt' = "digest-again"
    /\ UNCHANGED <<versioned, nested, copied, copy, sourceSeen, copyBefore, copyAfter,
                   backups, backedUp, cursor, rollback, applyOutcome>>

\* The packet file is refused before the first packet.
ApplyRaises ==
    /\ applyAt = "apply"
    /\ cursor = 1
    /\ Raise

\* source_tree_after_apply, copy_tree_after_apply.
DigestTreesAgain ==
    /\ applyAt = "digest-again"
    /\ Len(sourceSeen) = 2
    /\ sourceSeen' = Append(sourceSeen, source)
    /\ copyAfter' = copy
    /\ UNCHANGED <<versioned, nested, applyAt, copied, copy, copyBefore,
                   backups, backedUp, cursor, applyStatus, rollback, applyOutcome>>

\* source_after.
HashSourceAgain ==
    /\ applyAt = "digest-again"
    /\ Len(sourceSeen) = 3
    /\ sourceSeen' = Append(sourceSeen, source)
    /\ applyAt' = "rollback"
    /\ UNCHANGED <<versioned, nested, copied, copy, copyBefore, copyAfter,
                   backups, backedUp, cursor, applyStatus, rollback, applyOutcome>>

\* Mutant: the last operation is not rolled back.
RestoredButLast ==
    [f \in Files |-> IF f \in backedUp \ {operations[Len(operations)].path}
                     THEN backups[BackupName[f]] ELSE copy[f]]

\* The copy after rollback_disposable_copy: every target with a backup gets
\* what is in its backup file.
Restored == [f \in Files |-> IF f \in backedUp THEN backups[BackupName[f]] ELSE copy[f]]

\* A target without a backup was not there, and is missing still.
Rollback ==
    /\ applyAt = "rollback"
    /\ copy' = Restored
    /\ rollback' = IF Targets \subseteq backedUp /\ \A f \in Targets : copy'[f] = copyBefore[f]
                   THEN "restored" ELSE "failed"
    /\ applyAt' = "finish"
    /\ UNCHANGED <<versioned, nested, copied, sourceSeen, copyBefore, copyAfter,
                   backups, backedUp, cursor, applyStatus, applyOutcome>>

\* Mutant: what the rollback says is not looked at.
OutcomeUnrestored(digests) ==
    IF \/ \E f \in Targets : digests[2][f] # digests[4][f]
       \/ digests[1] # digests[3]
       \/ digests[1] # digests[5]
    THEN "source_mutation_detected"
    ELSE IF \A f \in Targets : copyAfter[f] = copyBefore[f]
    THEN "disposable_copy_not_mutated"
    ELSE "finished"

\* The checks at the end, in their order.
Outcome(digests) ==
    IF \/ \E f \in Targets : digests[2][f] # digests[4][f]
       \/ digests[1] # digests[3]
       \/ digests[1] # digests[5]
    THEN "source_mutation_detected"
    ELSE IF \A f \in Targets : copyAfter[f] = copyBefore[f]
    THEN "disposable_copy_not_mutated"
    ELSE IF rollback # "restored" \/ copy # copyBefore
    THEN "disposable_copy_rollback_failed"
    ELSE "finished"

\* copy_tree_after_rollback and source_tree_after_rollback; the proof is written.
Finish ==
    /\ applyAt = "finish"
    /\ sourceSeen' = Append(sourceSeen, source)
    /\ applyOutcome' = Outcome(sourceSeen')
    /\ applyAt' = "done"
    /\ UNCHANGED <<versioned, nested, copied, copy, copyBefore, copyAfter,
                   backups, backedUp, cursor, applyStatus, rollback>>

ApplyStep ==
    /\ \/ \E f \in Files : CopyFile(f)
       \/ CopyFails \/ Prepare \/ PrepareFails
       \/ DigestTrees \/ HashSource \/ BackUp
       \/ ApplyPacket \/ ApplyEnds \/ ApplyRaises
       \/ DigestTreesAgain \/ HashSourceAgain \/ Rollback \/ Finish
    /\ UNCHANGED <<source, edits, operations>>

=============================================================================
