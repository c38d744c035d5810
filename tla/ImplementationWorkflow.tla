----------------------- MODULE ImplementationWorkflow -----------------------
(***************************************************************************)
(* run_implementation_workflow of implementation/workflow.py: the packets  *)
(* of a plan are turned one after the other into drafts or, in apply mode, *)
(* into edits of the target repository.  After every packet the state is   *)
(* written to the implementation-state file, from which a later invocation *)
(* resumes; when all packets are done the verification commands run, once. *)
(*                                                                         *)
(* The process may die between any two writes, and within a write of the   *)
(* state file, which write_json overwrites in place.  (A target file is    *)
(* overwritten in place, too; that an edit itself may be torn is left      *)
(* out.)  One invocation at a time works on a state file, and nobody else  *)
(* edits the target files.                                                 *)
(***************************************************************************)
EXTENDS PacketOperations

CONSTANTS
    Ids,                 \* packet ids
    Plans,               \* the plans, sequences of packets, one of which is worked on
    Original,            \* Original[f]: the content of f at the beginning
    Tracked,             \* the files under version control
    StopAfters,          \* the values of --stop-after-packets; NoLimit is none
    MaxCrashes,          \* bound: how often the process dies
    NoState, Torn, NoLimit

Packet == [id : Ids, kind : {"append_text", "replace_text", "create_file"},
           path : Files, old : Texts, text : Texts]

ASSUME WorkflowAssumption ==
    /\ Plans \subseteq Seq(Packet) \ {<<>>}
    /\ Absent \notin Content
    /\ Original \in [Files -> Content \cup {Absent}]
    /\ Tracked \subseteq Files
    /\ StopAfters \subseteq (Nat \ {0}) \cup {NoLimit}
    /\ NoLimit \notin Nat
    /\ MaxCrashes \in Nat

RESUMABLE_STATUSES == {"running", "paused", "failed"}
Decisions == {"none", "failed_before_verification", "passed", "failed", "not_run"}

\* What a resumption reads back of the state file.  In memory the state dict
\* has no other value between two steps: each change is written at once.
State == [status : RESUMABLE_STATUSES \cup {"completed"}, queue_index : Nat,
          completed : Seq(Ids), verification_completed : BOOLEAN, decision : Decisions]

ASSUME StateAssumption == NoState # Torn /\ NoState \notin State /\ Torn \notin State

VARIABLES
    plan,          \* the packets of the implementation-plan file, in order
    commands,      \* the plan has verification commands
    mode,          \* "draft" or "apply", part of the resume key
    at,            \* where the invocation is; "down" when there is none
    cursor,        \* the packet the loop is at
    completed_ids, \* computed once, when the invocation starts
    processed,     \* processed_this_run
    stopAfter,     \* its --stop-after-packets
    target,        \* target[f]: the content of f in the target repository
    drafts,        \* drafts[<<id, f>>]: the draft of packet id for f
    disk,          \* the implementation-state file
    crashes        \* how often the process has died

given == <<plan, commands, mode>>

vars == <<plan, commands, mode, at, cursor, completed_ids, processed, stopAfter,
          target, drafts, disk, crashes>>

TypeOK ==
    /\ plan \in Plans
    /\ commands \in BOOLEAN
    /\ mode \in {"draft", "apply"}
    /\ at \in {"down", "packets", "record", "limit", "report"}
    /\ cursor \in 1 .. Len(plan) + 1
    /\ completed_ids \subseteq Ids
    /\ processed \in Nat
    /\ stopAfter \in StopAfters
    /\ target \in [Files -> Content \cup {Absent}]
    /\ drafts \in [Ids \X Files -> Content \cup {Absent}]
    /\ disk \in State \cup {NoState, Torn}
    /\ crashes \in 0 .. MaxCrashes

Init ==
    /\ plan \in Plans
    /\ commands \in BOOLEAN
    /\ mode \in {"draft", "apply"}
    /\ at = "down"
    /\ cursor = 1
    /\ completed_ids = {}
    /\ processed = 0
    /\ stopAfter \in StopAfters
    /\ target = Original
    /\ drafts = [d \in Ids \X Files |-> Absent]
    /\ disk = NoState
    /\ crashes = 0

-----------------------------------------------------------------------------
\* process_packet_apply refuses more than the operation itself does.
Refused(packet) ==
    \/ mode = "apply" /\ (packet.path \notin Tracked \/ packet.kind = "create_file")
    \/ ~ Applicable(packet, target[packet.path])

-----------------------------------------------------------------------------
\* Mutant: the completed packets and their number are not restored.
BeginLoopAfresh(state) ==
    /\ at' = "packets"
    /\ cursor' = 1
    /\ completed_ids' = {}
    /\ processed' = 0
    /\ stopAfter' \in StopAfters
    /\ disk' = [state EXCEPT !.queue_index = 0]
    /\ UNCHANGED <<given, target, drafts, crashes>>

BeginLoop(state) ==
    /\ at' = "packets"
    /\ cursor' = 1
    /\ completed_ids' = Range(state.completed)
    /\ processed' = 0
    /\ stopAfter' \in StopAfters
    /\ disk' = state
    /\ UNCHANGED <<given, target, drafts, crashes>>

\* A new run: create_initial_state, written before the first packet.
Start ==
    /\ at = "down"
    /\ disk = NoState
    /\ BeginLoop([status |-> "running", queue_index |-> 0, completed |-> <<>>,
                  verification_completed |-> FALSE, decision |-> "none"])

\* load_resume_state and validate_resume_state with the same arguments.
Resume ==
    /\ at = "down"
    /\ disk \notin {NoState, Torn}
    /\ disk.status \in RESUMABLE_STATUSES
    /\ BeginLoop(disk)

AtPacket == at = "packets" /\ cursor <= Len(plan)

Skipped == plan[cursor].id \in completed_ids \/ cursor <= disk.queue_index

\* Mutant: a completed packet does not move the loop on.
SkipPacketStays ==
    /\ AtPacket
    /\ Skipped
    /\ UNCHANGED vars

SkipPacket ==
    /\ AtPacket
    /\ Skipped
    /\ cursor' = cursor + 1
    /\ UNCHANGED <<given, at, completed_ids, processed, stopAfter, target, drafts, disk, crashes>>

\* process_packet_draft or process_packet_apply: the edit itself.
ProcessPacket ==
    /\ AtPacket
    /\ ~ Skipped
    /\ LET packet == plan[cursor]
           after == Applied(packet, target[packet.path])
       IN  /\ ~ Refused(packet)
           /\ IF mode = "draft"
              THEN drafts' = [drafts EXCEPT ![<<packet.id, packet.path>>] = after]
                   /\ UNCHANGED target
              ELSE target' = [target EXCEPT ![packet.path] = after]
                   /\ UNCHANGED drafts
    /\ at' = "record"
    /\ UNCHANGED <<given, cursor, completed_ids, processed, stopAfter, disk, crashes>>

\* The packet is appended to completed_packets, and the state is written.
RecordPacket ==
    /\ at = "record"
    /\ disk' = [disk EXCEPT !.completed = Append(@, plan[cursor].id),
                            !.queue_index = cursor]
    /\ processed' = processed + 1
    /\ at' = "limit"
    /\ UNCHANGED <<given, cursor, completed_ids, stopAfter, target, drafts, crashes>>

\* The except clause of the packet loop.
PacketFails ==
    /\ AtPacket
    /\ ~ Skipped
    /\ Refused(plan[cursor])
    /\ disk' = [disk EXCEPT !.status = "failed", !.decision = "failed_before_verification"]
    /\ at' = "report"
    /\ UNCHANGED <<given, cursor, completed_ids, processed, stopAfter, target, drafts, crashes>>

LimitReached == stopAfter # NoLimit /\ processed >= stopAfter

Pause ==
    /\ at = "limit"
    /\ LimitReached
    /\ disk' = [disk EXCEPT !.status = "paused"]
    /\ at' = "report"
    /\ UNCHANGED <<given, cursor, completed_ids, processed, stopAfter, target, drafts, crashes>>

\* Mutant: the packet is counted by the loop and by its body.
NextPacketTwice ==
    /\ at = "limit"
    /\ ~ LimitReached
    /\ at' = "packets"
    /\ cursor' = cursor + 2
    /\ UNCHANGED <<given, completed_ids, processed, stopAfter, target, drafts, disk, crashes>>

NextPacket ==
    /\ at = "limit"
    /\ ~ LimitReached
    /\ at' = "packets"
    /\ cursor' = cursor + 1
    /\ UNCHANGED <<given, completed_ids, processed, stopAfter, target, drafts, disk, crashes>>

AllDone == at = "packets" /\ cursor > Len(plan)

\* Mutant: each resumption verifies again.
VerifyAlways(decision) ==
    /\ AllDone
    /\ decision \in IF commands THEN {"passed", "failed"} ELSE {"not_run"}
    /\ disk' = [disk EXCEPT
                   !.status = IF decision = "failed" THEN "failed" ELSE "completed",
                   !.verification_completed = TRUE,
                   !.decision = decision]
    /\ at' = "report"
    /\ UNCHANGED <<given, cursor, completed_ids, processed, stopAfter, target, drafts, crashes>>

\* run_verification_command for every command, then the state is written.
Verify(decision) ==
    /\ AllDone
    /\ ~ disk.verification_completed
    /\ decision \in IF commands THEN {"passed", "failed"} ELSE {"not_run"}
    /\ disk' = [disk EXCEPT
                   !.status = IF decision = "failed" THEN "failed" ELSE "completed",
                   !.verification_completed = TRUE,
                   !.decision = decision]
    /\ at' = "report"
    /\ UNCHANGED <<given, cursor, completed_ids, processed, stopAfter, target, drafts, crashes>>

\* A verification that has its result is not repeated: only the report is.
AlreadyVerified ==
    /\ AllDone
    /\ disk.verification_completed
    /\ at' = "report"
    /\ UNCHANGED <<given, cursor, completed_ids, processed, stopAfter, target, drafts, disk, crashes>>

\* The report is written, and the state once more, with the report's path.
WriteReport ==
    /\ at = "report"
    /\ at' = "down"
    /\ UNCHANGED <<given, cursor, completed_ids, processed, stopAfter, target, drafts, disk, crashes>>

\* The process dies, or an error other than ImplementationWorkflowError (a
\* file that cannot be read, a command that cannot be run) unwinds it; within
\* a write of the state file it leaves half of that file behind.
Crash ==
    /\ at # "down"
    /\ crashes < MaxCrashes
    /\ crashes' = crashes + 1
    /\ disk' \in {disk, Torn}
    /\ at' = "down"
    /\ UNCHANGED <<given, cursor, completed_ids, processed, stopAfter, target, drafts>>

Step ==
    \/ SkipPacket
    \/ ProcessPacket
    \/ RecordPacket
    \/ PacketFails
    \/ Pause
    \/ NextPacket
    \/ \E decision \in Decisions : Verify(decision)
    \/ AlreadyVerified
    \/ WriteReport

Next == Start \/ Resume \/ Step \/ Crash

Spec == Init /\ [][Next]_vars

\* A running invocation takes its next step; nobody has to resume.
FairSpec == Spec /\ WF_vars(Step)

-----------------------------------------------------------------------------
(***************************************************************************)
(* Properties.                                                             *)
(***************************************************************************)
Readable == disk \notin {NoState, Torn}
PacketIds == [i \in DOMAIN plan |-> plan[i].id]

\* The contents of the target files while the packets of a history, a sequence of
\* positions in the plan, are carried out one after the other.
Edited(contents, packet) ==
    [contents EXCEPT ![packet.path] = Applied(packet, @)]

Replay(history) ==
    LET contents[n \in 0 .. Len(history)] ==
            IF n = 0 THEN Original ELSE Edited(contents[n - 1], plan[history[n]])
    IN  contents

Histories == UNION {[1 .. n -> DOMAIN plan] : n \in 0 .. Len(plan) + crashes + 1}

\* "Resume skips completed packets": whatever pauses, failures and crashes there
\* were, the target repository holds the edits of the completed packets, in the
\* order of the plan, and of the packet in flight.  An edit is there more often
\* than that only where a crash came between an edit and its record, once for
\* every crash.  A draft run leaves the target alone, and the draft of every
\* completed packet is its operation applied to that target.
DraftsFollowState ==
    /\ mode = "draft" => target = Original
    /\ mode = "draft" /\ Readable =>
          \A i \in 1 .. disk.queue_index :
              drafts[plan[i].id, plan[i].path] = Applied(plan[i], Original[plan[i].path])

EditsFollowState ==
    mode = "apply" /\ Readable =>
        \E history \in Histories :
            /\ Len(history) <= disk.queue_index + crashes + (IF at = "record" THEN 1 ELSE 0)
            /\ Range(history) \subseteq 1 .. disk.queue_index + 1
            /\ 1 .. disk.queue_index \subseteq Range(history)
            /\ \A n \in 2 .. Len(history) : history[n - 1] <= history[n]
            /\ target = Replay(history)[Len(history)]

TargetFollowsState == DraftsFollowState /\ EditsFollowState

\* The state never says completed without "a recorded verification decision" that
\* did not fail, and every packet before it.
CompletedMeansVerified ==
    Readable /\ disk.status = "completed" =>
        /\ disk.verification_completed
        /\ disk.decision \in {"passed", "not_run"}
        /\ disk.completed = PacketIds

\* "No implementation result can be marked complete without a recorded
\* verification decision", and "Failed verification is preserved in state":
\* resuming a run whose verification has its result, at whatever step it was
\* left, changes neither the result nor the status.
VerificationPreserved ==
    [][/\ CompletedMeansVerified'
       /\ Readable /\ disk.verification_completed /\ Readable' =>
              disk'.decision = disk.decision /\ disk'.status = disk.status]_vars

\* Every invocation returns.
InvocationReturns == at # "down" ~> at = "down"

(***************************************************************************)
(* The durable side of the workflow, seen as a ledger of packets.          *)
(***************************************************************************)
Ledger == INSTANCE ResumableLedger WITH
    Entries <- Ids,
    plan <- IF Readable THEN PacketIds ELSE <<>>,
    ledger <- IF Readable THEN disk.completed ELSE <<>>,
    phase <- IF disk = NoState THEN "none"
             ELSE IF disk = Torn THEN "lost"
             ELSE IF disk.verification_completed THEN "complete" ELSE "open"

ImplementsLedger == Ledger!Spec

\* "Resume skips completed packets", and no others: a completed run has
\* processed every packet of its plan, wherever it was paused.
ResumeSkipsOnlyCompleted ==
    Readable /\ disk.status = "completed" => Len(disk.completed) = Len(plan)

=============================================================================
