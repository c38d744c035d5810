-------------------------- MODULE DocumenterReview --------------------------
(***************************************************************************)
(* run_review and invoke_documenter of controllers/documenter/             *)
(* orchestrator.py: a queue of documents is reviewed chunk by chunk, in    *)
(* parallel batches whose outcomes are applied in order.  After every      *)
(* chunk the whole state is written to one run-state file, from which a    *)
(* later invocation resumes.                                               *)
(*                                                                         *)
(* The process may die at any moment.  write_run_state_artifact overwrites *)
(* the file in place, so it may also die half way through a write and      *)
(* leave a file that no longer parses.                                     *)
(*                                                                         *)
(* One invocation at a time works on a state file, and the documents do    *)
(* not change between an invocation and its resumption: the code checks    *)
(* neither.                                                                *)
(***************************************************************************)
EXTENDS Naturals, Sequences, FiniteSets, SequencesExt

CONSTANTS
    Docs,             \* the documents that may be reviewed
    InitialTargets,   \* initial_review_targets: a sequence of documents
    ChunkCount,       \* ChunkCount[d]: how many chunks of d are selected
    FollowupDepth,    \* effective_followup_depth; 0 disables follow-ups
    MaxFollowupFiles, \* max_followup_files
    Parallelisms,     \* the values of --parallelism that invocations use
    StopAfters,       \* the values of --stop-after-chunks; NoLimit is none
    NoLimit, NoState, Torn

ASSUME ReviewAssumption ==
    /\ InitialTargets \in Seq(Docs) \ {<<>>}
    /\ \A i, j \in DOMAIN InitialTargets : InitialTargets[i] = InitialTargets[j] => i = j
    /\ ChunkCount \in [Docs -> Nat \ {0}]
    /\ FollowupDepth \in Nat
    /\ MaxFollowupFiles \in Nat
    /\ Parallelisms \subseteq Nat \ {0}
    /\ StopAfters \subseteq (Nat \ {0}) \cup {NoLimit}
    /\ NoLimit \notin Nat

Target == [doc : Docs, depth : Nat]
Chunk  == {c \in Docs \X Nat : c[2] \in 1 .. ChunkCount[c[1]]}

ChunksOf(d) == {d} \X (1 .. ChunkCount[d])

\* The fields of the run state that the review reads back.
Progress == [queue : Seq(Target), index : Nat, completed : SUBSET Chunk,
             reports : Seq(Chunk), reviewed : Seq(Docs)]

RESUMABLE_RUN_STATUSES == {"running", "failed", "paused", "review_complete"}
RunStatuses == RESUMABLE_RUN_STATUSES \cup {"canceled", "completed"}
RunState == [status : RunStatuses, state : Progress]

ASSUME StateAssumption == NoState # Torn /\ NoState \notin RunState /\ Torn \notin RunState

VARIABLES
    at,          \* where the invocation is; "down" when there is none
    mem,         \* its target_queue, queue_index, completed_chunk_ids, ...
    newly,       \* newly_processed_chunks of this invocation
    parallelism, stopAfter,   \* its arguments
    batch,       \* the chunks whose outcomes are still to be applied
    stop,        \* its stop-signal file exists
    disk         \* the run-state file

vars == <<at, mem, newly, parallelism, stopAfter, batch, stop, disk>>

ControlPoints == {"down", "advance", "next_batch", "apply", "after_packet",
                  "report", "summary", "complete"}

TypeOK ==
    /\ at \in ControlPoints
    /\ mem \in Progress
    /\ newly \in Nat
    /\ parallelism \in Parallelisms
    /\ stopAfter \in StopAfters
    /\ batch \in Seq(Chunk)
    /\ stop \in BOOLEAN
    /\ disk \in RunState \cup {NoState, Torn}

InitialProgress ==
    [queue |-> [i \in DOMAIN InitialTargets |-> [doc |-> InitialTargets[i], depth |-> 0]],
     index |-> 0, completed |-> {}, reports |-> <<>>, reviewed |-> <<>>]

Init ==
    /\ at = "down"
    /\ mem = InitialProgress
    /\ newly = 0
    /\ parallelism \in Parallelisms
    /\ stopAfter \in StopAfters
    /\ batch = <<>>
    /\ stop = FALSE
    /\ disk = NoState

-----------------------------------------------------------------------------
\* persist_state(status), once the memory is m.
PersistState(status, m) == disk' = [status |-> status, state |-> m]

\* The invocation ends, with a result or with an exception.
Leave ==
    /\ at' = "down"
    /\ batch' = <<>>

Finished(m, target) == ChunksOf(target.doc) \subseteq m.completed

\* Mutant: a whole target, not its document, is filed as reviewed.
AdvanceTargetsThemselves(m) ==
    IF m.index < Len(m.queue) /\ Finished(m, m.queue[m.index + 1])
    THEN [m EXCEPT !.index = @ + 1, !.reviewed = Append(@, m.queue[m.index + 1])]
    ELSE m

\* The documents with a report once the targets up to the i-th are stepped over.
Filed(m) ==
    LET filed[i \in m.index .. Len(m.queue)] ==
            IF i = m.index THEN m.reviewed
            ELSE IF m.queue[i].doc \in Range(filed[i - 1]) THEN filed[i - 1]
            ELSE Append(filed[i - 1], m.queue[i].doc)
    IN  filed

\* advance_completed_targets: step over the finished targets at the head.
Advance(m) ==
    LET reached == CHOOSE i \in m.index .. Len(m.queue) :
                      /\ \A k \in m.index + 1 .. i : Finished(m, m.queue[k])
                      /\ i < Len(m.queue) => ~ Finished(m, m.queue[i + 1])
    IN  [m EXCEPT !.index = reached, !.reviewed = Filed(m)[reached]]

\* build_next_chunk_review_batch: pending chunks in queue order, up to the limit.
BatchLimit ==
    IF stopAfter = NoLimit \/ parallelism <= stopAfter - newly
    THEN parallelism ELSE stopAfter - newly

\* The chunks of the targets after the first ones, up to the i-th.
Planned(queue, first) ==
    LET planned[i \in first .. Len(queue)] ==
            IF i = first THEN <<>>
            ELSE planned[i - 1] \o
                    [k \in 1 .. ChunkCount[queue[i].doc] |-> <<queue[i].doc, k>>]
    IN  planned

Plan(queue) == Planned(queue, 0)[Len(queue)]

\* Those of the first i chunks that are still to be reviewed.
Pending(chunks, completed) ==
    LET pending[i \in 0 .. Len(chunks)] ==
            IF i = 0 THEN <<>>
            ELSE IF chunks[i] \in completed THEN pending[i - 1]
            ELSE Append(pending[i - 1], chunks[i])
    IN  pending

\* Mutant: completed chunks are not left out of a batch.
NextBatchOfAll(m) ==
    LET rest == Planned(m.queue, m.index)[Len(m.queue)]
    IN  SubSeq(rest, 1, IF BatchLimit < Len(rest) THEN BatchLimit ELSE Len(rest))

NextBatch(m) ==
    LET rest == Planned(m.queue, m.index)[Len(m.queue)]
        pending == Pending(rest, m.completed)[Len(rest)]
    IN  SubSeq(pending, 1, IF BatchLimit < Len(pending) THEN BatchLimit ELSE Len(pending))

(***************************************************************************)
(* Which follow-ups of a result are accepted: documents in scope that are  *)
(* neither queued nor reviewed, while the depth and the number of accepted *)
(* files allow it.  What the model proposes and what the packet showed it  *)
(* is open, so any such list may be the outcome.                           *)
(***************************************************************************)
QueuedFiles(m) == {m.queue[i].doc : i \in DOMAIN m.queue}
AcceptedFollowups(m) == Len(m.queue) - Len(InitialTargets)
DepthOf(m, d) == m.queue[CHOOSE i \in DOMAIN m.queue : m.queue[i].doc = d].depth

\* Mutant: only the queue still to be reviewed is compared with.
FollowupsOfUnreviewed(m, source) ==
    LET unseen == Docs \ {m.queue[i].doc : i \in m.index + 1 .. Len(m.queue)}
        room == MaxFollowupFiles - AcceptedFollowups(m)
    IN  {f \in {<<>>} \cup UNION {[1 .. n -> unseen] : n \in 1 .. room} :
            /\ IsInjective(f)
            /\ f # <<>> => DepthOf(m, source) < FollowupDepth}

AcceptableFollowups(m, source) ==
    LET unseen == Docs \ (QueuedFiles(m) \cup Range(m.reviewed))
        room == MaxFollowupFiles - AcceptedFollowups(m)
    IN  {f \in {<<>>} \cup UNION {[1 .. n -> unseen] : n \in 1 .. room} :
            /\ IsInjective(f)
            /\ f # <<>> => DepthOf(m, source) < FollowupDepth}

Enqueued(m, source, followups) ==
    m.queue \o [i \in DOMAIN followups |->
                  [doc |-> followups[i], depth |-> DepthOf(m, source) + 1]]

-----------------------------------------------------------------------------
(***************************************************************************)
(* The steps of an invocation.                                             *)
(***************************************************************************)
Begin(m) ==
    /\ at' = "advance"
    /\ mem' = m
    /\ newly' = 0
    /\ parallelism' \in Parallelisms
    /\ stopAfter' \in StopAfters
    /\ batch' = <<>>
    /\ stop' = FALSE
    /\ PersistState("running", m)

Start == at = "down" /\ disk = NoState /\ Begin(InitialProgress)

\* Mutant: the resumed invocation starts from the initial targets.
ResumeAfresh ==
    /\ at = "down"
    /\ disk \notin {NoState, Torn}
    /\ disk.status \in RESUMABLE_RUN_STATUSES
    /\ Begin(InitialProgress)

\* load_resume_state, validate_resume_state with matching arguments, restore.
Resume ==
    /\ at = "down"
    /\ disk \notin {NoState, Torn}
    /\ disk.status \in RESUMABLE_RUN_STATUSES
    /\ Begin(disk.state)

\* The head of the main loop.
AdvanceTargets ==
    /\ at = "advance"
    /\ mem' = Advance(mem)
    /\ IF mem'.index > mem.index THEN PersistState("running", mem') ELSE UNCHANGED disk
    /\ at' = IF mem'.index = Len(mem'.queue) THEN "report" ELSE "next_batch"
    /\ UNCHANGED <<newly, parallelism, stopAfter, batch, stop>>

LimitReached == stopAfter # NoLimit /\ newly >= stopAfter

\* cancel_if_requested, before a batch and after each packet.
CancelRequested ==
    /\ stop
    /\ \/ at = "next_batch"
       \/ at = "after_packet" /\ ~ LimitReached
    /\ PersistState("canceled", mem)
    /\ Leave
    /\ UNCHANGED <<mem, newly, parallelism, stopAfter, stop>>

\* execute_chunk_review_tasks: all calls of the batch are made.  An empty batch
\* raises "No pending chunks were available".
ReviewBatch ==
    /\ at = "next_batch"
    /\ ~ stop
    /\ batch' = NextBatch(mem)
    /\ at' = IF batch' = <<>> THEN "down" ELSE "apply"
    /\ UNCHANGED <<mem, newly, parallelism, stopAfter, stop, disk>>

\* Mutant: the outcome of a chunk is dropped.
ApplyUncompleted ==
    /\ at = "apply"
    /\ batch # <<>>
    /\ mem' = mem
    /\ newly' = newly
    /\ batch' = Tail(batch)
    /\ PersistState("running", mem')
    /\ at' = "after_packet"
    /\ UNCHANGED <<parallelism, stopAfter, stop>>

\* apply_chunk_review_outcome, the call succeeded.
ApplyOutcome ==
    /\ at = "apply"
    /\ batch # <<>>
    /\ \E followups \in AcceptableFollowups(mem, Head(batch)[1]) :
          mem' = Advance([mem EXCEPT
                     !.queue = Enqueued(mem, Head(batch)[1], followups),
                     !.reports = Append(@, Head(batch)),
                     !.completed = @ \cup {Head(batch)}])
    /\ newly' = newly + 1
    /\ batch' = Tail(batch)
    /\ PersistState("running", mem')
    /\ at' = "after_packet"
    /\ UNCHANGED <<parallelism, stopAfter, stop>>

\* apply_chunk_review_outcome, the call failed: the other outcomes are dropped.
PacketFails ==
    /\ at = "apply"
    /\ batch # <<>>
    /\ PersistState("failed", mem)
    /\ Leave
    /\ UNCHANGED <<mem, newly, parallelism, stopAfter, stop>>

PauseAfterChunks ==
    /\ at = "after_packet"
    /\ LimitReached
    /\ PersistState("paused", mem)
    /\ Leave
    /\ UNCHANGED <<mem, newly, parallelism, stopAfter, stop>>

Continue ==
    /\ at = "after_packet"
    /\ ~ stop
    /\ ~ LimitReached
    /\ at' = IF batch # <<>> THEN "apply"
             ELSE IF mem.index < Len(mem.queue) THEN "advance" ELSE "report"
    /\ UNCHANGED <<mem, newly, parallelism, stopAfter, batch, stop, disk>>

\* The report and the change plan are written, then the state.
WriteReport ==
    /\ at = "report"
    /\ PersistState("review_complete", mem)
    /\ at' = "summary"
    /\ UNCHANGED <<mem, newly, parallelism, stopAfter, batch, stop>>

\* run_summary, or nothing to summarise.
Summarize ==
    /\ at = "summary"
    /\ at' = "complete"
    /\ UNCHANGED <<mem, newly, parallelism, stopAfter, batch, stop, disk>>

SummaryFails ==
    /\ at = "summary"
    /\ PersistState("failed", disk.state)
    /\ Leave
    /\ UNCHANGED <<mem, newly, parallelism, stopAfter, stop>>

MarkCompleted ==
    /\ at = "complete"
    /\ PersistState("completed", disk.state)
    /\ Leave
    /\ UNCHANGED <<mem, newly, parallelism, stopAfter, stop>>

\* cancel_run of the controller service writes the signal.
RequestStop ==
    /\ at # "down"
    /\ stop' = TRUE
    /\ UNCHANGED <<at, mem, newly, parallelism, stopAfter, batch, disk>>

\* The process dies, or an exception that nothing records unwinds run_review.
Crash ==
    /\ at # "down"
    /\ Leave
    /\ UNCHANGED <<mem, newly, parallelism, stopAfter, stop, disk>>

\* It dies between the truncation of the run-state file and its last byte.
CrashInWrite ==
    /\ at # "down"
    /\ disk' = Torn
    /\ Leave
    /\ UNCHANGED <<mem, newly, parallelism, stopAfter, stop>>

Step ==
    \/ AdvanceTargets
    \/ CancelRequested
    \/ ReviewBatch
    \/ ApplyOutcome
    \/ PacketFails
    \/ PauseAfterChunks
    \/ Continue
    \/ WriteReport
    \/ Summarize
    \/ SummaryFails
    \/ MarkCompleted

Next == Start \/ Resume \/ Step \/ RequestStop \/ Crash \/ CrashInWrite

Spec == Init /\ [][Next]_vars

\* A running invocation takes its next step; nobody has to resume or cancel.
FairSpec == Spec /\ WF_vars(Step)

-----------------------------------------------------------------------------
(***************************************************************************)
(* Properties.                                                             *)
(***************************************************************************)
Readable == disk \notin {NoState, Torn}

\* "Completed results are applied in target/chunk order": whatever batch sizes,
\* pauses, failures and crashes there were, the chunk reports are the first
\* chunks of the queue, each of them once, and they are the completed ones; the
\* documents stepped over are those whose selected chunks are all reported, one
\* report each, in queue order; and between two steps of an invocation the
\* run-state file holds all that, so that a crash loses only calls in flight.  "No
\* pending chunks were available while the review queue was incomplete" is never
\* raised.
ReportsFollowQueue ==
    /\ IsPrefix(mem.reports, Plan(mem.queue))
    /\ mem.completed = Range(mem.reports)
    /\ mem.index <= Len(mem.queue)
    /\ mem.reviewed = [i \in 1 .. mem.index |-> mem.queue[i].doc]
    /\ \A i \in 1 .. mem.index : Finished(mem, mem.queue[i])
    /\ at # "down" => Readable /\ disk.state = mem
    /\ at = "next_batch" => NextBatch(mem) # <<>>

\* Follow-ups stay within depth and number and are never queued twice, also
\* across resumptions ("Accepted follow-ups are not reaccepted").
FollowupsBounded ==
    /\ AcceptedFollowups(mem) <= MaxFollowupFiles
    /\ \A i, j \in DOMAIN mem.queue : mem.queue[i].doc = mem.queue[j].doc => i = j
    /\ \A i \in DOMAIN mem.queue : mem.queue[i].depth <= FollowupDepth

\* The main loop ends: every invocation returns.
InvocationReturns == at # "down" ~> at = "down"

(***************************************************************************)
(* The durable side of a review, seen as a ledger of chunk reports.        *)
(***************************************************************************)
Ledger == INSTANCE ResumableLedger WITH
    Entries <- Chunk,
    plan <- IF Readable THEN Plan(disk.state.queue) ELSE <<>>,
    ledger <- IF Readable THEN disk.state.reports ELSE <<>>,
    phase <- IF disk = NoState THEN "none"
             ELSE IF disk = Torn THEN "lost"
             ELSE CASE disk.status \in {"running", "failed", "paused"} -> "open"
                    [] disk.status = "review_complete" -> "complete"
                    [] disk.status = "canceled" -> "canceled"
                    [] disk.status = "completed" -> "closed"

ImplementsLedger == Ledger!Spec

=============================================================================
