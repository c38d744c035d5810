# Verification of the agent gateway's stateful core

This directory holds TLA+ models of the parts of this repository that keep state
across requests, packets or processes; the TLC configurations that check them on
small instances; and TLAPS proofs that every invariant, every action property
and every refinement of the passing runs holds for every instance. Paths below are relative to `vllm_agent_gateway/` unless they start
with a repository directory such as `docs/`.

1. [The system](#1-the-system) - components, state, interactions, hard behaviours
2. [Modules](#2-modules) - what each models and how it corresponds to the code
3. [Runs](#3-runs) - what each checks, at which bounds, and what it shows
4. [Where code and documentation disagree](#4-where-code-and-documentation-disagree)
5. [Fairness](#5-fairness)
6. [Proofs](#6-proofs)
7. [What is not modelled](#7-what-is-not-modelled)
8. [Plan](#8-plan)
9. [Running it](#9-running-it)

## 1. The system

The program accepts requests for code-reading and documentation workflows over
HTTP, runs them against a local model server, and leaves artifacts on disk.

| Component | State it keeps | Operations |
| --- | --- | --- |
| `controller_service/server.py`, run records | one JSON file per run, an in-process cache of records, a stop-signal file per asynchronous run, a worker thread per asynchronous run | submit, run, look up, cancel, clean up |
| `controller_service/server.py`, chat routes and approvals | markers in the run record of an approved proposal | propose, approve, deny, continue |
| `controllers/documenter/orchestrator.py` | the run-state file: target queue, queue index, completed chunks, reports, follow-ups | review, pause, cancel, resume, summarize |
| `implementation/workflow.py` | the implementation-state file, drafts, the target repository | draft, apply, pause, resume, verify |
| `controllers/documenter/streaming.py` | the streaming-state file: next byte, ranges read, findings, summaries; a report file | read a chunk, pause, fail, resume, reduce summaries, report |
| `controllers/workflow_router/plan.py` | plan artifacts, a disposable copy of the target | route, plan, apply in the copy, verify, roll back |
| `controllers/execution_planning/workflow.py` | artifacts and a run state in a run directory; a counter of model calls within one request | run a chain of skills under a budget, draft, compare hashes |
| `controllers/skill_*`, `skills/` | the skill registry files | scaffold, register, evaluate, promote, update, deprecate |
| `connectors/`, `tools/`, and their controllers | the catalogs `connectors.json` and `tools.json`, the release gate's report, artifacts of a run | validate, gate, register with approval; invoke with identity, scopes and approval |
| `gateway/` | none | count tokens, enforce a budget, forward |
| `controllers/{code_*,large_context,task_decompose,refactor}` | none between requests | read, rank, answer |
| `acceptance/`, `fixtures/`, `scripts/`, `runtime/`, `roles/` | artifacts of development | one-shot validation |

How they interact:

- A client, or the prompt gateway on its behalf, posts to the controller
  service. `ThreadingHTTPServer` gives each request a thread. Most workflows run
  within that thread and end with one new run record; an asynchronous documenter
  review runs in a daemon thread of its own, started by the request thread.
- The documenter worker calls the orchestrator in process and hands it the path
  of the stop-signal file; `cancel` writes that file, and the orchestrator looks
  for it between batches. Record and signal are the only things the threads
  share, besides `RUN_RECORD_CACHE`. No lock protects any of the three.
- Documenter and implementation workflows persist their own state file after
  every unit of work. A later invocation, possibly in another process, resumes
  from it. A documenter run's packets can become an implementation run's plan.
- A planning run ends with a proposal that waits for approval. A later chat
  message names its run id; the service validates the record, runs another
  workflow, and writes a marker into the record of the first.
- The skill controllers read and replace the registry files that the selector of
  every other request reads.
- Registrations of connectors and tools replace a catalog that validations,
  tool policies and invocations of other threads read; the release gate, a script
  of its own, overwrites the report that lets a connector be enabled.
- The workflow router runs execution planning as a dry run or the implementation
  workflow in a copy of the target. Planning calls the model through the gateway
  and ends in a draft run of the implementation workflow. None of them locks the
  target repository, which other tools, and other requests, edit.

What makes them hard, and which properties make each of them correct:

- **Run records.** Load, change and persist are separate steps of threads that
  exclude nobody; file and cache are changed one after the other; cleanup acts
  on a record it read before. Correct means: the worker's outcome wins over
  everything but a stale cancel, a shown cancel is backed by a signal, a
  finished run is not shown as running, no signal is lost before it is read.
- **Documenter review.** Parallel calls whose outcomes are applied in order, a
  queue that grows while it is worked on, pauses, failures, a stop signal, death
  at any point and within a write. Correct means: the saved reports are a
  prefix of what the queue calls for, exactly once each, and only grow.
- **Implementation workflow.** Edits of a target repository and a state file
  that cannot be written together. Correct means: after any history the target
  holds what the state file says, up to what a crash can repeat.
- **Approvals.** A marker that is checked before and written after a workflow
  that takes minutes. Correct means: continued once, and a used approval stays
  used.
- **Skill lifecycle.** Several files replaced one by one, checked afterwards,
  and brought back from backups. Correct means: a failed change leaves no trace.
- **Streaming.** A document is cut into chunks of bytes without regard to what
  stands at the cuts, and into sessions by pauses, limits, failures and deaths;
  matches and lines in progress are carried over the cuts. Correct means: what
  is reported is what a reader of the whole document would report.
- **Planning and its gateway.** A chain of up to nine model calls with a retry
  each, a call budget counted across them, two ways of ending that write a run
  state and several that do not, and a token budget that depends on a tokenizer
  that may not answer. Correct means: the run state says what happened, and no
  call that goes out overflows the model's window.
- **Catalogs.** A registration validates, asks the gate, reads and replaces, each
  at another moment, and no lock keeps other registrations out. Correct means:
  the catalog always loads, what was installed stays, and what a caller is
  allowed to do was once let ship.
- **Disposable apply.** A target that anybody may edit meanwhile is copied,
  digested, backed up, changed in the copy, and the copy rolled back, with checks
  only at the end. Correct means: "finished" is never said of an apply that
  touched the target, did nothing, or left the copy changed.

`PROJECT.json` lists all components (24 of them) and the hazards of the code with the
line each one bites at and the properties that would notice.

## 2. Modules

| Module | Models | Lines |
| --- | --- | --- |
| `RunRegistry` | run records, cache, stop signals, worker and request threads | 566 |
| `RunRegistry_proofs` | theorems about it | 906 |
| `ResumableLedger` | abstract: what a resumable workflow promises | 70 |
| `DocumenterReview`, `MCDocumenterReview` | review queue and run-state file; its instance | 421 |
| `DocumenterReview_proofs` | theorems about it | 2518 |
| `ImplementationWorkflow`, `MCImplementationWorkflow` | packets, target and state file; its instances | 385 |
| `ImplementationWorkflow_proofs` | theorems about it | 1503 |
| `PacketOperations` | what an operation of a packet does to a file | 32 |
| `ApprovalContinuation` | approvals given through the general chat route | 247 |
| `ApprovalContinuation_proofs` | theorems about it | 164 |
| `SkillLifecycle`, `MCSkillLifecycle` | the registry files and the four workflows that change them | 451 |
| `SkillLifecycle_proofs` | theorems about it | 1499 |
| `ResumableScan` | abstract: what a run promises that reads one document through | 52 |
| `StreamingDocumenter`, `MCStreamingDocumenter` | streaming-state file, report, chunks and tails; its instance | 645 |
| `StreamingDocumenter_proofs` | theorems about it | 5193 |
| `ModelGateway` | the token budget of a forwarded request, as operators | 56 |
| `TargetRepository` | the target repository and whoever else edits it | 45 |
| `ExecutionPlanning` | the skill chain of a planning run | 267 |
| `DisposableApply` | copy, apply, verify and roll back | 265 |
| `WorkflowRouter`, `MCWorkflowRouter` | composition of the last four under one request; its instance | 311 |
| `WorkflowRouter_proofs` | theorems about the composition | 1961 |
| `CatalogRegistration` | the two catalogs, the gate's report and the registrations | 246 |
| `CatalogGovernance`, `MCCatalogGovernance` | registrations together with the mediated invocation; its instance | 245 |
| `CatalogGovernance_proofs` | theorems about them | 880 |

`ResumableLedger` is instantiated by `DocumenterReview` and
`ImplementationWorkflow`, which implement it under a refinement mapping each
(`ImplementsLedger`); `ResumableScan` by `StreamingDocumenter`
(`ImplementsScan`). `WorkflowRouter` extends `ExecutionPlanning` (which extends
`ModelGateway` and `TargetRepository`) and `DisposableApply`; its next-state
relation interleaves their steps with those of the editors of the target.
`PacketOperations` is shared by `ImplementationWorkflow` and `TargetRepository`,
as the code shares `apply_operation_to_content`. `RunRegistry` treats a workflow as one step with an
outcome; `DocumenterReview` is the inside of that step. The `map` of
`PROJECT.json` names the source lines of each definition. An operator with a
neighbour that is used nowhere (`NextBatchOfAll` beside `NextBatch`, say) is a
plausible mistake in that code, kept to show that a property notices it.

### RunRegistry (`controller_service/server.py`)

State: `file[r]` and `cache[r]`, the stored and cached record; `stop[r]`, whether
`r.stop.json` exists; and for each thread its control point `at`, operation
`op`, run `arg`, the record in its hands `buf`, and the runs a cleanup has yet
to look at, `todo`. A record is cut down to what the operations read of it:
status, `cancel_requested`, whether it has a `stop_requested_path`, and whether
it carries a finished workflow's artifacts.

Every file read, rename, cache update and unlink is a step of its own.
`persist_run_record` is three: `Replace` (rename), `Publish` (cache) and
`Visible`/`Vanished` (the look for the file afterwards, which raises when it is
gone). `load_run_record` is `LoadFile`, then `LoadCached`, then `NotFound`.
`run_documenter_worker` is `LoadFile`, `CheckStop` and `MarkedRunning`
(`mark_async_run_running`), `InvokeReturns`/`InvokeRaises`/`InvokeDies`,
`Respond` and `WorkerFails`. Request threads `Submit`, `RunInline`, `Cancel`
and `Cleanup`; looking a record up changes nothing and is not an action.
`Restart` ends every thread and empties the cache.

### ResumableLedger

The abstract specification: a plan that only grows at its end, a ledger that is
a prefix of it, and a phase. Entries are recorded one at a time and in order,
`Complete` needs the whole plan recorded, `Cancel` and `Close` are final, and
`Lose` is the torn write. Whoever implements it neither repeats nor skips a
unit of work in its durable state, whatever crashes and resumptions there are.

### DocumenterReview (`controllers/documenter/orchestrator.py`)

State: `disk`, the run-state file (`NoState`, `Torn`, or a status and a
progress); `mem`, the progress in memory; `batch`, the calls in flight;
`newly`, `parallelism` and `stopAfter` of the invocation; `stop`, the signal;
and the control point. `Start` and `Resume` begin an invocation, `AdvanceTargets`
moves past finished documents and collects a batch, `ReviewBatch` calls the
roles in parallel, `ApplyOutcome` and `PacketFails` take the outcomes in plan
order, `PauseAfterChunks`, `CancelRequested` and `Continue` end a batch,
`Summarize`, `SummaryFails` and `MarkCompleted` end a review. `Crash` and
`CrashInWrite` may come anywhere.

Which follow-ups a role asks for is free within the documents there are; the
texts are not modelled. Documents do not change between invocations, and one
invocation at a time works on a state file; the code checks neither.

### ImplementationWorkflow (`implementation/workflow.py`)

State: `target`, the repository's files as sequences of pieces of text;
`drafts`; `disk`, the implementation-state file; the cursor and
`completed_ids` of the invocation; and how often the process has died.
`ProcessPacket` and `RecordPacket` are two steps because the edit and the state
file are two writes. `SkipPacket` is the skip of a resumption, by id as in the
code. `Verify` runs the commands, `AlreadyVerified` is a resumption after it.

### ApprovalContinuation (`controller_service/server.py`)

State: `present`, `fresh` and `marker` of each planning run; `ran`, the
continuations run for it; and each request thread's control point, message and
continuation. `Accept` and `Refuse` are
`validate_approval_continuation_source`, `RunContinuation` is
`handle_workflow_router_plan`, and `LoadForMark`, `SourceIsGone` and
`PersistMark` are `mark_approval_continuation_consumed` and its counterpart for
denials. `Expire`, `CleanUp` and `Restart` may come between any of them. The
variable `raced` is history: it says that a continuation of the source started
while another was under way, or that the process ended between a continuation
and its marker.

### SkillLifecycle (`controllers/skill_{batch,eval,update,deprecation}`)

State: `files`, the registry, the eval cases and the bodies; per thread its
step, request, what validation read (`snapshot`), its backups, and the bodies it
has installed; `ack`, history, what the successful requests made; `disturbed`,
whether a change ended in mid-air. A request goes through `Validate`, the
reports before the change (`PreReportsFail`), `BackUp`, `InstallBody`,
`ReadManifests`, `WriteRegistry`, `WriteCases`, `WriteBody`, `CheckPasses` or
`CheckFails`, and `Report`; a failure leads through the `Restore` actions that
the workflow has. Registration, promotion, update and deprecation write and restore
different subsets of the files, and each restores only what it saved.

The content of a skill is the version that wrote it, with one eval case per
skill and all skills route-compatible; what evals and selector say of a content
is free. Two ends leave a change unfinished: the service stops, or an error
arises where no handler is (`Unhandled`). Nothing in the code repairs the files
after that, so the model follows the service up to the first such end.

### StreamingDocumenter (`controllers/documenter/streaming.py`)

State: `subject`, the document, query and mode a run is about; `file`, the
streaming-state file; `report`; the invocation's control point, arguments,
`state` in memory, `chunks_this_run` and `stop_reason`; and the two tails. `cuts`
is history: the bytes within a line where a resumption began. A document is a
sequence of bytes: line end, heading mark, or text. Since both tails always hold
the document's bytes up to the chunk, the first byte and its line are all that
is kept of them.

`Start` and `Resume` are `run_streaming_mode` up to its loop, `ReviewChunk` and
`AssistedChunk` one turn of the loop in a mode without or with a model,
`StopAtLimit` and `NothingToRead` its ends, `AnswerFails` and `MergeFails` the
`except` branch of a turn, `PauseRun` the `stop_after_chunks` branch, `EndRun`,
`LastReductionFails` and `WriteReport` what follows the loop. The order within a
turn is the code's: findings, count, write, tails; an `except` branch writes
what was added before the failure. `Crash` and `CrashInWrite` may come anywhere.

### ModelGateway, TargetRepository and ExecutionPlanning

`ModelGateway` (`gateway/server.py`) holds no state: `InputTokens`, `Forwards`
and `OutputLimit` are `_handle_budgeted_forward` between request and model.

`TargetRepository`: `source`, the files of the target, `operations`, what the
request asks to be done to them, and `edits`, a bound on the action `Edit`,
by which anybody writes, deletes or restores a file between any two steps.

`ExecutionPlanning` (`controllers/execution_planning/workflow.py`): `Chain` is
the order of steps for a mode, `step` and `attempt` the place in it,
`modelCalls` and `lastCall` what was sent, `artifacts`, `hashes`, the error or
result, and the run state. One call of the model is one step, with the outcomes
`BudgetExceeded`, `CallRefused`, `AnswerLost`, `AnswerInvalid`, `AnswerStops`,
`VerificationRefused` and `AnswerUsed`. `ReadHashes` and `CompareHashes` enclose
the draft.

### DisposableApply and WorkflowRouter (`controllers/workflow_router/plan.py`)

`DisposableApply` is `invoke_disposable_apply`, with a step for every read of
the target: the copy is taken file by file, and the target is read five times,
as whole trees and as the files to be changed (`sourceSeen`), while others edit
it. `backups` is indexed by file names, since `docs/a.md` and `docs-a.md` have the
same backup name; `backedUp` is the dictionary in memory. `Outcome` is the
sequence of checks at the end.

`WorkflowRouter` is `invoke_workflow_router_plan` in the modes that act:
`Route`, `Propose`, `Block` and `NoChangeNeeded`, then `Prepares` or `Applies`
with their returns, then `Report`, which writes approval state, decision and run
state. `Plan` is the same planning called by a client directly.

### CatalogRegistration and CatalogGovernance (`controllers/{connector,tool}_catalog`, `connectors/`, `tools/`)

State of `CatalogRegistration`: `catalog`, the two files as sequences of entries;
`report`, the file of the release gate; and for each thread its place `at`, its
`request` and `base`, the catalog as its append read it. A registration is
`Receive` (approval, `validate_request`), `Validate` (admission against the
catalog), `CheckGate` (`validate_release_gate_report`, for a connector to be enabled),
`ReadCatalog` and `ReplaceCatalog` (`append_runtime_connector` and
`append_runtime_tool`, which differ in names only) and `Record` (the artifacts that
call the entry installed). `Refuse` is an error response on the way,
`BreakOff` an exception or a stop of the service anywhere, which nothing undoes;
it also stands for the look at a report that the gate is just writing.
`RunReleaseGate` is the gate's script. History: `recorded`, the entries called
installed; `gated`, the reports that let ship; `crossed`, whether the catalog was
replaced between a thread's validation and its own append; `overlapped`, the
entries whose append another one may have lost or been lost to. An entry overlaps
when its catalog is replaced between validation and append, or when another
append is under way at its own.

`CatalogGovernance` adds `connector.invoke`: per caller the request `call`, the
`decision` and the artifacts `written`. The mediation loads the catalog once, so it
is one step: `Allow`, `Deny`, or `MediationRaises`, where the approval's
references are missing. `Permitted` and `Allowed` are the checks of
`mediate_connector_operation`. Of an actor the model keeps whether the context is valid,
a name that stands for actor, session and request id, and the granted scopes.

## 3. Runs

| Run | Instance | Shows |
| --- | --- | --- |
| `registry_race` | 1 run, 2 request threads; 95,384 states | what the unlocked cycles keep, and that a started run settles |
| `registry_cancel` | same as `registry_race` | *violated:* an accepted cancel ends the run |
| `registry_deleted` | same | *violated:* a deleted run is not found |
| `review_queue` | 6 documents of 1 or 2 chunks, two of them initial, depth 2, at most 3 follow-ups, parallelism 1 or 3, pause after 2 chunks or never; 110,626 states | queue, reports and run state are right after any history; every invocation returns |
| `implementation_resume` | 2 plans of 3 packets, draft and apply, pause after 1, 2 or never, at most 2 crashes; 8,250 states | target and drafts follow the state file; verification is kept; every invocation returns |
| `implementation_skipped` | two packets of one id, no crash | *violated:* only completed packets are skipped |
| `approval_chat` | 1 planning run, 3 threads, 2 continuations; 16,724 states | once unless raced; markers name their continuation; used stays used |
| `skills_rollback` | 3 skills (1 registered, 2 in a batch), 1 thread, versions up to 2; 71,165 states | a failed change leaves no trace; the backups always suffice |
| `skills_stale` | 2 threads | *violated:* a promotion changes only what it was asked to |
| `streaming_resume` | 3 documents of 5 to 9 bytes in all seven modes, chunks of 2 or 3 bytes, 4 sets of arguments, at most 1 failure of the model; 442,619 states | findings, summaries and claims are those of the document however it was cut |
| `router_modes` | 3 files, 5 lists of operations, at most 2 edits by others, 10 model calls, 3 prompts; 1,101,638 states | budgets, run state, and what a finished disposable apply proves |
| `catalog_governance` | 2 registering threads, 1 caller, two designs of one connector, 2 tools of one command beside the one there, 2 gate reports, 2 invocations; 1,411,553 states up to symmetry of the threads | catalogs load, installed entries stay and commands are not repeated but by overlap, what is allowed was let ship |

Properties, by run:

- `registry_race`. `NoTerminalWhileWorking`: a record that cleanup may delete
  never belongs to a run with its work still ahead. `StopSignalKept`: cleanup, deciding on an
  old record, never takes a signal that is still to be read.
  `CancelShownIsSignalled`: a shown cancel has its signal on disk while the
  worker works. `FinishedNotRunning`: what a returned worker leaves, in file and
  cache, is not "running". `OnlyStaleCancelReopens`: a terminal record is
  overwritten by nothing but a cancel that read it before. `RunsSettle`: a started run stops being shown as running, for good.
- `review_queue`. `ReportsFollowQueue`: memory, state file, queue index and
  reports agree at each control point, through crashes, and the error "No
  pending chunks were available" is never raised. `FollowupsBounded`:
  depth, number, no document twice, across resumptions. `ImplementsLedger`:
  saved progress only grows, and complete means everything is recorded.
  `InvocationReturns`.
- `implementation_resume`. `TargetFollowsState`: the target is what the
  completed packets make of the original, in plan order, each repeated at most
  once per crash, and drafts are made of the original. `VerificationPreserved`: no run is completed
  without a decision for it, and a resumption neither verifies again nor changes the
  decision; `ImplementsLedger`; `InvocationReturns`.
- `approval_chat`. `OnceUnlessRaced`, `ConsumedByItsContinuation`,
  `UsedStaysUsed`.
- `skills_rollback`. `FailureLeavesNoTrace`: between requests, what is loaded is
  exactly what the successful requests made. `UsableBetweenRequests`: the
  registry between requests always loads, although one deprecation is admitted
  that breaks a replacement link and is only caught by the check of the written
  file. `BackupsSuffice`: wherever a change stops, its backups can bring the
  files back.
- `streaming_resume`. `MatchesFollowDocument`: every listed match is an
  occurrence of the query on the line it names, none is listed twice, and no
  occurrence is passed over, wherever chunks and sessions cut it.
  `HeadingsFollowDocument`: the outline is that of the lines read so far, except
  for a line within which a resumption began. `AnswersFollowChunks`: merging
  loses and reorders nothing, and a chunk is summarized again only after it failed;
  a claim labelled as verified cites the chunk its role was
  shown, and that chunk is in the state. `ImplementsScan`: the stretches read follow each
  other without gap or overlap, and the run is complete only at the end.
- `router_modes`. `ForwardedFits`: what goes out to the model fits its window.
  `RunStateIsTrue`: planning's run state is "completed" exactly for a run that
  has all its artifacts, within the call budget, and "failed" exactly for its
  own error on the path that records it. `FinishedIsProven`: what an approval
  state "finished" guarantees of approval, copy and target. `RollbackRestores`:
  the copy is as before unless backups collide, and "restored" is said only
  when it is.
- `catalog_governance`. `CatalogsLoad`: no order of registrations lists an id
  twice. `InstalledStays`: an entry called installed is in the catalog, unless its
  registration overlapped another one. `RepeatsAreConsolidated`: two tools with one
  command have a consolidation plan, or overlapped. `AllowedWasGated`: what a caller was
  allowed, the gate once let ship, with exactly the connector's operations.

Each passing run has a type invariant besides (`TypeOK`).

Why the bounds suffice for the question asked:

- One run in `RunRegistry`: no operation looks at two records except `Cleanup`,
  which treats them one by one, so runs interact through nothing but the threads'
  time. Two request threads and one worker allow every overlap of a submission,
  a cancel and a cleanup in pairs beside a working worker; the theorems of section 6 are for any
  number of both.
- The review's instance has a target of two chunks and one of a single chunk, so that a
  batch of three crosses the border of documents, a pause falls within and
  between documents. Of the four other documents three may be followed up, so
  the limit in number binds, and so does the limit in depth, before it, on a
  follow-up of a follow-up of a follow-up. Invocations, crashes and failures are unbounded.
- In the implementation workflow three packets, two of them on one file and two
  kinds of edit, are what a repeated edit needs to be visible; `MaxCrashes` is
  2, because a crash before the same packet can come again.
- Three request threads let one approval overlap another and a denial arrive
  in between. `Continuations` bounds how often a source is continued.
- Two skills in a batch let an installation stop half-way; the third is
  registered from the start and can be replaced by either. A skill's version is
  bounded by `MaxVersion`, 2: one update.
- The streaming documents are at least three chunks of the smaller size and
  hold a heading that every chunk size cuts, a mark within a line, a query that
  overlaps itself and one that chunks cut; limits of two headings and two
  matches are exceeded; chunk sizes change between sessions. With two summaries
  per batch and a depth of 2, four chunks use up the depth before the last merge
  and three do not. `MaxFailures` is 1 because a failure of the same chunk only repeats.
- In `router_modes` two edits let the target change and change back between two
  digests. Of the three files two share a backup name and one is not tracked by
  git. The operations cover two files, one file twice, a collision of backups,
  operations that cancel out, and a kind the disposable apply refuses. The call
  budget of 10 binds: nine calls with a retry each would be 18. The prompts are
  one that fits, one that fits only by an estimate that is too low, and one that
  is refused for its input if estimated and for its output if counted.
- In `catalog_governance` two registrations overlap in every way that two can, of
  one catalog or of both. A connector's designs differ in their operations, so
  that a report may be stale; of the tools one has a consolidation plan, so that a command
  is repeated with it and, by overlap, without. One of the invocations is in order, the
  other's approval has no references. Registrations, reports and
  invocations are unbounded; no catalog holds an id twice, so the catalogs are bounded.
  More threads, catalogs and requests are left to the theorems of section 6.

Deadlock is checked in the runs of `RunRegistry`, `ApprovalContinuation` and
`CatalogGovernance`. In
the others it is switched off because the system may stop: a review that was
completed, canceled or torn admits no further invocation, nor does an
implementation run that is complete or torn; after a skill change that ended
in mid-air no request follows in the model; a completed or torn streaming run
admits no invocation; and `router_modes` follows one request to its end.

## 4. Where code and documentation disagree

Four runs end in a counterexample to a sentence of the documentation, or to
what the code itself sets out to keep. `PROJECT.json` quotes the sentences.

- `registry_cancel` (`server.py:9743`). A cancel of a paused run, or one that
  crosses the end of the worker, is accepted and never acted upon.
- `registry_deleted` (`server.py:5408`). A thread publishes a record in the cache
  after a cleanup has evicted it; lookups keep finding the deleted run.
- `implementation_skipped` (`workflow.py:1006`). Two packets of one id are both
  processed in one go, but after a pause the second is skipped as if done.
- `skills_stale` (`promote.py:463`). A promotion writes the registry whole from
  what it read when it was validated.

Seen while modelling, and not the subject of a run: `install_skill_bodies` loses
its list of installed bodies when it raises, so that the rollback leaves the
earlier ones behind and a retry is refused until they are removed
(`register.py:403`); the reports after an update, a promotion or a deprecation
are outside the `try`, so an error writing one fails the request and leaves the
change in place (the model takes both into account); a continuation that raises leaves no record in the
planning run. What remains of three guarantees one would expect is stated by properties that hold: a
stale cancel can put `cancel_requested` over a terminal record, and nothing else
can (`server.py:9750`, `OnlyStaleCancelReopens`); death between an edit and its
record makes the resumed run edit again, at most once per crash
(`workflow.py:685`, `TargetFollowsState`); an approval is continued twice when
two requests overlap or the process dies before the marker, and only then
(`server.py:5485`, `OnceUnlessRaced`).

In streaming: a pause within a line loses the line in progress, as the next
invocation starts with an empty line tail (`streaming.py:2382`), so that a heading is
missed or the rest of a line is taken for one (`HeadingsFollowDocument` says where and
nowhere else); a heading whose line ends in a lone carriage return at the end of
a chunk is lost; a query that overlaps itself ("aa" in "aaa") gives more matches
in chunks than in one piece; a failed reduction leaves the chunk's summary in the saved
state, so that the retry summarizes the chunk again; "completed" is written
before the report, so that death in between leaves a run that cannot be resumed
and has no report; `report.get("failed_ranges")` finds nothing in the report it reads.

In the router and planning: a disposable apply whose second packet was refused is
reported as completed, with approval state "finished" and the failures listed;
two targets with one backup name make a legitimate request fail with
`disposable_copy_rollback_failed`; the copy is never compared with the target, so
that a copy taken while somebody writes is a mixture, and an edit undone before
the next digest is not noticed; an output root inside the target makes the copy copy
itself; planning that fails on the deterministic path, and a packet file that
the draft refuses, leave no run state; the drafted packets of a dry run come from
the model and are not compared with the request's operations; the rough token
estimate, used when `/tokenize` does not answer, may be too low, and then the
window is exceeded although every check passed (`ForwardedFits` says so).

In the catalogs: two overlapping registrations both read the catalog before one
replaces it, and the later write drops the other entry, although both are
recorded as installed (`tool_catalog/register.py:149`; `InstalledStays` says that
nothing else loses one); an approval that binds but has no references raises an error
of the catalog's class, which neither mediator nor controller turns into a denial, so
that the run directory keeps the request only (`mediator.py:180`, `MediationRaises`);
a registration that ends behind its append leaves an entry without a
record, and its retry is refused as already registered; the rollback
instructions name a "recorded backup" that nobody makes; the command of a tool is
compared at validation only, so that two tools of one command can be registered
at a time (`RepeatsAreConsolidated` says that nothing else lets them in); the
gate's report names operations by id only, not with their class or scopes.

## 5. Fairness

- `RunRegistry!FairSpec`: weak fairness on `Worker(r)` and `Serve(t)`, the steps
  of a thread that has begun an operation. The operating system schedules
  started threads and none of their steps waits for another thread. That the
  workflow itself returns is part of it: calls to the model server have timeouts,
  and `review_queue` shows `InvocationReturns` for the loop around them. No
  client has to send a request, and a restart never has to happen.
- `DocumenterReview!FairSpec`, `ImplementationWorkflow!FairSpec`: weak fairness
  on `Step`, the next step of a running invocation, which includes the failing
  ones. Nobody has to start, resume or cancel, and nothing has to crash.
- `ApprovalContinuation`, `SkillLifecycle`, `StreamingDocumenter`, `WorkflowRouter`
  and `CatalogGovernance` state safety only.

## 6. Proofs

Eight modules hold theorems, about 14,000 obligations together, all checked by TLAPS.
Every invariant, action property and refinement that a passing run checks is
stated by one of them, for every value of the constants.

| Theorem | Says, for every instance |
| --- | --- |
| `RunRegistry_proofs!TypeCorrect` | `[]TypeOK` |
| `NeverTerminalWhileWorking` | `[]NoTerminalWhileWorking` |
| `CancelAlwaysSignalled` | `[]CancelShownIsSignalled` |
| `SignalsKept` | `StopSignalKept`, an action property |
| `NeverRunningWhenFinished` | `[]FinishedNotRunning` |
| `OnlyCancelReopens` | `OnlyStaleCancelReopens`, an action property |
| `DocumenterReview_proofs!TypeCorrect` | `[]TypeOK` |
| `ReportsRight` | `[]ReportsFollowQueue` |
| `FollowupsStayBounded` | `[]FollowupsBounded` |
| `Refinement` | `ImplementsLedger`: a refinement of `ResumableLedger` |
| `ImplementationWorkflow_proofs!TypeCorrect` | `[]TypeOK` |
| `TargetIsRight` | `[]TargetFollowsState` |
| `VerificationStays` | `VerificationPreserved`, an action property |
| `Refinement` | `ImplementsLedger`: a refinement of `ResumableLedger` |
| `ApprovalContinuation_proofs!TypeCorrect` | `[]TypeOK` |
| `OnceWithoutRace` | `[]OnceUnlessRaced` |
| `MarkersName` | `[]ConsumedByItsContinuation` |
| `UsedForGood` | `UsedStaysUsed` |
| `SkillLifecycle_proofs!TypeCorrect` | `[]TypeOK` |
| `NoTrace` | `[]FailureLeavesNoTrace` |
| `AlwaysUsable` | `[]UsableBetweenRequests` |
| `BackupsAlwaysSuffice` | `[]BackupsSuffice` |
| `PromotionsStayPut` | `PromotesOnlyRequested`, which fails with two requests at a time (`skills_stale`) |
| `StreamingDocumenter_proofs!TypeCorrect` | `[]TypeOK` |
| `Refinement` | `ImplementsScan`: a refinement of `ResumableScan` |
| `MatchesRightly` | `[]MatchesFollowDocument` |
| `HeadingsRightly` | `[]HeadingsFollowDocument` |
| `AnswersRightly` | `[]AnswersFollowChunks` |
| `WorkflowRouter_proofs!TypeCorrect` | `[]TypeOK` |
| `RequestsFit` | `[]ForwardedFits` |
| `RollbackIsRight` | `[]RollbackRestores` |
| `RunStateRight` | `[]RunStateIsTrue` |
| `FinishedMeansProven` | `[]FinishedIsProven` |
| `CatalogGovernance_proofs!GovernanceTypes` | `[]TypeOK` |
| `CatalogsStayLoadable` | `[]CatalogsLoad` |
| `InstalledEntriesStay` | `[]InstalledStays` |
| `RepeatsStayConsolidated` | `[]RepeatsAreConsolidated` |
| `AllowedOperationsWereGated` | `[]AllowedWasGated` |

**What they assume.** Sets of runs, threads, sources, continuations, documents,
files, skills and prompts are arbitrary, also infinite. The named assumptions of the
modules say that

- markers differ from what they mark the absence of: `NoRecord`, `NoState`, `Torn`,
  `Nothing`, `None`, `Absent` (`RegistryAssumption`, `ApprovalAssumption`,
  `StateAssumption`, `RequestAssumption`, parts of `WorkflowAssumption`,
  `SkillAssumption` and `CatalogAssumption`), and run ids from thread ids;
- limits and budgets are natural numbers, and positive where the code insists on
  that (`ReviewAssumption`, `WorkflowAssumption`, `StreamingAssumption`,
  `GatewayAssumption`, `PlanningAssumption`, `RepositoryAssumption`);
- what is handed in has its shape: plans and lists of targets are not empty, no
  initial target is named twice, documents and queries are not empty, and batches of
  skills, trees and operations are of the right kind (`RequestsAssumption`, `BackupAssumption`);
- the seeded tools have ids of their own and no repetition without a plan
  (`CatalogAssumption`).

TLC evaluates all of them on the instances. Two modules need a hypothesis more,
which the code does not enforce, and for each there is a run that shows what
happens without it: `DistinctIds` of `ImplementationWorkflow_proofs`, no two
packets of a plan have one id (`implementation_skipped`), and `OneAtATime` of
`SkillLifecycle_proofs`, there is one requesting thread (`skills_stale`). Both hold in
the passing runs of their modules.

**RunRegistry.** None of the properties is inductive: a load and the write that
follows it are separate steps, so a state in which some thread holds a stale
record breaks them one step later. `IInv` therefore says what every thread
can hold at every control point. `RequestKnowsRun` and `RequestPersists`: a
request thread that is about to persist holds the first record of a run it
reserved itself, the response of a synchronous run, or a `cancel_requested`
whose signal is on disk as long as the worker has yet to look. `WorkerHolds`
says the same of the worker. `OneSubmitter` and `UnusedIsUnknown`: nobody else
knows a run whose id has just been taken. `CleanupOfFinished`: a cleanup has its
hands only on runs whose worker is past its work. `CancelIsSignalled`: every
record that shows a cancel, in file, cache and the worker's hands, has its signal. `Inductive` is
`Spec => []IInv`; its lemma `StepKeeps` has a step for each action.

`FinishedNotRunning` and `OnlyStaleCancelReopens` need a second layer on top,
`JInv`: the outcome of a returned worker stays (`OutcomeStays`), a worker's write
never meets a terminal record (`WorkerWritesOpen`), a synchronous run's record
is new (`InlineIsNew`). `Settled` is `Spec => []JInv`, proved with `IInv` known.

**DocumenterReview.** `ReportsFollowQueue` speaks of the control points and is not
inductive: that `Continue` finds the queue at the first chunk that is missing depends on
what the batch in flight holds. `ReviewInv` adds to `TypeOK`: the progress is sound (`Progressing`: reports are
a first part of the plan, completed chunks are those reported, documents before
the index are finished, the queue is within its limits), the file holds what memory
holds with the status that its place demands (`Durable`), the index is where the
place demands (`Placed`), and the batch is what the plan has after the reports
(`Batched`). The plan of a queue is a flattening of chunk lists;
`PlanGrows` and its neighbours say how it extends when the queue does. For the refinement
`Start` is `Open`, `ApplyOutcome` is `RecordNext`, `WriteReport` is `Complete`, a
resumption from "review_complete" and `SummaryFails` are `Reopen`, `MarkCompleted` is
`Close`, `CancelRequested` is `Cancel`, `CrashInWrite` is `Lose`; all other steps stutter.

**ImplementationWorkflow.** `StateInv`: the file names the packets before its index in
order (`Recorded`), a verification has its result only after the last (`Decided`), and
cursor and `completed_ids` are where the place demands (`Placed`); it is what `VerificationStays` and the
refinement rest on. `DistinctIds` enters at
`SkipPacket`, and at `ProcessPacket` for the drafts, which are named by packet.
`TargetIsRight` needs `FileInv`, whose `EditInv` carries the history of edits over
the step between an edit and its record: the target is a replay of a sequence of
packet numbers, in order, without gaps, longer than the index by no more than the
crashes and the packet in flight. An edit appends its number to that history; a replay of a longer
history agrees with the shorter one where both are defined, by induction (`ReplayPrefix`, `ReplayAppend`).

**ApprovalContinuation.** `IInv` adds to the checked invariants what a request at
work holds (`RequestHolds`), that without a race one request at most is
continuing an approval that nobody has continued (`OneAtATime`), and that a
continued approval is used or its marker on the way (`MarkerFollows`). For
`UsedForGood` the state predicate "used, in nobody's hands, and continued by
exactly these" is shown to be kept by every step.

**SkillLifecycle.** The properties speak of the time between requests, so the
invariant must say what holds within one. `SkillInv` compares the files with `ack`,
what the successful requests made: place by place, which file is still as it was
and which is already as the request writes it (`Progress`), that snapshot and
backups are of `ack` and which workflow can be at which place (`Holds`), and that the bodies a
registration has put in place are the first of its batch (`Installing`). A registration's bodies
that a failed rollback leaves behind belong to no registered skill, so `BodiesOld` speaks of
registered ones only. `BackupsSuffice` is then overlaying a backup on files that differ from
it only where it has an entry.

**StreamingDocumenter.** `ReadingInv` says that file and memory are the same state
while an invocation runs, that the ranges follow each other up to the next byte, that the line
is that of this byte, and that only a document read to its end is completed. It carries the
refinement: `Start` is `Open`, a turn of the loop that reviews a chunk is `Advance`, `EndRun`
at the end is `Complete`, `CrashInWrite` on the state file is `Lose`, the rest stutters. Each of
the other properties has a layer of its own on top of it:

- `MatchInv`: the matches in the file are right, and the tail is the last bytes before the
  next one, fewer than the query has. An occurrence then either ends before the chunk, and was
  searched, or begins no earlier than the tail, and is found in the text made of tail and chunk
  (`FoundInChunk`). `MatchStartsRight` is the search itself, which goes on behind each match.
- `HeadingInv`: the outline is right up to the next byte, with the bytes in `cuts` as further
  beginnings of lines, and the line in progress begins where the line tail does (`InLine`). The
  headings up to the end of a chunk are those before it, followed by those of lines that end
  in it (`HeadingsInChunk`, `HeadingsJoined`); a resumption within a line adds a beginning behind all
  lines that are listed (`CutLater`).
- `AnswerInv`: claims have their sources, the frontier flattens to the chunk summaries
  (`MergeBatchesRight`: a round of merges keeps the flattening), and each chunk's summaries
  are counted against its failures (`Accounted`, by cardinalities of sets of positions).

**WorkflowRouter.** `RequestsFit`: `ForwardedFits` is inductive, because
`lastCall` changes only in `Forwarded`; the lemmas `OutputLimitFits` and
`InputCounted` are the arithmetic of the gateway, `ForwardedCallFits` puts them
together for one call. `RollbackIsRight` needs `RollbackInv`: while operations
are applied, every target that was there has a backup whose file holds what a
target of that backup name was, and every other file of the copy is as in
`copyBefore` (`BackedUp`).
`BackUpBacksUp` establishes that, from the existence of a last writer (`Least`,
`LastOf`, by the well-ordering of the naturals); `ApplyKeepsBackedUp` keeps it; `RollbackDoesRestore` is the
rollback itself. All other steps leave these variables alone (`OthersKeepInv`).

`RunStateRight` needs to know how many calls a place in the chain stands for: `PlanInv`
has the artifacts of the steps that are gone and a number of calls between one and two for each
of them that asks the model (`Gone`, `Used`). That no step occurs twice in a chain makes the two counts agree.
`FinishedMeansProven` puts three invariants on top of the types (`TypeInv`) and the two
above: `CopyInv`, the copy is of the initial tree while nobody has edited;
`OperationsInv`, the copy is what the operations before the cursor make of it, and what the checks
at the end found; `ResultInv`, what the router says follows from what the call below it
returned.

**CatalogGovernance.** What is checked of the catalog must be known of every
`base` too, since a `base` is written back: `IdsDiffer` (every open append holds a
loadable catalog without the id it adds), `MadeStays` (an undisturbed entry is in
the file and in every open append of its catalog), `NoRepeats` (what a validation found
of the tools is still so unless crossed) and `GateHolds` (what is enabled, or past
the gate on the way to be, was let ship with its present operations). Their
conjunction is `IInv`. `Aside`, `Reading` and `Replacing` say what each kind of
step changes; each conjunct has a lemma with a step for each kind. The case that
matters is `ReplaceCatalog`: the other appends of the catalog have
read it before the new entry came, which is why that entry then counts as overlapped.

**Folds and recursive functions.** The plan of a queue, the replay of packets, the application of
operations, the search, the outline and the merges are recursive functions or folds over sequences. The
library's induction theorems take an operator as a parameter, which the provers cannot
instantiate. The proofs therefore make induction by hand: the set of numbers up to
a bound at which the claim holds contains the first and the successor of each of its
members, so a least number outside of it would be neither (`Least`, `IntervalInduction`,
`Smallest`, `Induction`), and the same way a recursive function on an interval is shown to satisfy its
equation (`Recursion`).

**Only model-checked.** Liveness: `RunsSettle` and `InvocationReturns` (of
`review_queue` and `implementation_resume`). Liveness under fairness, and with it
`ENABLED`, is beyond the provers used here. Beside that, the four violations, which are
counterexamples.

## 7. What is not modelled

Within the modelled components:

- the chat routes `natural_approved_investigation_packet_prep` and
  `narrowed-edit` (`server.py` 7495-7656), which name an approved run without
  looking at its marker;
- a torn write of a target file, two concurrent resumptions of one state file,
  documents that change between sessions: the code assumes that none of them
  happens, and every property of the resumable workflows would fail with them;
- encodings of file contents, texts of prompts, reports and change plans, the
  conversion of documenter reports into packets;
- pack installation (it reuses the registration's functions), audit and scaffold
  of skills;
- of streaming: documents that are not Markdown, the folding of case in queries,
  empty documents, and a document that changes or two invocations at a time, which
  the code does not notice;
- of the router: its read-only modes, the classification of a request, the
  making of proposals, and the question whether the operations fit the
  objective; a crash, since its runs are not resumed;
- of a disposable apply: excluded directories and symbolic links; digests and
  hashes are seen as the contents themselves, each read in one step; nobody else
  writes in the copy. The draft of a planning run is judged in one step;
- of planning: what skills answer; packets that a model previews may be
  anything, and so may the result of their draft;
- of the gateway: the prompt proxy's rewriting of prompts, streaming of answers;
- of the catalogs: the hashes of the files before and after an append, which are
  reported and never compared; manifests that are not well formed; validation
  without registration, which changes nothing; the fixture connector of
  natural-language prompts, which is invoked on a copy of the catalogs of its own;
  the tool policy of a workflow, a function of the catalogs; the mediator's tool loop, which
  no controller calls; reports that somebody else than the gate writes;
- two skill changes at a time, except for `skills_stale`: the properties of
  `skills_rollback` are claims about one request at a time.

Whole components, with reasons in `PROJECT.json`: routing of natural-language
requests (classification of texts within one request), code context and
investigation (read-only heuristics), structure index, fixtures, run inspector, capability routing,
acceptance scripts, end-to-end drivers and shell scripts. The large-context
strategies are planned.

## 8. Plan

The order follows how much durable state a component has and how many actors
touch it. Done: `RunRegistry`, `DocumenterReview`, `ImplementationWorkflow`,
`ApprovalContinuation`, `SkillLifecycle`, `StreamingDocumenter`, `ModelGateway`,
`ExecutionPlanning`, `DisposableApply`, their composition `WorkflowRouter`,
`CatalogRegistration` and `CatalogGovernance`, and proofs about all of them.

Next, modelling:

1. `ChunkDocument` (`chunk_document` of the orchestrator): chunks cover a
   document in order, within the limits, checked against a reference definition.
2. The chunk loop of the chunked investigation.
3. A composition of `RunRegistry` and `DocumenterReview`: cancel from the HTTP
   request down to the last chunk.

Then, proofs of the safety that these modules add. The liveness properties stay
with TLC.

## 9. Running it

In this directory: `tlc -config RunRegistry_race.cfg RunRegistry` (module and
configuration of each run are in `PROJECT.json`), and
`tlapm RunRegistry_proofs.tla`. The models use the community modules
`SequencesExt`, `FiniteSetsExt` and `Functions`. Each run takes seconds to a few minutes,
and so does each module of proofs.
