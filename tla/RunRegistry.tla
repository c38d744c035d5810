----------------------------- MODULE RunRegistry -----------------------------
(***************************************************************************)
(* The run records of the controller service                               *)
(* (controller_service/server.py): one JSON file per run, an in-process    *)
(* cache of the last record written, and one stop-signal file per          *)
(* asynchronous run.                                                       *)
(*                                                                         *)
(* ThreadingHTTPServer gives every request a thread of its own, and an     *)
(* asynchronous documenter review runs in one more daemon thread.  None of *)
(* them takes a lock around "load the record, change it, persist it", so   *)
(* every load, every file replacement, every cache update and every unlink *)
(* is a step of its own here.                                              *)
(***************************************************************************)
EXTENDS FiniteSets

CONSTANTS
    Runs,       \* run ids; a run's id also names its worker thread
    Threads,    \* request threads of the HTTP server
    NoRecord    \* no file, no cache entry, an empty buffer

Processes == Runs \cup Threads

\* "queued" exists only inside async_initial_response: it is never persisted.
TERMINAL_STATUSES == {"completed", "failed", "canceled"}
Statuses == TERMINAL_STATUSES \cup {"running", "paused", "cancel_requested"}

(***************************************************************************)
(* What the operations read of a record: its status, the lifecycle flag    *)
(* cancel_requested, whether lifecycle.stop_requested_path is there (only  *)
(* asynchronous runs have one) and whether it carries the artifacts of a   *)
(* finished workflow.                                                      *)
(***************************************************************************)
Record == [status : Statuses, cancel_requested : BOOLEAN,
           stoppable : BOOLEAN, artifacts : BOOLEAN]

ASSUME RegistryAssumption ==
    /\ Runs \cap Threads = {}
    /\ NoRecord \notin Runs \cup Threads \cup Record

VARIABLES
    file,     \* file[r]: the record stored for r, or NoRecord
    cache,    \* cache[r]: RUN_RECORD_CACHE of this server process
    stop,     \* stop[r]: the file r.stop.json exists
    at,       \* at[p]: the control point of a worker or request thread
    op,       \* op[p]: the operation p executes
    arg,      \* arg[t]: the run request thread t works on
    buf,      \* buf[p]: the record p has loaded or is about to persist
    todo      \* todo[t]: the paths a cleanup has listed and not yet visited

vars == <<file, cache, stop, at, op, arg, buf, todo>>

RunOf(p) == IF p \in Runs THEN p ELSE arg[p]

-----------------------------------------------------------------------------
(***************************************************************************)
(* Control points.  A worker is "unused" until its run id is taken,        *)
(* "reserved" while start_async_documenter_review persists the first       *)
(* record, "inline" when the run belongs to a synchronous request, "done"  *)
(* when run_documenter_worker has returned and "lost" when the process     *)
(* died under it.                                                          *)
(***************************************************************************)
LoadPoints    == {"load", "load_cached"}
PersistPoints == {"replace", "publish", "visible"}
WorkerPoints  == LoadPoints \cup PersistPoints \cup
                 {"unused", "reserved", "inline", "check_stop", "invoke",
                  "respond", "except", "done", "lost"}
ThreadPoints  == LoadPoints \cup PersistPoints \cup
                 {"idle", "cancel", "next_path", "look_for_stop",
                  "unlink_stop", "unlink", "evict"}

WorkerOps == {"none", "mark", "final", "failed"}
ThreadOps == {"none", "submit", "inline", "cancel", "cleanup"}

TypeOK ==
    /\ file \in [Runs -> Record \cup {NoRecord}]
    /\ cache \in [Runs -> Record \cup {NoRecord}]
    /\ stop \in [Runs -> BOOLEAN]
    /\ at \in [Processes -> WorkerPoints \cup ThreadPoints]
    /\ \A r \in Runs : at[r] \in WorkerPoints
    /\ \A t \in Threads : at[t] \in ThreadPoints
    /\ op \in [Processes -> WorkerOps \cup ThreadOps]
    /\ arg \in [Threads -> Runs \cup {NoRecord}]
    /\ buf \in [Processes -> Record \cup {NoRecord}]
    /\ todo \in [Threads -> SUBSET Runs]

Init ==
    /\ file = [r \in Runs |-> NoRecord]
    /\ cache = [r \in Runs |-> NoRecord]
    /\ stop = [r \in Runs |-> FALSE]
    /\ at = [p \in Processes |-> IF p \in Runs THEN "unused" ELSE "idle"]
    /\ op = [p \in Processes |-> "none"]
    /\ arg = [t \in Threads |-> NoRecord]
    /\ buf = [p \in Processes |-> NoRecord]
    /\ todo = [t \in Threads |-> {}]

-----------------------------------------------------------------------------
(***************************************************************************)
(* Shared steps.  Answer ends a request, with a reply or with an error;    *)
(* Return ends a worker thread.                                            *)
(***************************************************************************)
Goto(p, point) == at' = [at EXCEPT ![p] = point]

Answer(t) ==
    /\ op' = [op EXCEPT ![t] = "none"]
    /\ arg' = [arg EXCEPT ![t] = NoRecord]
    /\ buf' = [buf EXCEPT ![t] = NoRecord]
    /\ todo' = [todo EXCEPT ![t] = {}]

Return(r) ==
    /\ Goto(r, "done")
    /\ op' = [op EXCEPT ![r] = "none"]
    /\ buf' = [buf EXCEPT ![r] = NoRecord]
    /\ UNCHANGED <<arg, todo>>

\* Hand the record rec to persist_run_record.
Persist(p, operation, rec) ==
    /\ Goto(p, "replace")
    /\ op' = [op EXCEPT ![p] = operation]
    /\ buf' = [buf EXCEPT ![p] = rec]

(***************************************************************************)
(* load_run_record: the file if it is there, else the cache, else 404.     *)
(***************************************************************************)
AfterLoad(p) == IF p \in Runs THEN "check_stop" ELSE "cancel"

LoadFile(p) ==
    /\ at[p] = "load"
    /\ IF file[RunOf(p)] # NoRecord
       THEN /\ buf' = [buf EXCEPT ![p] = file[RunOf(p)]]
            /\ Goto(p, AfterLoad(p))
       ELSE /\ Goto(p, "load_cached")
            /\ UNCHANGED buf
    /\ UNCHANGED <<file, cache, stop, op, arg, todo>>

LoadCached(p) ==
    /\ at[p] = "load_cached"
    /\ cache[RunOf(p)] # NoRecord
    /\ buf' = [buf EXCEPT ![p] = cache[RunOf(p)]]
    /\ Goto(p, AfterLoad(p))
    /\ UNCHANGED <<file, cache, stop, op, arg, todo>>

\* 404 for a request, the except clause for a worker.  (A worker does find
\* its record: no cleanup takes the record of a run that is at work.)
NotFound(p) ==
    /\ at[p] = "load_cached"
    /\ cache[RunOf(p)] = NoRecord
    /\ IF p \in Threads
       THEN Goto(p, "idle") /\ Answer(p)
       ELSE Goto(p, "except") /\ UNCHANGED <<op, arg, buf, todo>>
    /\ UNCHANGED <<file, cache, stop>>

(***************************************************************************)
(* persist_run_record: write a temporary file and rename it over the       *)
(* record, store the record in the cache, then look whether the file is    *)
(* there.  Readers never see half a record; the three effects are not one  *)
(* step.                                                                   *)
(***************************************************************************)
Replace(p) ==
    /\ at[p] = "replace"
    /\ file' = [file EXCEPT ![RunOf(p)] = buf[p]]
    /\ Goto(p, "publish")
    /\ UNCHANGED <<cache, stop, op, arg, buf, todo>>

Publish(p) ==
    /\ at[p] = "publish"
    /\ cache' = [cache EXCEPT ![RunOf(p)] = buf[p]]
    /\ Goto(p, "visible")
    /\ UNCHANGED <<file, stop, op, arg, buf, todo>>

Visible(p) == at[p] = "visible" /\ file[RunOf(p)] # NoRecord

\* "Run record was not visible after persistence."
Vanished(p) == at[p] = "visible" /\ file[RunOf(p)] = NoRecord

-----------------------------------------------------------------------------
(***************************************************************************)
(* run_documenter_worker.                                                  *)
(***************************************************************************)
\* mark_async_run_running: a stop signal seen here cancels the queued run.
CheckStop(r) ==
    /\ at[r] = "check_stop"
    /\ IF buf[r].stoppable /\ stop[r]
       THEN Persist(r, "mark", [buf[r] EXCEPT !.status = "canceled",
                                              !.cancel_requested = TRUE])
       ELSE Persist(r, "mark", [buf[r] EXCEPT !.status = "running"])
    /\ UNCHANGED <<file, cache, stop, arg, todo>>

\* Mutant: the worker does not look at the status it has just marked.
MarkedAnything(r) ==
    /\ Visible(r)
    /\ op[r] = "mark"
    /\ Goto(r, "invoke")
    /\ UNCHANGED <<file, cache, stop, op, arg, buf, todo>>

MarkedRunning(r) ==
    /\ Visible(r)
    /\ op[r] = "mark"
    /\ buf[r].status # "canceled"
    /\ Goto(r, "invoke")
    /\ UNCHANGED <<file, cache, stop, op, arg, buf, todo>>

\* The end of the thread: after the queued run was canceled, after the
\* outcome was persisted, or when persisting the failure raised in its turn.
WorkerReturns(r) ==
    /\ \/ Visible(r) /\ (op[r] = "mark" => buf[r].status = "canceled")
       \/ Vanished(r) /\ op[r] = "failed"
    /\ Return(r)
    /\ UNCHANGED <<file, cache, stop>>

WorkerPersistRaises(r) ==
    /\ Vanished(r)
    /\ op[r] # "failed"
    /\ Goto(r, "except")
    /\ UNCHANGED <<file, cache, stop, op, arg, buf, todo>>

(***************************************************************************)
(* invoke_documenter ends: completed, paused after stop_after_chunks, or   *)
(* canceled, which takes a stop signal; a run may complete although one is *)
(* there, because nothing looks for it after the last packet.              *)
(***************************************************************************)
InvokeReturns(r, status) ==
    /\ at[r] = "invoke"
    /\ status = "canceled" => stop[r]
    /\ Goto(r, "respond")
    /\ buf' = [buf EXCEPT ![r] = [status |-> status, cancel_requested |-> FALSE,
                                  stoppable |-> TRUE, artifacts |-> TRUE]]
    /\ UNCHANGED <<file, cache, stop, op, arg, todo>>

\* Mutant: a failure ends the thread, unrecorded.
InvokeDies(r) ==
    /\ at[r] = "invoke"
    /\ Return(r)
    /\ UNCHANGED <<file, cache, stop>>

InvokeRaises(r) ==
    /\ at[r] = "invoke"
    /\ Goto(r, "except")
    /\ UNCHANGED <<file, cache, stop, op, arg, buf, todo>>

\* response_with_lifecycle, then persist_run_record.
Respond(r) ==
    /\ at[r] = "respond"
    /\ Persist(r, "final", [buf[r] EXCEPT !.cancel_requested = stop[r]])
    /\ UNCHANGED <<file, cache, stop, arg, todo>>

\* The except clause of the worker.
WorkerFails(r) ==
    /\ at[r] = "except"
    /\ Persist(r, "failed", [status |-> "failed", cancel_requested |-> stop[r],
                             stoppable |-> TRUE, artifacts |-> FALSE])
    /\ UNCHANGED <<file, cache, stop, arg, todo>>

Worker(r) ==
    \/ LoadFile(r)
    \/ LoadCached(r)
    \/ NotFound(r)
    \/ Replace(r)
    \/ Publish(r)
    \/ CheckStop(r)
    \/ MarkedRunning(r)
    \/ WorkerReturns(r)
    \/ WorkerPersistRaises(r)
    \/ \E status \in {"completed", "paused", "canceled"} : InvokeReturns(r, status)
    \/ InvokeRaises(r)
    \/ Respond(r)
    \/ WorkerFails(r)

-----------------------------------------------------------------------------
(***************************************************************************)
(* Requests.  The run id of a submission is fresh.                         *)
(***************************************************************************)
\* Mutant: the first record is persisted as it comes from async_initial_response.
SubmitQueued(t, r) ==
    /\ at[t] = "idle"
    /\ at[r] = "unused"
    /\ arg' = [arg EXCEPT ![t] = r]
    /\ op' = [op EXCEPT ![t] = "submit"]
    /\ buf' = [buf EXCEPT ![t] = [status |-> "queued", cancel_requested |-> FALSE,
                                  stoppable |-> TRUE, artifacts |-> FALSE]]
    /\ at' = [at EXCEPT ![t] = "replace", ![r] = "reserved"]
    /\ UNCHANGED <<file, cache, stop, todo>>

\* start_async_documenter_review up to its call of persist_run_record.
Submit(t, r) ==
    /\ at[t] = "idle"
    /\ at[r] = "unused"
    /\ arg' = [arg EXCEPT ![t] = r]
    /\ op' = [op EXCEPT ![t] = "submit"]
    /\ buf' = [buf EXCEPT ![t] = [status |-> "running", cancel_requested |-> FALSE,
                                  stoppable |-> TRUE, artifacts |-> FALSE]]
    /\ at' = [at EXCEPT ![t] = "replace", ![r] = "reserved"]
    /\ UNCHANGED <<file, cache, stop, todo>>

\* thread.start() and the 202 answer.
StartWorker(t) ==
    /\ Visible(t)
    /\ op[t] = "submit"
    /\ at' = [at EXCEPT ![t] = "idle", ![arg[t]] = "load"]
    /\ Answer(t)
    /\ UNCHANGED <<file, cache, stop>>

\* The synchronous handlers: the workflow has run inside the request and its
\* response, which has no lifecycle, is about to be persisted.
RunInline(t, r, status) ==
    /\ at[t] = "idle"
    /\ at[r] = "unused"
    /\ arg' = [arg EXCEPT ![t] = r]
    /\ op' = [op EXCEPT ![t] = "inline"]
    /\ buf' = [buf EXCEPT ![t] = [status |-> status, cancel_requested |-> FALSE,
                                  stoppable |-> FALSE, artifacts |-> TRUE]]
    /\ at' = [at EXCEPT ![t] = "replace", ![r] = "inline"]
    /\ UNCHANGED <<file, cache, stop, todo>>

\* The answer to a cancel, a synchronous review or a persist that raised.
PersistAnswered(t) ==
    /\ \/ Visible(t) /\ op[t] # "submit"
       \/ Vanished(t)
    /\ Goto(t, "idle")
    /\ Answer(t)
    /\ UNCHANGED <<file, cache, stop>>

\* POST /runs/{run_id}/cancel: load the record ...
Cancel(t, r) ==
    /\ at[t] = "idle"
    /\ Goto(t, "load")
    /\ op' = [op EXCEPT ![t] = "cancel"]
    /\ arg' = [arg EXCEPT ![t] = r]
    /\ UNCHANGED <<file, cache, stop, buf, todo>>

Cancelable(rec) == rec.status \notin TERMINAL_STATUSES /\ rec.stoppable

\* ... answer 409 run_not_cancelable ...
CancelRefused(t) ==
    /\ at[t] = "cancel"
    /\ ~ Cancelable(buf[t])
    /\ Goto(t, "idle")
    /\ Answer(t)
    /\ UNCHANGED <<file, cache, stop>>

\* Mutant: the record is persisted with the status it was loaded with.
CancelKeepsStatus(t) ==
    /\ at[t] = "cancel"
    /\ Cancelable(buf[t])
    /\ stop' = [stop EXCEPT ![arg[t]] = TRUE]
    /\ Persist(t, "cancel", [buf[t] EXCEPT !.cancel_requested = TRUE])
    /\ UNCHANGED <<file, cache, arg, todo>>

\* Mutant: no stop signal is written.
CancelWithoutSignal(t) ==
    /\ at[t] = "cancel"
    /\ Cancelable(buf[t])
    /\ Persist(t, "cancel", [buf[t] EXCEPT !.status = "cancel_requested",
                                           !.cancel_requested = TRUE])
    /\ UNCHANGED <<file, cache, stop, arg, todo>>

\* ... or write the stop signal and persist the record that was loaded.
CancelAccepted(t) ==
    /\ at[t] = "cancel"
    /\ Cancelable(buf[t])
    /\ stop' = [stop EXCEPT ![arg[t]] = TRUE]
    /\ Persist(t, "cancel", [buf[t] EXCEPT !.status = "cancel_requested",
                                           !.cancel_requested = TRUE])
    /\ UNCHANGED <<file, cache, arg, todo>>

-----------------------------------------------------------------------------
(***************************************************************************)
(* cleanup_run_records: for every path listed, read the record, decide,    *)
(* unlink the stop signal, unlink the record, evict the cache entry.       *)
(***************************************************************************)
\* Mutant: a run that is being canceled may be cleaned up.
CleanupAnyStopped == TERMINAL_STATUSES \cup {"paused", "cancel_requested"}

CLEANUP_STATUSES == TERMINAL_STATUSES \cup {"paused"}

Cleanup(t) ==
    /\ at[t] = "idle"
    /\ Goto(t, "next_path")
    /\ op' = [op EXCEPT ![t] = "cleanup"]
    /\ todo' = [todo EXCEPT ![t] = {r \in Runs : file[r] # NoRecord}]
    /\ UNCHANGED <<file, cache, stop, arg, buf>>

\* Its status was not asked for, or the record is too young.
CleanupSkips(t, r) ==
    /\ at[t] = "next_path"
    /\ r \in todo[t]
    /\ file[r] # NoRecord
    /\ todo' = [todo EXCEPT ![t] = @ \ {r}]
    /\ UNCHANGED <<file, cache, stop, at, op, arg, buf>>

CleanupSelects(t, r) ==
    /\ at[t] = "next_path"
    /\ r \in todo[t]
    /\ file[r] # NoRecord
    /\ file[r].status \in CLEANUP_STATUSES
    /\ arg' = [arg EXCEPT ![t] = r]
    /\ buf' = [buf EXCEPT ![t] = file[r]]
    /\ todo' = [todo EXCEPT ![t] = @ \ {r}]
    /\ Goto(t, "look_for_stop")
    /\ UNCHANGED <<file, cache, stop, op>>

\* The signal is unlinked if it is there.
LookForStop(t) ==
    /\ at[t] = "look_for_stop"
    /\ Goto(t, IF buf[t].stoppable /\ stop[arg[t]] THEN "unlink_stop" ELSE "unlink")
    /\ UNCHANGED <<file, cache, stop, op, arg, buf, todo>>

UnlinkStop(t) ==
    /\ at[t] = "unlink_stop"
    /\ stop[arg[t]]
    /\ stop' = [stop EXCEPT ![arg[t]] = FALSE]
    /\ Goto(t, "unlink")
    /\ UNCHANGED <<file, cache, op, arg, buf, todo>>

Unlink(t) ==
    /\ at[t] = "unlink"
    /\ file[arg[t]] # NoRecord
    /\ file' = [file EXCEPT ![arg[t]] = NoRecord]
    /\ Goto(t, "evict")
    /\ UNCHANGED <<cache, stop, op, arg, buf, todo>>

Evict(t) ==
    /\ at[t] = "evict"
    /\ cache' = [cache EXCEPT ![arg[t]] = NoRecord]
    /\ Goto(t, "next_path")
    /\ arg' = [arg EXCEPT ![t] = NoRecord]
    /\ buf' = [buf EXCEPT ![t] = NoRecord]
    /\ UNCHANGED <<file, stop, op, todo>>

\* A path or a signal another cleanup has removed: read, stat or unlink
\* raises FileNotFoundError and the rest of the list is not visited.
CleanupRaises(t) ==
    /\ \/ at[t] = "next_path" /\ \E r \in todo[t] : file[r] = NoRecord
       \/ at[t] \in {"look_for_stop", "unlink"} /\ file[arg[t]] = NoRecord
       \/ at[t] = "unlink_stop" /\ ~ stop[arg[t]]
    /\ Goto(t, "idle")
    /\ Answer(t)
    /\ UNCHANGED <<file, cache, stop>>

CleanupDone(t) ==
    /\ at[t] = "next_path"
    /\ todo[t] = {}
    /\ Goto(t, "idle")
    /\ Answer(t)
    /\ UNCHANGED <<file, cache, stop>>

Request(t) ==
    \/ \E r \in Runs : Submit(t, r) \/ Cancel(t, r)
    \/ \E r \in Runs, status \in {"completed", "paused", "failed"} : RunInline(t, r, status)
    \/ Cleanup(t)

Serve(t) ==
    \/ LoadFile(t)
    \/ LoadCached(t)
    \/ NotFound(t)
    \/ Replace(t)
    \/ Publish(t)
    \/ StartWorker(t)
    \/ PersistAnswered(t)
    \/ CancelRefused(t)
    \/ CancelAccepted(t)
    \/ \E r \in Runs : CleanupSkips(t, r) \/ CleanupSelects(t, r)
    \/ LookForStop(t)
    \/ UnlinkStop(t)
    \/ Unlink(t)
    \/ Evict(t)
    \/ CleanupRaises(t)
    \/ CleanupDone(t)

-----------------------------------------------------------------------------
\* The service process ends, at any moment, and is started again: the files
\* stay, every thread and the cache are gone.  main() recovers nothing.
Restart ==
    /\ at' = [p \in Processes |->
                 IF p \in Threads THEN "idle"
                 ELSE IF at[p] \in {"unused", "inline", "done"} THEN at[p] ELSE "lost"]
    /\ cache' = [r \in Runs |-> NoRecord]
    /\ op' = [p \in Processes |-> "none"]
    /\ arg' = [t \in Threads |-> NoRecord]
    /\ buf' = [p \in Processes |-> NoRecord]
    /\ todo' = [t \in Threads |-> {}]
    /\ UNCHANGED <<file, stop>>

Next ==
    \/ \E r \in Runs : Worker(r)
    \/ \E t \in Threads : Request(t) \/ Serve(t)
    \/ Restart

Spec == Init /\ [][Next]_vars

(***************************************************************************)
(* A started thread keeps running; nobody has to send requests, and the    *)
(* process has to neither fail nor survive.                                *)
(***************************************************************************)
Fairness ==
    /\ \A r \in Runs : WF_vars(Worker(r))
    /\ \A t \in Threads : WF_vars(Serve(t))

FairSpec == Spec /\ Fairness

-----------------------------------------------------------------------------
(***************************************************************************)
(* Properties.                                                             *)
(***************************************************************************)
\* What GET /runs/{run_id} answers in a quiet moment.
Served(r) == IF file[r] # NoRecord THEN file[r] ELSE cache[r]

Shows(rec, S) == rec # NoRecord /\ rec.status \in S

\* The worker of r has the workflow, or the end of it, still before it.
Ahead(r) ==
    \/ at[r] \in {"reserved", "load", "load_cached", "check_stop", "invoke", "respond"}
    \/ op[r] = "mark" /\ buf[r] # NoRecord /\ buf[r].status = "running"

\* Some request thread is in the middle of an operation on r.
Busy(r) == \E t \in Threads : arg[t] = r

\* A record that cleanup may delete belongs to a run whose workflow is over:
\* run_documenter_worker persists a terminal or paused status as the last
\* thing it does, and no stale write of another thread brings one earlier.
NoTerminalWhileWorking ==
    \A r \in Runs : Ahead(r) => ~ Shows(file[r], CLEANUP_STATUSES)

\* cleanup_run_records never takes the stop signal away from a worker that
\* has yet to look for it, although it decides on a record it read earlier.
StopSignalKept ==
    [][\A r \in Runs : stop[r] /\ ~ stop'[r] => ~ Ahead(r)]_vars

\* A run that shows cancel_requested while its worker still works has its
\* stop signal on disk: cancel_run writes the signal before the record.
CancelShownIsSignalled ==
    \A r \in Runs :
        Ahead(r) /\ file[r] # NoRecord /\ file[r].cancel_requested => stop[r]

\* When run_documenter_worker has returned, neither the file nor the cache
\* it leaves behind says that the run is still running.
FinishedNotRunning ==
    \A r \in Runs : at[r] = "done" => ~ Shows(Served(r), {"running"})

\* cancel_run refuses a run whose status is terminal.  A terminal record is
\* therefore replaced by nothing but the write of a cancel that had loaded the
\* record before, and that write can replace it.
OnlyStaleCancelReopens ==
    [][\A r \in Runs :
          Shows(file[r], TERMINAL_STATUSES) =>
              file'[r] \in {file[r], NoRecord} \/ Shows(file'[r], {"cancel_requested"})]_vars

\* A started worker settles its record for good, unless the process dies:
\* from some point on the run is never shown as running again.
RunsSettle ==
    \A r \in Runs :
        at[r] = "load" ~> [](at[r] = "lost" \/ ~ Shows(Served(r), {"running"}))

\* A cancel that was accepted ends the run: it becomes terminal, unless it is
\* deleted or the process dies first.
CancelEndsRun ==
    \A r \in Runs :
        Shows(file[r], {"cancel_requested"}) ~>
            at[r] = "lost" \/ file[r] = NoRecord \/ Shows(file[r], TERMINAL_STATUSES)

\* Cleanup clears the cache too: a run without a file, whose worker has
\* returned and which no request is working on, is not found.
DeletedIsNotFound ==
    \A r \in Runs :
        at[r] = "done" /\ file[r] = NoRecord /\ ~ Busy(r) => cache[r] = NoRecord

=============================================================================
