------------------------- MODULE RunRegistry_proofs -------------------------
(***************************************************************************)
(* What RunRegistry keeps for every number of runs and request threads.    *)
(***************************************************************************)
EXTENDS RunRegistry, TLAPS

(***************************************************************************)
(* The inductive invariant, by named parts.                                *)
(***************************************************************************)
CleanupPoints == {"look_for_stop", "unlink_stop", "unlink", "evict"}
TargetPoints  == LoadPoints \cup PersistPoints \cup CleanupPoints \cup {"cancel"}

\* A request thread in the middle of an operation knows its run, and once it
\* has a record in its hands that run's id is taken.
RequestKnowsRun ==
    \A t \in Threads :
        /\ at[t] \in TargetPoints => arg[t] \in Runs
        /\ at[t] \in TargetPoints \ LoadPoints =>
              buf[t] # NoRecord /\ at[arg[t]] # "unused"

\* What a request thread persists: the first record of a reserved run, the
\* response of a synchronous one, or a cancel_requested, and then the stop
\* signal is there as long as the worker has yet to look for it.
RequestPersists ==
    \A t \in Threads : at[t] \in PersistPoints =>
        \/ /\ op[t] = "submit"
           /\ at[arg[t]] = "reserved"
           /\ buf[t].status = "running"
           /\ ~ buf[t].cancel_requested
        \/ op[t] = "inline" /\ at[arg[t]] = "inline"
        \/ /\ op[t] = "cancel"
           /\ buf[t].status = "cancel_requested"
           /\ Ahead(arg[t]) => stop[arg[t]]

\* Only one thread submits a run.
OneSubmitter ==
    \A t, u \in Threads :
        /\ at[t] \in PersistPoints /\ op[t] = "submit"
        /\ at[u] \in PersistPoints /\ op[u] = "submit"
        /\ arg[t] = arg[u]
        => t = u

\* What a worker holds at each of its control points.
WorkerHolds ==
    \A r \in Runs :
        /\ at[r] \in {"unused", "reserved", "inline", "load", "load_cached",
                      "check_stop", "done", "lost"} => op[r] = "none"
        /\ at[r] \in PersistPoints =>
              \/ op[r] = "mark" /\ Shows(buf[r], {"running", "canceled"})
              \/ op[r] \in {"final", "failed"} /\ Shows(buf[r], CLEANUP_STATUSES)
        /\ at[r] = "check_stop" => buf[r] # NoRecord
        /\ at[r] = "respond" => Shows(buf[r], {"completed", "paused", "canceled"})

\* Nothing is known of a run whose id is not taken.
UnusedIsUnknown ==
    \A r \in Runs : at[r] = "unused" =>
        file[r] = NoRecord /\ cache[r] = NoRecord /\ buf[r] = NoRecord

\* A cleanup has its hands only on runs whose worker is past its work.
CleanupOfFinished ==
    \A t \in Threads : at[t] \in CleanupPoints => ~ Ahead(arg[t])

Signalled(rec, r) == rec # NoRecord /\ rec.cancel_requested => stop[r]

\* While a worker has its work before it, every record that says that a
\* cancel was requested goes with a stop signal.
CancelIsSignalled ==
    \A r \in Runs : Ahead(r) =>
        Signalled(file[r], r) /\ Signalled(cache[r], r) /\ Signalled(buf[r], r)

IInv ==
    /\ TypeOK
    /\ RequestKnowsRun
    /\ RequestPersists
    /\ OneSubmitter
    /\ WorkerHolds
    /\ UnusedIsUnknown
    /\ NoTerminalWhileWorking
    /\ CleanupOfFinished
    /\ CancelIsSignalled

-----------------------------------------------------------------------------
\* The invariant holds of a service that has just been set up.
LEMMA InitHolds == Init => IInv
  BY RegistryAssumption
     DEF Init, IInv, TypeOK, RequestKnowsRun, RequestPersists, OneSubmitter, WorkerHolds,
         UnusedIsUnknown, NoTerminalWhileWorking, CleanupOfFinished, CancelIsSignalled,
         Ahead, Shows, Signalled, Processes, LoadPoints, PersistPoints, CleanupPoints,
         TargetPoints, WorkerPoints, ThreadPoints, WorkerOps, ThreadOps

(***************************************************************************)
(* What each action hands to persist_run_record, or holds for it: only the *)
(* parts of the record that the invariant speaks of.                       *)
(***************************************************************************)
Holds(p, operation, rec) ==
    /\ rec # NoRecord
    /\ at' = [at EXCEPT ![p] = "replace"]
    /\ op' = [op EXCEPT ![p] = operation]
    /\ buf' = [buf EXCEPT ![p] = rec]
    /\ UNCHANGED <<file, cache, todo>>

CheckStopEffect(r, rec) ==
    /\ at[r] = "check_stop"
    /\ Holds(r, "mark", rec)
    /\ rec.status \in {"running", "canceled"}
    /\ rec.cancel_requested => buf[r].cancel_requested \/ stop[r]
    /\ UNCHANGED <<stop, arg>>

InvokeEffect(r, status, rec) ==
    /\ at[r] = "invoke"
    /\ rec # NoRecord
    /\ rec.status = status
    /\ ~ rec.cancel_requested
    /\ at' = [at EXCEPT ![r] = "respond"]
    /\ buf' = [buf EXCEPT ![r] = rec]
    /\ UNCHANGED <<file, cache, stop, op, arg, todo>>

RespondEffect(r, rec) ==
    /\ at[r] = "respond"
    /\ Holds(r, "final", rec)
    /\ rec.status = buf[r].status
    /\ UNCHANGED <<stop, arg>>

FailEffect(r, rec) ==
    /\ at[r] = "except"
    /\ Holds(r, "failed", rec)
    /\ rec.status = "failed"
    /\ UNCHANGED <<stop, arg>>

TakesRun(t, r, point, rec) ==
    /\ at[t] = "idle"
    /\ at[r] = "unused"
    /\ rec # NoRecord
    /\ ~ rec.cancel_requested
    /\ at' = [at EXCEPT ![t] = "replace", ![r] = point]
    /\ arg' = [arg EXCEPT ![t] = r]
    /\ buf' = [buf EXCEPT ![t] = rec]
    /\ UNCHANGED <<file, cache, stop, todo>>

SubmitEffect(t, r, rec) ==
    /\ TakesRun(t, r, "reserved", rec)
    /\ rec.status = "running"
    /\ op' = [op EXCEPT ![t] = "submit"]

InlineEffect(t, r, rec) ==
    /\ TakesRun(t, r, "inline", rec)
    /\ op' = [op EXCEPT ![t] = "inline"]

CancelEffect(t, rec) ==
    /\ at[t] = "cancel"
    /\ Holds(t, "cancel", rec)
    /\ rec.status = "cancel_requested"
    /\ stop' = [stop EXCEPT ![arg[t]] = TRUE]
    /\ UNCHANGED arg

\* A record is never taken for "no record".
LEMMA RecordIsOne == ASSUME NEW rec \in Record PROVE rec # NoRecord
  BY RegistryAssumption

\* mark_async_run_running persists "running" or, after a stop, "canceled".
LEMMA CheckStopLemma ==
    ASSUME IInv, NEW r \in Runs, CheckStop(r)
    PROVE  \E rec \in Record : CheckStopEffect(r, rec)
<1>1. buf[r] \in Record
  BY DEF IInv, TypeOK, WorkerHolds, CheckStop, Processes
<1>2. CASE buf[r].stoppable /\ stop[r]
  <2> DEFINE rec == [buf[r] EXCEPT !.status = "canceled", !.cancel_requested = TRUE]
  <2>1. rec \in Record /\ rec.status = "canceled"
    BY <1>1 DEF Record, Statuses, TERMINAL_STATUSES
  <2>2. rec # NoRecord
    BY <2>1, RecordIsOne
  <2> HIDE DEF rec
  <2>3. /\ Persist(r, "mark", rec)
        /\ at[r] = "check_stop"
        /\ UNCHANGED <<file, cache, stop, arg, todo>>
    BY <1>2 DEF CheckStop, rec
  <2> QED BY <1>2, <2>1, <2>2, <2>3 DEF CheckStopEffect, Holds, Persist, Goto
<1>3. CASE ~ (buf[r].stoppable /\ stop[r])
  <2> DEFINE rec == [buf[r] EXCEPT !.status = "running"]
  <2>1. /\ rec \in Record
        /\ rec.status = "running"
        /\ rec.cancel_requested = buf[r].cancel_requested
    BY <1>1 DEF Record, Statuses, TERMINAL_STATUSES
  <2>2. rec # NoRecord
    BY <2>1, RecordIsOne
  <2> HIDE DEF rec
  <2>3. /\ Persist(r, "mark", rec)
        /\ at[r] = "check_stop"
        /\ UNCHANGED <<file, cache, stop, arg, todo>>
    BY <1>3 DEF CheckStop, rec
  <2> QED BY <1>3, <2>1, <2>2, <2>3 DEF CheckStopEffect, Holds, Persist, Goto
<1> QED BY <1>2, <1>3

\* invoke_documenter returns with one of its three statuses.
LEMMA InvokeLemma ==
    ASSUME NEW r \in Runs, NEW status \in {"completed", "paused", "canceled"},
           InvokeReturns(r, status)
    PROVE  \E rec \in Record : InvokeEffect(r, status, rec)
<1> DEFINE rec == [status |-> status, cancel_requested |-> FALSE,
                   stoppable |-> TRUE, artifacts |-> TRUE]
<1>1. rec \in Record
  BY DEF Record, Statuses, TERMINAL_STATUSES
<1>2. rec # NoRecord
  BY <1>1, RecordIsOne
<1> QED BY <1>1, <1>2 DEF InvokeReturns, InvokeEffect, Goto

\* The outcome is persisted with the status the workflow returned.
LEMMA RespondLemma ==
    ASSUME IInv, NEW r \in Runs, Respond(r)
    PROVE  \E rec \in Record : RespondEffect(r, rec)
<1> DEFINE rec == [buf[r] EXCEPT !.cancel_requested = stop[r]]
<1>1. buf[r] \in Record
  BY DEF IInv, TypeOK, WorkerHolds, Respond, Shows, Processes
<1>2. rec \in Record /\ rec.status = buf[r].status
  BY <1>1 DEF IInv, TypeOK, Record
<1>3. rec # NoRecord
  BY <1>2, RecordIsOne
<1> HIDE DEF rec
<1>4. /\ Persist(r, "final", rec)
      /\ at[r] = "respond"
      /\ UNCHANGED <<file, cache, stop, arg, todo>>
  BY DEF Respond, rec
<1> QED BY <1>2, <1>3, <1>4 DEF RespondEffect, Holds, Persist, Goto

\* The except clause persists "failed".
LEMMA FailLemma ==
    ASSUME IInv, NEW r \in Runs, WorkerFails(r)
    PROVE  \E rec \in Record : FailEffect(r, rec)
<1> DEFINE rec == [status |-> "failed", cancel_requested |-> stop[r],
                   stoppable |-> TRUE, artifacts |-> FALSE]
<1>1. rec \in Record
  BY DEF IInv, TypeOK, Record, Statuses, TERMINAL_STATUSES
<1>2. rec # NoRecord
  BY <1>1, RecordIsOne
<1> QED BY <1>1, <1>2 DEF WorkerFails, FailEffect, Holds, Persist, Goto

\* A submission reserves the run and persists "running".
LEMMA SubmitLemma ==
    ASSUME NEW t \in Threads, NEW r \in Runs, Submit(t, r)
    PROVE  \E rec \in Record : SubmitEffect(t, r, rec)
<1> DEFINE rec == [status |-> "running", cancel_requested |-> FALSE,
                   stoppable |-> TRUE, artifacts |-> FALSE]
<1>1. rec \in Record
  BY DEF Record, Statuses
<1>2. rec # NoRecord
  BY <1>1, RecordIsOne
<1> QED BY <1>1, <1>2 DEF Submit, SubmitEffect, TakesRun

\* A synchronous request takes the run and persists its response.
LEMMA InlineLemma ==
    ASSUME NEW t \in Threads, NEW r \in Runs,
           NEW status \in {"completed", "paused", "failed"}, RunInline(t, r, status)
    PROVE  \E rec \in Record : InlineEffect(t, r, rec)
<1> DEFINE rec == [status |-> status, cancel_requested |-> FALSE,
                   stoppable |-> FALSE, artifacts |-> TRUE]
<1>1. rec \in Record
  BY DEF Record, Statuses, TERMINAL_STATUSES
<1>2. rec # NoRecord
  BY <1>1, RecordIsOne
<1> QED BY <1>1, <1>2 DEF RunInline, InlineEffect, TakesRun

\* An accepted cancel writes the signal and persists "cancel_requested".
LEMMA CancelLemma ==
    ASSUME IInv, NEW t \in Threads, CancelAccepted(t)
    PROVE  \E rec \in Record : CancelEffect(t, rec)
<1> DEFINE rec == [buf[t] EXCEPT !.status = "cancel_requested", !.cancel_requested = TRUE]
<1>1. buf[t] \in Record
  BY DEF IInv, TypeOK, RequestKnowsRun, CancelAccepted, Processes, TargetPoints, LoadPoints
<1>2. rec \in Record /\ rec.status = "cancel_requested"
  BY <1>1 DEF Record, Statuses
<1>3. rec # NoRecord
  BY <1>2, RecordIsOne
<1> HIDE DEF rec
<1>4. /\ Persist(t, "cancel", rec)
      /\ at[t] = "cancel"
      /\ stop' = [stop EXCEPT ![arg[t]] = TRUE]
      /\ UNCHANGED <<file, cache, arg, todo>>
  BY DEF CancelAccepted, rec
<1> QED BY <1>2, <1>3, <1>4 DEF CancelEffect, Holds, Persist, Goto

\* Every step of every worker, every request and a restart keeps the invariant.
LEMMA StepKeeps == IInv /\ [Next]_vars => IInv'
<1> SUFFICES ASSUME IInv, [Next]_vars PROVE IInv'
  OBVIOUS
<1> USE RegistryAssumption
    DEF IInv, TypeOK, RequestKnowsRun, RequestPersists, OneSubmitter, WorkerHolds,
        UnusedIsUnknown, NoTerminalWhileWorking, CleanupOfFinished, CancelIsSignalled,
        Ahead, Shows, Signalled, Processes, RunOf, LoadPoints, PersistPoints,
        CleanupPoints, TargetPoints, WorkerPoints, ThreadPoints, WorkerOps, ThreadOps,
        TERMINAL_STATUSES, CLEANUP_STATUSES, Goto, Persist, Holds, TakesRun
<1>1. ASSUME NEW r \in Runs, Worker(r) PROVE IInv'
  <2>1. CASE LoadFile(r)
    <3>1. TypeOK'
      BY <2>1 DEF LoadFile, AfterLoad
    <3>2. RequestKnowsRun' /\ OneSubmitter'
      BY <2>1 DEF LoadFile, AfterLoad
    <3>3. RequestPersists'
      BY <2>1 DEF LoadFile, AfterLoad
    <3>4. WorkerHolds' /\ UnusedIsUnknown'
      BY <2>1 DEF LoadFile, AfterLoad
    <3>5. NoTerminalWhileWorking' /\ CleanupOfFinished'
      BY <2>1 DEF LoadFile, AfterLoad
    <3>6. CancelIsSignalled'
      BY <2>1 DEF LoadFile, AfterLoad
    <3> QED BY <3>1, <3>2, <3>3, <3>4, <3>5, <3>6
  <2>2. CASE LoadCached(r)
    <3>1. TypeOK'
      BY <2>2 DEF LoadCached, AfterLoad
    <3>2. RequestKnowsRun' /\ OneSubmitter'
      BY <2>2 DEF LoadCached, AfterLoad
    <3>3. RequestPersists'
      BY <2>2 DEF LoadCached, AfterLoad
    <3>4. WorkerHolds' /\ UnusedIsUnknown'
      BY <2>2 DEF LoadCached, AfterLoad
    <3>5. NoTerminalWhileWorking' /\ CleanupOfFinished'
      BY <2>2 DEF LoadCached, AfterLoad
    <3>6. CancelIsSignalled'
      BY <2>2 DEF LoadCached, AfterLoad
    <3> QED BY <3>1, <3>2, <3>3, <3>4, <3>5, <3>6
  <2>3. CASE NotFound(r)
    <3>1. r \notin Threads
      BY RegistryAssumption
    <3>2. /\ at[r] = "load_cached"
          /\ at' = [at EXCEPT ![r] = "except"]
          /\ UNCHANGED <<file, cache, stop, op, arg, buf, todo>>
      BY <2>3, <3>1 DEF NotFound
    <3> QED BY <3>2
  <2>4. CASE Replace(r)
    BY <2>4 DEF Replace
  <2>5. CASE Publish(r)
    BY <2>5 DEF Publish
  <2>6. CASE CheckStop(r)
    <3>0. PICK rec \in Record : CheckStopEffect(r, rec)
      BY <2>6, CheckStopLemma
    <3>1. TypeOK'
      BY <3>0 DEF CheckStopEffect
    <3>2. RequestKnowsRun' /\ OneSubmitter'
      BY <3>0 DEF CheckStopEffect
    <3>3. RequestPersists'
      BY <3>0 DEF CheckStopEffect
    <3>4. WorkerHolds' /\ UnusedIsUnknown'
      BY <3>0 DEF CheckStopEffect
    <3>5. NoTerminalWhileWorking' /\ CleanupOfFinished'
      BY <3>0 DEF CheckStopEffect
    <3>6. CancelIsSignalled'
      BY <3>0 DEF CheckStopEffect
    <3> QED BY <3>1, <3>2, <3>3, <3>4, <3>5, <3>6
  <2>7. CASE MarkedRunning(r)
    BY <2>7 DEF MarkedRunning, Visible
  <2>8. CASE WorkerReturns(r)
    BY <2>8 DEF WorkerReturns, Visible, Vanished, Return
  <2>9. CASE WorkerPersistRaises(r)
    BY <2>9 DEF WorkerPersistRaises, Vanished
  <2>10. ASSUME NEW status \in {"completed", "paused", "canceled"}, InvokeReturns(r, status)
        PROVE IInv'
    <3>0. PICK rec \in Record : InvokeEffect(r, status, rec)
      BY <2>10, InvokeLemma
    <3>1. TypeOK'
      BY <3>0 DEF InvokeEffect
    <3>2. RequestKnowsRun' /\ OneSubmitter'
      BY <3>0 DEF InvokeEffect
    <3>3. RequestPersists'
      BY <3>0 DEF InvokeEffect
    <3>4. WorkerHolds' /\ UnusedIsUnknown'
      BY <3>0 DEF InvokeEffect
    <3>5. NoTerminalWhileWorking' /\ CleanupOfFinished'
      BY <3>0 DEF InvokeEffect
    <3>6. CancelIsSignalled'
      BY <3>0 DEF InvokeEffect
    <3> QED BY <3>1, <3>2, <3>3, <3>4, <3>5, <3>6
  <2>11. CASE InvokeRaises(r)
    BY <2>11 DEF InvokeRaises
  <2>12. CASE Respond(r)
    <3>0. PICK rec \in Record : RespondEffect(r, rec)
      BY <2>12, RespondLemma
    <3>1. TypeOK'
      BY <3>0 DEF RespondEffect
    <3>2. RequestKnowsRun' /\ OneSubmitter'
      BY <3>0 DEF RespondEffect
    <3>3. RequestPersists'
      BY <3>0 DEF RespondEffect
    <3>4. WorkerHolds' /\ UnusedIsUnknown'
      BY <3>0 DEF RespondEffect
    <3>5. NoTerminalWhileWorking' /\ CleanupOfFinished'
      BY <3>0 DEF RespondEffect
    <3>6. CancelIsSignalled'
      BY <3>0 DEF RespondEffect
    <3> QED BY <3>1, <3>2, <3>3, <3>4, <3>5, <3>6
  <2>13. CASE WorkerFails(r)
    <3>0. PICK rec \in Record : FailEffect(r, rec)
      BY <2>13, FailLemma
    <3>1. TypeOK'
      BY <3>0 DEF FailEffect
    <3>2. RequestKnowsRun' /\ OneSubmitter'
      BY <3>0 DEF FailEffect
    <3>3. RequestPersists'
      BY <3>0 DEF FailEffect
    <3>4. WorkerHolds' /\ UnusedIsUnknown'
      BY <3>0 DEF FailEffect
    <3>5. NoTerminalWhileWorking' /\ CleanupOfFinished'
      BY <3>0 DEF FailEffect
    <3>6. CancelIsSignalled'
      BY <3>0 DEF FailEffect
    <3> QED BY <3>1, <3>2, <3>3, <3>4, <3>5, <3>6
  <2> HIDE DEF IInv
  <2> QED BY <1>1, <2>1, <2>2, <2>3, <2>4, <2>5, <2>6, <2>7, <2>8, <2>9, <2>10, <2>11,
         <2>12, <2>13 DEF Worker
<1>2. ASSUME NEW t \in Threads, Request(t) PROVE IInv'
  <2>1. ASSUME NEW r \in Runs, Submit(t, r) PROVE IInv'
    <3>0. PICK rec \in Record : SubmitEffect(t, r, rec)
      BY <2>1, SubmitLemma
    <3>1. TypeOK'
      BY <3>0 DEF SubmitEffect
    <3>2. RequestKnowsRun' /\ OneSubmitter'
      BY <3>0 DEF SubmitEffect
    <3>3. RequestPersists'
      BY <3>0 DEF SubmitEffect
    <3>4. WorkerHolds' /\ UnusedIsUnknown'
      BY <3>0 DEF SubmitEffect
    <3>5. NoTerminalWhileWorking' /\ CleanupOfFinished'
      BY <3>0 DEF SubmitEffect
    <3>6. CancelIsSignalled'
      BY <3>0 DEF SubmitEffect
    <3> QED BY <3>1, <3>2, <3>3, <3>4, <3>5, <3>6
  <2>2. ASSUME NEW r \in Runs, Cancel(t, r) PROVE IInv'
    BY <2>2 DEF Cancel
  <2>3. ASSUME NEW r \in Runs, NEW status \in {"completed", "paused", "failed"},
               RunInline(t, r, status)
        PROVE IInv'
    <3>0. PICK rec \in Record : InlineEffect(t, r, rec)
      BY <2>3, InlineLemma
    <3>1. TypeOK'
      BY <3>0 DEF InlineEffect
    <3>2. RequestKnowsRun' /\ OneSubmitter'
      BY <3>0 DEF InlineEffect
    <3>3. RequestPersists'
      BY <3>0 DEF InlineEffect
    <3>4. WorkerHolds' /\ UnusedIsUnknown'
      BY <3>0 DEF InlineEffect
    <3>5. NoTerminalWhileWorking' /\ CleanupOfFinished'
      BY <3>0 DEF InlineEffect
    <3>6. CancelIsSignalled'
      BY <3>0 DEF InlineEffect
    <3> QED BY <3>1, <3>2, <3>3, <3>4, <3>5, <3>6
  <2>4. CASE Cleanup(t)
    BY <2>4 DEF Cleanup
  <2> HIDE DEF IInv
  <2> QED BY <1>2, <2>1, <2>2, <2>3, <2>4 DEF Request
<1>3. ASSUME NEW t \in Threads, Serve(t) PROVE IInv'
  <2>1. CASE LoadFile(t)
    <3>1. TypeOK'
      BY <2>1 DEF LoadFile, AfterLoad
    <3>2. RequestKnowsRun' /\ OneSubmitter'
      BY <2>1 DEF LoadFile, AfterLoad
    <3>3. RequestPersists'
      BY <2>1 DEF LoadFile, AfterLoad
    <3>4. WorkerHolds' /\ UnusedIsUnknown'
      BY <2>1 DEF LoadFile, AfterLoad
    <3>5. NoTerminalWhileWorking' /\ CleanupOfFinished'
      BY <2>1 DEF LoadFile, AfterLoad
    <3>6. CancelIsSignalled'
      BY <2>1 DEF LoadFile, AfterLoad
    <3> QED BY <3>1, <3>2, <3>3, <3>4, <3>5, <3>6
  <2>2. CASE LoadCached(t)
    BY <2>2 DEF LoadCached, AfterLoad
  <2>3. CASE NotFound(t)
    <3>1. /\ at[t] = "load_cached"
          /\ at' = [at EXCEPT ![t] = "idle"]
          /\ Answer(t)
          /\ UNCHANGED <<file, cache, stop>>
      BY <2>3 DEF NotFound
    <3> QED BY <3>1 DEF Answer
  <2>4. CASE Replace(t)
    BY <2>4 DEF Replace
  <2>5. CASE Publish(t)
    BY <2>5 DEF Publish
  <2>6. CASE StartWorker(t)
    <3>1. TypeOK'
      BY <2>6 DEF StartWorker, Visible, Answer
    <3>2. RequestKnowsRun' /\ OneSubmitter'
      BY <2>6 DEF StartWorker, Visible, Answer
    <3>3. RequestPersists'
      BY <2>6 DEF StartWorker, Visible, Answer
    <3>4. WorkerHolds' /\ UnusedIsUnknown'
      BY <2>6 DEF StartWorker, Visible, Answer
    <3>5. NoTerminalWhileWorking' /\ CleanupOfFinished'
      BY <2>6 DEF StartWorker, Visible, Answer
    <3>6. CancelIsSignalled'
      BY <2>6 DEF StartWorker, Visible, Answer
    <3> QED BY <3>1, <3>2, <3>3, <3>4, <3>5, <3>6
  <2>7. CASE PersistAnswered(t)
    BY <2>7 DEF PersistAnswered, Visible, Vanished, Answer
  <2>8. CASE CancelRefused(t)
    BY <2>8 DEF CancelRefused, Answer
  <2>9. CASE CancelAccepted(t)
    <3>0. PICK rec \in Record : CancelEffect(t, rec)
      BY <2>9, CancelLemma
    <3>1. TypeOK'
      BY <3>0 DEF CancelEffect
    <3>2. RequestKnowsRun' /\ OneSubmitter'
      BY <3>0 DEF CancelEffect
    <3>3. RequestPersists'
      BY <3>0 DEF CancelEffect
    <3>4. WorkerHolds' /\ UnusedIsUnknown'
      BY <3>0 DEF CancelEffect
    <3>5. NoTerminalWhileWorking' /\ CleanupOfFinished'
      BY <3>0 DEF CancelEffect
    <3>6. CancelIsSignalled'
      BY <3>0 DEF CancelEffect
    <3> QED BY <3>1, <3>2, <3>3, <3>4, <3>5, <3>6
  <2>10. ASSUME NEW r \in Runs, CleanupSkips(t, r) PROVE IInv'
    BY <2>10 DEF CleanupSkips
  <2>11. ASSUME NEW r \in Runs, CleanupSelects(t, r) PROVE IInv'
    BY <2>11 DEF CleanupSelects
  <2>12. CASE LookForStop(t)
    BY <2>12 DEF LookForStop
  <2>13. CASE UnlinkStop(t)
    BY <2>13 DEF UnlinkStop
  <2>14. CASE Unlink(t)
    BY <2>14 DEF Unlink
  <2>15. CASE Evict(t)
    BY <2>15 DEF Evict
  <2>16. CASE CleanupRaises(t)
    BY <2>16 DEF CleanupRaises, Answer
  <2>17. CASE CleanupDone(t)
    BY <2>17 DEF CleanupDone, Answer
  <2> HIDE DEF IInv
  <2> QED BY <1>3, <2>1, <2>2, <2>3, <2>4, <2>5, <2>6, <2>7, <2>8, <2>9, <2>10, <2>11,
         <2>12, <2>13, <2>14, <2>15, <2>16, <2>17 DEF Serve
<1>4. CASE Restart
  BY <1>4 DEF Restart
<1>5. CASE UNCHANGED vars
  BY <1>5 DEF vars
<1> QED BY <1>1, <1>2, <1>3, <1>4, <1>5 DEF Next

\* The invariant holds in every reachable state.
THEOREM Inductive == Spec => []IInv
<1>1. Init => IInv
  BY InitHolds
<1>2. IInv /\ [Next]_vars => IInv'
  BY StepKeeps
<1> QED BY <1>1, <1>2, PTL DEF Spec

\* Every variable keeps its type.
THEOREM TypeCorrect == Spec => []TypeOK
<1>1. IInv => TypeOK
  BY DEF IInv
<1> QED BY <1>1, Inductive, PTL

\* No record that cleanup may delete belongs to a run whose worker still works.
THEOREM NeverTerminalWhileWorking == Spec => []NoTerminalWhileWorking
<1>1. IInv => NoTerminalWhileWorking
  BY DEF IInv
<1> QED BY <1>1, Inductive, PTL

\* A cancel shown to a client has its stop signal on disk while the worker works.
THEOREM CancelAlwaysSignalled == Spec => []CancelShownIsSignalled
<1>1. IInv => CancelShownIsSignalled
  BY DEF IInv, CancelIsSignalled, CancelShownIsSignalled, Signalled
<1> QED BY <1>1, Inductive, PTL

-----------------------------------------------------------------------------
(***************************************************************************)
(* No step takes a stop signal from a worker that has yet to look for it.  *)
(***************************************************************************)
KeepsSignals == \A r \in Runs : stop[r] /\ ~ stop'[r] => ~ Ahead(r)

\* The only step that unlinks a signal is a cleanup's, and its run is finished.
LEMMA StepKeepsSignals == IInv /\ [Next]_vars => KeepsSignals
<1> SUFFICES ASSUME IInv, [Next]_vars, NEW s \in Runs, stop[s], ~ stop'[s]
             PROVE  ~ Ahead(s)
  BY DEF KeepsSignals
<1>1. stop' # stop
  OBVIOUS
<1>2. ASSUME NEW r \in Runs, Worker(r) PROVE FALSE
  BY <1>1, <1>2
     DEF Worker, LoadFile, LoadCached, NotFound, Replace, Publish, CheckStop,
         MarkedRunning, WorkerReturns, WorkerPersistRaises, InvokeReturns, InvokeRaises,
         Respond, WorkerFails
<1>3. ASSUME NEW t \in Threads, Request(t) PROVE FALSE
  BY <1>1, <1>3 DEF Request, Submit, Cancel, RunInline, Cleanup
<1>4. ASSUME NEW t \in Threads, Serve(t) PROVE ~ Ahead(s)
  <2>1. CancelAccepted(t) \/ UnlinkStop(t)
    BY <1>1, <1>4
       DEF Serve, LoadFile, LoadCached, NotFound, Replace, Publish, StartWorker,
           PersistAnswered, CancelRefused, CleanupSkips, CleanupSelects, LookForStop,
           Unlink, Evict, CleanupRaises, CleanupDone
  <2>2. ~ CancelAccepted(t)
    BY DEF CancelAccepted, IInv, TypeOK
  <2>3. at[t] = "unlink_stop" /\ arg[t] = s
    BY <2>1, <2>2 DEF UnlinkStop, IInv, TypeOK
  <2> QED BY <2>3 DEF IInv, CleanupOfFinished, CleanupPoints
<1>5. CASE Restart
  BY <1>1, <1>5 DEF Restart
<1>6. CASE UNCHANGED vars
  BY <1>1, <1>6 DEF vars
<1> QED BY <1>2, <1>3, <1>4, <1>5, <1>6 DEF Next

\* cleanup_run_records decides on a record it read earlier, and still never
\* removes the stop signal of a worker that has yet to look for it.
THEOREM SignalsKept == Spec => StopSignalKept
<1>1. IInv /\ [Next]_vars => [KeepsSignals]_vars
  BY StepKeepsSignals
<1>2. Spec => [][KeepsSignals]_vars
  BY <1>1, Inductive, PTL DEF Spec
<1> QED BY <1>2 DEF StopSignalKept, KeepsSignals

-----------------------------------------------------------------------------
(***************************************************************************)
(* What a finished worker leaves behind.                                   *)
(***************************************************************************)
\* Once a worker has written its outcome, nothing writes "running" again.
OutcomeStays ==
    \A r \in Runs :
        /\ at[r] = "done" => ~ Shows(file[r], {"running"}) /\ ~ Shows(cache[r], {"running"})
        /\ at[r] \in {"publish", "visible"} =>
              Shows(buf[r], {"running"}) \/ ~ Shows(file[r], {"running"})
        /\ at[r] = "visible" =>
              Shows(buf[r], {"running"}) \/ ~ Shows(cache[r], {"running"})

\* A worker about to write does not write over a terminal record.
WorkerWritesOpen ==
    \A r \in Runs :
        at[r] \in {"replace", "except"} => ~ Shows(file[r], TERMINAL_STATUSES)

\* A synchronous run is known to nobody before its record is written.
InlineIsNew ==
    \A t \in Threads : at[t] = "replace" /\ op[t] = "inline" =>
        /\ file[arg[t]] = NoRecord
        /\ cache[arg[t]] = NoRecord
        /\ \A u \in Threads :
              at[u] \in PersistPoints \cup {"cancel"} /\ arg[u] = arg[t] => u = t

JInv == OutcomeStays /\ WorkerWritesOpen /\ InlineIsNew

\* Before the first request no worker has returned.
LEMMA InitSettled == Init => JInv
  BY DEF Init, JInv, OutcomeStays, WorkerWritesOpen, InlineIsNew, Shows, Processes,
         PersistPoints, RegistryAssumption

\* Every step keeps what a finished worker leaves behind.
LEMMA StepKeepsOutcome == IInv /\ JInv /\ [Next]_vars => JInv'
<1> SUFFICES ASSUME IInv, JInv, [Next]_vars PROVE JInv'
  OBVIOUS
<1> USE RegistryAssumption
    DEF IInv, TypeOK, RequestKnowsRun, RequestPersists, WorkerHolds, UnusedIsUnknown,
        NoTerminalWhileWorking, JInv, OutcomeStays, WorkerWritesOpen, InlineIsNew,
        Ahead, Shows, Processes, RunOf, LoadPoints, PersistPoints,
        CleanupPoints, TargetPoints, WorkerPoints, ThreadPoints, TERMINAL_STATUSES,
        CLEANUP_STATUSES, Goto, Persist, Holds, TakesRun
<1>1. ASSUME NEW r \in Runs, Worker(r) PROVE JInv'
  <2>1. CASE LoadFile(r)
    <3>1. OutcomeStays'
      BY <2>1 DEF LoadFile, AfterLoad
    <3>2. WorkerWritesOpen'
      BY <2>1 DEF LoadFile, AfterLoad
    <3>3. InlineIsNew'
      BY <2>1 DEF LoadFile, AfterLoad
    <3> QED BY <3>1, <3>2, <3>3
  <2>2. CASE LoadCached(r)
    <3>1. OutcomeStays'
      BY <2>2 DEF LoadCached, AfterLoad
    <3>2. WorkerWritesOpen'
      BY <2>2 DEF LoadCached, AfterLoad
    <3>3. InlineIsNew'
      BY <2>2 DEF LoadCached, AfterLoad
    <3> QED BY <3>1, <3>2, <3>3
  <2>3. CASE NotFound(r)
    <3>1. r \notin Threads
      BY RegistryAssumption
    <3>2. /\ at[r] = "load_cached"
          /\ at' = [at EXCEPT ![r] = "except"]
          /\ UNCHANGED <<file, cache, stop, op, arg, buf, todo>>
      BY <2>3, <3>1 DEF NotFound
    <3> QED BY <3>2
  <2>4. CASE Replace(r)
    BY <2>4 DEF Replace
  <2>5. CASE Publish(r)
    BY <2>5 DEF Publish
  <2>6. CASE CheckStop(r)
    <3>0. PICK rec \in Record : CheckStopEffect(r, rec)
      BY <2>6, CheckStopLemma
    <3>1. OutcomeStays'
      BY <3>0 DEF CheckStopEffect
    <3>2. WorkerWritesOpen'
      BY <3>0 DEF CheckStopEffect
    <3>3. InlineIsNew'
      BY <3>0 DEF CheckStopEffect
    <3> QED BY <3>1, <3>2, <3>3
  <2>7. CASE MarkedRunning(r)
    BY <2>7 DEF MarkedRunning, Visible
  <2>8. CASE WorkerReturns(r)
    BY <2>8 DEF WorkerReturns, Visible, Vanished, Return
  <2>9. CASE WorkerPersistRaises(r)
    BY <2>9 DEF WorkerPersistRaises, Vanished
  <2>10. ASSUME NEW status \in {"completed", "paused", "canceled"}, InvokeReturns(r, status)
        PROVE JInv'
    <3>0. PICK rec \in Record : InvokeEffect(r, status, rec)
      BY <2>10, InvokeLemma
    <3>1. OutcomeStays'
      BY <3>0 DEF InvokeEffect
    <3>2. WorkerWritesOpen'
      BY <3>0 DEF InvokeEffect
    <3>3. InlineIsNew'
      BY <3>0 DEF InvokeEffect
    <3> QED BY <3>1, <3>2, <3>3
  <2>11. CASE InvokeRaises(r)
    BY <2>11 DEF InvokeRaises
  <2>12. CASE Respond(r)
    <3>0. PICK rec \in Record : RespondEffect(r, rec)
      BY <2>12, RespondLemma
    <3>1. OutcomeStays'
      BY <3>0 DEF RespondEffect
    <3>2. WorkerWritesOpen'
      BY <3>0 DEF RespondEffect
    <3>3. InlineIsNew'
      BY <3>0 DEF RespondEffect
    <3> QED BY <3>1, <3>2, <3>3
  <2>13. CASE WorkerFails(r)
    <3>0. PICK rec \in Record : FailEffect(r, rec)
      BY <2>13, FailLemma
    <3>1. OutcomeStays'
      BY <3>0 DEF FailEffect
    <3>2. WorkerWritesOpen'
      BY <3>0 DEF FailEffect
    <3>3. InlineIsNew'
      BY <3>0 DEF FailEffect
    <3> QED BY <3>1, <3>2, <3>3
  <2> HIDE DEF JInv
  <2> QED BY <1>1, <2>1, <2>2, <2>3, <2>4, <2>5, <2>6, <2>7, <2>8, <2>9, <2>10, <2>11,
         <2>12, <2>13 DEF Worker
<1>2. ASSUME NEW t \in Threads, Request(t) PROVE JInv'
  <2>1. ASSUME NEW r \in Runs, Submit(t, r) PROVE JInv'
    <3>0. PICK rec \in Record : SubmitEffect(t, r, rec)
      BY <2>1, SubmitLemma
    <3>1. OutcomeStays'
      BY <3>0 DEF SubmitEffect
    <3>2. WorkerWritesOpen'
      BY <3>0 DEF SubmitEffect
    <3>3. InlineIsNew'
      BY <3>0 DEF SubmitEffect
    <3> QED BY <3>1, <3>2, <3>3
  <2>2. ASSUME NEW r \in Runs, Cancel(t, r) PROVE JInv'
    BY <2>2 DEF Cancel
  <2>3. ASSUME NEW r \in Runs, NEW status \in {"completed", "paused", "failed"},
               RunInline(t, r, status)
        PROVE JInv'
    <3>0. PICK rec \in Record : InlineEffect(t, r, rec)
      BY <2>3, InlineLemma
    <3>1. OutcomeStays'
      BY <3>0 DEF InlineEffect
    <3>2. WorkerWritesOpen'
      BY <3>0 DEF InlineEffect
    <3>3. InlineIsNew'
      BY <3>0 DEF InlineEffect
    <3> QED BY <3>1, <3>2, <3>3
  <2>4. CASE Cleanup(t)
    BY <2>4 DEF Cleanup
  <2> HIDE DEF JInv
  <2> QED BY <1>2, <2>1, <2>2, <2>3, <2>4 DEF Request
<1>3. ASSUME NEW t \in Threads, Serve(t) PROVE JInv'
  <2>1. CASE LoadFile(t)
    <3>1. OutcomeStays'
      BY <2>1 DEF LoadFile, AfterLoad
    <3>2. WorkerWritesOpen'
      BY <2>1 DEF LoadFile, AfterLoad
    <3>3. InlineIsNew'
      BY <2>1 DEF LoadFile, AfterLoad
    <3> QED BY <3>1, <3>2, <3>3
  <2>2. CASE LoadCached(t)
    BY <2>2 DEF LoadCached, AfterLoad
  <2>3. CASE NotFound(t)
    <3>1. /\ at[t] = "load_cached"
          /\ at' = [at EXCEPT ![t] = "idle"]
          /\ Answer(t)
          /\ UNCHANGED <<file, cache, stop>>
      BY <2>3 DEF NotFound
    <3> QED BY <3>1 DEF Answer
  <2>4. CASE Replace(t)
    BY <2>4 DEF Replace
  <2>5. CASE Publish(t)
    BY <2>5 DEF Publish
  <2>6. CASE StartWorker(t)
    <3>1. OutcomeStays'
      BY <2>6 DEF StartWorker, Visible, Answer
    <3>2. WorkerWritesOpen'
      BY <2>6 DEF StartWorker, Visible, Answer
    <3>3. InlineIsNew'
      BY <2>6 DEF StartWorker, Visible, Answer
    <3> QED BY <3>1, <3>2, <3>3
  <2>7. CASE PersistAnswered(t)
    BY <2>7 DEF PersistAnswered, Visible, Vanished, Answer
  <2>8. CASE CancelRefused(t)
    BY <2>8 DEF CancelRefused, Answer
  <2>9. CASE CancelAccepted(t)
    <3>0. PICK rec \in Record : CancelEffect(t, rec)
      BY <2>9, CancelLemma
    <3>1. OutcomeStays'
      BY <3>0 DEF CancelEffect
    <3>2. WorkerWritesOpen'
      BY <3>0 DEF CancelEffect
    <3>3. InlineIsNew'
      BY <3>0 DEF CancelEffect
    <3> QED BY <3>1, <3>2, <3>3
  <2>10. ASSUME NEW r \in Runs, CleanupSkips(t, r) PROVE JInv'
    BY <2>10 DEF CleanupSkips
  <2>11. ASSUME NEW r \in Runs, CleanupSelects(t, r) PROVE JInv'
    BY <2>11 DEF CleanupSelects
  <2>12. CASE LookForStop(t)
    BY <2>12 DEF LookForStop
  <2>13. CASE UnlinkStop(t)
    BY <2>13 DEF UnlinkStop
  <2>14. CASE Unlink(t)
    BY <2>14 DEF Unlink
  <2>15. CASE Evict(t)
    BY <2>15 DEF Evict
  <2>16. CASE CleanupRaises(t)
    BY <2>16 DEF CleanupRaises, Answer
  <2>17. CASE CleanupDone(t)
    BY <2>17 DEF CleanupDone, Answer
  <2> HIDE DEF JInv
  <2> QED BY <1>3, <2>1, <2>2, <2>3, <2>4, <2>5, <2>6, <2>7, <2>8, <2>9, <2>10, <2>11,
         <2>12, <2>13, <2>14, <2>15, <2>16, <2>17 DEF Serve
<1>4. CASE Restart
  BY <1>4 DEF Restart
<1>5. CASE UNCHANGED vars
  BY <1>5 DEF vars
<1> QED BY <1>1, <1>2, <1>3, <1>4, <1>5 DEF Next

\* What a finished worker leaves behind stays, in every reachable state.
THEOREM Settled == Spec => []JInv
<1>1. Init => JInv
  BY InitSettled
<1>2. IInv /\ JInv /\ [Next]_vars => JInv'
  BY StepKeepsOutcome
<1> QED BY <1>1, <1>2, Inductive, PTL DEF Spec

\* When run_documenter_worker has returned, its run is not shown as running,
\* neither by the file nor, when the file is gone, by the cache.
THEOREM NeverRunningWhenFinished == Spec => []FinishedNotRunning
<1>1. JInv => FinishedNotRunning
  BY DEF JInv, OutcomeStays, FinishedNotRunning, Served, Shows
<1> QED BY <1>1, Settled, PTL

ReopensByCancelOnly ==
    \A r \in Runs :
        Shows(file[r], TERMINAL_STATUSES) =>
            file'[r] \in {file[r], NoRecord} \/ Shows(file'[r], {"cancel_requested"})

\* The only step that replaces a terminal record writes a cancel_requested.
LEMMA StepReopensByCancelOnly == IInv /\ JInv /\ [Next]_vars => ReopensByCancelOnly
<1> SUFFICES ASSUME IInv, JInv, [Next]_vars, NEW s \in Runs,
                    Shows(file[s], TERMINAL_STATUSES), file'[s] # file[s]
             PROVE  file'[s] = NoRecord \/ Shows(file'[s], {"cancel_requested"})
  BY DEF ReopensByCancelOnly
<1>1. file' # file
  OBVIOUS
<1>2. ASSUME NEW r \in Runs, Worker(r) PROVE FALSE
  <2>1. Replace(r)
    BY <1>1, <1>2
       DEF Worker, LoadFile, LoadCached, NotFound, Publish, CheckStop, MarkedRunning,
           WorkerReturns, WorkerPersistRaises, InvokeReturns, InvokeRaises, Respond,
           WorkerFails
  <2>2. at[r] = "replace" /\ r = s
    BY <2>1 DEF Replace, RunOf, IInv, TypeOK
  <2> QED BY <2>2 DEF JInv, WorkerWritesOpen
<1>3. ASSUME NEW t \in Threads, Request(t) PROVE FALSE
  BY <1>1, <1>3 DEF Request, Submit, Cancel, RunInline, Cleanup
<1>4. ASSUME NEW t \in Threads, Serve(t)
      PROVE  file'[s] = NoRecord \/ Shows(file'[s], {"cancel_requested"})
  <2>1. Replace(t) \/ Unlink(t)
    BY <1>1, <1>4
       DEF Serve, LoadFile, LoadCached, NotFound, Publish, StartWorker,
           PersistAnswered, CancelRefused, CancelAccepted, CleanupSkips, CleanupSelects,
           LookForStop, UnlinkStop, Evict, CleanupRaises, CleanupDone
  <2>2. CASE Unlink(t)
    BY <2>2 DEF Unlink, IInv, TypeOK
  <2>3. CASE Replace(t)
    <3>1. /\ at[t] = "replace" /\ arg[t] = s /\ buf[t] # NoRecord
          /\ file'[s] = buf[t]
      BY <2>3, RegistryAssumption
         DEF Replace, RunOf, IInv, TypeOK, RequestKnowsRun, TargetPoints, PersistPoints,
             LoadPoints
    <3>2. op[t] # "submit"
      BY <3>1 DEF IInv, RequestPersists, NoTerminalWhileWorking, PersistPoints, Ahead,
                  Shows, CLEANUP_STATUSES
    <3>3. op[t] # "inline"
      BY <3>1 DEF JInv, InlineIsNew, Shows
    <3> QED BY <3>1, <3>2, <3>3 DEF IInv, RequestPersists, PersistPoints, Shows
  <2> QED BY <2>1, <2>2, <2>3
<1>5. CASE Restart
  BY <1>1, <1>5 DEF Restart
<1>6. CASE UNCHANGED vars
  BY <1>1, <1>6 DEF vars
<1> QED BY <1>2, <1>3, <1>4, <1>5, <1>6 DEF Next

\* A terminal record is replaced by nothing but the write of a cancel that had
\* loaded the record before.
THEOREM OnlyCancelReopens == Spec => OnlyStaleCancelReopens
<1>1. IInv /\ JInv /\ [Next]_vars => [ReopensByCancelOnly]_vars
  BY StepReopensByCancelOnly
<1>2. Spec => [][ReopensByCancelOnly]_vars
  BY <1>1, Inductive, Settled, PTL DEF Spec
<1> QED BY <1>2 DEF OnlyStaleCancelReopens, ReopensByCancelOnly

=============================================================================
