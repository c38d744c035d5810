---------------------------- MODULE WorkflowRouter ----------------------------
(***************************************************************************)
(* One request to workflow_router.plan in a mode that acts, or to          *)
(* execution_planning.plan itself, from the routing to the run state.      *)
(* implementation_prep runs execution planning as a dry run,               *)
(* apply_disposable_copy the disposable apply.  The controller service     *)
(* runs the request in a thread and has no lock on the target repository.  *)
(* controllers/workflow_router/plan.py, invoke_workflow_router_plan.       *)
(***************************************************************************)
EXTENDS ExecutionPlanning, DisposableApply

CONSTANT Requests   \* lists of packet operations

ASSUME RequestsAssumption == Requests \subseteq Seq(Operation)

VARIABLES
    mode,            \* request.mode, or "planning" for a request to planning itself
    approval,        \* request.approval
    routerAt,        \* "accepted", "ready", "downstream", "report", "done"
    routeStatus,     \* decision["status"]
    downstream,      \* decision["downstream"]["status"], or "none"
    failures,        \* whether the result lists downstream failures
    approvalState,   \* the status in approval-state.json, or "none"
    routerRunState   \* the status in the router's run-state.json, or "none"

routerVars == <<mode, approval, routerAt, routeStatus, downstream, failures,
                approvalState, routerRunState>>
repositoryVars == <<source, edits, operations>>
vars == <<repositoryVars, planningVars, applyVars, routerVars>>

Modes == {"planning", "implementation_prep", "apply_disposable_copy"}

\* "incomplete": the status is the one wanted, apply_allowed or apply_scope is not.
Approvals == {"missing", "invalid", "incomplete", "approved"}

TypeOK ==
    /\ RepositoryTypeOK
    /\ PlanningTypeOK
    /\ ApplyTypeOK
    /\ mode \in Modes
    /\ approval \in Approvals
    /\ routerAt \in {"accepted", "ready", "downstream", "report", "done"}
    /\ routeStatus \in {"none", "ready", "blocked"}
    /\ downstream \in {"none", "completed", "failed"}
    /\ failures \in BOOLEAN
    /\ approvalState \in {"none", "waiting_for_approval", "blocked", "finished", "approved"}
    /\ routerRunState \in {"none", "completed"}

Init ==
    /\ RepositoryInit
    /\ PlanningInit
    /\ ApplyInit
    /\ operations \in Requests \cup {<<>>}
    /\ mode \in Modes
    /\ approval \in Approvals
    /\ routerAt = "accepted"
    /\ routeStatus = "none"
    /\ downstream = "none"
    /\ failures = FALSE
    /\ approvalState = "none"
    /\ routerRunState = "none"

-----------------------------------------------------------------------------
\* invoke_execution_planning for a client: validate_request_basics wants the
\* approval and the operations of a packet mode.
Plan(planningMode, profile) ==
    /\ mode = "planning"
    /\ routerAt = "accepted"
    /\ planningMode # "investigation_only" => approval = "approved"
    /\ StartPlanning(planningMode, profile)
    /\ routerAt' = "downstream"
    /\ UNCHANGED <<applyVars, mode, approval, routeStatus, downstream, failures,
                   approvalState, routerRunState>>

PlanReturns ==
    /\ mode = "planning"
    /\ routerAt = "downstream"
    /\ planResult # "running"
    /\ routerAt' = "done"
    /\ UNCHANGED <<repositoryVars, planningVars, applyVars, mode, approval, routeStatus,
                   downstream, failures, approvalState, routerRunState>>

\* route_request.
Route(status) ==
    /\ mode # "planning"
    /\ routerAt = "accepted"
    /\ routeStatus' = status
    /\ routerAt' = IF status = "ready" THEN "ready" ELSE "report"
    /\ UNCHANGED <<repositoryVars, planningVars, applyVars, mode, approval, downstream,
                   failures, approvalState, routerRunState>>

\* The proposals: operations made from the request's text or from an earlier run.
Propose ==
    /\ mode = "implementation_prep"
    /\ routerAt = "ready"
    /\ operations = <<>>
    /\ operations' \in Requests
    /\ UNCHANGED <<source, edits, planningVars, applyVars, routerVars>>

\* packet_objective_outcome: the objective is met already.
NoChangeNeeded ==
    /\ mode = "implementation_prep"
    /\ routerAt = "ready"
    /\ operations = <<>>
    /\ routerAt' = "report"
    /\ UNCHANGED <<repositoryVars, planningVars, applyVars, mode, approval, routeStatus,
                   downstream, failures, approvalState, routerRunState>>

\* implementation_prep_blockers and disposable_apply_blockers, which also
\* refuses kinds other than append_text and replace_text.
Blocked ==
    \/ approval # "approved"
    \/ operations = <<>>
    \/ mode = "apply_disposable_copy"
       /\ \E i \in DOMAIN operations : operations[i].kind = "create_file"

Block ==
    /\ routerAt = "ready"
    /\ Blocked
    /\ routeStatus' = "blocked"
    /\ routerAt' = "report"
    /\ UNCHANGED <<repositoryVars, planningVars, applyVars, mode, approval, downstream,
                   failures, approvalState, routerRunState>>

\* invoke_downstream_implementation_prep: always as a dry run.
Prepares(profile) ==
    /\ mode = "implementation_prep"
    /\ routerAt = "ready"
    /\ ~ Blocked
    /\ StartPlanning("dry_run", profile)
    /\ routerAt' = "downstream"
    /\ UNCHANGED <<applyVars, mode, approval, routeStatus, downstream, failures,
                   approvalState, routerRunState>>

Applies ==
    /\ mode = "apply_disposable_copy"
    /\ routerAt = "ready"
    /\ ~ Blocked
    /\ StartApply
    /\ routerAt' = "downstream"
    /\ UNCHANGED <<repositoryVars, planningVars, mode, approval, routeStatus, downstream,
                   failures, approvalState, routerRunState>>

\* An ExecutionPlanningWorkflowError becomes a blocker of the decision.
PrepReturns ==
    /\ mode = "implementation_prep"
    /\ routerAt = "downstream"
    /\ planResult \in {"completed", "failed"}
    /\ downstream' = planResult
    /\ failures' = (planResult = "failed")
    /\ routeStatus' = IF planResult = "failed" THEN "blocked" ELSE routeStatus
    /\ routerAt' = "report"
    /\ UNCHANGED <<repositoryVars, planningVars, applyVars, mode, approval, approvalState,
                   routerRunState>>

ApplyReturns ==
    /\ mode = "apply_disposable_copy"
    /\ routerAt = "downstream"
    /\ applyOutcome = "finished"
    /\ downstream' = applyStatus
    /\ failures' = (applyStatus = "failed")
    /\ routerAt' = "report"
    /\ UNCHANGED <<repositoryVars, planningVars, applyVars, mode, approval, routeStatus,
                   approvalState, routerRunState>>

\* Every other error leaves the run directory without a decision and a run state.
DownstreamRaises ==
    /\ mode # "planning"
    /\ routerAt = "downstream"
    /\ planResult = "raised" \/ applyOutcome \notin {"none", "finished"}
    /\ routerAt' = "done"
    /\ UNCHANGED <<repositoryVars, planningVars, applyVars, mode, approval, routeStatus,
                   downstream, failures, approvalState, routerRunState>>

\* approval_state_status, for the modes that want an approval.
ApprovalStatus ==
    IF approval \in {"missing", "invalid"} THEN "waiting_for_approval"
    ELSE IF routeStatus = "blocked" THEN "blocked"
    ELSE IF downstream # "none" THEN "finished"
    ELSE "approved"

\* approval-state.json, route-decision.json and run-state.json; the router
\* itself has completed, whatever came of the request.
Report ==
    /\ routerAt = "report"
    /\ approvalState' = ApprovalStatus
    /\ routerRunState' = "completed"
    /\ routerAt' = "done"
    /\ UNCHANGED <<repositoryVars, planningVars, applyVars, mode, approval, routeStatus,
                   downstream, failures>>

RouterStep ==
    \/ \E planningMode \in PlanModes, profile \in BOOLEAN : Plan(planningMode, profile)
    \/ PlanReturns
    \/ \E status \in {"ready", "blocked"} : Route(status)
    \/ Propose \/ NoChangeNeeded \/ Block
    \/ \E profile \in BOOLEAN : Prepares(profile)
    \/ Applies \/ PrepReturns \/ ApplyReturns \/ DownstreamRaises \/ Report

Next ==
    \/ RouterStep
    \/ PlanningStep /\ UNCHANGED <<applyVars, routerVars>>
    \/ ApplyStep /\ UNCHANGED <<planningVars, routerVars>>
    \/ \E f \in Files : Edit(f) /\ UNCHANGED <<planningVars, applyVars, routerVars>>

Spec == Init /\ [][Next]_vars

-----------------------------------------------------------------------------
(***************************************************************************)
(* Properties.                                                             *)
(***************************************************************************)

\* Whatever a client asks for and whether or not the tokenizer answered, a
\* request let through to the model leaves it the safety buffer beside the
\* counted input and the output limit written into it, and that limit is
\* positive and within both budgets.  Of the real number of tokens the same
\* is known only where the tokenizer counted them.
ForwardedFits ==
    lastCall # NoCall =>
        LET input == InputTokens(lastCall.prompt, lastCall.tokenized)
        IN  /\ input + lastCall.output + SafetyBuffer <= ModelLimit
            /\ input <= TargetInputLimit
            /\ lastCall.output \in 1 .. Smaller(DefaultMaxOutput, MaxOutputTokens)
            /\ lastCall.tokenized =>
                   lastCall.prompt.tokens + lastCall.output + SafetyBuffer <= ModelLimit

\* What planning's run state says is what happened.  It says completed of a
\* run that has every artifact of its mode, at a price of one or two calls for
\* every skill and within the budget; it says failed of a run that raised its
\* own error and is not there for the runs that ended in any other way.
RunStateIsTrue ==
    LET used == Cardinality(ModelSteps)
    IN  /\ planRunState = "completed" =>
              /\ planResult = "completed"
              /\ artifacts = Range(Chain) \ Silent
              /\ modelCalls \in used .. Smaller(2 * used, MaxModelCalls)
        /\ planRunState = "failed" => planResult = "failed" /\ ~ deterministic
        /\ planResult = "completed" => planRunState = "completed"
        /\ planResult = "failed" /\ ~ deterministic => planRunState = "failed"
        /\ modelCalls <= MaxModelCalls + 1

\* AfterOperations[n]: the copy with the first n operations applied.
Edited(tree, operation) == [tree EXCEPT ![operation.path] = Applied(operation, @)]

AfterOperations ==
    LET tree[n \in 0 .. Len(operations)] ==
            IF n = 0 THEN copyBefore ELSE Edited(tree[n - 1], operations[n])
    IN  tree

\* A request the approval state calls finished has been approved and carried
\* out.  A preparation has a completed planning run.  A disposable apply has
\* changed the copy by some first part of its operations, by all of them
\* unless the result lists failures; has restored the copy; and has seen one
\* and the same target from beginning to end, of which the copy was taken if
\* nobody edited it before that.
FinishedIsProven ==
    approvalState = "finished" =>
        /\ approval \in {"incomplete", "approved"}
        /\ mode = "implementation_prep" => planRunState = "completed" /\ ~ failures
        /\ mode = "apply_disposable_copy" =>
              /\ copy = copyBefore
              /\ \E n \in 1 .. Len(operations) :
                    /\ copyAfter = AfterOperations[n]
                    /\ n < Len(operations) <=> failures
              /\ copyAfter # copyBefore
              /\ \A i, j \in {1, 3, 5} : sourceSeen[i] = sourceSeen[j]
              /\ edits = 0 => copyBefore = InitialTree

\* The rollback puts the whole copy back to what it was, whichever of the
\* operations were applied, unless two targets have the same backup name;
\* and it says restored only if it has.
RollbackRestores ==
    rollback # "none" =>
        /\ rollback = "restored" => copy = copyBefore
        /\ copy # copyBefore =>
              \E f, g \in Targets :
                 f # g /\ BackupName[f] = BackupName[g] /\ copyBefore[f] # copyBefore[g]

=============================================================================
