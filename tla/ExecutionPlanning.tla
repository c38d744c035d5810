--------------------------- MODULE ExecutionPlanning ---------------------------
(***************************************************************************)
(* execution_planning.plan: a chain of skills, each one a call of the      *)
(* model through the gateway, ending for the packet modes in a draft run   *)
(* of the implementation workflow that must leave the target alone.        *)
(* controllers/execution_planning/workflow.py, invoke_execution_planning.  *)
(***************************************************************************)
EXTENDS ModelGateway, TargetRepository

CONSTANTS
    MaxModelCalls,    \* budgets["max_model_calls"]
    MaxOutputTokens   \* budgets["max_output_tokens"]

ASSUME PlanningAssumption ==
    /\ MaxModelCalls \in Nat \ {0}
    /\ MaxOutputTokens \in Nat \ {0}

VARIABLES
    planMode,         \* request.mode
    deterministic,    \* whether an L1 draft profile fits: no model call at all
    step, attempt,    \* the place in the chain, and within call()
    modelCalls,       \* model_call_count
    lastCall,         \* the last request the gateway let through to the model
    artifacts,        \* the steps whose artifact is written
    hashes,           \* before_hashes
    planResult,       \* "idle", "running", "completed" or which error it raised:
                      \* "failed" (ExecutionPlanningWorkflowError), "raised" (any other)
    planRunState      \* the status in run-state.json, or "none"

planningVars == <<planMode, deterministic, step, attempt, modelCalls, lastCall,
                  artifacts, hashes, planResult, planRunState>>

PlanModes == {"investigation_only", "implementation_prep", "dry_run"}

Skills == {"request-triage", "scope-and-assumptions", "entrypoint-finder",
           "context-plan-builder", "impact-map-builder", "execution-plan-writer",
           "implementation-packet-designer", "verification-planner", "feedback-capture"}

\* The skills whose answer may say stop.required and end the run.
MayStop == Skills \ {"request-triage", "scope-and-assumptions", "feedback-capture"}

Silent == {"read-hashes", "compare-hashes"}   \* steps without an artifact

\* What the body of invoke_execution_planning goes through, and what
\* deterministic_l1_packet_draft_plan does.
Draft == IF planMode = "dry_run" \/ deterministic THEN <<"draft">> ELSE <<>>

Chain ==
    IF deterministic
    THEN <<"gather-context", "packet-preview", "read-hashes">> \o Draft \o <<"compare-hashes", "feedback-capture">>
    ELSE <<"request-triage", "scope-and-assumptions", "entrypoint-finder",
           "context-plan-builder", "gather-context", "impact-map-builder",
           "execution-plan-writer">>
         \o (IF planMode = "investigation_only" THEN <<>>
             ELSE <<"implementation-packet-designer", "verification-planner", "read-hashes">>
                  \o Draft \o <<"compare-hashes">>)
         \o <<"feedback-capture">>

ModelSteps == IF deterministic THEN {} ELSE Range(Chain) \cap Skills

NoCall == [prompt |-> [tokens |-> 0, rough |-> 0], tokenized |-> TRUE, output |-> 0]
NoHashes == [f \in {} |-> Absent]

PlanningTypeOK ==
    /\ planMode \in PlanModes
    /\ deterministic \in BOOLEAN
    /\ step \in 1 .. Len(Chain) + 1
    /\ attempt \in {0, 1}
    /\ modelCalls \in 0 .. MaxModelCalls + 1
    /\ lastCall \in [prompt : Prompts, tokenized : BOOLEAN, output : Nat] \cup {NoCall}
    /\ artifacts \subseteq Range(Chain) \ Silent
    /\ DOMAIN hashes \subseteq Files
    /\ planResult \in {"idle", "running", "completed", "failed", "raised"}
    /\ planRunState \in {"none", "completed", "failed"}

PlanningInit ==
    /\ planMode = "investigation_only"
    /\ deterministic = FALSE
    /\ step = 1
    /\ attempt = 0
    /\ modelCalls = 0
    /\ lastCall = NoCall
    /\ artifacts = {}
    /\ hashes = NoHashes
    /\ planResult = "idle"
    /\ planRunState = "none"

-----------------------------------------------------------------------------
\* The request is valid and its run directory made.  The packet modes want an
\* approval and operations; the profile looks at the source of the request.
StartPlanning(mode, profile) ==
    /\ planResult = "idle"
    /\ mode # "investigation_only" => operations # <<>>
    /\ planMode' = mode
    /\ deterministic' = (profile /\ mode # "investigation_only")
    /\ planResult' = "running"
    /\ UNCHANGED <<step, attempt, modelCalls, lastCall, artifacts, hashes, planRunState,
                   source, edits, operations>>

At(name) == planResult = "running" /\ Chain[step] = name

AtModel == planResult = "running" /\ Chain[step] \in ModelSteps

\* On to the next step; after the last one the run state is written.
Advance ==
    /\ step' = step + 1
    /\ attempt' = 0
    /\ planResult' = IF step = Len(Chain) THEN "completed" ELSE "running"
    /\ planRunState' = IF step = Len(Chain) THEN "completed" ELSE planRunState

\* An ExecutionPlanningWorkflowError: the except clause writes a failed run
\* state and raises again; the deterministic path runs outside that try.
Fail ==
    /\ planResult' = "failed"
    /\ planRunState' = IF deterministic THEN planRunState ELSE "failed"
    /\ UNCHANGED <<step, attempt>>

Write == artifacts' = artifacts \cup {Chain[step]}

\* call(): the call is counted before it is made.
BudgetExceeded ==
    /\ AtModel
    /\ modelCalls' = modelCalls + 1
    /\ modelCalls' > MaxModelCalls
    /\ Fail
    /\ UNCHANGED <<planMode, deterministic, lastCall, artifacts, hashes>>

\* Mutant: the budget is not looked at.
CalledUnchecked ==
    /\ AtModel
    /\ modelCalls' = modelCalls + 1
    /\ UNCHANGED <<planMode, deterministic, hashes>>

Called ==
    /\ AtModel
    /\ modelCalls' = modelCalls + 1
    /\ modelCalls' <= MaxModelCalls
    /\ UNCHANGED <<planMode, deterministic, hashes>>

\* The gateway answers 422, or there is no gateway or no skill file: no second try.
CallRefused ==
    /\ Called
    /\ Fail
    /\ UNCHANGED <<lastCall, artifacts>>

\* The gateway forwards the prompt with an output limit of its own.
Forwarded ==
    /\ Called
    /\ \E prompt \in Prompts, tokenized \in BOOLEAN :
          LET input == InputTokens(prompt, tokenized)
          IN  /\ Forwards(input)
              /\ lastCall' = [prompt |-> prompt, tokenized |-> tokenized,
                              output |-> OutputLimit(input, MaxOutputTokens)]

\* A timeout, or an answer that is no HTTP response with a JSON object.
AnswerLost ==
    /\ Forwarded
    /\ Fail
    /\ UNCHANGED artifacts

\* Mutant: the loop over the attempts simply ends after the second one.
AnswerInvalidTwice ==
    /\ Forwarded
    /\ IF attempt = 0
       THEN attempt' = 1 /\ UNCHANGED <<step, planResult, planRunState>>
       ELSE Advance
    /\ UNCHANGED artifacts

\* invalid_skill_output: no choices, no JSON, keys missing; one retry.
AnswerInvalid ==
    /\ Forwarded
    /\ IF attempt = 0
       THEN attempt' = 1 /\ UNCHANGED <<step, planResult, planRunState>>
       ELSE Fail
    /\ UNCHANGED artifacts

\* The answer has the keys its skill wants; it is written before it is read.
AnswerUsed ==
    /\ Forwarded
    /\ Write
    /\ Advance

\* stop.required; a plan without a design_packet step, a design without
\* packets, a verification command outside the policy.
AnswerStops ==
    /\ Forwarded
    /\ Chain[step] \in MayStop
    /\ Write
    /\ Fail

VerificationRefused ==
    /\ Forwarded
    /\ Chain[step] = "verification-planner"
    /\ Write
    /\ planResult' = "raised"
    /\ UNCHANGED <<step, attempt, planRunState>>

GatherContext ==
    /\ At("gather-context")
    /\ Write
    /\ Advance
    /\ UNCHANGED <<planMode, deterministic, modelCalls, lastCall, hashes>>

\* Packets, and a verification plan, made from the operations.
WritePreview ==
    /\ At("packet-preview")
    /\ Write
    /\ Advance
    /\ UNCHANGED <<planMode, deterministic, modelCalls, lastCall, hashes>>

\* collect_selected_files and hash_selected_files: the targets and what the
\* impact map names, as far as they exist; the deterministic path selects all
\* its targets, so that a file created in between counts as changed.
ReadHashes ==
    /\ At("read-hashes")
    /\ \E others \in IF deterministic THEN {{}} ELSE {{}, Files} :
          LET selected == {f \in Targets \cup others : deterministic \/ source[f] # Absent}
          IN  hashes' = [f \in selected |-> source[f]]
    /\ Advance
    /\ UNCHANGED <<planMode, deterministic, modelCalls, lastCall, artifacts>>

\* invoke_packet_preview_workflow: a deterministic draft is of the request's own
\* operations, each on the file as it is; a model's preview may be anything.
DraftsComplete == \A i \in DOMAIN operations : Applicable(operations[i], source[operations[i].path])

DraftCompletes ==
    /\ At("draft")
    /\ deterministic => DraftsComplete
    /\ Write
    /\ Advance
    /\ UNCHANGED <<planMode, deterministic, modelCalls, lastCall, hashes>>

DraftFails ==
    /\ At("draft")
    /\ deterministic => ~ DraftsComplete
    /\ Write
    /\ Fail
    /\ UNCHANGED <<planMode, deterministic, modelCalls, lastCall, hashes>>

\* The packet file is refused: an ImplementationWorkflowError, which nobody expects.
DraftRaises ==
    /\ At("draft")
    /\ planResult' = "raised"
    /\ UNCHANGED <<planMode, deterministic, step, attempt, modelCalls, lastCall,
                   artifacts, hashes, planRunState>>

CompareHashes ==
    /\ At("compare-hashes")
    /\ IF \A f \in DOMAIN hashes : source[f] = hashes[f] THEN Advance ELSE Fail
    /\ UNCHANGED <<planMode, deterministic, modelCalls, lastCall, artifacts, hashes>>

\* feedback-capture of the deterministic path is written without a model.
WriteFeedback ==
    /\ At("feedback-capture")
    /\ deterministic
    /\ Write
    /\ Advance
    /\ UNCHANGED <<planMode, deterministic, modelCalls, lastCall, hashes>>

PlanningStep ==
    /\ \/ BudgetExceeded \/ CallRefused \/ AnswerLost \/ AnswerInvalid
       \/ AnswerUsed \/ AnswerStops \/ VerificationRefused
       \/ GatherContext \/ WritePreview \/ ReadHashes \/ DraftCompletes \/ DraftFails \/ DraftRaises
       \/ CompareHashes \/ WriteFeedback
    /\ UNCHANGED <<source, edits, operations>>

=============================================================================
