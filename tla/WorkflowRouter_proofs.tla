------------------------- MODULE WorkflowRouter_proofs -------------------------
(***************************************************************************)
(* What the gateway's arithmetic guarantees of every request it lets       *)
(* through to the model, what the rollback of a disposable apply restores, *)
(* what a planning run's state file says and what a finished request has   *)
(* behind it: for every budget and set of prompts, every target            *)
(* repository, every list of operations and every editor.                  *)
(***************************************************************************)
EXTENDS WorkflowRouter, FiniteSetTheorems, SequenceTheorems, WellFoundedInduction, TLAPS

\* The gateway's output limit leaves room for the counted input and the safety
\* buffer, and is positive and within both budgets: server.py,
\* _handle_budgeted_forward.
LEMMA OutputLimitFits ==
    ASSUME NEW input \in Nat, Forwards(input), NEW requested \in Nat \ {0}
    PROVE  /\ input + OutputLimit(input, requested) + SafetyBuffer <= ModelLimit
           /\ input <= TargetInputLimit
           /\ OutputLimit(input, requested) \in 1 .. Smaller(DefaultMaxOutput, requested)
  BY GatewayAssumption, SMT DEF Forwards, OutputLimit, AvailableOutput, Smaller

\* What is counted is positive, and no less than the prompt's tokens where the
\* tokenizer has counted: server.py, count_input_tokens.
LEMMA InputCounted ==
    ASSUME NEW prompt \in Prompts, NEW tokenized \in BOOLEAN
    PROVE  /\ InputTokens(prompt, tokenized) \in Nat
           /\ prompt.tokens \in Nat
           /\ tokenized => prompt.tokens <= InputTokens(prompt, tokenized)
  <1>1. prompt \in Prompt
    BY GatewayAssumption
  <1> QED
    BY <1>1, SMT DEF Prompt, InputTokens, Larger

\* Execution planning makes no call the gateway lets through that does not fit:
\* workflow.py, call and chat_skill.
LEMMA ForwardedCallFits ==
    ASSUME Forwarded
    PROVE  ForwardedFits'
  <1>1. PICK prompt \in Prompts, tokenized \in BOOLEAN :
           LET input == InputTokens(prompt, tokenized)
           IN  /\ Forwards(input)
               /\ lastCall' = [prompt |-> prompt, tokenized |-> tokenized,
                               output |-> OutputLimit(input, MaxOutputTokens)]
    BY DEF Forwarded
  <1> DEFINE input == InputTokens(prompt, tokenized)
             output == OutputLimit(input, MaxOutputTokens)
  <1>2. /\ lastCall'.prompt = prompt
        /\ lastCall'.tokenized = tokenized
        /\ lastCall'.output = output
    BY <1>1
  <1>3. /\ input \in Nat
        /\ prompt.tokens \in Nat
        /\ tokenized => prompt.tokens <= input
    BY InputCounted
  <1>4. /\ input + output + SafetyBuffer <= ModelLimit
        /\ input <= TargetInputLimit
        /\ output \in 1 .. Smaller(DefaultMaxOutput, MaxOutputTokens)
    BY <1>1, <1>3, OutputLimitFits, PlanningAssumption
  <1>5. /\ SafetyBuffer \in Nat
        /\ ModelLimit \in Nat
        /\ output \in Int
    BY <1>4, GatewayAssumption
  <1>6. tokenized => prompt.tokens + output + SafetyBuffer <= ModelLimit
    <2> HIDE DEF input, output
    <2> QED BY <1>3, <1>4, <1>5, SMT
  <1> QED
    BY <1>2, <1>4, <1>6 DEF ForwardedFits

LEMMA StepForwardedFits ==
    ASSUME ForwardedFits, [Next]_vars
    PROVE  ForwardedFits'
  <1>1. CASE UNCHANGED lastCall
    BY <1>1 DEF ForwardedFits
  <1>2. CASE Forwarded
    BY <1>2, ForwardedCallFits
  <1>3. UNCHANGED lastCall \/ Forwarded
    <2>1. CASE RouterStep
      BY <2>1 DEF RouterStep, Plan, StartPlanning, PlanReturns, Route, Propose,
         NoChangeNeeded, Block, Prepares, Applies, PrepReturns, ApplyReturns,
         DownstreamRaises, Report, planningVars, routerVars
    <2>2. CASE PlanningStep
      BY <2>2 DEF PlanningStep, BudgetExceeded, CallRefused, AnswerLost, AnswerInvalid,
         AnswerUsed, AnswerStops, VerificationRefused, GatherContext, WritePreview,
         ReadHashes, DraftCompletes, DraftFails, DraftRaises, CompareHashes, WriteFeedback
    <2>3. CASE UNCHANGED planningVars
      BY <2>3 DEF planningVars
    <2>4. CASE UNCHANGED vars
      BY <2>4 DEF vars, planningVars
    <2> QED
      BY <2>1, <2>2, <2>3, <2>4 DEF Next
  <1> QED
    BY <1>1, <1>2, <1>3

\* Whatever the gateway's limits, the budgets of planning and the prompts, every
\* request let through to the model fits its context window with the output
\* limit and the safety buffer: server.py, _handle_budgeted_forward.
THEOREM RequestsFit == Spec => []ForwardedFits
  <1>1. Init => ForwardedFits
    BY DEF Init, PlanningInit, ForwardedFits
  <1>2. ForwardedFits /\ [Next]_vars => ForwardedFits'
    BY StepForwardedFits
  <1> QED
    BY <1>1, <1>2, PTL DEF Spec

-----------------------------------------------------------------------------
\* A set of natural numbers has a least element.
LEMMA Least ==
    ASSUME NEW T, T \subseteq Nat, T # {}
    PROVE  \E x \in T : \A y \in T : x <= y
  <1> DEFINE less == OpToRel(<, Nat)
  <1>1. IsWellFoundedOn(less, Nat)
    BY NatLessThanWellFounded, Zenon
  <1>2. \A x, y \in Nat : y < x => <<y, x>> \in less
    <2>1. \A x, y \in Nat :
             <<y, x>> \in Nat \X Nat /\ <<y, x>>[1] = y /\ <<y, x>>[2] = x
      OBVIOUS
    <2> QED
      BY <2>1, Zenon DEF OpToRel
  <1> HIDE DEF less
  <1>3. PICK x \in T : \A y \in T : ~ (<<y, x>> \in less)
    BY <1>1, WFMin, Zenon
  <1>4. \A y \in T : ~ (y < x)
    BY <1>2, <1>3
  <1> QED
    BY <1>4, SMT

\* Of the operations that write a backup file, one is the last.
LEMMA LastOf ==
    ASSUME NEW n \in Nat, NEW S, S \subseteq 1 .. n, S # {}
    PROVE  Max(S) \in S
  <1> DEFINE T == {n - i : i \in S}
  <1>1. T \subseteq Nat /\ T # {}
    <2>1. \A i \in S : n - i \in Nat
      OBVIOUS
    <2> QED
      BY <2>1, Zenon
  <1>2. PICK x \in T : \A y \in T : x <= y
    BY <1>1, Least
  <1>3. PICK i \in S : x = n - i
    OBVIOUS
  <1>4. \A j \in S : i >= j
    <2>1. SUFFICES ASSUME NEW j \in S
                   PROVE  i >= j
      OBVIOUS
    <2>2. n - i <= n - j
      BY <1>2, <1>3
    <2> QED
      BY <2>2, SMT
  <1> QED
    BY <1>4 DEF Max

-----------------------------------------------------------------------------
\* While the operations are applied: every target that was there has a backup,
\* its backup file holds what a target of that name was, and everything else in
\* the copy is as it was, targets that were not there included.
BackedUp ==
    /\ backedUp = {f \in Targets : copyBefore[f] # Absent}
    /\ \A f \in backedUp : \E g \in backedUp :
          BackupName[g] = BackupName[f] /\ backups[BackupName[f]] = copyBefore[g]
    /\ \A f \in Files \ backedUp : copy[f] = copyBefore[f]

\* RollbackRestores with what leads to it.
RollbackInv ==
    /\ operations \in Seq(Operation)
    /\ copy = [f \in Files |-> copy[f]]
    /\ copyBefore = [f \in Files |-> copyBefore[f]]
    /\ applyAt # "idle" => mode = "apply_disposable_copy"
    /\ cursor \in Nat \ {0}
    /\ applyAt \in {"idle", "copying", "prepare"} => sourceSeen = <<>>
    /\ applyAt = "backup" \/ (applyAt = "digest" /\ sourceSeen # <<>>) => copyBefore = copy
    /\ applyAt \in {"apply", "digest-again", "rollback"} => BackedUp
    /\ rollback # "none" => applyAt \in {"finish", "done"}
    /\ RollbackRestores

LEMMA TargetsAreFiles ==
    ASSUME operations \in Seq(Operation)
    PROVE  /\ \A i \in DOMAIN operations : operations[i] \in Operation
           /\ Targets \subseteq Files
  <1>1. \A i \in DOMAIN operations : operations[i] \in Operation
    OBVIOUS
  <1>2. \A operation \in Operation : operation.path \in Files
    BY DEF Operation
  <1> QED
    BY <1>1, <1>2 DEF Targets

\* backup_operation_targets makes BackedUp true: plan.py:4105.
LEMMA BackUpBacksUp ==
    ASSUME RollbackInv, BackUp, UNCHANGED operations
    PROVE  BackedUp'
  <1>1. copyBefore = copy /\ operations \in Seq(Operation)
    BY DEF RollbackInv, BackUp
  <1>2. Targets' = Targets /\ copy' = copy /\ copyBefore' = copyBefore
    BY DEF BackUp, Targets
  <1>3. backedUp' = {f \in Targets : copyBefore[f] # Absent}
    BY <1>1 DEF BackUp
  <1>4. ASSUME NEW f \in backedUp'
        PROVE  \E g \in backedUp' :
                  BackupName[g] = BackupName[f] /\ backups'[BackupName[f]] = copyBefore[g]
    <2> DEFINE name == BackupName[f]
               last == Max(Writers(name))
    <2>1. f \in Targets /\ f \in Files /\ copy[f] # Absent
      BY <1>1, <1>3, TargetsAreFiles
    <2>2. name \in BackupNames
      BY <2>1, BackupAssumption
    <2>3. PICK i \in DOMAIN operations : operations[i].path = f
      BY <2>1 DEF Targets
    <2>4. i \in Writers(name)
      BY <2>1, <2>3 DEF Writers
    <2>5. /\ Len(operations) \in Nat
          /\ Writers(name) \subseteq 1 .. Len(operations)
      BY <1>1 DEF Writers
    <2>6. last \in Writers(name)
      <3> HIDE DEF name
      <3> QED BY <2>4, <2>5, LastOf
    <2>7. /\ last \in DOMAIN operations
          /\ copy[operations[last].path] # Absent
          /\ BackupName[operations[last].path] = name
      BY <2>6 DEF Writers
    <2>8. operations[last].path \in backedUp'
      BY <1>1, <1>3, <2>7 DEF Targets
    <2>9. backups'[name] = copy[operations[last].path]
      BY <2>2, <2>4 DEF BackUp
    <2> QED
      BY <1>1, <2>7, <2>8, <2>9
  <1> QED
    BY <1>1, <1>2, <1>3, <1>4 DEF BackedUp

\* An operation that is not refused is on a file that was there when the
\* backups were made: workflow.py, process_packet_apply.
LEMMA ApplyKeepsBackedUp ==
    ASSUME RollbackInv, ApplyPacket, UNCHANGED operations
    PROVE  BackedUp'
  <1> DEFINE operation == operations[cursor]
  <1>1. /\ BackedUp
        /\ operations \in Seq(Operation)
        /\ copy = [f \in Files |-> copy[f]]
    BY DEF RollbackInv, ApplyPacket
  <1>2. Targets' = Targets /\ UNCHANGED <<copyBefore, backups, backedUp>>
    BY DEF ApplyPacket, Targets
  <1>3. ASSUME cursor \in DOMAIN operations
        PROVE  operation.path \in backedUp
    <2>1. operation \in Operation
      BY <1>1, <1>3, TargetsAreFiles
    <2>2. operation.kind \in {"append_text", "replace_text"} /\ operation.path \in Files
      BY <2>1 DEF ApplyPacket, Refused, Operation
    <2>3. copy[operation.path] # Absent
      BY <2>2 DEF ApplyPacket, Refused, Applicable
    <2>4. operation.path \in Targets
      BY <1>3 DEF Targets
    <2> QED
      BY <1>1, <2>2, <2>3, <2>4 DEF BackedUp
  <1>4. \A f \in Files \ backedUp : copy'[f] = copy[f]
    <2>1. cursor \in DOMAIN operations
      BY <1>1 DEF RollbackInv, ApplyPacket
    <2> QED
      BY <1>1, <1>3, <2>1 DEF ApplyPacket
  <1> QED
    BY <1>1, <1>2, <1>4 DEF BackedUp

\* rollback_disposable_copy restores: plan.py:4157.
LEMMA RollbackDoesRestore ==
    ASSUME RollbackInv, Rollback, UNCHANGED operations
    PROVE  RollbackRestores'
  <1>1. /\ BackedUp
        /\ operations \in Seq(Operation)
        /\ copyBefore = [f \in Files |-> copyBefore[f]]
    BY DEF RollbackInv, Rollback
  <1>2. /\ Targets' = Targets
        /\ copyBefore' = copyBefore
        /\ copy' = [f \in Files |-> IF f \in backedUp THEN backups[BackupName[f]] ELSE copy[f]]
    BY DEF Rollback, Restored, Targets
  <1>3. \A f \in Files \ backedUp : copy'[f] = copyBefore[f]
    BY <1>1, <1>2 DEF BackedUp
  <1>4. ASSUME rollback' = "restored"
        PROVE  copy' = copyBefore
    <2>1. Targets \subseteq backedUp /\ \A f \in Targets : copy'[f] = copyBefore[f]
      BY <1>4 DEF Rollback
    <2>2. backedUp \subseteq Targets
      BY <1>1 DEF BackedUp
    <2>3. \A f \in Files : copy'[f] = copyBefore[f]
      BY <1>3, <2>1, <2>2
    <2> QED
      BY <1>1, <1>2, <2>3
  <1>5. ASSUME copy' # copyBefore
        PROVE  \E f, g \in Targets :
                  f # g /\ BackupName[f] = BackupName[g] /\ copyBefore[f] # copyBefore[g]
    <2>1. PICK f \in Files : copy'[f] # copyBefore[f]
      BY <1>1, <1>2, <1>5
    <2>2. f \in backedUp /\ copy'[f] = backups[BackupName[f]]
      BY <1>2, <1>3, <2>1
    <2>3. PICK g \in backedUp :
             BackupName[g] = BackupName[f] /\ backups[BackupName[f]] = copyBefore[g]
      BY <1>1, <2>2 DEF BackedUp
    <2>4. f \in Targets /\ g \in Targets
      BY <1>1, <2>2, <2>3 DEF BackedUp
    <2> QED
      BY <2>1, <2>2, <2>3, <2>4
  <1> QED
    BY <1>2, <1>4, <1>5 DEF RollbackRestores

\* Both only look at what the copy, the backups and the operations are.
LEMMA UnchangedKeeps ==
    ASSUME UNCHANGED <<operations, copy, copyBefore, backups, backedUp>>
    PROVE  /\ BackedUp => BackedUp'
           /\ RollbackRestores /\ rollback' = rollback => RollbackRestores'
  <1>1. Targets' = Targets
    BY DEF Targets
  <1>2. BackedUp => BackedUp'
    BY <1>1 DEF BackedUp
  <1>3. RollbackRestores /\ rollback' = rollback => RollbackRestores'
    BY <1>1 DEF RollbackRestores
  <1> QED
    BY <1>2, <1>3

\* The steps of the apply itself.
LEMMA ApplyKeepsInv ==
    ASSUME RollbackInv, ApplyStep, UNCHANGED routerVars
    PROVE  RollbackInv'
  <1> USE DEF RollbackInv
  <1>1. UNCHANGED <<operations, mode>>
    BY DEF ApplyStep, routerVars
  <1>2. ASSUME NEW f \in Files, CopyFile(f)
        PROVE  RollbackInv'
    BY <1>1, <1>2 DEF CopyFile, RollbackRestores
  <1>3. ASSUME Raise, applyAt # "idle", applyAt \notin {"rollback", "finish", "done"}
        PROVE  RollbackInv'
    BY <1>1, <1>3 DEF Raise, RollbackRestores
  <1>4. CASE CopyFails \/ PrepareFails \/ ApplyRaises
    BY <1>3, <1>4 DEF CopyFails, PrepareFails, ApplyRaises
  <1>5. CASE Prepare
    BY <1>1, <1>5 DEF Prepare, RollbackRestores
  <1>6. CASE DigestTrees \/ HashSource
    <2>1. CASE DigestTrees
      <3>1. /\ rollback' = "none"
            /\ applyAt = "digest" /\ applyAt' = "digest"
            /\ copyBefore' = copy /\ copy' = copy
            /\ cursor' = cursor
        BY <2>1 DEF DigestTrees
      <3> QED
        BY <1>1, <3>1 DEF RollbackRestores
    <2>2. CASE HashSource
      <3>1. sourceSeen # <<>>
        <4>1. Len(sourceSeen) = 1
          BY <2>2 DEF HashSource
        <4>2. Len(<<>>) = 0 /\ 0 # 1
          OBVIOUS
        <4> QED
          BY <4>1, <4>2, Zenon
      <3>2. /\ rollback' = "none"
            /\ applyAt = "digest" /\ applyAt' = "backup"
            /\ UNCHANGED <<copy, copyBefore, cursor>>
        BY <2>2 DEF HashSource
      <3>3. copyBefore = copy
        BY <2>2, <3>1 DEF HashSource
      <3> QED
        BY <1>1, <3>2, <3>3 DEF RollbackRestores
    <2> QED
      BY <1>6, <2>1, <2>2
  <1>7. CASE BackUp
    BY <1>1, <1>7, BackUpBacksUp DEF BackUp, RollbackRestores
  <1>8. CASE ApplyPacket
    <2>1. copy' = [f \in Files |-> copy'[f]]
      BY <1>8 DEF ApplyPacket
    <2> QED
      BY <1>1, <1>8, <2>1, ApplyKeepsBackedUp DEF ApplyPacket, RollbackRestores
  <1>9. CASE ApplyEnds \/ DigestTreesAgain \/ HashSourceAgain
    BY <1>1, <1>9, UnchangedKeeps DEF ApplyEnds, DigestTreesAgain, HashSourceAgain
  <1>10. CASE Rollback
    <2>1. copy' = [f \in Files |-> copy'[f]]
      BY <1>10 DEF Rollback, Restored
    <2>2. RollbackRestores'
      BY <1>1, <1>10, RollbackDoesRestore
    <2> QED
      BY <1>1, <1>10, <2>1, <2>2 DEF Rollback
  <1>11. CASE Finish
    BY <1>1, <1>11, UnchangedKeeps DEF Finish
  <1> QED
    BY <1>2, <1>4, <1>5, <1>6, <1>7, <1>8, <1>9, <1>10, <1>11 DEF ApplyStep

\* Nobody else writes the copy, and the operations are fixed when it is made.
LEMMA OthersKeepInv ==
    ASSUME RollbackInv, RouterStep
    PROVE  RollbackInv'
  <1>1. CASE Propose
    BY <1>1, RequestsAssumption
       DEF Propose, RollbackInv, RollbackRestores, applyVars, routerVars
  <1>2. CASE Applies
    BY <1>2 DEF Applies, StartApply, RollbackInv, RollbackRestores, repositoryVars
  <1>3. CASE ~ Propose /\ ~ Applies
    <2>1. UNCHANGED <<applyVars, operations, mode>>
      BY <1>3 DEF RouterStep, Plan, StartPlanning, PlanReturns, Route, NoChangeNeeded, Block,
         Prepares, PrepReturns, ApplyReturns, DownstreamRaises, Report, repositoryVars
    <2> QED
      BY <2>1, UnchangedKeeps DEF applyVars, RollbackInv
  <1> QED
    BY <1>1, <1>2, <1>3

LEMMA RollbackInvInit == Init => RollbackInv
  <1> SUFFICES ASSUME Init
               PROVE  RollbackInv
    OBVIOUS
  <1>1. operations \in Requests \cup {<<>>} /\ <<>> \in Seq(Operation)
    BY DEF Init
  <1>2. operations \in Seq(Operation)
    BY <1>1, RequestsAssumption
  <1> QED
    BY <1>2 DEF Init, ApplyInit, NoTree, RollbackInv, RollbackRestores

LEMMA RollbackInvStep ==
    ASSUME RollbackInv, [Next]_vars
    PROVE  RollbackInv'
  <1>1. CASE RouterStep
    BY <1>1, OthersKeepInv
  <1>2. CASE ApplyStep /\ UNCHANGED <<planningVars, routerVars>>
    BY <1>2, ApplyKeepsInv
  <1>3. CASE UNCHANGED <<applyVars, routerVars, operations>>
    BY <1>3, UnchangedKeeps DEF applyVars, routerVars, RollbackInv
  <1>4. CASE PlanningStep /\ UNCHANGED <<applyVars, routerVars>>
    BY <1>3, <1>4 DEF PlanningStep
  <1>5. CASE \E f \in Files : Edit(f) /\ UNCHANGED <<planningVars, applyVars, routerVars>>
    BY <1>3, <1>5 DEF Edit
  <1>6. CASE UNCHANGED vars
    BY <1>3, <1>6 DEF vars, repositoryVars
  <1> QED
    BY <1>1, <1>2, <1>4, <1>5, <1>6 DEF Next

\* Whatever target repository, operations and backup names there are, and whoever
\* edits the target meanwhile: the rollback puts the whole copy back unless two
\* targets share a backup name, and does not claim more than it did: plan.py:4157.
THEOREM RollbackIsRight == Spec => []RollbackRestores
  <1>1. RollbackInv => RollbackRestores
    BY DEF RollbackInv
  <1> QED
    BY <1>1, RollbackInvInit, RollbackInvStep, PTL DEF Spec

-----------------------------------------------------------------------------
(***************************************************************************)
(* Execution planning.  No step comes twice in a chain, so that what a run *)
(* has written and called can be counted by the steps behind it.           *)
(***************************************************************************)
\* A sequence of elements of S without repetitions.
Distinct(s, S) ==
    /\ s \in Seq(S)
    /\ \A i, j \in 1 .. Len(s) : s[i] = s[j] => i = j

Apart(S, T) == S \cap T = {}

LEMMA DistinctConcat ==
    ASSUME NEW S, NEW T, NEW s, NEW t, Distinct(s, S), Distinct(t, T), Apart(S, T)
    PROVE  Distinct(s \o t, S \cup T)
  <1>1. /\ s \in Seq(S \cup T)
        /\ t \in Seq(S \cup T)
        /\ \A i \in 1 .. Len(s) : s[i] \in S
        /\ \A i \in 1 .. Len(t) : t[i] \in T
        /\ Len(s) \in Nat
        /\ Len(t) \in Nat
    BY ElementOfSeq, LenProperties DEF Distinct
  <1>2. /\ s \o t \in Seq(S \cup T)
        /\ Len(s \o t) = Len(s) + Len(t)
        /\ \A i \in 1 .. Len(s) + Len(t) :
              (s \o t)[i] = IF i <= Len(s) THEN s[i] ELSE t[i - Len(s)]
    BY <1>1, ConcatProperties
  <1>3. ASSUME NEW i \in 1 .. Len(s \o t), NEW j \in 1 .. Len(s \o t),
               (s \o t)[i] = (s \o t)[j]
        PROVE  i = j
    <2>1. CASE i <= Len(s) /\ j <= Len(s)
      BY <1>1, <1>2, <1>3, <2>1, SMT DEF Distinct
    <2>2. CASE i > Len(s) /\ j > Len(s)
      <3>1. /\ i - Len(s) \in 1 .. Len(t)
            /\ j - Len(s) \in 1 .. Len(t)
        BY <1>1, <1>2, <2>2, SMT
      <3>2. t[i - Len(s)] = t[j - Len(s)]
        BY <1>1, <1>2, <1>3, <2>2, SMT
      <3>3. i - Len(s) = j - Len(s)
        BY <3>1, <3>2 DEF Distinct
      <3> QED BY <1>1, <1>2, <3>3, SMT
    <2>3. \A k \in 1 .. Len(s \o t) :
             IF k <= Len(s) THEN (s \o t)[k] \in S ELSE (s \o t)[k] \in T
      <3> SUFFICES ASSUME NEW k \in 1 .. Len(s \o t)
                   PROVE  IF k <= Len(s) THEN (s \o t)[k] \in S ELSE (s \o t)[k] \in T
        OBVIOUS
      <3>1. CASE k <= Len(s)
        <4>1. k \in 1 .. Len(s)
          BY <1>1, <1>2, <3>1, SMT
        <4> QED BY <1>1, <1>2, <3>1, <4>1
      <3>2. CASE ~ (k <= Len(s))
        <4>1. k - Len(s) \in 1 .. Len(t)
          BY <1>1, <1>2, <3>2, SMT
        <4> QED BY <1>1, <1>2, <3>2, <4>1
      <3> QED BY <3>1, <3>2
    <2>4. i <= Len(s) <=> j <= Len(s)
      BY <1>3, <2>3 DEF Apart
    <2> QED
      BY <1>1, <1>2, <2>1, <2>2, <2>4, SMT
  <1> QED
    BY <1>2, <1>3 DEF Distinct

LEMMA ConcatNotEmpty ==
    ASSUME NEW S, NEW T, NEW s, NEW t, Distinct(s, S), Distinct(t, T), Len(t) # 0
    PROVE  Len(s \o t) \in Nat \ {0}
  <1>1. s \in Seq(S \cup T) /\ t \in Seq(S \cup T)
    BY DEF Distinct
  <1>2. Len(s) \in Nat /\ Len(t) \in Nat /\ Len(s \o t) = Len(s) + Len(t)
    BY <1>1, LenProperties, ConcatProperties
  <1> QED BY <1>2

\* No step comes twice in a chain, whatever its mode.
LEMMA ChainDistinct ==
    ASSUME planMode \in PlanModes, deterministic \in BOOLEAN
    PROVE  /\ \E S : Distinct(Chain, S)
           /\ Len(Chain) \in Nat \ {0}
  <1> DEFINE first == {"gather-context", "packet-preview", "read-hashes"}
             second == {"request-triage", "scope-and-assumptions", "entrypoint-finder",
                        "context-plan-builder", "gather-context", "impact-map-builder",
                        "execution-plan-writer"}
             third == {"implementation-packet-designer", "verification-planner", "read-hashes"}
             Explore == <<"request-triage", "scope-and-assumptions", "entrypoint-finder",
                          "context-plan-builder", "gather-context", "impact-map-builder",
                          "execution-plan-writer">>
             Design == <<"implementation-packet-designer", "verification-planner", "read-hashes">>
             Preview == <<"gather-context", "packet-preview", "read-hashes">>
  <1>1. Distinct(Preview, first)
    BY SMT DEF Distinct
  <1>2. Distinct(Explore, second)
    BY SMT DEF Distinct
  <1>3. Distinct(Design, third)
    BY SMT DEF Distinct
  <1>4. /\ Distinct(<<"compare-hashes", "feedback-capture">>, {"compare-hashes", "feedback-capture"})
        /\ Len(<<"compare-hashes", "feedback-capture">>) = 2
    BY SMT DEF Distinct
  <1>5. /\ Distinct(<<"compare-hashes">>, {"compare-hashes"})
        /\ Distinct(<<"feedback-capture">>, {"feedback-capture"})
        /\ Len(<<"compare-hashes">>) = 1
        /\ Len(<<"feedback-capture">>) = 1
    BY SMT DEF Distinct
  <1>6. /\ Distinct(<<"draft">>, {"draft"})
        /\ Distinct(<<>>, {"draft"}) /\ Distinct(<<>>, {})
    BY SMT DEF Distinct
  <1>7. Distinct(Draft, {"draft"})
    <2>1. Draft = <<"draft">> \/ Draft = <<>>
      BY Zenon DEF Draft
    <2> QED BY <1>6, <2>1
  <1> DEFINE Packets == (Design \o Draft) \o <<"compare-hashes">>
  <1>8. /\ \E S : Distinct(Chain, S)
        /\ Len(Chain) \in Nat \ {0}
    <2>1. CASE deterministic
      <3>1. Chain = (Preview \o Draft) \o <<"compare-hashes", "feedback-capture">>
        BY <2>1 DEF Chain
      <3>2. Apart(first, {"draft"})
        BY DEF Apart
      <3>3. Apart(first \cup {"draft"}, {"compare-hashes", "feedback-capture"})
        BY DEF Apart
      <3> HIDE DEF first, Preview
      <3>4. Distinct(Preview \o Draft, first \cup {"draft"})
        BY <1>1, <1>7, <3>2, DistinctConcat
      <3>5. /\ Distinct(Chain, (first \cup {"draft"}) \cup {"compare-hashes", "feedback-capture"})
            /\ Len(Chain) \in Nat \ {0}
        BY <1>4, <3>1, <3>3, <3>4, DistinctConcat, ConcatNotEmpty
      <3> QED BY <3>5
    <2>2. CASE ~ deterministic /\ planMode = "investigation_only"
      <3>1. Chain = (Explore \o <<>>) \o <<"feedback-capture">>
        BY <2>2 DEF Chain
      <3>2. Apart(second, {})
        BY DEF Apart
      <3>3. Apart(second \cup {}, {"feedback-capture"})
        BY DEF Apart
      <3> HIDE DEF second, Explore
      <3>4. Distinct(Explore \o <<>>, second \cup {})
        BY <1>2, <1>6, <3>2, DistinctConcat
      <3>5. /\ Distinct(Chain, (second \cup {}) \cup {"feedback-capture"})
            /\ Len(Chain) \in Nat \ {0}
        BY <1>5, <3>1, <3>3, <3>4, DistinctConcat, ConcatNotEmpty
      <3> QED BY <3>5
    <2>3. CASE ~ deterministic /\ planMode # "investigation_only"
      <3> DEFINE packets == (third \cup {"draft"}) \cup {"compare-hashes"}
      <3>1. Chain = (Explore \o Packets) \o <<"feedback-capture">>
        BY <2>3 DEF Chain
      <3>2. /\ Apart(third, {"draft"})
            /\ Apart(third \cup {"draft"}, {"compare-hashes"})
            /\ Apart(second, packets)
            /\ Apart(second \cup packets, {"feedback-capture"})
        BY DEF Apart
      <3> HIDE DEF second, third, Explore, Design, Packets, packets
      <3>3. Distinct(Design \o Draft, third \cup {"draft"})
        BY <1>3, <1>7, <3>2, DistinctConcat
      <3>4. Distinct(Packets, packets)
        BY <1>5, <3>2, <3>3, DistinctConcat DEF Packets, packets
      <3>5. Distinct(Explore \o Packets, second \cup packets)
        BY <1>2, <3>2, <3>4, DistinctConcat
      <3> DEFINE all == Explore \o Packets
                 names == second \cup packets
      <3>6. Distinct(all, names) /\ Apart(names, {"feedback-capture"})
        BY <3>2, <3>5
      <3> HIDE DEF all, names
      <3>7. Distinct(all \o <<"feedback-capture">>, names \cup {"feedback-capture"})
        BY <1>5, <3>6, DistinctConcat
      <3>8. Len(all \o <<"feedback-capture">>) \in Nat \ {0}
        BY <1>5, <3>6, ConcatNotEmpty
      <3>9. Chain = all \o <<"feedback-capture">>
        BY <3>1 DEF all
      <3> QED BY <3>7, <3>8, <3>9
    <2> QED BY <2>1, <2>2, <2>3
  <1> QED
    BY <1>8

-----------------------------------------------------------------------------
\* The steps before the n-th, and how many of them call the model.
Gone(n) == {Chain[i] : i \in 1 .. n - 1}
Used(n) == Cardinality(Gone(n) \cap ModelSteps)

Planned == planMode \in PlanModes /\ deterministic \in BOOLEAN

LEMMA ChainProperties ==
    ASSUME Planned
    PROVE  /\ Len(Chain) \in Nat \ {0}
           /\ DOMAIN Chain = 1 .. Len(Chain)
           /\ \A i, j \in 1 .. Len(Chain) : Chain[i] = Chain[j] => i = j
  <1>1. (\E S : Distinct(Chain, S)) /\ Len(Chain) \in Nat \ {0}
    BY ChainDistinct DEF Planned
  <1>2. PICK S : Distinct(Chain, S)
    BY <1>1
  <1>3. Chain \in Seq(S) /\ \A i, j \in 1 .. Len(Chain) : Chain[i] = Chain[j] => i = j
    BY <1>2 DEF Distinct
  <1>4. DOMAIN Chain = 1 .. Len(Chain)
    BY <1>3, LenProperties
  <1> QED BY <1>1, <1>3, <1>4

\* One step at a time, the steps gone by become the whole chain.
LEMMA GoneProperties ==
    ASSUME Planned, NEW n \in 1 .. Len(Chain)
    PROVE  /\ Gone(1) = {}
           /\ Gone(n + 1) = Gone(n) \cup {Chain[n]}
           /\ Chain[n] \notin Gone(n)
           /\ Gone(n) \subseteq Range(Chain)
           /\ Chain[n] \in Range(Chain)
           /\ Gone(Len(Chain) + 1) = Range(Chain)
  <1> DEFINE last == Len(Chain)
             name == Chain
  <1>1. /\ last \in Nat
        /\ DOMAIN name = 1 .. last
        /\ \A i, j \in 1 .. last : name[i] = name[j] => i = j
        /\ n \in 1 .. last
    BY ChainProperties
  <1> HIDE DEF last, name
  <1>2. /\ 1 .. 1 - 1 = {}
        /\ 1 .. n + 1 - 1 = 1 .. n - 1 \cup {n}
        /\ n \notin 1 .. n - 1
        /\ 1 .. n - 1 \subseteq 1 .. last
        /\ 1 .. last + 1 - 1 = 1 .. last
    BY <1>1
  <1>3. /\ \A k : Gone(k) = {name[i] : i \in 1 .. k - 1}
        /\ Range(Chain) = {name[i] : i \in DOMAIN name}
    BY Zenon DEF Gone, Range, name
  <1>4. Gone(1) = {}
    BY <1>2, <1>3
  <1>5. Gone(n + 1) = Gone(n) \cup {name[n]}
    BY <1>2, <1>3
  <1>6. name[n] \notin Gone(n)
    BY <1>1, <1>2, <1>3
  <1>7. Gone(n) \subseteq Range(Chain) /\ name[n] \in Range(Chain)
    BY <1>1, <1>2, <1>3
  <1>8. Gone(last + 1) = Range(Chain)
    BY <1>1, <1>2, <1>3
  <1> QED BY <1>4, <1>5, <1>6, <1>7, <1>8 DEF name, last

LEMMA ModelStepsFinite ==
    /\ IsFiniteSet(ModelSteps)
    /\ Cardinality(ModelSteps) \in Nat
  <1>1. \A T, a, b, c : IsFiniteSet(T) => IsFiniteSet(((T \cup {a}) \cup {b}) \cup {c})
    BY FS_AddElement
  <1>2. Skills = (((((((({} \cup {"request-triage"}) \cup {"scope-and-assumptions"})
                 \cup {"entrypoint-finder"}) \cup {"context-plan-builder"})
                 \cup {"impact-map-builder"}) \cup {"execution-plan-writer"})
                 \cup {"implementation-packet-designer"}) \cup {"verification-planner"})
                 \cup {"feedback-capture"}
    BY DEF Skills
  <1>3. IsFiniteSet(Skills)
    BY <1>1, <1>2, FS_EmptySet
  <1>4. ModelSteps \subseteq Skills
    BY DEF ModelSteps
  <1> QED BY <1>3, <1>4, FS_Subset, FS_CardinalityType

\* The calls of the model that are due.
LEMMA UsedProperties ==
    ASSUME Planned, NEW n \in 1 .. Len(Chain)
    PROVE  /\ Used(1) = 0
           /\ Used(n) \in Nat
           /\ Used(n + 1) = IF Chain[n] \in ModelSteps THEN Used(n) + 1 ELSE Used(n)
           /\ Used(Len(Chain) + 1) = Cardinality(ModelSteps)
  <1> DEFINE before == Gone(n) \cap ModelSteps
  <1>1. /\ Gone(1) = {}
        /\ Gone(n + 1) = Gone(n) \cup {Chain[n]}
        /\ Chain[n] \notin Gone(n)
        /\ Gone(Len(Chain) + 1) = Range(Chain)
    BY GoneProperties
  <1>2. IsFiniteSet(before) /\ Cardinality(before) \in Nat
    BY ModelStepsFinite, FS_Subset, FS_CardinalityType
  <1>3. Used(1) = 0
    <2>1. Gone(1) \cap ModelSteps = {}
      BY <1>1
    <2> QED BY <2>1, FS_EmptySet DEF Used
  <1>4. Used(Len(Chain) + 1) = Cardinality(ModelSteps)
    <2>1. ModelSteps \subseteq Range(Chain)
      BY DEF ModelSteps
    <2>2. Gone(Len(Chain) + 1) \cap ModelSteps = ModelSteps
      BY <1>1, <2>1
    <2> QED BY <2>2 DEF Used
  <1>5. CASE Chain[n] \in ModelSteps
    <2>1. Gone(n + 1) \cap ModelSteps = before \cup {Chain[n]} /\ Chain[n] \notin before
      BY <1>1, <1>5
    <2>2. Cardinality(before \cup {Chain[n]}) = Cardinality(before) + 1
      BY <1>2, <2>1, FS_AddElement
    <2>3. Used(n + 1) = Used(n) + 1
      BY <2>1, <2>2 DEF Used
    <2> QED BY <1>2, <1>3, <1>4, <1>5, <2>3 DEF Used
  <1>6. CASE Chain[n] \notin ModelSteps
    <2>1. Gone(n + 1) \cap ModelSteps = before
      BY <1>1, <1>6
    <2>2. Used(n + 1) = Used(n)
      BY <2>1 DEF Used
    <2> QED BY <1>2, <1>3, <1>4, <1>6, <2>2 DEF Used
  <1> QED BY <1>5, <1>6

-----------------------------------------------------------------------------
\* Where a planning run is: what it has written and called is due to the steps
\* behind it, and its run state comes last.
PlanTypes ==
    /\ Planned
    /\ step \in 1 .. Len(Chain) + 1
    /\ attempt \in {0, 1}
    /\ modelCalls \in 0 .. MaxModelCalls + 1
    /\ artifacts \subseteq Range(Chain) \ Silent
    /\ planResult \in {"idle", "running", "completed", "failed", "raised"}
    /\ planRunState \in {"none", "completed", "failed"}

PlanInv ==
    /\ PlanTypes
    /\ planResult = "idle" =>
          /\ step = 1 /\ attempt = 0 /\ modelCalls = 0
          /\ artifacts = {} /\ planRunState = "none"
    /\ planResult = "running" =>
          /\ step <= Len(Chain)
          /\ planRunState = "none"
          /\ attempt = 1 => Chain[step] \in ModelSteps
          /\ artifacts = Gone(step) \ Silent
          /\ modelCalls \in Used(step) + attempt .. 2 * Used(step) + attempt
          /\ modelCalls <= MaxModelCalls
    /\ RunStateIsTrue

LEMMA SameChain ==
    ASSUME UNCHANGED <<planMode, deterministic>>
    PROVE  /\ Chain' = Chain
           /\ ModelSteps' = ModelSteps
           /\ \A n : Gone(n)' = Gone(n)
           /\ \A n : Used(n)' = Used(n)
           /\ Planned => Planned'
  <1>1. Chain' = Chain
    BY DEF Chain, Draft
  <1>2. ModelSteps' = ModelSteps
    BY <1>1 DEF ModelSteps
  <1> QED BY <1>1, <1>2 DEF Gone, Used, Planned

\* The number of calls, with the one of this step and without one.
LEMMA OneMore ==
    ASSUME NEW used \in Nat, NEW tries \in {0, 1}, NEW calls \in Nat,
           calls \in used + tries .. 2 * used + tries
    PROVE  calls + 1 \in used + 1 .. 2 * (used + 1)
  BY SMT

LEMMA NoMore ==
    ASSUME NEW used \in Nat, NEW calls \in Nat, calls \in used + 0 .. 2 * used + 0
    PROVE  calls \in used .. 2 * used
  BY SMT

\* On to the next step with its artifact written and its call made.
LEMMA AdvanceKeeps ==
    ASSUME PlanInv, planResult = "running", Advance, UNCHANGED <<planMode, deterministic>>,
           artifacts' = artifacts \cup ({Chain[step]} \ Silent),
           IF Chain[step] \in ModelSteps
           THEN modelCalls' = modelCalls + 1 /\ modelCalls' <= MaxModelCalls
           ELSE modelCalls' = modelCalls
    PROVE  PlanInv'
  <1>1. /\ Planned /\ Planned'
        /\ Chain' = Chain
        /\ ModelSteps' = ModelSteps
        /\ \A n : Gone(n)' = Gone(n)
        /\ \A n : Used(n)' = Used(n)
    BY SameChain DEF PlanInv, PlanTypes
  <1> DEFINE last == Len(Chain)
             calls == Cardinality(ModelSteps)
  <1>2. /\ step \in 1 .. last
        /\ last \in Nat \ {0}
        /\ attempt \in {0, 1}
        /\ modelCalls \in Nat
        /\ modelCalls \in Used(step) + attempt .. 2 * Used(step) + attempt
        /\ MaxModelCalls \in Nat
        /\ modelCalls <= MaxModelCalls
        /\ artifacts = Gone(step) \ Silent
    BY ChainProperties, PlanningAssumption, <1>1 DEF PlanInv, PlanTypes
  <1>3. /\ Gone(step + 1) = Gone(step) \cup {Chain[step]}
        /\ Gone(step) \subseteq Range(Chain)
        /\ Chain[step] \in Range(Chain)
        /\ Gone(last + 1) = Range(Chain)
    BY <1>1, <1>2, GoneProperties
  <1>4. /\ Used(step) \in Nat
        /\ Used(step + 1) = IF Chain[step] \in ModelSteps THEN Used(step) + 1 ELSE Used(step)
        /\ Used(last + 1) = calls
    BY <1>1, <1>2, UsedProperties
  <1>5. artifacts' = Gone(step + 1) \ Silent
    BY <1>2, <1>3
  <1>6. /\ modelCalls' \in Used(step + 1) .. 2 * Used(step + 1)
        /\ modelCalls' \in Nat /\ modelCalls' <= MaxModelCalls
        /\ Used(step + 1) \in Nat
    <2>1. CASE Chain[step] \in ModelSteps
      BY <1>2, <1>4, <2>1, OneMore
    <2>2. CASE Chain[step] \notin ModelSteps
      <3>1. modelCalls' = modelCalls /\ Used(step + 1) = Used(step) /\ attempt = 0
        BY <1>2, <1>4, <2>2 DEF PlanInv
      <3> QED BY <1>2, <1>4, <3>1, NoMore
    <2> QED BY <2>1, <2>2
  <1>7. /\ step' = step + 1 /\ attempt' = 0
        /\ planResult' = IF step = last THEN "completed" ELSE "running"
        /\ planRunState' = IF step = last THEN "completed" ELSE planRunState
    BY DEF Advance
  <1>8. PlanTypes'
    <2>1. modelCalls' \in 0 .. MaxModelCalls + 1 /\ step' \in 1 .. last + 1
      BY <1>2, <1>6, <1>7
    <2>2. artifacts' \subseteq Range(Chain) \ Silent
      BY <1>3, <1>5
    <2> QED BY <1>1, <1>7, <2>1, <2>2 DEF PlanTypes, PlanInv
  <1>9. CASE step = last
    <2>1. /\ artifacts' = Range(Chain) \ Silent
          /\ modelCalls' \in calls .. 2 * calls
          /\ calls \in Nat
      BY <1>3, <1>4, <1>5, <1>6, <1>9
    <2>2. modelCalls' \in calls .. Smaller(2 * calls, MaxModelCalls)
      BY <1>2, <1>6, <2>1 DEF Smaller
    <2>3. modelCalls' <= MaxModelCalls + 1
      BY <1>2, <1>6
    <2>4. RunStateIsTrue'
      BY <1>1, <1>7, <1>9, <2>1, <2>2, <2>3 DEF RunStateIsTrue
    <2> QED BY <1>7, <1>8, <1>9, <2>4 DEF PlanInv
  <1>10. CASE step # last
    <2>1. step' <= last /\ modelCalls' <= MaxModelCalls + 1
      BY <1>2, <1>6, <1>7, <1>10
    <2>2. planRunState' = "none" /\ planResult' = "running"
      BY <1>7, <1>10 DEF PlanInv
    <2>3. RunStateIsTrue'
      BY <2>1, <2>2 DEF RunStateIsTrue
    <2>4. modelCalls' \in Used(step') + attempt' .. 2 * Used(step') + attempt'
      BY <1>6, <1>7
    <2> QED BY <1>1, <1>5, <1>6, <1>7, <1>8, <2>1, <2>2, <2>3, <2>4 DEF PlanInv
  <1> QED BY <1>9, <1>10

\* An error ends the run where it is.
LEMMA EndKeeps ==
    ASSUME PlanInv, planResult = "running", UNCHANGED <<planMode, deterministic, step, attempt>>,
           \/ planResult' = "failed"
              /\ planRunState' = IF deterministic THEN planRunState ELSE "failed"
           \/ planResult' = "raised" /\ planRunState' = planRunState,
           artifacts' \subseteq artifacts \cup ({Chain[step]} \ Silent),
           modelCalls' \in {modelCalls, modelCalls + 1}
    PROVE  PlanInv'
  <1>1. /\ Planned /\ Planned'
        /\ Chain' = Chain
        /\ ModelSteps' = ModelSteps
    BY SameChain DEF PlanInv, PlanTypes
  <1>2. /\ step \in 1 .. Len(Chain)
        /\ modelCalls \in Nat
        /\ MaxModelCalls \in Nat
        /\ modelCalls <= MaxModelCalls
        /\ planRunState = "none"
    BY ChainProperties, PlanningAssumption, <1>1 DEF PlanInv, PlanTypes
  <1>3. artifacts' \subseteq Range(Chain) \ Silent
    BY <1>1, <1>2, GoneProperties DEF PlanInv, PlanTypes
  <1>4. modelCalls' \in 0 .. MaxModelCalls + 1 /\ modelCalls' <= MaxModelCalls + 1
    BY <1>2
  <1>5. PlanTypes'
    BY <1>1, <1>2, <1>3, <1>4 DEF PlanTypes, PlanInv
  <1>6. RunStateIsTrue'
    BY <1>2, <1>4 DEF RunStateIsTrue
  <1> QED BY <1>5, <1>6 DEF PlanInv

\* The second attempt at the same step.
LEMMA RetryKeeps ==
    ASSUME PlanInv, planResult = "running", Chain[step] \in ModelSteps, attempt = 0, attempt' = 1,
           UNCHANGED <<planMode, deterministic, step, planResult, planRunState, artifacts>>,
           modelCalls' = modelCalls + 1, modelCalls' <= MaxModelCalls
    PROVE  PlanInv'
  <1>1. /\ Planned /\ Planned'
        /\ Chain' = Chain
        /\ ModelSteps' = ModelSteps
        /\ \A n : Gone(n)' = Gone(n)
        /\ \A n : Used(n)' = Used(n)
    BY SameChain DEF PlanInv, PlanTypes
  <1>2. /\ step \in 1 .. Len(Chain)
        /\ modelCalls \in Nat
        /\ MaxModelCalls \in Nat
        /\ modelCalls \in Used(step) .. 2 * Used(step)
        /\ Used(step) \in Nat
    <2>1. step \in 1 .. Len(Chain)
      BY ChainProperties, <1>1 DEF PlanInv, PlanTypes
    <2>2. Used(step) \in Nat
      BY <1>1, <2>1, UsedProperties
    <2> QED BY <2>1, <2>2, PlanningAssumption DEF PlanInv, PlanTypes
  <1>3. modelCalls' \in Used(step) + 1 .. 2 * Used(step) + 1
    BY <1>2
  <1>4. modelCalls' \in 0 .. MaxModelCalls + 1 /\ modelCalls' <= MaxModelCalls + 1
    BY <1>2
  <1>5. PlanTypes'
    BY <1>1, <1>4 DEF PlanTypes, PlanInv
  <1>6. RunStateIsTrue'
    BY <1>4 DEF RunStateIsTrue, PlanInv
  <1> QED BY <1>1, <1>3, <1>5, <1>6 DEF PlanInv

LEMMA SkillsWrite == ~ \E name \in Skills : name \in Silent
  BY DEF Skills, Silent

LEMMA ModelStepsAreSkills == ModelSteps \subseteq Skills
  BY DEF ModelSteps

LEMMA NoneGone == Planned => Gone(1) = {} /\ Used(1) = 0
  <1> SUFFICES ASSUME Planned PROVE Gone(1) = {} /\ Used(1) = 0
    OBVIOUS
  <1>1. 1 \in 1 .. Len(Chain)
    BY ChainProperties
  <1> QED BY <1>1, GoneProperties, UsedProperties

LEMMA StartKeepsPlan ==
    ASSUME PlanInv, NEW newMode \in PlanModes, NEW profile \in BOOLEAN,
           StartPlanning(newMode, profile)
    PROVE  PlanInv'
  <1>1. Planned /\ Planned'
    BY DEF PlanInv, PlanTypes, StartPlanning, Planned
  <1>2. /\ step' = 1 /\ attempt' = 0 /\ modelCalls' = 0 /\ artifacts' = {}
        /\ planRunState' = "none" /\ planResult' = "running"
    BY DEF PlanInv, StartPlanning
  <1>3. \A n : Gone(n)' = {Chain'[i] : i \in 1 .. n - 1}
    BY DEF Gone
  <1>4. (Len(Chain) \in Nat \ {0})'
    BY <1>1, ChainProperties, PTL
  <1>5. (Gone(1) = {} /\ Used(1) = 0)'
    BY <1>1, NoneGone, PTL
  <1>6. Len(Chain') \in Nat \ {0} /\ Gone(1)' = {} /\ Used(1)' = 0
    BY <1>4, <1>5
  <1>7. MaxModelCalls \in Nat
    BY PlanningAssumption
  <1>8. (Gone(step))' = {} /\ (Used(step))' = 0
    <2>1. (Gone(step))' = Gone(1)' /\ (Used(step))' = Used(1)'
      BY <1>2 DEF Gone, Used
    <2> QED BY <1>6, <2>1
  <1>9. PlanTypes'
    BY <1>1, <1>2, <1>6, <1>7 DEF PlanTypes
  <1>10. RunStateIsTrue'
    BY <1>2, <1>7 DEF RunStateIsTrue
  <1> QED BY <1>2, <1>6, <1>7, <1>8, <1>9, <1>10 DEF PlanInv

LEMMA ForwardedSteps ==
    ASSUME PlanInv, Forwarded
    PROVE  /\ planResult = "running"
           /\ UNCHANGED <<planMode, deterministic>>
           /\ Chain[step] \in ModelSteps /\ Chain[step] \notin Silent
           /\ modelCalls' = modelCalls + 1 /\ modelCalls' <= MaxModelCalls
  BY SkillsWrite, ModelStepsAreSkills DEF Forwarded, Called, AtModel

LEMMA StepKeepsPlan ==
    ASSUME PlanInv, PlanningStep
    PROVE  PlanInv'
  <1>1. CASE BudgetExceeded
    BY <1>1, EndKeeps DEF BudgetExceeded, AtModel, Fail
  <1>2. CASE CallRefused
    BY <1>2, EndKeeps DEF CallRefused, Called, AtModel, Fail
  <1>3. CASE AnswerLost
    BY <1>3, ForwardedSteps, EndKeeps DEF AnswerLost, Fail
  <1>4. CASE AnswerInvalid
    <2>1. CASE attempt = 0
      BY <1>4, <2>1, ForwardedSteps, RetryKeeps DEF AnswerInvalid
    <2>2. CASE attempt # 0
      BY <1>4, <2>2, ForwardedSteps, EndKeeps DEF AnswerInvalid, Fail
    <2> QED BY <2>1, <2>2
  <1>5. CASE AnswerUsed
    BY <1>5, ForwardedSteps, AdvanceKeeps DEF AnswerUsed, Write
  <1>6. CASE AnswerStops
    BY <1>6, ForwardedSteps, EndKeeps DEF AnswerStops, Fail, Write
  <1>7. CASE VerificationRefused
    BY <1>7, ForwardedSteps, EndKeeps DEF VerificationRefused, Write
  <1> DEFINE Quiet(name) == /\ At(name) /\ name \notin ModelSteps
                            /\ UNCHANGED <<planMode, deterministic, modelCalls>>
  <1>8. ASSUME NEW name, Quiet(name), Advance,
               artifacts' = artifacts \cup ({Chain[step]} \ Silent)
        PROVE  PlanInv'
    BY <1>8, AdvanceKeeps DEF At
  <1>9. ASSUME NEW name, Quiet(name), Fail, UNCHANGED artifacts \/ (Write /\ name \notin Silent)
        PROVE  PlanInv'
    BY <1>9, EndKeeps DEF At, Fail, Write
  <1>10. /\ \A name \in {"gather-context", "packet-preview", "read-hashes", "draft",
                          "compare-hashes"} : name \notin ModelSteps
         /\ deterministic => "feedback-capture" \notin ModelSteps
    BY DEF ModelSteps, Skills
  <1>11. CASE GatherContext
    <2>1. Quiet("gather-context") /\ "gather-context" \notin Silent
      BY <1>10, <1>11 DEF GatherContext, Silent
    <2> QED BY <1>8, <1>11, <2>1 DEF GatherContext, Write, At
  <1>12. CASE WritePreview
    <2>1. Quiet("packet-preview") /\ "packet-preview" \notin Silent
      BY <1>10, <1>12 DEF WritePreview, Silent
    <2> QED BY <1>8, <1>12, <2>1 DEF WritePreview, Write, At
  <1>13. CASE ReadHashes
    <2>1. Quiet("read-hashes") /\ "read-hashes" \in Silent /\ artifacts' = artifacts /\ Advance
      BY <1>10, <1>13, Zenon DEF ReadHashes, Silent
    <2>2. artifacts' = artifacts \cup ({Chain[step]} \ Silent)
      BY <2>1 DEF At
    <2> QED BY <1>8, <2>1, <2>2
  <1>14. CASE DraftCompletes
    <2>1. Quiet("draft") /\ "draft" \notin Silent
      BY <1>10, <1>14 DEF DraftCompletes, Silent
    <2> QED BY <1>8, <1>14, <2>1 DEF DraftCompletes, Write, At
  <1>15. CASE DraftFails
    <2>1. Quiet("draft") /\ "draft" \notin Silent
      BY <1>10, <1>15 DEF DraftFails, Silent
    <2> QED BY <1>9, <1>15, <2>1 DEF DraftFails
  <1>16. CASE DraftRaises
    BY <1>16, EndKeeps DEF DraftRaises, At
  <1>17. CASE CompareHashes
    <2>1. Quiet("compare-hashes") /\ "compare-hashes" \in Silent /\ artifacts' = artifacts
      BY <1>10, <1>17 DEF CompareHashes, Silent
    <2>2. artifacts' = artifacts \cup ({Chain[step]} \ Silent)
      BY <2>1 DEF At
    <2>3. Advance \/ Fail
      BY <1>17 DEF CompareHashes
    <2> QED BY <1>8, <1>9, <2>1, <2>2, <2>3
  <1>18. CASE WriteFeedback
    <2>1. Quiet("feedback-capture") /\ "feedback-capture" \notin Silent
      BY <1>10, <1>18 DEF WriteFeedback, Silent
    <2> QED BY <1>8, <1>18, <2>1 DEF WriteFeedback, Write, At
  <1> QED
    BY <1>1, <1>2, <1>3, <1>4, <1>5, <1>6, <1>7, <1>11, <1>12, <1>13, <1>14, <1>15,
       <1>16, <1>17, <1>18 DEF PlanningStep

LEMMA OthersKeepPlan ==
    ASSUME PlanInv, UNCHANGED planningVars
    PROVE  PlanInv'
  <1>1. /\ Chain' = Chain
        /\ ModelSteps' = ModelSteps
        /\ \A n : Gone(n)' = Gone(n)
        /\ \A n : Used(n)' = Used(n)
        /\ Planned'
    BY SameChain DEF planningVars, PlanInv, PlanTypes
  <1>2. UNCHANGED <<planMode, deterministic, step, attempt, modelCalls, artifacts,
                    planResult, planRunState>>
    BY DEF planningVars
  <1>3. PlanTypes'
    BY <1>1, <1>2 DEF PlanTypes, PlanInv
  <1>4. RunStateIsTrue'
    BY <1>1, <1>2 DEF RunStateIsTrue, PlanInv
  <1>5. (Gone(step))' = Gone(step) /\ (Used(step))' = Used(step)
    BY <1>1, <1>2 DEF Gone, Used
  <1> QED BY <1>1, <1>2, <1>3, <1>4, <1>5 DEF PlanInv

LEMMA PlanInvStep ==
    ASSUME PlanInv, [Next]_vars
    PROVE  PlanInv'
  <1>1. CASE RouterStep
    <2>1. ASSUME NEW newMode \in PlanModes, NEW profile \in BOOLEAN, Plan(newMode, profile)
          PROVE  PlanInv'
      BY <2>1, StartKeepsPlan DEF Plan
    <2>2. ASSUME NEW profile \in BOOLEAN, Prepares(profile)
          PROVE  PlanInv'
      <3>1. "dry_run" \in PlanModes
        BY DEF PlanModes
      <3> QED BY <2>2, <3>1, StartKeepsPlan DEF Prepares
    <2>3. CASE PlanReturns \/ (\E status \in {"ready", "blocked"} : Route(status)) \/ Propose
               \/ NoChangeNeeded \/ Block \/ Applies \/ PrepReturns \/ ApplyReturns
               \/ DownstreamRaises \/ Report
      <3>1. UNCHANGED planningVars
        BY <2>3 DEF PlanReturns, Route, Propose, NoChangeNeeded, Block, Applies, PrepReturns,
           ApplyReturns, DownstreamRaises, Report
      <3> QED BY <3>1, OthersKeepPlan
    <2> QED BY <1>1, <2>1, <2>2, <2>3 DEF RouterStep
  <1>2. CASE PlanningStep
    BY <1>2, StepKeepsPlan
  <1>3. CASE UNCHANGED planningVars
    BY <1>3, OthersKeepPlan
  <1>4. CASE UNCHANGED vars
    BY <1>3, <1>4 DEF vars
  <1> QED
    BY <1>1, <1>2, <1>3, <1>4 DEF Next

LEMMA PlanInvInit == Init => PlanInv
  <1> SUFFICES ASSUME Init PROVE PlanInv
    OBVIOUS
  <1>1. Planned
    BY DEF Init, PlanningInit, Planned, PlanModes
  <1>2. Len(Chain) \in Nat \ {0}
    BY <1>1, ChainProperties
  <1>3. MaxModelCalls \in Nat
    BY PlanningAssumption
  <1>4. PlanTypes
    BY <1>1, <1>2, <1>3 DEF Init, PlanningInit, PlanTypes
  <1>5. RunStateIsTrue
    BY <1>3 DEF Init, PlanningInit, RunStateIsTrue
  <1> QED BY <1>4, <1>5 DEF Init, PlanningInit, PlanInv

\* Whatever the model answers, whatever the gateway forwards and whoever edits the
\* target meanwhile: run-state.json says completed of a planning run exactly when
\* it has every artifact of its mode at no more than two calls a skill and within
\* the budget, and failed only of one that failed: workflow.py,
\* invoke_execution_planning and call.
THEOREM RunStateRight == Spec => []RunStateIsTrue
  <1>1. PlanInv => RunStateIsTrue
    BY DEF PlanInv
  <1> QED
    BY <1>1, PlanInvInit, PlanInvStep, PTL DEF Spec

-----------------------------------------------------------------------------
(***************************************************************************)
(* The types.                                                              *)
(***************************************************************************)
\* Which statement the apply is at, and what it has counted and seen by then.
ApplyPlaces ==
    /\ applyAt \in {"idle", "copying", "prepare", "digest", "backup"} => cursor = 1
    /\ applyAt \in {"idle", "copying", "prepare"} => sourceSeen = <<>>
    /\ applyAt = "digest" => Len(sourceSeen) \in {0, 1}
    /\ applyAt \in {"backup", "apply"} => Len(sourceSeen) = 2
    /\ applyAt = "digest-again" => Len(sourceSeen) \in {2, 3}
    /\ applyAt \in {"rollback", "finish"} => Len(sourceSeen) = 4
    /\ applyOutcome # "none" => applyAt = "done"

ApplyInv == ApplyTypeOK /\ ApplyPlaces

\* What an operation makes of a file is a file.
LEMMA AppliedContent ==
    ASSUME NEW operation \in Operation, NEW content \in Content \cup {Absent},
           Applicable(operation, content)
    PROVE  Applied(operation, content) \in Content
  <1>1. /\ operation.text \in Texts
        /\ operation.kind \in {"append_text", "replace_text", "create_file"}
    BY DEF Operation
  <1>2. CASE operation.kind = "append_text"
    <2>1. content \in Seq(Texts)
      BY <1>2 DEF Applicable, Content
    <2>2. Applied(operation, content) = Append(content, operation.text)
      BY <1>2 DEF Applied
    <2> QED
      BY <2>1, <2>2, <1>1, AppendProperties DEF Content
  <1>3. CASE operation.kind = "replace_text"
    <2>1. content \in Seq(Texts)
      BY <1>3 DEF Applicable, Content
    <2>2. Applied(operation, content) = ReplaceAll(content, operation.old, operation.text)
      BY <1>3 DEF Applied
    <2>3. \A i \in 1 .. Len(content) : content[i] \in Texts
      BY <2>1, ElementOfSeq
    <2>4. Len(content) \in Nat
      BY <2>1, LenProperties
    <2> DEFINE e(i) == IF content[i] = operation.old THEN operation.text ELSE content[i]
    <2>5. \A i \in 1 .. Len(content) : e(i) \in Texts
      BY <2>3, <1>1
    <2>6. [i \in 1 .. Len(content) |-> e(i)] \in Seq(Texts)
      <3> HIDE DEF e
      <3> QED BY <2>4, <2>5, IsASeq
    <2> QED
      BY <2>2, <2>6 DEF ReplaceAll, Content
  <1>4. CASE operation.kind = "create_file"
    <2>1. Applied(operation, content) = <<operation.text>>
      BY <1>4 DEF Applied
    <2> QED
      BY <2>1, <1>1 DEF Content
  <1> QED
    BY <1>1, <1>2, <1>3, <1>4

LEMMA ApplyPacketTypes ==
    ASSUME RepositoryTypeOK, ApplyTypeOK, ApplyPacket
    PROVE  copy' \in Tree /\ cursor' \in 1 .. Len(operations) + 1
  <1> DEFINE operation == operations[cursor]
  <1>1. /\ operations \in Seq(Operation)
        /\ copy \in Tree
        /\ cursor \in 1 .. Len(operations)
        /\ Len(operations) \in Nat
    BY LenProperties DEF RepositoryTypeOK, ApplyTypeOK, ApplyPacket
  <1>2. operation \in Operation
    BY <1>1, ElementOfSeq
  <1>3. operation.path \in Files
    BY <1>2 DEF Operation
  <1>4. copy[operation.path] \in Content \cup {Absent}
    BY <1>1, <1>3 DEF Tree
  <1>5. Applicable(operation, copy[operation.path])
    BY DEF ApplyPacket, Refused
  <1>6. Applied(operation, copy[operation.path]) \in Content
    <2> HIDE DEF operation
    <2> QED BY <1>2, <1>4, <1>5, AppliedContent
  <1>7. copy' = [copy EXCEPT ![operation.path] = Applied(operation, copy[operation.path])]
    BY DEF ApplyPacket
  <1>8. copy' \in Tree
    <2> HIDE DEF operation
    <2> QED BY <1>1, <1>3, <1>6, <1>7 DEF Tree
  <1>9. cursor' = cursor + 1
    BY DEF ApplyPacket
  <1> QED BY <1>1, <1>8, <1>9

LEMMA BackUpTypes ==
    ASSUME RepositoryTypeOK, ApplyTypeOK, BackUp
    PROVE  backups' \in [BackupNames -> Content \cup {Absent}] /\ backedUp' \subseteq Files
  <1>1. /\ operations \in Seq(Operation)
        /\ Len(operations) \in Nat
        /\ DOMAIN operations = 1 .. Len(operations)
        /\ copy \in Tree
    BY LenProperties DEF RepositoryTypeOK, ApplyTypeOK
  <1>2. /\ \A i \in DOMAIN operations : operations[i] \in Operation
        /\ Targets \subseteq Files
    BY <1>1, TargetsAreFiles
  <1>3. ASSUME NEW name \in BackupNames, Writers(name) # {}
        PROVE  copy[operations[Max(Writers(name))].path] \in Content \cup {Absent}
    <2>1. Writers(name) \subseteq 1 .. Len(operations)
      BY <1>1 DEF Writers
    <2>2. Max(Writers(name)) \in DOMAIN operations
      BY <1>1, <1>3, <2>1, LastOf
    <2>3. operations[Max(Writers(name))].path \in Files
      BY <1>2, <2>2 DEF Operation
    <2> QED BY <1>1, <2>3 DEF Tree
  <1>4. backups' \in [BackupNames -> Content \cup {Absent}]
    BY <1>3 DEF BackUp, ApplyTypeOK
  <1>5. backedUp' \subseteq Files
    BY <1>2 DEF BackUp
  <1> QED BY <1>4, <1>5

LEMMA RestoredTypes ==
    ASSUME ApplyTypeOK
    PROVE  Restored \in Tree
  <1>1. /\ backups \in [BackupNames -> Content \cup {Absent}]
        /\ copy \in [Files -> Content \cup {Absent}]
    BY DEF ApplyTypeOK, Tree
  <1>2. \A f \in Files : BackupName[f] \in BackupNames
    BY BackupAssumption
  <1> QED BY <1>1, <1>2 DEF Restored, Tree

LEMMA SeenTypes ==
    ASSUME RepositoryTypeOK, ApplyTypeOK
    PROVE  /\ Len(sourceSeen) \in Nat
           /\ <<source>> \in Seq(Tree) /\ Len(<<source>>) = 1
           /\ Append(sourceSeen, source) \in Seq(Tree)
           /\ Len(Append(sourceSeen, source)) = Len(sourceSeen) + 1
           /\ sourceSeen = <<>> => Len(sourceSeen) = 0
  <1>1. sourceSeen \in Seq(Tree) /\ source \in Tree
    BY DEF RepositoryTypeOK, ApplyTypeOK
  <1>2. Len(sourceSeen) \in Nat
    BY <1>1, LenProperties
  <1>3. <<source>> \in Seq(Tree) /\ Len(<<source>>) = 1
    BY <1>1
  <1>4. /\ Append(sourceSeen, source) \in Seq(Tree)
        /\ Len(Append(sourceSeen, source)) = Len(sourceSeen) + 1
    BY <1>1, AppendProperties
  <1>5. sourceSeen = <<>> => Len(sourceSeen) = 0
    OBVIOUS
  <1> QED BY <1>2, <1>3, <1>4, <1>5

LEMMA ApplyKeepsTypes ==
    ASSUME RepositoryTypeOK, ApplyInv, ApplyStep
    PROVE  ApplyInv'
  <1>1. /\ UNCHANGED operations
        /\ source \in Tree /\ copy \in Tree
        /\ Len(operations) \in Nat
    BY LenProperties DEF ApplyStep, RepositoryTypeOK, ApplyInv, ApplyTypeOK
  <1>2. ApplyTypeOK /\ ApplyPlaces
    BY DEF ApplyInv
  <1> USE DEF ApplyInv, ApplyPlaces
  <1>3. ASSUME NEW f \in Files, CopyFile(f)
        PROVE  ApplyInv'
    <2>1. copy' \in Tree
      BY <1>1, <1>3 DEF CopyFile, Tree
    <2> QED BY <1>1, <1>3, <2>1 DEF CopyFile, ApplyTypeOK
  <1>4. CASE CopyFails \/ PrepareFails \/ ApplyRaises
    BY <1>1, <1>4 DEF CopyFails, PrepareFails, ApplyRaises, Raise, ApplyTypeOK, ApplyOutcomes
  <1>5. CASE Prepare
    BY <1>1, <1>5, SeenTypes DEF Prepare, ApplyTypeOK
  <1>6. CASE DigestTrees
    BY <1>1, <1>6, SeenTypes DEF DigestTrees, ApplyTypeOK
  <1>7. CASE HashSource
    BY <1>1, <1>7, SeenTypes DEF HashSource, ApplyTypeOK
  <1>8. CASE BackUp
    BY <1>1, <1>8, BackUpTypes DEF BackUp, ApplyTypeOK
  <1>9. CASE ApplyPacket
    <2>1. copy' \in Tree /\ cursor' \in 1 .. Len(operations) + 1
      BY <1>9, ApplyPacketTypes
    <2> QED BY <1>1, <1>9, <2>1 DEF ApplyPacket, ApplyTypeOK
  <1>10. CASE ApplyEnds
    BY <1>1, <1>10 DEF ApplyEnds, ApplyTypeOK
  <1>11. CASE DigestTreesAgain
    BY <1>1, <1>11, SeenTypes DEF DigestTreesAgain, ApplyTypeOK
  <1>12. CASE HashSourceAgain
    BY <1>1, <1>12, SeenTypes DEF HashSourceAgain, ApplyTypeOK
  <1>13. CASE Rollback
    BY <1>1, <1>13, RestoredTypes DEF Rollback, ApplyTypeOK
  <1>14. CASE Finish
    <2>1. applyOutcome' \in ApplyOutcomes
      BY <1>14 DEF Finish, Outcome, ApplyOutcomes
    <2>2. sourceSeen' \in Seq(Tree) /\ Len(sourceSeen') = 5
      <3>1. Len(sourceSeen) = 4 /\ sourceSeen' = Append(sourceSeen, source)
        BY <1>14 DEF Finish
      <3> QED BY <1>2, <3>1, SeenTypes
    <2>3. applyAt' = "done" /\ UNCHANGED <<versioned, nested, copied, copy, copyBefore, copyAfter,
                                          backups, backedUp, cursor, applyStatus, rollback>>
      BY <1>14 DEF Finish
    <2> QED BY <1>1, <2>1, <2>2, <2>3 DEF ApplyTypeOK
  <1> QED
    BY <1>3, <1>4, <1>5, <1>6, <1>7, <1>8, <1>9, <1>10, <1>11, <1>12, <1>13, <1>14 DEF ApplyStep

\* The last request let through has the type of one.
LEMMA ForwardedTypes ==
    ASSUME Forwarded
    PROVE  lastCall' \in [prompt : Prompts, tokenized : BOOLEAN, output : Nat]
  <1>1. PICK prompt \in Prompts, tokenized \in BOOLEAN :
           LET input == InputTokens(prompt, tokenized)
           IN  /\ Forwards(input)
               /\ lastCall' = [prompt |-> prompt, tokenized |-> tokenized,
                               output |-> OutputLimit(input, MaxOutputTokens)]
    BY DEF Forwarded
  <1> DEFINE input == InputTokens(prompt, tokenized)
             output == OutputLimit(input, MaxOutputTokens)
  <1>2. input \in Nat
    BY InputCounted
  <1>3. output \in 1 .. Smaller(DefaultMaxOutput, MaxOutputTokens)
    BY <1>1, <1>2, OutputLimitFits, PlanningAssumption
  <1>4. output \in Nat
    <2> HIDE DEF output
    <2> QED BY <1>3
  <1>5. lastCall' = [prompt |-> prompt, tokenized |-> tokenized, output |-> output]
    BY <1>1
  <1> HIDE DEF output
  <1> QED BY <1>4, <1>5

CallTypes == lastCall \in [prompt : Prompts, tokenized : BOOLEAN, output : Nat] \cup {NoCall}
HashTypes == DOMAIN hashes \subseteq Files

LEMMA PlanningKeepsTypes ==
    ASSUME CallTypes, HashTypes, RepositoryTypeOK, PlanningStep
    PROVE  CallTypes' /\ HashTypes'
  <1>1. CASE ReadHashes
    <2>1. Targets \subseteq Files
      BY TargetsAreFiles DEF RepositoryTypeOK
    <2>2. PICK others \in IF deterministic THEN {{}} ELSE {{}, Files} :
             LET selected == {f \in Targets \cup others : deterministic \/ source[f] # Absent}
             IN  hashes' = [f \in selected |-> source[f]]
      BY <1>1 DEF ReadHashes
    <2>3. others \subseteq Files
      OBVIOUS
    <2>4. DOMAIN hashes' \subseteq Files
      BY <2>1, <2>2, <2>3
    <2> QED BY <1>1, <2>4 DEF ReadHashes, CallTypes, HashTypes
  <1>2. CASE Forwarded /\ UNCHANGED hashes
    BY <1>2, ForwardedTypes DEF CallTypes, HashTypes
  <1>3. CASE UNCHANGED <<lastCall, hashes>>
    BY <1>3 DEF CallTypes, HashTypes
  <1>4. Forwarded => UNCHANGED hashes
    BY DEF Forwarded, Called
  <1>5. ReadHashes \/ Forwarded \/ UNCHANGED <<lastCall, hashes>>
    BY DEF PlanningStep, BudgetExceeded, CallRefused, Called, AnswerLost, AnswerInvalid,
       AnswerUsed, AnswerStops, VerificationRefused, GatherContext, WritePreview,
       DraftCompletes, DraftFails, DraftRaises, CompareHashes, WriteFeedback
  <1> QED BY <1>1, <1>2, <1>3, <1>4, <1>5

RouterTypes ==
    /\ mode \in Modes
    /\ approval \in Approvals
    /\ routerAt \in {"accepted", "ready", "downstream", "report", "done"}
    /\ routeStatus \in {"none", "ready", "blocked"}
    /\ downstream \in {"none", "completed", "failed"}
    /\ failures \in BOOLEAN
    /\ approvalState \in {"none", "waiting_for_approval", "blocked", "finished", "approved"}
    /\ routerRunState \in {"none", "completed"}

\* TypeOK with the places of the apply.
TypeInv ==
    /\ RepositoryTypeOK
    /\ CallTypes /\ HashTypes
    /\ ApplyInv
    /\ RouterTypes

LEMMA OthersKeepApplyInv ==
    ASSUME ApplyInv, UNCHANGED <<applyVars, operations>>
    PROVE  ApplyInv'
  BY DEF ApplyInv, ApplyTypeOK, ApplyPlaces, applyVars

LEMMA RouterStepTypes ==
    ASSUME TypeInv, RollbackInv, RouterStep
    PROVE  TypeInv'
  <1>1. RepositoryTypeOK'
    <2>1. CASE Propose
      BY <2>1, RequestsAssumption DEF Propose, TypeInv, RepositoryTypeOK
    <2>2. CASE UNCHANGED repositoryVars
      BY <2>2 DEF repositoryVars, TypeInv, RepositoryTypeOK
    <2>3. Propose \/ UNCHANGED repositoryVars
      BY DEF RouterStep, Plan, StartPlanning, PlanReturns, Route, NoChangeNeeded, Block, Prepares,
         Applies, PrepReturns, ApplyReturns, DownstreamRaises, Report, repositoryVars
    <2> QED BY <2>1, <2>2, <2>3
  <1>2. CallTypes' /\ HashTypes'
    <2>1. UNCHANGED <<lastCall, hashes>>
      BY DEF RouterStep, Plan, StartPlanning, PlanReturns, Route, NoChangeNeeded, Block, Prepares,
         Propose, Applies, PrepReturns, ApplyReturns, DownstreamRaises, Report, planningVars
    <2> QED BY <2>1 DEF TypeInv, CallTypes, HashTypes
  <1>3. ApplyInv'
    <2>1. CASE Propose
      <3>1. cursor = 1 /\ UNCHANGED applyVars
        BY <2>1 DEF Propose, RollbackInv, TypeInv, ApplyInv, ApplyPlaces
      <3>2. Len(operations') \in Nat
        BY <1>1, LenProperties DEF RepositoryTypeOK
      <3>3. cursor' \in 1 .. Len(operations') + 1
        BY <3>1, <3>2 DEF applyVars
      <3> QED BY <3>1, <3>3 DEF TypeInv, ApplyInv, ApplyTypeOK, ApplyPlaces, applyVars
    <2>2. CASE Applies
      BY <2>2 DEF Applies, StartApply, TypeInv, ApplyInv, ApplyTypeOK, ApplyPlaces, repositoryVars
    <2>3. CASE UNCHANGED <<applyVars, operations>>
      BY <2>3, OthersKeepApplyInv DEF TypeInv
    <2>4. Propose \/ Applies \/ UNCHANGED <<applyVars, operations>>
      BY DEF RouterStep, Plan, StartPlanning, PlanReturns, Route, NoChangeNeeded, Block, Prepares,
         PrepReturns, ApplyReturns, DownstreamRaises, Report, repositoryVars
    <2> QED BY <2>1, <2>2, <2>3, <2>4
  <1>4. RouterTypes'
    <2>1. RouterTypes /\ applyStatus \in {"none", "completed", "failed"}
      BY DEF TypeInv, ApplyInv, ApplyTypeOK
    <2>2. CASE ApplyReturns
      BY <2>1, <2>2 DEF ApplyReturns, RouterTypes
    <2>3. CASE Report
      BY <2>1, <2>3 DEF Report, ApprovalStatus, RouterTypes
    <2>4. CASE ~ ApplyReturns /\ ~ Report
      BY <2>1, <2>4 DEF RouterTypes, RouterStep, Plan, StartPlanning, PlanReturns, Route,
         NoChangeNeeded, Block, Prepares, Propose, Applies, PrepReturns, DownstreamRaises,
         routerVars
    <2> QED BY <2>2, <2>3, <2>4
  <1> QED BY <1>1, <1>2, <1>3, <1>4 DEF TypeInv

LEMMA EditTypes ==
    ASSUME RepositoryTypeOK, NEW f \in Files, Edit(f)
    PROVE  RepositoryTypeOK'
  <1>1. PICK content \in (Revisions \cup {InitialTree[f]}) \ {source[f]} :
           source' = [source EXCEPT ![f] = content]
    BY DEF Edit
  <1>2. content \in Content \cup {Absent}
    BY RepositoryAssumption DEF Tree
  <1>3. source' \in Tree
    BY <1>1, <1>2 DEF RepositoryTypeOK, Tree
  <1>4. edits' \in 0 .. MaxEdits
    BY RepositoryAssumption DEF Edit, RepositoryTypeOK
  <1> QED BY <1>3, <1>4 DEF Edit, RepositoryTypeOK

LEMMA TypeInvStep ==
    ASSUME TypeInv, RollbackInv, [Next]_vars
    PROVE  TypeInv'
  <1>1. CASE RouterStep
    BY <1>1, RouterStepTypes
  <1>2. UNCHANGED <<source, edits, operations>> => RepositoryTypeOK'
    BY DEF TypeInv, RepositoryTypeOK
  <1>3. UNCHANGED planningVars => CallTypes' /\ HashTypes'
    BY DEF TypeInv, CallTypes, HashTypes, planningVars
  <1>4. UNCHANGED <<applyVars, operations>> => ApplyInv'
    BY OthersKeepApplyInv DEF TypeInv
  <1>5. UNCHANGED routerVars => RouterTypes'
    BY DEF TypeInv, RouterTypes, routerVars
  <1>6. CASE PlanningStep /\ UNCHANGED <<applyVars, routerVars>>
    BY <1>2, <1>4, <1>5, <1>6, PlanningKeepsTypes DEF TypeInv, PlanningStep
  <1>7. CASE ApplyStep /\ UNCHANGED <<planningVars, routerVars>>
    BY <1>2, <1>3, <1>5, <1>7, ApplyKeepsTypes DEF TypeInv, ApplyStep
  <1>8. CASE \E f \in Files : Edit(f) /\ UNCHANGED <<planningVars, applyVars, routerVars>>
    BY <1>3, <1>4, <1>5, <1>8, EditTypes DEF TypeInv, Edit
  <1>9. CASE UNCHANGED vars
    BY <1>2, <1>3, <1>4, <1>5, <1>9 DEF TypeInv, vars, repositoryVars
  <1> QED BY <1>1, <1>6, <1>7, <1>8, <1>9 DEF Next

LEMMA TypeInvInit == Init => TypeInv
  <1> SUFFICES ASSUME Init PROVE TypeInv
    OBVIOUS
  <1>1. operations \in Seq(Operation) /\ Len(operations) \in Nat
    <2>1. operations \in Requests \cup {<<>>} /\ <<>> \in Seq(Operation)
      BY DEF Init
    <2>2. operations \in Seq(Operation)
      BY <2>1, RequestsAssumption
    <2> QED BY <2>2, LenProperties
  <1>2. RepositoryTypeOK
    BY <1>1, RepositoryAssumption DEF Init, RepositoryInit, RepositoryTypeOK
  <1>3. CallTypes /\ HashTypes
    BY DEF Init, PlanningInit, CallTypes, HashTypes, NoHashes
  <1>4. ApplyInv
    <2>1. NoTree \in Tree
      BY DEF NoTree, Tree
    <2>2. <<>> \in Seq(Tree) /\ Len(<<>>) <= 5
      OBVIOUS
    <2>3. 1 \in 1 .. Len(operations) + 1
      BY <1>1
    <2> QED BY <2>1, <2>2, <2>3 DEF Init, ApplyInit, ApplyInv, ApplyTypeOK, ApplyPlaces, ApplyOutcomes
  <1>5. RouterTypes
    BY DEF Init, RouterTypes
  <1> QED BY <1>2, <1>3, <1>4, <1>5 DEF TypeInv

\* Every variable of a routed request keeps its type, for every target repository,
\* every list of operations, every budget and every editor: plan.py,
\* invoke_workflow_router_plan.
THEOREM TypeCorrect == Spec => []TypeOK
  <1>1. Init => TypeInv /\ PlanInv /\ RollbackInv
    BY TypeInvInit, PlanInvInit, RollbackInvInit
  <1>2. TypeInv /\ PlanInv /\ RollbackInv /\ [Next]_vars
           => TypeInv' /\ PlanInv' /\ RollbackInv'
    BY TypeInvStep, PlanInvStep, RollbackInvStep
  <1>3. TypeInv /\ PlanInv /\ RollbackInv => TypeOK
    BY DEF TypeInv, PlanInv, PlanTypes, Planned, CallTypes, HashTypes, RouterTypes, ApplyInv,
       PlanningTypeOK, TypeOK
  <1> QED
    BY <1>1, <1>2, <1>3, PTL DEF Spec

-----------------------------------------------------------------------------
(***************************************************************************)
(* A finished request.  AfterOperations is a recursive function: that it   *)
(* satisfies its recursion is shown by taking the least length for which it*)
(* would not.                                                              *)
(***************************************************************************)
LEMMA AfterExists ==
    ASSUME NEW last \in Nat
    PROVE  \E tree : tree = [n \in 0 .. last |->
                        IF n = 0 THEN copyBefore ELSE Edited(tree[n - 1], operations[n])]
  <1> DEFINE P(k) == \E tree : tree = [n \in 0 .. k |->
                        IF n = 0 THEN copyBefore ELSE Edited(tree[n - 1], operations[n])]
  <1>1. P(0)
    <2> DEFINE c == [n \in 0 .. 0 |-> copyBefore]
    <2>1. c = [n \in 0 .. 0 |->
                  IF n = 0 THEN copyBefore ELSE Edited(c[n - 1], operations[n])]
      BY SMT
    <2> QED
      BY <2>1, Zenon
  <1>2. ASSUME NEW k \in Nat, P(k)
        PROVE  P(k + 1)
    <2>1. PICK c : c = [n \in 0 .. k |->
              IF n = 0 THEN copyBefore ELSE Edited(c[n - 1], operations[n])]
      BY <1>2, Zenon
    <2> DEFINE d == [n \in 0 .. k + 1 |->
                        IF n <= k THEN c[n] ELSE Edited(c[k], operations[k + 1])]
    <2>2. ASSUME NEW n \in 0 .. k + 1
          PROVE  d[n] = IF n = 0 THEN copyBefore ELSE Edited(d[n - 1], operations[n])
      <3>1. CASE n = 0
        <4>1. d[0] = c[0] /\ c[0] = copyBefore
          BY <1>2, <2>1, SMT
        <4> QED
          BY <3>1, <4>1
      <3>2. CASE n \in 1 .. k
        <4>1. d[n] = c[n] /\ d[n - 1] = c[n - 1] /\ n # 0
          BY <1>2, <3>2, SMT
        <4>2. c[n] = Edited(c[n - 1], operations[n])
          <5>1. n \in 0 .. k /\ n # 0
            BY <1>2, <3>2, SMT
          <5> QED
            BY <2>1, <5>1, Zenon
        <4> QED
          BY <4>1, <4>2, Zenon
      <3>3. CASE n = k + 1
        <4>1. /\ d[n] = Edited(c[k], operations[k + 1])
              /\ d[n - 1] = c[k]
              /\ n # 0
          BY <1>2, <3>3, SMT
        <4> QED
          BY <3>3, <4>1, Zenon
      <3> QED
        BY <1>2, <3>1, <3>2, <3>3, SMT
    <2>3. d = [n \in 0 .. k + 1 |->
                  IF n = 0 THEN copyBefore ELSE Edited(d[n - 1], operations[n])]
      <3>1. d = [n \in 0 .. k + 1 |-> d[n]]
        OBVIOUS
      <3> HIDE DEF d
      <3> QED BY <2>2, <3>1, Zenon
    <2> QED
      BY <2>3, Zenon
  <1>3. \A k \in Nat : P(k)
    <2> DEFINE T == {k \in Nat : ~ P(k)}
    <2> SUFFICES ASSUME T # {} PROVE FALSE
      OBVIOUS
    <2>1. PICK k \in T : \A j \in T : k <= j
      BY Least
    <2> HIDE DEF P
    <2>2. k # 0
      BY <1>1
    <2>3. k - 1 \in Nat /\ k - 1 \notin T
      BY <2>1, <2>2, SMT
    <2>4. P((k - 1) + 1)
      BY <1>2, <2>3
    <2>5. (k - 1) + 1 = k
      BY SMT
    <2> QED
      BY <2>4, <2>5
  <1> QED
    BY <1>3, Zenon

LEMMA AfterDefined ==
    ASSUME operations \in Seq(Operation)
    PROVE  /\ AfterOperations[0] = copyBefore
           /\ \A n \in 1 .. Len(operations) :
                 AfterOperations[n] = Edited(AfterOperations[n - 1], operations[n])
  <1> DEFINE c == AfterOperations
             last == Len(operations)
  <1>1. last \in Nat
    BY LenProperties
  <1>2. c = [n \in 0 .. last |-> IF n = 0 THEN copyBefore ELSE Edited(c[n - 1], operations[n])]
    <2> HIDE DEF last
    <2>1. \E tree : tree = [n \in 0 .. last |->
                       IF n = 0 THEN copyBefore ELSE Edited(tree[n - 1], operations[n])]
      BY <1>1, AfterExists
    <2> QED BY <2>1, Zenon DEF AfterOperations, last
  <1> HIDE DEF c
  <1>3. c[0] = copyBefore
    <2>1. 0 \in 0 .. last
      BY <1>1, SMT
    <2> QED BY <1>2, <2>1, Zenon
  <1>4. ASSUME NEW n \in 1 .. last
        PROVE  c[n] = Edited(c[n - 1], operations[n])
    <2>1. n \in 0 .. last /\ n # 0
      BY <1>1, <1>4, SMT
    <2> QED BY <1>2, <2>1, Zenon
  <1> QED
    BY <1>3, <1>4 DEF c

-----------------------------------------------------------------------------
\* While nobody has edited the target, the copy is of what it was at the beginning.
CopyInv ==
    /\ applyAt \in {"prepare", "digest"} => copied = Files
    /\ edits = 0 =>
          /\ source = InitialTree
          /\ applyAt \in {"idle", "copying", "prepare", "digest"} =>
                \A f \in copied : copy[f] = InitialTree[f]
          /\ applyAt \in {"backup", "apply", "digest-again", "rollback", "finish"}
             \/ applyOutcome = "finished" => copyBefore = InitialTree

AppliedSoFar == AfterOperations[cursor - 1]

\* The operations before the cursor have been applied, and the digest after them
\* is of that; the status tells whether they are all.
OperationsInv ==
    /\ applyAt = "apply" \/ (applyAt = "digest-again" /\ Len(sourceSeen) = 2) =>
          copy = AppliedSoFar
    /\ (applyAt = "digest-again" /\ Len(sourceSeen) = 3) \/ applyAt \in {"rollback", "finish"}
       \/ applyOutcome = "finished" =>
          copyAfter = AppliedSoFar
    /\ applyAt \in {"digest-again", "rollback", "finish"} \/ applyOutcome = "finished" =>
          applyStatus = IF cursor > Len(operations) THEN "completed" ELSE "failed"
    /\ applyOutcome = "finished" =>
          /\ copy = copyBefore
          /\ copyAfter # copyBefore
          /\ \A i, j \in {1, 3, 5} : sourceSeen[i] = sourceSeen[j]

\* The router reports what came of the call below it.
ResultInv ==
    /\ downstream # "none" => routerAt \in {"report", "done"}
    /\ mode = "implementation_prep" /\ downstream # "none" =>
          routeStatus = "blocked" \/ (planResult = "completed" /\ ~ failures)
    /\ mode = "apply_disposable_copy" /\ downstream # "none" =>
          applyOutcome = "finished" /\ (failures <=> applyStatus = "failed")
    /\ approvalState # "none" => routerAt = "done"
    /\ approvalState = "finished" =>
          approval \in {"incomplete", "approved"} /\ downstream # "none" /\ routeStatus # "blocked"

-----------------------------------------------------------------------------
LEMMA ApplyKeepsCopyInv ==
    ASSUME TypeInv, RollbackInv, CopyInv, ApplyStep
    PROVE  CopyInv'
  <1>1. /\ UNCHANGED <<source, edits>>
        /\ copy \in [Files -> Content \cup {Absent}]
        /\ copyBefore \in [Files -> Content \cup {Absent}]
        /\ InitialTree \in [Files -> Content \cup {Absent}]
        /\ applyOutcome # "none" => applyAt = "done"
        /\ copied \subseteq Files
    BY RepositoryAssumption DEF ApplyStep, TypeInv, ApplyInv, ApplyTypeOK, ApplyPlaces, Tree
  <1> USE DEF CopyInv
  <1>2. ASSUME NEW f \in Files, CopyFile(f)
        PROVE  CopyInv'
    <2>1. /\ applyAt = "copying" /\ copied' = copied \cup {f}
          /\ copy' = [copy EXCEPT ![f] = source[f]]
          /\ applyAt' \in {"copying", "prepare"}
          /\ applyAt' = "prepare" => copied' = Files
          /\ applyOutcome' = "none"
      BY <1>1, <1>2 DEF CopyFile
    <2>2. edits = 0 => \A g \in copied' : copy'[g] = InitialTree[g]
      BY <1>1, <2>1
    <2> QED BY <1>1, <2>1, <2>2
  <1>3. CASE CopyFails \/ PrepareFails \/ ApplyRaises
    BY <1>1, <1>3 DEF CopyFails, PrepareFails, ApplyRaises, Raise
  <1>4. CASE Prepare \/ DigestTrees
    BY <1>1, <1>4 DEF Prepare, DigestTrees
  <1>5. CASE HashSource
    <2>1. copyBefore = copy /\ applyAt = "digest" /\ applyAt' = "backup"
          /\ UNCHANGED <<copyBefore, applyOutcome>>
      <3>1. sourceSeen # <<>>
        BY <1>5, SeenTypes DEF HashSource, TypeInv, ApplyInv
      <3> QED BY <1>5, <3>1 DEF HashSource, RollbackInv
    <2>2. edits = 0 => \A f \in Files : copy[f] = InitialTree[f]
      BY <2>1
    <2>3. edits = 0 => copyBefore = InitialTree
      BY <1>1, <2>1, <2>2
    <2> QED BY <1>1, <2>1, <2>3
  <1>6. CASE BackUp \/ ApplyPacket \/ ApplyEnds \/ DigestTreesAgain \/ HashSourceAgain \/ Rollback
    BY <1>1, <1>6 DEF BackUp, ApplyPacket, ApplyEnds, DigestTreesAgain, HashSourceAgain, Rollback
  <1>7. CASE Finish
    BY <1>1, <1>7 DEF Finish
  <1> QED
    BY <1>2, <1>3, <1>4, <1>5, <1>6, <1>7 DEF ApplyStep

LEMMA CopyInvStep ==
    ASSUME TypeInv, RollbackInv, CopyInv, [Next]_vars
    PROVE  CopyInv'
  <1>1. CASE ApplyStep
    BY <1>1, ApplyKeepsCopyInv
  <1>2. CASE Applies
    BY <1>2 DEF Applies, StartApply, repositoryVars, CopyInv
  <1>3. CASE UNCHANGED <<applyVars, source, edits>>
    BY <1>3 DEF applyVars, CopyInv
  <1>4. CASE \E f \in Files : Edit(f) /\ UNCHANGED applyVars
    <2>1. edits' # 0
      BY <1>4 DEF Edit, TypeInv, RepositoryTypeOK
    <2> QED BY <1>4, <2>1 DEF applyVars, CopyInv
  <1>5. CASE RouterStep
    <2>1. Applies \/ UNCHANGED <<applyVars, source, edits>>
      BY <1>5 DEF RouterStep, Plan, StartPlanning, PlanReturns, Route, NoChangeNeeded, Block,
         Prepares, Propose, PrepReturns, ApplyReturns, DownstreamRaises, Report, repositoryVars
    <2> QED BY <1>2, <1>3, <2>1
  <1>6. CASE PlanningStep /\ UNCHANGED <<applyVars, routerVars>>
    BY <1>3, <1>6 DEF PlanningStep
  <1>7. CASE UNCHANGED vars
    BY <1>3, <1>7 DEF vars, repositoryVars
  <1> QED
    BY <1>1, <1>4, <1>5, <1>6, <1>7 DEF Next

-----------------------------------------------------------------------------
LEMMA SameAfter ==
    ASSUME UNCHANGED <<copyBefore, operations>>
    PROVE  AfterOperations' = AfterOperations
  BY DEF AfterOperations, Edited

LEMMA ApplyKeepsOperationsInv ==
    ASSUME TypeInv, RollbackInv, OperationsInv, ApplyStep
    PROVE  OperationsInv'
  <1>1. /\ UNCHANGED operations
        /\ operations \in Seq(Operation)
        /\ cursor \in 1 .. Len(operations) + 1
        /\ Len(operations) \in Nat
        /\ ApplyPlaces
    BY LenProperties
       DEF ApplyStep, TypeInv, RepositoryTypeOK, ApplyInv, ApplyTypeOK
  <1>2. copyBefore' = copyBefore => AfterOperations' = AfterOperations
    BY <1>1, SameAfter
  <1> USE DEF OperationsInv, AppliedSoFar
  <1>3. CASE applyAt' \in {"copying", "prepare", "digest", "backup"} /\ applyOutcome' = "none"
    BY <1>3
  <1>4. CASE applyAt' = "done" /\ applyOutcome' = "raised"
    BY <1>4
  <1>5. CASE BackUp
    <2>1. /\ applyAt' = "apply" /\ applyOutcome' = "none" /\ cursor' = 1
          /\ copy' = copy /\ copy = copyBefore /\ copyBefore' = copyBefore
      BY <1>1, <1>5 DEF BackUp, ApplyPlaces, RollbackInv
    <2>2. AfterOperations[0] = copyBefore
      BY <1>1, AfterDefined
    <2>3. copy' = AfterOperations'[cursor' - 1]
      BY <1>2, <2>1, <2>2
    <2> QED BY <2>1, <2>3
  <1>6. CASE ApplyPacket
    <2>1. /\ cursor \in 1 .. Len(operations) /\ cursor' = cursor + 1
          /\ copy' = Edited(copy, operations[cursor])
          /\ copyBefore' = copyBefore
          /\ applyAt = "apply" /\ applyAt' = "apply" /\ applyOutcome' = "none"
      BY <1>1, <1>6 DEF ApplyPacket, Edited, ApplyPlaces
    <2>2. AfterOperations[cursor] = Edited(AfterOperations[cursor - 1], operations[cursor])
      BY <1>1, <2>1, AfterDefined
    <2>3. copy = AfterOperations[cursor - 1] /\ cursor' - 1 = cursor
      BY <1>1, <2>1
    <2>4. copy' = AfterOperations'[cursor' - 1]
      BY <1>2, <2>1, <2>2, <2>3
    <2> QED BY <2>1, <2>4
  <1>7. CASE ApplyEnds
    <2>1. /\ applyAt = "apply" /\ applyAt' = "digest-again"
          /\ applyStatus' = IF cursor > Len(operations) THEN "completed" ELSE "failed"
          /\ UNCHANGED <<copy, copyBefore, sourceSeen, cursor, applyOutcome>>
      BY <1>7 DEF ApplyEnds
    <2>2. Len(sourceSeen') = 2 /\ applyOutcome' = "none"
      BY <1>1, <2>1 DEF ApplyPlaces
    <2>3. copy' = AfterOperations'[cursor' - 1]
      BY <1>2, <2>1
    <2> QED BY <1>1, <2>1, <2>2, <2>3
  <1>8. CASE DigestTreesAgain
    <2>1. Len(sourceSeen') = 3
      BY <1>8, SeenTypes DEF DigestTreesAgain, TypeInv, ApplyInv
    <2> QED BY <1>1, <1>2, <1>8, <2>1 DEF DigestTreesAgain, ApplyPlaces
  <1>9. CASE HashSourceAgain
    BY <1>1, <1>2, <1>9 DEF HashSourceAgain, ApplyPlaces
  <1>10. CASE Rollback
    BY <1>1, <1>2, <1>10 DEF Rollback, ApplyPlaces
  <1>11. CASE Finish
    <2>1. /\ applyAt = "finish" /\ applyAt' = "done"
          /\ applyOutcome' = Outcome(sourceSeen')
          /\ UNCHANGED <<copy, copyBefore, copyAfter, cursor, applyStatus, rollback>>
      BY <1>11 DEF Finish
    <2>2. ASSUME applyOutcome' = "finished"
          PROVE  /\ copy = copyBefore
                 /\ copyAfter # copyBefore
                 /\ \A i, j \in {1, 3, 5} : sourceSeen'[i] = sourceSeen'[j]
      <3>1. /\ ~ (\A f \in Targets : copyAfter[f] = copyBefore[f])
            /\ copy = copyBefore
            /\ sourceSeen'[1] = sourceSeen'[3]
            /\ sourceSeen'[1] = sourceSeen'[5]
        BY <2>1, <2>2, Zenon DEF Outcome
      <3> QED BY <3>1
    <2> QED BY <1>1, <1>2, <2>1, <2>2
  <1>12. CASE CopyFails \/ PrepareFails \/ ApplyRaises
    BY <1>4, <1>12 DEF CopyFails, PrepareFails, ApplyRaises, Raise
  <1>13. CASE (\E f \in Files : CopyFile(f)) \/ Prepare \/ DigestTrees \/ HashSource
    BY <1>1, <1>3, <1>13 DEF CopyFile, Prepare, DigestTrees, HashSource, ApplyPlaces
  <1> QED
    BY <1>5, <1>6, <1>7, <1>8, <1>9, <1>10, <1>11, <1>12, <1>13 DEF ApplyStep

LEMMA OperationsInvStep ==
    ASSUME TypeInv, RollbackInv, OperationsInv, [Next]_vars
    PROVE  OperationsInv'
  <1>1. CASE ApplyStep
    BY <1>1, ApplyKeepsOperationsInv
  <1>2. applyOutcome = "finished" => applyAt = "done"
    BY DEF TypeInv, ApplyInv, ApplyPlaces
  <1>3. CASE Applies
    BY <1>2, <1>3 DEF Applies, StartApply, OperationsInv
  <1>4. CASE Propose
    BY <1>2, <1>4 DEF Propose, applyVars, RollbackInv, OperationsInv
  <1>5. CASE UNCHANGED <<applyVars, operations>>
    <2>1. AfterOperations' = AfterOperations
      BY <1>5, SameAfter DEF applyVars
    <2> QED BY <1>5, <2>1 DEF applyVars, OperationsInv, AppliedSoFar
  <1>6. CASE RouterStep
    <2>1. Applies \/ Propose \/ UNCHANGED <<applyVars, operations>>
      BY <1>6 DEF RouterStep, Plan, StartPlanning, PlanReturns, Route, NoChangeNeeded, Block,
         Prepares, PrepReturns, ApplyReturns, DownstreamRaises, Report, repositoryVars
    <2> QED BY <1>3, <1>4, <1>5, <2>1
  <1>7. CASE PlanningStep /\ UNCHANGED <<applyVars, routerVars>>
    BY <1>5, <1>7 DEF PlanningStep
  <1>8. CASE \E f \in Files : Edit(f) /\ UNCHANGED <<planningVars, applyVars, routerVars>>
    BY <1>5, <1>8 DEF Edit
  <1>9. CASE UNCHANGED vars
    BY <1>5, <1>9 DEF vars, repositoryVars
  <1> QED
    BY <1>1, <1>6, <1>7, <1>8, <1>9 DEF Next

-----------------------------------------------------------------------------
LEMMA DoneApplying == ApplyStep => applyAt # "done"
  BY DEF ApplyStep, CopyFile, CopyFails, Prepare, PrepareFails, DigestTrees, HashSource, BackUp,
     ApplyPacket, ApplyEnds, ApplyRaises, DigestTreesAgain, HashSourceAgain, Rollback, Finish

LEMMA PlanningRuns == PlanningStep => planResult = "running"
  BY DEF PlanningStep, BudgetExceeded, CallRefused, Called, AnswerLost, AnswerInvalid, AnswerUsed,
     AnswerStops, VerificationRefused, GatherContext, WritePreview, ReadHashes, DraftCompletes,
     DraftFails, DraftRaises, CompareHashes, WriteFeedback, Forwarded, AtModel, At

LEMMA ResultInvStep ==
    ASSUME TypeInv, ResultInv, [Next]_vars
    PROVE  ResultInv'
  <1>1. /\ applyOutcome # "none" => applyAt = "done"
        /\ RouterTypes
    BY DEF TypeInv, ApplyInv, ApplyPlaces
  <1> USE DEF ResultInv
  <1>2. CASE RouterStep
    <2>1. ASSUME NEW newMode \in PlanModes, NEW profile \in BOOLEAN, Plan(newMode, profile)
          PROVE  ResultInv'
      BY <2>1 DEF Plan, StartPlanning, applyVars
    <2>2. ASSUME NEW profile \in BOOLEAN, Prepares(profile)
          PROVE  ResultInv'
      BY <2>2 DEF Prepares, StartPlanning, applyVars
    <2>3. CASE PlanReturns \/ Propose \/ NoChangeNeeded \/ Block \/ DownstreamRaises
      BY <2>3 DEF PlanReturns, Propose, NoChangeNeeded, Block, DownstreamRaises, planningVars,
         applyVars, routerVars
    <2>4. CASE \E status \in {"ready", "blocked"} : Route(status)
      BY <2>4 DEF Route, planningVars, applyVars
    <2>5. CASE Applies
      BY <1>1, <2>5 DEF Applies, StartApply, planningVars
    <2>6. CASE PrepReturns
      BY <2>6, Zenon DEF PrepReturns, planningVars, applyVars
    <2>7. CASE ApplyReturns
      BY <2>7, Zenon DEF ApplyReturns, planningVars, applyVars
    <2>8. CASE Report
      <3>1. approvalState' = "finished" =>
               approval \in {"incomplete", "approved"} /\ downstream # "none" /\ routeStatus # "blocked"
        BY <1>1, <2>8 DEF Report, ApprovalStatus, RouterTypes, Approvals
      <3> QED BY <2>8, <3>1 DEF Report, planningVars, applyVars
    <2> QED BY <1>2, <2>1, <2>2, <2>3, <2>4, <2>5, <2>6, <2>7, <2>8 DEF RouterStep
  <1>3. CASE PlanningStep /\ UNCHANGED <<applyVars, routerVars>>
    BY <1>3, PlanningRuns DEF applyVars, routerVars
  <1>4. CASE ApplyStep /\ UNCHANGED <<planningVars, routerVars>>
    BY <1>1, <1>4, DoneApplying DEF planningVars, routerVars
  <1>5. CASE UNCHANGED <<planningVars, applyVars, routerVars>>
    BY <1>5 DEF planningVars, applyVars, routerVars
  <1> QED
    BY <1>2, <1>3, <1>4, <1>5 DEF Next, vars

-----------------------------------------------------------------------------
LEMMA ProvenByInvariants ==
    ASSUME TypeInv, RunStateIsTrue, CopyInv, OperationsInv, ResultInv
    PROVE  FinishedIsProven
  <1> SUFFICES ASSUME approvalState = "finished" PROVE
        /\ approval \in {"incomplete", "approved"}
        /\ mode = "implementation_prep" => planRunState = "completed" /\ ~ failures
        /\ mode = "apply_disposable_copy" =>
              /\ copy = copyBefore
              /\ \E n \in 1 .. Len(operations) :
                    /\ copyAfter = AfterOperations[n]
                    /\ n < Len(operations) <=> failures
              /\ copyAfter # copyBefore
              /\ \A i, j \in {1, 3, 5} : sourceSeen[i] = sourceSeen[j]
              /\ edits = 0 => copyBefore = InitialTree
    BY DEF FinishedIsProven
  <1>1. approval \in {"incomplete", "approved"} /\ downstream # "none" /\ routeStatus # "blocked"
    BY DEF ResultInv
  <1>2. mode = "implementation_prep" => planRunState = "completed" /\ ~ failures
    BY <1>1 DEF ResultInv, RunStateIsTrue
  <1>3. ASSUME mode = "apply_disposable_copy"
        PROVE  /\ copy = copyBefore
               /\ \E n \in 1 .. Len(operations) :
                     /\ copyAfter = AfterOperations[n]
                     /\ n < Len(operations) <=> failures
               /\ copyAfter # copyBefore
               /\ \A i, j \in {1, 3, 5} : sourceSeen[i] = sourceSeen[j]
               /\ edits = 0 => copyBefore = InitialTree
    <2>1. applyOutcome = "finished" /\ (failures <=> applyStatus = "failed")
      BY <1>1, <1>3 DEF ResultInv
    <2>2. /\ copy = copyBefore
          /\ copyAfter # copyBefore
          /\ \A i, j \in {1, 3, 5} : sourceSeen[i] = sourceSeen[j]
          /\ copyAfter = AfterOperations[cursor - 1]
          /\ applyStatus = IF cursor > Len(operations) THEN "completed" ELSE "failed"
      BY <2>1 DEF OperationsInv, AppliedSoFar
    <2>3. /\ operations \in Seq(Operation)
          /\ cursor \in 1 .. Len(operations) + 1
          /\ Len(operations) \in Nat
      BY LenProperties DEF TypeInv, RepositoryTypeOK, ApplyInv, ApplyTypeOK
    <2>4. cursor - 1 # 0
      <3>1. AfterOperations[0] = copyBefore
        BY <2>3, AfterDefined
      <3> QED BY <2>2, <3>1
    <2>5. /\ cursor - 1 \in 1 .. Len(operations)
          /\ cursor - 1 < Len(operations) <=> ~ (cursor > Len(operations))
      BY <2>3, <2>4
    <2>6. cursor - 1 < Len(operations) <=> failures
      BY <2>1, <2>2, <2>5
    <2>7. edits = 0 => copyBefore = InitialTree
      BY <2>1 DEF CopyInv
    <2> QED BY <2>2, <2>5, <2>6, <2>7
  <1> QED BY <1>1, <1>2, <1>3

\* Whatever the target repository, the operations and the budgets are and whoever
\* edits the target meanwhile: a request whose approval-state.json says finished
\* was approved and has been carried out, and its proof of an apply is one: plan.py,
\* approval_state_status and invoke_disposable_copy_apply.
THEOREM FinishedMeansProven == Spec => []FinishedIsProven
  <1> DEFINE Inv == /\ TypeInv /\ PlanInv /\ RollbackInv
                    /\ CopyInv /\ OperationsInv /\ ResultInv
  <1>1. Init => Inv
    <2>1. Init => CopyInv /\ OperationsInv /\ ResultInv
      BY DEF Init, RepositoryInit, ApplyInit, CopyInv, OperationsInv, ResultInv
    <2> QED BY <2>1, TypeInvInit, PlanInvInit, RollbackInvInit
  <1>2. Inv /\ [Next]_vars => Inv'
    BY TypeInvStep, PlanInvStep, RollbackInvStep, CopyInvStep, OperationsInvStep, ResultInvStep
  <1>3. Inv => FinishedIsProven
    BY ProvenByInvariants DEF PlanInv
  <1> QED
    BY <1>1, <1>2, <1>3, PTL DEF Spec

=============================================================================
