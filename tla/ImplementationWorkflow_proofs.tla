--------------------- MODULE ImplementationWorkflow_proofs ---------------------
(***************************************************************************)
(* What the implementation workflow guarantees of its state file and of    *)
(* the target repository, for every plan without two packets of one id,    *)
(* every target and every number of pauses, failures and crashes.          *)
(***************************************************************************)
EXTENDS ImplementationWorkflow, WellFoundedInduction, SequenceTheorems, TLAPS

\* No plan has two packets of one id.  The code does not check it: with such a
\* plan a resumption skips a packet that was never processed.
DistinctIds ==
    \A p \in Plans : \A i, j \in DOMAIN p : p[i].id = p[j].id => i = j

-----------------------------------------------------------------------------
(***************************************************************************)
(* The inductive invariant.                                                *)
(***************************************************************************)
\* The state file names the packets before queue_index, in order.
Recorded ==
    Readable =>
        /\ disk.queue_index <= Len(plan)
        /\ disk.completed = [i \in 1 .. disk.queue_index |-> plan[i].id]

\* A verification has its result only after the last packet, and the status is
\* the one that result stands for.
Decided ==
    Readable =>
        /\ disk.verification_completed =>
              /\ disk.queue_index = Len(plan)
              /\ disk.decision \in {"passed", "failed", "not_run"}
              /\ disk.status = IF disk.decision = "failed" THEN "failed" ELSE "completed"
        /\ disk.status = "completed" => disk.verification_completed

\* Where a running invocation is, relative to the state it has written.
Placed ==
    at # "down" =>
        /\ Readable
        /\ completed_ids \subseteq Range(disk.completed)
        /\ at = "packets" => cursor <= disk.queue_index + 1
        /\ at = "record" => cursor = disk.queue_index + 1 /\ cursor <= Len(plan)
        /\ at = "limit" => cursor = disk.queue_index
        /\ at \in {"record", "limit"} => ~ disk.verification_completed

StateInv == TypeOK /\ Recorded /\ Decided /\ Placed

\* What is in the target and the drafts: the properties, and the packet in flight.
DraftInv ==
    /\ DraftsFollowState
    /\ mode = "draft" /\ at = "record" =>
          drafts[plan[cursor].id, plan[cursor].path]
              = Applied(plan[cursor], Original[plan[cursor].path])

EditInv ==
    mode = "apply" /\ Readable =>
        \E history \in Histories :
            /\ Len(history) <= disk.queue_index + crashes + (IF at = "record" THEN 1 ELSE 0)
            /\ Range(history) \subseteq 1 .. disk.queue_index + 1
            /\ 1 .. disk.queue_index \subseteq Range(history)
            /\ at = "record" => cursor \in Range(history)
            /\ \A n \in 2 .. Len(history) : history[n - 1] <= history[n]
            /\ target = Replay(history)[Len(history)]

-----------------------------------------------------------------------------
\* A plan is a non-empty sequence of packets: implementation/workflow.py,
\* validate_packet.
LEMMA PlanPackets ==
    ASSUME NEW p \in Plans
    PROVE  /\ p \in Seq(Packet)
           /\ Len(p) \in Nat \ {0}
           /\ DOMAIN p = 1 .. Len(p)
           /\ \A i \in 1 .. Len(p) :
                 /\ p[i] \in Packet
                 /\ p[i].id \in Ids
                 /\ p[i].path \in Files
                 /\ p[i].text \in Texts
                 /\ p[i].kind \in {"append_text", "replace_text", "create_file"}
  <1>1. p \in Seq(Packet) /\ p # <<>>
    BY WorkflowAssumption, Zenon
  <1>2. Len(p) \in Nat /\ Len(p) # 0 /\ DOMAIN p = 1 .. Len(p)
    BY <1>1, LenProperties, EmptySeq
  <1>3. \A i \in 1 .. Len(p) : p[i] \in Packet
    BY <1>1, ElementOfSeq
  <1>4. \A packet \in Packet :
           /\ packet.id \in Ids
           /\ packet.path \in Files
           /\ packet.text \in Texts
           /\ packet.kind \in {"append_text", "replace_text", "create_file"}
    BY DEF Packet
  <1> QED
    BY <1>1, <1>2, <1>3, <1>4

\* An operation that does not raise returns a content: implementation/workflow.py,
\* apply_operation_to_content.
LEMMA AppliedContent ==
    ASSUME NEW packet \in Packet, NEW content \in Content \cup {Absent},
           Applicable(packet, content)
    PROVE  Applied(packet, content) \in Content
  <1>1. /\ packet.text \in Texts
        /\ packet.kind \in {"append_text", "replace_text", "create_file"}
    BY DEF Packet
  <1>2. CASE packet.kind = "append_text"
    <2>1. content \in Seq(Texts)
      BY <1>2 DEF Applicable, Content
    <2>2. Applied(packet, content) = Append(content, packet.text)
      BY <1>2 DEF Applied
    <2> QED
      BY <2>1, <2>2, <1>1, AppendProperties DEF Content
  <1>3. CASE packet.kind = "replace_text"
    <2>1. content \in Seq(Texts)
      BY <1>3 DEF Applicable, Content
    <2>2. Applied(packet, content) = ReplaceAll(content, packet.old, packet.text)
      BY <1>3 DEF Applied
    <2>3. \A i \in 1 .. Len(content) : content[i] \in Texts
      BY <2>1, ElementOfSeq
    <2>4. Len(content) \in Nat
      BY <2>1, LenProperties
    <2> DEFINE e(i) == IF content[i] = packet.old THEN packet.text ELSE content[i]
    <2>5. \A i \in 1 .. Len(content) : e(i) \in Texts
      BY <2>3, <1>1
    <2>6. [i \in 1 .. Len(content) |-> e(i)] \in Seq(Texts)
      <3> HIDE DEF e
      <3> QED BY <2>4, <2>5, IsASeq
    <2> QED
      BY <2>2, <2>6 DEF ReplaceAll, Content
  <1>4. CASE packet.kind = "create_file"
    <2>1. Applied(packet, content) = <<packet.text>>
      BY <1>4 DEF Applied
    <2> QED
      BY <2>1, <1>1 DEF Content
  <1> QED
    BY <1>1, <1>2, <1>3, <1>4

\* The fields of a state that can be read.
LEMMA StateFields ==
    ASSUME TypeOK, Readable
    PROVE  /\ disk \in State
           /\ disk.status \in RESUMABLE_STATUSES \cup {"completed"}
           /\ disk.queue_index \in Nat
           /\ disk.completed \in Seq(Ids)
           /\ disk.verification_completed \in BOOLEAN
           /\ disk.decision \in Decisions
  <1>1. disk \in State
    BY DEF TypeOK, Readable
  <1> QED
    BY <1>1 DEF State

\* A packet that is not skipped is the one after those completed.
LEMMA NotSkipped ==
    ASSUME StateInv, AtPacket, ~ Skipped
    PROVE  /\ Readable
           /\ cursor = disk.queue_index + 1
           /\ cursor \in 1 .. Len(plan)
           /\ ~ disk.verification_completed
  <1>1. /\ cursor \in 1 .. Len(plan)
        /\ Len(plan) \in Nat
    BY PlanPackets, SMT DEF StateInv, TypeOK, AtPacket
  <1>2. Readable /\ disk.queue_index \in Nat
    BY StateFields DEF StateInv, Placed, AtPacket
  <1>3. cursor = disk.queue_index + 1
    BY <1>1, <1>2, SMT DEF StateInv, Placed, AtPacket, Skipped
  <1>4. ~ disk.verification_completed
    BY <1>1, <1>2, <1>3, SMT DEF StateInv, Decided
  <1> QED
    BY <1>1, <1>2, <1>3, <1>4

\* With distinct ids, a packet that is skipped is one of those completed.
LEMMA SkippedIsCompleted ==
    ASSUME DistinctIds, StateInv, AtPacket, Skipped
    PROVE  cursor <= disk.queue_index
  <1>1. CASE cursor <= disk.queue_index
    BY <1>1
  <1>2. CASE plan[cursor].id \in completed_ids
    <2>1. /\ Readable
          /\ plan[cursor].id \in Range(disk.completed)
          /\ disk.completed = [i \in 1 .. disk.queue_index |-> plan[i].id]
          /\ disk.queue_index \in Nat
          /\ disk.queue_index <= Len(plan)
      BY <1>2, StateFields DEF StateInv, Placed, Recorded, AtPacket
    <2>2. PICK i \in 1 .. disk.queue_index : plan[cursor].id = plan[i].id
      BY <2>1, Zenon DEF Range
    <2>3. /\ plan \in Plans
          /\ cursor \in 1 .. Len(plan)
          /\ DOMAIN plan = 1 .. Len(plan)
          /\ Len(plan) \in Nat
      BY PlanPackets, SMT DEF StateInv, TypeOK, AtPacket
    <2>4. i \in 1 .. Len(plan)
      BY <2>1, <2>3, SMT
    <2>5. cursor = i
      BY <2>2, <2>3, <2>4, Zenon DEF DistinctIds
    <2> QED
      BY <2>1, <2>5, SMT
  <1> QED
    BY <1>1, <1>2 DEF Skipped

-----------------------------------------------------------------------------
(***************************************************************************)
(* The state file and the invocation.                                      *)
(***************************************************************************)
LEMMA InitStateInv == Init => StateInv
  <1> SUFFICES ASSUME Init PROVE StateInv
    OBVIOUS
  <1>1. TypeOK
    <2>1. 1 \in 1 .. Len(plan) + 1
      BY PlanPackets, SMT DEF Init
    <2>2. drafts \in [Ids \X Files -> Content \cup {Absent}]
      BY DEF Init
    <2>3. 0 \in 0 .. MaxCrashes
      BY WorkflowAssumption, SMT
    <2> QED
      BY <2>1, <2>2, <2>3, WorkflowAssumption DEF Init, TypeOK
  <1>2. ~ Readable
    BY DEF Init, Readable
  <1> QED
    BY <1>1, <1>2 DEF StateInv, Recorded, Decided, Placed, Init

\* The loop starts from any state that says what has been completed: workflow.py,
\* run_implementation_workflow.
LEMMA BeginLoopKeeps ==
    ASSUME StateInv, NEW state \in State, BeginLoop(state),
           state.queue_index <= Len(plan),
           state.completed = [i \in 1 .. state.queue_index |-> plan[i].id],
           state.verification_completed =>
              /\ state.queue_index = Len(plan)
              /\ state.decision \in {"passed", "failed", "not_run"}
              /\ state.status = IF state.decision = "failed" THEN "failed" ELSE "completed",
           state.status = "completed" => state.verification_completed
    PROVE  StateInv'
  <1>1. /\ state.completed \in Seq(Ids)
        /\ state.queue_index \in Nat
    BY DEF State
  <1>2. Range(state.completed) \subseteq Ids
    BY <1>1, RangeOfSeq
  <1>3. /\ plan' = plan
        /\ disk' = state
        /\ at' = "packets"
        /\ cursor' = 1
        /\ completed_ids' = Range(state.completed)
    BY DEF BeginLoop, given
  <1>4. TypeOK'
    <2>1. cursor' \in 1 .. Len(plan) + 1
      BY <1>3, PlanPackets, SMT DEF StateInv, TypeOK
    <2> QED
      BY <1>2, <1>3, <2>1 DEF StateInv, TypeOK, BeginLoop, given
  <1>5. Recorded'
    BY <1>3 DEF Recorded
  <1>6. Decided'
    BY <1>3 DEF Decided
  <1>7. Readable'
    BY <1>3, StateAssumption DEF Readable
  <1>8. Placed'
    BY <1>1, <1>3, <1>7, SMT DEF Placed
  <1> QED
    BY <1>4, <1>5, <1>6, <1>8 DEF StateInv

LEMMA StartKeeps ==
    ASSUME StateInv, Start
    PROVE  StateInv'
  <1> DEFINE initial == [status |-> "running", queue_index |-> 0, completed |-> <<>>,
                         verification_completed |-> FALSE, decision |-> "none"]
  <1>1. initial \in State
    BY DEF State, RESUMABLE_STATUSES, Decisions
  <1>2. BeginLoop(initial)
    BY DEF Start
  <1>3. initial.completed = [i \in 1 .. initial.queue_index |-> plan[i].id]
    BY SMT
  <1>4. initial.queue_index <= Len(plan)
    BY PlanPackets, SMT DEF StateInv, TypeOK
  <1>5. initial.verification_completed = FALSE /\ initial.status = "running"
    OBVIOUS
  <1> QED
    <2> HIDE DEF initial
    <2> QED BY <1>1, <1>2, <1>3, <1>4, <1>5, BeginLoopKeeps

LEMMA ResumeKeeps ==
    ASSUME StateInv, Resume
    PROVE  StateInv'
  <1>1. Readable /\ BeginLoop(disk)
    BY DEF Resume, Readable
  <1>2. disk \in State
    BY <1>1, StateFields DEF StateInv
  <1> QED
    BY <1>1, <1>2, BeginLoopKeeps DEF StateInv, Recorded, Decided

\* A step that leaves the state file alone.
LEMMA SameDisk ==
    ASSUME StateInv, UNCHANGED <<plan, disk>>
    PROVE  /\ Readable' = Readable
           /\ Recorded'
           /\ Decided'
  BY DEF StateInv, Recorded, Decided, Readable

LEMMA SkipPacketKeeps ==
    ASSUME DistinctIds, StateInv, SkipPacket
    PROVE  StateInv'
  <1>1. cursor <= disk.queue_index /\ Readable
    BY SkippedIsCompleted DEF SkipPacket, StateInv, Placed, AtPacket
  <1>2. /\ cursor' = cursor + 1
        /\ at' = "packets" /\ at = "packets"
        /\ cursor \in 1 .. Len(plan)
        /\ UNCHANGED <<plan, disk, completed_ids>>
        /\ disk.queue_index \in Nat
    BY <1>1, StateFields, PlanPackets, SMT DEF SkipPacket, AtPacket, given, StateInv, TypeOK
  <1>3. TypeOK'
    <2>1. cursor' \in 1 .. Len(plan) + 1
      BY <1>2, PlanPackets, SMT DEF StateInv, TypeOK
    <2> QED
      BY <1>2, <2>1 DEF StateInv, TypeOK, SkipPacket, given
  <1>4. Readable' /\ Recorded' /\ Decided'
    BY <1>1, <1>2, SameDisk
  <1>5. Placed'
    BY <1>1, <1>2, <1>4, SMT DEF StateInv, Placed
  <1> QED
    BY <1>3, <1>4, <1>5 DEF StateInv

\* The edit of a packet keeps the contents of the files and drafts contents.
LEMMA ProcessPacketTypes ==
    ASSUME StateInv, ProcessPacket
    PROVE  /\ target' \in [Files -> Content \cup {Absent}]
           /\ drafts' \in [Ids \X Files -> Content \cup {Absent}]
  <1> DEFINE packet == plan[cursor]
             after == Applied(packet, target[packet.path])
  <1>1. /\ packet \in Packet
        /\ packet.id \in Ids
        /\ packet.path \in Files
    BY NotSkipped, PlanPackets DEF ProcessPacket, StateInv, TypeOK
  <1>2. target[packet.path] \in Content \cup {Absent}
    BY <1>1 DEF StateInv, TypeOK
  <1>3. after \in Content
    <2>1. Applicable(packet, target[packet.path])
      BY DEF ProcessPacket, Refused
    <2> QED
      BY <1>1, <1>2, <2>1, AppliedContent
  <1>4. IF mode = "draft"
        THEN /\ drafts' = [drafts EXCEPT ![<<packet.id, packet.path>>] = after]
             /\ target' = target
        ELSE /\ target' = [target EXCEPT ![packet.path] = after]
             /\ drafts' = drafts
    BY DEF ProcessPacket
  <1> HIDE DEF packet, after
  <1> QED
    BY <1>1, <1>3, <1>4 DEF StateInv, TypeOK

LEMMA ProcessPacketKeeps ==
    ASSUME StateInv, ProcessPacket
    PROVE  StateInv'
  <1>1. /\ UNCHANGED <<plan, disk, cursor, completed_ids>>
        /\ at = "packets" /\ at' = "record"
    BY DEF ProcessPacket, AtPacket, given
  <1>2. /\ Readable
        /\ cursor = disk.queue_index + 1
        /\ cursor \in 1 .. Len(plan)
        /\ ~ disk.verification_completed
    BY NotSkipped DEF ProcessPacket
  <1>3. TypeOK'
    BY <1>1, ProcessPacketTypes DEF StateInv, TypeOK, ProcessPacket, given
  <1>4. Readable' /\ Recorded' /\ Decided'
    BY <1>1, <1>2, SameDisk
  <1>5. Placed'
    BY <1>1, <1>2, <1>4, SMT DEF StateInv, Placed
  <1> QED
    BY <1>3, <1>4, <1>5 DEF StateInv

\* The record of a packet extends the list of those completed by its id.
LEMMA RecordPacketKeeps ==
    ASSUME StateInv, RecordPacket
    PROVE  StateInv'
  <1> DEFINE recorded == Append(disk.completed, plan[cursor].id)
  <1>1. /\ at = "record" /\ at' = "limit"
        /\ UNCHANGED <<plan, cursor, completed_ids>>
        /\ disk' = [disk EXCEPT !.completed = recorded, !.queue_index = cursor]
    BY DEF RecordPacket, given
  <1>2. /\ Readable
        /\ cursor = disk.queue_index + 1
        /\ cursor \in 1 .. Len(plan)
        /\ Len(plan) \in Nat
        /\ ~ disk.verification_completed
        /\ completed_ids \subseteq Range(disk.completed)
        /\ plan[cursor].id \in Ids
    BY <1>1, PlanPackets, SMT DEF StateInv, TypeOK, Placed
  <1>3. /\ disk \in State
        /\ disk.completed \in Seq(Ids)
        /\ disk.queue_index \in Nat
        /\ disk.completed = [i \in 1 .. disk.queue_index |-> plan[i].id]
    BY <1>2, StateFields DEF StateInv, Recorded
  <1>4. /\ recorded \in Seq(Ids)
        /\ Len(recorded) = Len(disk.completed) + 1
        /\ \A i \in 1 .. Len(disk.completed) : recorded[i] = disk.completed[i]
        /\ recorded[Len(disk.completed) + 1] = plan[cursor].id
    BY <1>2, <1>3, AppendProperties
  <1>5. Len(disk.completed) = disk.queue_index
    BY <1>3, LenProperties, SMT
  <1>6. recorded = [i \in 1 .. cursor |-> plan[i].id]
    <2>1. \A i \in 1 .. cursor : recorded[i] = plan[i].id
      BY <1>2, <1>3, <1>4, <1>5, SMT
    <2>2. DOMAIN recorded = 1 .. cursor /\ recorded \in [1 .. Len(recorded) -> Ids]
      BY <1>2, <1>4, <1>5, LenProperties
    <2> HIDE DEF recorded
    <2> QED BY <2>1, <2>2
  <1>7. Range(disk.completed) \subseteq Range(recorded)
    <2>1. DOMAIN disk.completed = 1 .. Len(disk.completed) /\ DOMAIN recorded = 1 .. Len(recorded)
      BY <1>3, <1>4, LenProperties
    <2>2. \A i \in DOMAIN disk.completed : i \in DOMAIN recorded /\ recorded[i] = disk.completed[i]
      BY <1>3, <1>4, <1>5, <2>1, SMT
    <2> HIDE DEF recorded
    <2> QED BY <2>2, Zenon DEF Range
  <1> HIDE DEF recorded
  <1>8. /\ disk' \in State
        /\ disk'.completed = recorded
        /\ disk'.queue_index = cursor
        /\ disk'.status = disk.status
        /\ disk'.decision = disk.decision
        /\ disk'.verification_completed = disk.verification_completed
    <2>1. cursor \in Nat
      BY <1>2, SMT
    <2> QED
      BY <1>1, <1>3, <1>4, <2>1 DEF State
  <1>9. Readable'
    BY <1>8, StateAssumption DEF Readable
  <1>10. TypeOK'
    BY <1>8 DEF StateInv, TypeOK, RecordPacket, given
  <1>11. Recorded'
    BY <1>1, <1>2, <1>6, <1>8, SMT DEF Recorded
  <1>12. Decided'
    BY <1>2, <1>8 DEF StateInv, Decided
  <1>13. Placed'
    BY <1>1, <1>2, <1>7, <1>8, <1>9 DEF Placed
  <1> QED
    BY <1>10, <1>11, <1>12, <1>13 DEF StateInv

\* The state says failed or paused: only before a verification.
LEMMA InterruptedKeeps ==
    ASSUME StateInv, PacketFails \/ Pause
    PROVE  StateInv'
  <1>1. /\ at \in {"packets", "limit"} /\ at' = "report"
        /\ UNCHANGED <<plan, cursor, completed_ids>>
        /\ \/ disk' = [disk EXCEPT !.status = "failed", !.decision = "failed_before_verification"]
           \/ disk' = [disk EXCEPT !.status = "paused"]
    BY DEF PacketFails, Pause, AtPacket, given
  <1>2. /\ Readable
        /\ ~ disk.verification_completed
        /\ completed_ids \subseteq Range(disk.completed)
    <2>1. CASE PacketFails
      BY <2>1, NotSkipped DEF PacketFails, AtPacket, StateInv, Placed
    <2>2. CASE Pause
      BY <2>2 DEF Pause, StateInv, Placed
    <2> QED
      BY <2>1, <2>2
  <1>3. disk \in State
    BY <1>2, StateFields DEF StateInv
  <1>4. /\ disk' \in State
        /\ disk'.completed = disk.completed
        /\ disk'.queue_index = disk.queue_index
        /\ disk'.status \in {"failed", "paused"}
        /\ disk'.verification_completed = disk.verification_completed
    BY <1>1, <1>3 DEF State, RESUMABLE_STATUSES, Decisions
  <1>5. Readable'
    BY <1>4, StateAssumption DEF Readable
  <1>6. TypeOK'
    BY <1>4 DEF StateInv, TypeOK, PacketFails, Pause, given
  <1>7. Recorded' /\ Decided'
    BY <1>1, <1>2, <1>4 DEF StateInv, Recorded, Decided
  <1>8. Placed'
    BY <1>1, <1>2, <1>4, <1>5 DEF Placed
  <1> QED
    BY <1>6, <1>7, <1>8 DEF StateInv

LEMMA NextPacketKeeps ==
    ASSUME StateInv, NextPacket
    PROVE  StateInv'
  <1>1. /\ at = "limit" /\ at' = "packets"
        /\ cursor' = cursor + 1
        /\ UNCHANGED <<plan, disk, completed_ids>>
    BY DEF NextPacket, given
  <1>2. /\ Readable
        /\ cursor = disk.queue_index
        /\ disk.queue_index <= Len(plan)
        /\ disk.queue_index \in Nat
        /\ Len(plan) \in Nat
        /\ completed_ids \subseteq Range(disk.completed)
    BY <1>1, StateFields, PlanPackets DEF StateInv, TypeOK, Placed, Recorded
  <1>3. TypeOK'
    <2>1. cursor' \in 1 .. Len(plan) + 1
      BY <1>1, <1>2, SMT
    <2> QED
      BY <1>1, <2>1 DEF StateInv, TypeOK, NextPacket, given
  <1>4. Readable' /\ Recorded' /\ Decided'
    BY <1>1, <1>2, SameDisk
  <1>5. Placed'
    BY <1>1, <1>2, <1>4, SMT DEF Placed
  <1> QED
    BY <1>3, <1>4, <1>5 DEF StateInv

\* All packets are completed when the loop is over.
LEMMA LoopOver ==
    ASSUME StateInv, AllDone
    PROVE  /\ Readable
           /\ disk.queue_index = Len(plan)
  <1>1. Readable /\ disk.queue_index \in Nat /\ Len(plan) \in Nat
    BY StateFields, PlanPackets DEF StateInv, TypeOK, Placed, AllDone
  <1> QED
    BY <1>1, SMT DEF StateInv, TypeOK, Placed, AllDone, Recorded

LEMMA VerifyKeeps ==
    ASSUME StateInv, NEW decision \in Decisions, Verify(decision)
    PROVE  StateInv'
  <1>1. /\ at' = "report"
        /\ UNCHANGED <<plan, cursor, completed_ids>>
        /\ decision \in {"passed", "failed", "not_run"}
        /\ disk' = [disk EXCEPT
                      !.status = IF decision = "failed" THEN "failed" ELSE "completed",
                      !.verification_completed = TRUE,
                      !.decision = decision]
    BY DEF Verify, given
  <1>2. Readable /\ disk.queue_index = Len(plan) /\ disk \in State
    BY LoopOver, StateFields DEF Verify, StateInv
  <1>3. /\ disk' \in State
        /\ disk'.completed = disk.completed
        /\ disk'.queue_index = disk.queue_index
        /\ disk'.status = IF decision = "failed" THEN "failed" ELSE "completed"
        /\ disk'.verification_completed = TRUE
        /\ disk'.decision = decision
    BY <1>1, <1>2 DEF State, RESUMABLE_STATUSES, Decisions
  <1>4. Readable'
    BY <1>3, StateAssumption DEF Readable
  <1>5. TypeOK'
    BY <1>3 DEF StateInv, TypeOK, Verify, given
  <1>6. Recorded' /\ Decided'
    BY <1>1, <1>2, <1>3 DEF StateInv, Recorded, Decided
  <1>7. Placed'
    BY <1>1, <1>3, <1>4 DEF Placed, StateInv, Verify, AllDone
  <1> QED
    BY <1>5, <1>6, <1>7 DEF StateInv

LEMMA ReturnKeeps ==
    ASSUME StateInv, AlreadyVerified \/ WriteReport
    PROVE  StateInv'
  <1>1. /\ at # "down" /\ at' \in {"report", "down"}
        /\ UNCHANGED <<plan, disk, completed_ids>>
    BY DEF AlreadyVerified, WriteReport, AllDone, given
  <1>2. TypeOK'
    BY DEF AlreadyVerified, WriteReport, AllDone, given, StateInv, TypeOK
  <1>3. Readable' = Readable /\ Recorded' /\ Decided'
    BY <1>1, SameDisk
  <1>4. Placed'
    BY <1>1, <1>3 DEF StateInv, Placed
  <1> QED
    BY <1>2, <1>3, <1>4 DEF StateInv

LEMMA CrashKeeps ==
    ASSUME StateInv, Crash
    PROVE  StateInv'
  <1>1. /\ at' = "down"
        /\ plan' = plan
        /\ disk' \in {disk, Torn}
    BY DEF Crash, given
  <1>2. TypeOK'
    <2>1. crashes' \in 0 .. MaxCrashes
      BY WorkflowAssumption, SMT DEF Crash, StateInv, TypeOK
    <2> QED
      BY <1>1, <2>1 DEF Crash, given, StateInv, TypeOK
  <1>3. Recorded' /\ Decided'
    BY <1>1 DEF StateInv, Recorded, Decided, Readable
  <1>4. Placed'
    BY <1>1 DEF Placed
  <1> QED
    BY <1>2, <1>3, <1>4 DEF StateInv

LEMMA StepStateInv ==
    ASSUME DistinctIds, StateInv, [Next]_vars
    PROVE  StateInv'
  <1>1. CASE Start BY <1>1, StartKeeps
  <1>2. CASE Resume BY <1>2, ResumeKeeps
  <1>3. CASE SkipPacket BY <1>3, SkipPacketKeeps
  <1>4. CASE ProcessPacket BY <1>4, ProcessPacketKeeps
  <1>5. CASE RecordPacket BY <1>5, RecordPacketKeeps
  <1>6. CASE PacketFails \/ Pause BY <1>6, InterruptedKeeps
  <1>7. CASE NextPacket BY <1>7, NextPacketKeeps
  <1>8. CASE \E decision \in Decisions : Verify(decision) BY <1>8, VerifyKeeps
  <1>9. CASE AlreadyVerified \/ WriteReport BY <1>9, ReturnKeeps
  <1>10. CASE Crash BY <1>10, CrashKeeps
  <1>11. CASE UNCHANGED vars
    BY <1>11 DEF vars, given, StateInv, TypeOK, Recorded, Decided, Placed, Readable
  <1> QED
    BY <1>1, <1>2, <1>3, <1>4, <1>5, <1>6, <1>7, <1>8, <1>9, <1>10, <1>11 DEF Next, Step

\* Whatever happens to a run, what its state files record agrees with the packets
\* it was given, with what it has decided and with the target's contents:
\* workflow.py, write_progress and process_packet_apply.
THEOREM StateInvariant ==
    ASSUME DistinctIds
    PROVE  Spec => []StateInv
  <1>1. Init => StateInv
    BY InitStateInv
  <1>2. StateInv /\ [Next]_vars => StateInv'
    BY StepStateInv
  <1> QED
    BY <1>1, <1>2, PTL DEF Spec

\* Every variable has its type, and the loop's position is within the plan.
THEOREM TypeCorrect ==
    ASSUME DistinctIds
    PROVE  Spec => []TypeOK
  <1>1. StateInv => TypeOK
    BY DEF StateInv
  <1> QED
    BY <1>1, StateInvariant, PTL

-----------------------------------------------------------------------------
(***************************************************************************)
(* The verification.                                                       *)
(***************************************************************************)
LEMMA CompletedIsVerified ==
    ASSUME StateInv
    PROVE  CompletedMeansVerified
  <1> SUFFICES ASSUME Readable, disk.status = "completed"
               PROVE  /\ disk.verification_completed
                      /\ disk.decision \in {"passed", "not_run"}
                      /\ disk.completed = PacketIds
    BY DEF CompletedMeansVerified
  <1>1. /\ disk.verification_completed
        /\ disk.queue_index = Len(plan)
        /\ disk.decision \in {"passed", "not_run"}
    BY DEF StateInv, Decided
  <1>2. DOMAIN plan = 1 .. Len(plan)
    BY PlanPackets DEF StateInv, TypeOK
  <1>3. disk.completed = PacketIds
    BY <1>1, <1>2 DEF StateInv, Recorded, PacketIds
  <1> QED
    BY <1>1, <1>3

LEMMA StepPreservesVerification ==
    ASSUME StateInv, [Next]_vars, Readable, disk.verification_completed, Readable'
    PROVE  disk'.decision = disk.decision /\ disk'.status = disk.status
  <1>1. CASE Start
    BY <1>1 DEF Start, Readable
  <1>2. CASE Resume
    BY <1>2 DEF Resume, BeginLoop
  <1>3. CASE RecordPacket \/ Pause
    BY <1>3 DEF RecordPacket, Pause, StateInv, Placed
  <1>4. CASE PacketFails
    BY <1>4, NotSkipped DEF PacketFails
  <1>5. CASE \E decision \in Decisions : Verify(decision)
    BY <1>5 DEF Verify
  <1>6. CASE Crash
    BY <1>6 DEF Crash, Readable
  <1>7. CASE UNCHANGED disk
    BY <1>7
  <1> QED
    BY <1>1, <1>2, <1>3, <1>4, <1>5, <1>6, <1>7
       DEF Next, Step, SkipPacket, ProcessPacket, NextPacket, AlreadyVerified, WriteReport, vars

\* The state says completed only with a verification that did not fail and every
\* packet before it, and no step changes the result of a verification: workflow.py,
\* run_implementation_workflow.
THEOREM VerificationStays ==
    ASSUME DistinctIds
    PROVE  Spec => VerificationPreserved
  <1>1. StateInv => CompletedMeansVerified
    BY CompletedIsVerified
  <1>2. StateInv /\ [Next]_vars =>
            (Readable /\ disk.verification_completed /\ Readable' =>
                disk'.decision = disk.decision /\ disk'.status = disk.status)
    BY StepPreservesVerification
  <1> QED
    BY <1>1, <1>2, StateInvariant, PTL DEF Spec, VerificationPreserved

-----------------------------------------------------------------------------
(***************************************************************************)
(* The ledger.                                                             *)
(***************************************************************************)
\* A step that leaves the durable part of the state file alone is a stutter.
LEMMA DurableStutter ==
    ASSUME UNCHANGED plan, Readable, Readable',
           disk'.completed = disk.completed,
           disk'.verification_completed = disk.verification_completed
    PROVE  UNCHANGED Ledger!vars
  BY DEF Ledger!vars, PacketIds, Readable

LEMMA DiskStutter ==
    ASSUME UNCHANGED <<plan, disk>>
    PROVE  UNCHANGED Ledger!vars
  BY DEF Ledger!vars, PacketIds, Readable

LEMMA PacketIdsProperties ==
    ASSUME StateInv
    PROVE  /\ PacketIds \in Seq(Ids)
           /\ Len(PacketIds) = Len(plan)
           /\ Len(plan) \in Nat \ {0}
           /\ \A i \in 1 .. Len(plan) : PacketIds[i] = plan[i].id
  <1>1. /\ Len(plan) \in Nat \ {0}
        /\ DOMAIN plan = 1 .. Len(plan)
        /\ \A i \in 1 .. Len(plan) : plan[i].id \in Ids
    BY PlanPackets DEF StateInv, TypeOK
  <1>2. PacketIds = [i \in 1 .. Len(plan) |-> plan[i].id]
    BY <1>1 DEF PacketIds
  <1> DEFINE e(i) == plan[i].id
  <1>3. [i \in 1 .. Len(plan) |-> e(i)] \in Seq(Ids)
    <2>1. \A i \in 1 .. Len(plan) : e(i) \in Ids
      BY <1>1
    <2> HIDE DEF e
    <2> QED BY <1>1, <2>1, IsASeq
  <1>4. Len(PacketIds) = Len(plan)
    BY <1>1, <1>2, SMT
  <1> QED
    BY <1>1, <1>2, <1>3, <1>4

LEMMA StartOpens ==
    ASSUME StateInv, Start
    PROVE  Ledger!Open
  <1>1. /\ disk = NoState
        /\ plan' = plan
        /\ disk' = [status |-> "running", queue_index |-> 0, completed |-> <<>>,
                    verification_completed |-> FALSE, decision |-> "none"]
    BY DEF Start, BeginLoop, given
  <1>2. /\ disk' \in State
        /\ disk'.completed = <<>>
        /\ disk'.verification_completed = FALSE
    BY <1>1 DEF State, RESUMABLE_STATUSES, Decisions
  <1>3. disk' # NoState /\ disk' # Torn /\ Readable'
    BY <1>2, StateAssumption DEF Readable
  <1>4. PacketIds' = PacketIds /\ PacketIds # <<>>
    BY <1>1, PacketIdsProperties, EmptySeq DEF PacketIds
  <1>5. ~ Readable
    BY <1>1 DEF Readable
  <1> QED
    BY <1>1, <1>2, <1>3, <1>4, <1>5 DEF Ledger!Open

LEMMA RecordPacketRecords ==
    ASSUME StateInv, RecordPacket
    PROVE  Ledger!RecordNext
  <1>1. /\ at = "record"
        /\ plan' = plan
        /\ disk' = [disk EXCEPT !.completed = Append(disk.completed, plan[cursor].id),
                                !.queue_index = cursor]
    BY DEF RecordPacket, given
  <1>2. /\ Readable
        /\ cursor = disk.queue_index + 1
        /\ cursor \in 1 .. Len(plan)
        /\ ~ disk.verification_completed
        /\ disk.completed = [i \in 1 .. disk.queue_index |-> plan[i].id]
    BY <1>1, SMT DEF StateInv, TypeOK, Placed, Recorded
  <1>3. disk \in State /\ disk.queue_index \in Nat
    BY <1>2, StateFields DEF StateInv
  <1>4. /\ disk'.completed = Append(disk.completed, plan[cursor].id)
        /\ disk'.verification_completed = disk.verification_completed
    BY <1>1, <1>3 DEF State
  <1>5. Readable'
    <2>1. StateInv'
      BY RecordPacketKeeps
    <2> QED
      BY <2>1 DEF StateInv, Placed, RecordPacket
  <1>6. Len(disk.completed) = disk.queue_index
    BY <1>2, <1>3, SMT
  <1>7. PacketIds' = PacketIds
    BY <1>1 DEF PacketIds
  <1>8. Ledger!IsPrefix(PacketIds, PacketIds)
    BY PacketIdsProperties, SMT DEF Ledger!IsPrefix
  <1>9. /\ Len(disk.completed) < Len(PacketIds)
        /\ PacketIds[Len(disk.completed) + 1] = plan[cursor].id
    BY <1>2, <1>3, <1>6, PacketIdsProperties, SMT
  <1>10. disk # NoState /\ disk # Torn /\ disk' # NoState /\ disk' # Torn
    BY <1>2, <1>5 DEF Readable
  <1> QED
    BY <1>2, <1>4, <1>5, <1>7, <1>8, <1>9, <1>10 DEF Ledger!RecordNext

LEMMA VerifyCompletes ==
    ASSUME StateInv, NEW decision \in Decisions, Verify(decision)
    PROVE  Ledger!Complete
  <1>1. /\ plan' = plan
        /\ ~ disk.verification_completed
        /\ disk' = [disk EXCEPT
                      !.status = IF decision = "failed" THEN "failed" ELSE "completed",
                      !.verification_completed = TRUE,
                      !.decision = decision]
    BY DEF Verify, given
  <1>2. /\ Readable
        /\ disk.queue_index = Len(plan)
        /\ disk \in State
    BY LoopOver, StateFields DEF Verify, StateInv
  <1>3. /\ disk'.completed = disk.completed
        /\ disk'.verification_completed = TRUE
    BY <1>1, <1>2 DEF State
  <1>4. Readable'
    <2>1. StateInv'
      BY VerifyKeeps
    <2> QED
      BY <2>1 DEF StateInv, Placed, Verify
  <1>5. PacketIds' = PacketIds
    BY <1>1 DEF PacketIds
  <1>6. disk.completed = PacketIds
    <2>1. DOMAIN plan = 1 .. Len(plan)
      BY PlanPackets DEF StateInv, TypeOK
    <2> QED
      BY <1>2, <2>1 DEF StateInv, Recorded, PacketIds
  <1>7. disk # NoState /\ disk # Torn /\ disk' # NoState /\ disk' # Torn
    BY <1>2, <1>4 DEF Readable
  <1> QED
    BY <1>1, <1>2, <1>3, <1>4, <1>5, <1>6, <1>7 DEF Ledger!Complete

LEMMA CrashLosesOrStutters ==
    ASSUME StateInv, Crash
    PROVE  Ledger!Lose \/ UNCHANGED Ledger!vars
  <1>1. /\ plan' = plan
        /\ at # "down"
        /\ disk' \in {disk, Torn}
    BY DEF Crash, given
  <1>2. Readable /\ disk # NoState /\ disk # Torn
    BY <1>1 DEF StateInv, Placed, Readable
  <1>3. CASE disk' = disk
    BY <1>1, <1>3, DiskStutter
  <1>4. CASE disk' = Torn
    <2>1. ~ Readable' /\ disk' # NoState
      BY <1>4, StateAssumption DEF Readable
    <2>2. disk.verification_completed \in BOOLEAN
      BY <1>2, StateFields DEF StateInv
    <2> QED
      BY <1>2, <1>4, <2>1, <2>2 DEF Ledger!Lose
  <1> QED
    BY <1>1, <1>3, <1>4

LEMMA StepRefines ==
    ASSUME StateInv, [Next]_vars
    PROVE  [Ledger!Next]_(Ledger!vars)
  <1>1. CASE Start
    BY <1>1, StartOpens DEF Ledger!Next
  <1>2. CASE RecordPacket
    BY <1>2, RecordPacketRecords DEF Ledger!Next
  <1>3. CASE \E decision \in Decisions : Verify(decision)
    BY <1>3, VerifyCompletes DEF Ledger!Next
  <1>4. CASE Crash
    BY <1>4, CrashLosesOrStutters DEF Ledger!Next
  <1>5. CASE PacketFails \/ Pause
    <2>1. /\ plan' = plan
          /\ Readable
          /\ at' # "down"
          /\ \/ disk' = [disk EXCEPT !.status = "failed", !.decision = "failed_before_verification"]
             \/ disk' = [disk EXCEPT !.status = "paused"]
      BY <1>5 DEF PacketFails, Pause, AtPacket, given, StateInv, Placed
    <2>2. disk \in State
      BY <2>1, StateFields DEF StateInv
    <2>3. /\ disk'.completed = disk.completed
          /\ disk'.verification_completed = disk.verification_completed
      BY <2>1, <2>2 DEF State
    <2>4. Readable'
      <3>1. StateInv'
        BY <1>5, InterruptedKeeps
      <3> QED
        BY <2>1, <3>1 DEF StateInv, Placed
    <2> QED
      BY <2>1, <2>3, <2>4, DurableStutter
  <1>6. CASE UNCHANGED <<plan, disk>>
    BY <1>6, DiskStutter
  <1>7. Resume \/ SkipPacket \/ ProcessPacket \/ NextPacket \/ AlreadyVerified \/ WriteReport
            \/ UNCHANGED vars
        => UNCHANGED <<plan, disk>>
    BY DEF Resume, BeginLoop, SkipPacket, ProcessPacket, NextPacket, AlreadyVerified,
       WriteReport, vars, given
  <1> QED
    BY <1>1, <1>2, <1>3, <1>4, <1>5, <1>6, <1>7 DEF Next, Step

\* The state file is a ledger of the plan's packets: recorded in order, each once,
\* complete with the verification that follows the last, and never changed after
\* that: workflow.py, run_implementation_workflow.
THEOREM Refinement ==
    ASSUME DistinctIds
    PROVE  Spec => ImplementsLedger
  <1>1. Init => Ledger!Init
    BY DEF Init, Ledger!Init, Readable
  <1>2. StateInv /\ [Next]_vars => [Ledger!Next]_(Ledger!vars)
    BY StepRefines
  <1> QED
    BY <1>1, <1>2, StateInvariant, PTL DEF Spec, ImplementsLedger, Ledger!Spec

-----------------------------------------------------------------------------
(***************************************************************************)
(* Replaying a history.  Replay is a recursive function: that it satisfies *)
(* its recursion, and what it is for a history with one more edit, is      *)
(* shown by taking the least number for which it would not hold.           *)
(***************************************************************************)
\* A set of natural numbers has a least element.
LEMMA Least ==
    ASSUME NEW T, T \subseteq Nat, T # {}
    PROVE  \E x \in T : \A y \in T : x <= y
  <1> DEFINE less == OpToRel(<, Nat)
  <1>1. IsWellFoundedOn(less, Nat)
    BY NatLessThanWellFounded, Zenon
  <1>2. \A x, y \in Nat : y < x => <<y, x>> \in less
    <2>1. \A x, y \in Nat :
             <<y, x>> \in Nat \X Nat /\ <<y, x>>[1] = y /\ <<y, x>>[2] = x
      OBVIOUS
    <2> QED
      BY <2>1, Zenon DEF OpToRel
  <1> HIDE DEF less
  <1>3. PICK x \in T : \A y \in T : ~ (<<y, x>> \in less)
    BY <1>1, WFMin, Zenon
  <1>4. \A y \in T : ~ (y < x)
    BY <1>2, <1>3
  <1> QED
    BY <1>4, SMT

LEMMA ReplayExists ==
    ASSUME NEW history, NEW length \in Nat
    PROVE  \E contents : contents =
              [n \in 0 .. length |->
                  IF n = 0 THEN Original ELSE Edited(contents[n - 1], plan[history[n]])]
  <1> DEFINE P(k) == \E contents : contents =
                [n \in 0 .. k |->
                    IF n = 0 THEN Original ELSE Edited(contents[n - 1], plan[history[n]])]
  <1>1. P(0)
    <2> DEFINE c == [n \in 0 .. 0 |-> Original]
    <2>1. c = [n \in 0 .. 0 |->
                  IF n = 0 THEN Original ELSE Edited(c[n - 1], plan[history[n]])]
      BY SMT
    <2> QED
      BY <2>1, Zenon
  <1>2. ASSUME NEW k \in Nat, P(k)
        PROVE  P(k + 1)
    <2>1. PICK c : c = [n \in 0 .. k |->
              IF n = 0 THEN Original ELSE Edited(c[n - 1], plan[history[n]])]
      BY <1>2, Zenon
    <2> DEFINE d == [n \in 0 .. k + 1 |->
                        IF n <= k THEN c[n] ELSE Edited(c[k], plan[history[k + 1]])]
    <2>2. ASSUME NEW n \in 0 .. k + 1
          PROVE  d[n] = IF n = 0 THEN Original ELSE Edited(d[n - 1], plan[history[n]])
      <3>1. CASE n = 0
        <4>1. d[0] = c[0] /\ c[0] = Original
          BY <1>2, <2>1, SMT
        <4> QED
          BY <3>1, <4>1
      <3>2. CASE n \in 1 .. k
        <4>1. d[n] = c[n] /\ d[n - 1] = c[n - 1] /\ n # 0
          BY <1>2, <3>2, SMT
        <4>2. c[n] = Edited(c[n - 1], plan[history[n]])
          <5>1. n \in 0 .. k /\ n # 0
            BY <1>2, <3>2, SMT
          <5> QED
            BY <2>1, <5>1, Zenon
        <4> QED
          BY <4>1, <4>2, Zenon
      <3>3. CASE n = k + 1
        <4>1. /\ d[n] = Edited(c[k], plan[history[k + 1]])
              /\ d[n - 1] = c[k]
              /\ n # 0
          BY <1>2, <3>3, SMT
        <4> QED
          BY <3>3, <4>1, Zenon
      <3> QED
        BY <1>2, <3>1, <3>2, <3>3, SMT
    <2>3. d = [n \in 0 .. k + 1 |->
                  IF n = 0 THEN Original ELSE Edited(d[n - 1], plan[history[n]])]
      <3>1. d = [n \in 0 .. k + 1 |-> d[n]]
        OBVIOUS
      <3> HIDE DEF d
      <3> QED BY <2>2, <3>1, Zenon
    <2> QED
      BY <2>3, Zenon
  <1>3. \A k \in Nat : P(k)
    <2> DEFINE T == {k \in Nat : ~ P(k)}
    <2> SUFFICES ASSUME T # {} PROVE FALSE
      OBVIOUS
    <2>1. PICK k \in T : \A j \in T : k <= j
      BY Least
    <2> HIDE DEF P
    <2>2. k # 0
      BY <1>1
    <2>3. k - 1 \in Nat /\ k - 1 \notin T
      BY <2>1, <2>2, SMT
    <2>4. P((k - 1) + 1)
      BY <1>2, <2>3
    <2>5. (k - 1) + 1 = k
      BY SMT
    <2> QED
      BY <2>4, <2>5
  <1> QED
    BY <1>3, Zenon

LEMMA ReplayDefined ==
    ASSUME NEW history, Len(history) \in Nat
    PROVE  /\ Replay(history)[0] = Original
           /\ \A n \in 1 .. Len(history) :
                 Replay(history)[n] = Edited(Replay(history)[n - 1], plan[history[n]])
  <1> DEFINE c == Replay(history)
  <1>1. c = [n \in 0 .. Len(history) |->
                IF n = 0 THEN Original ELSE Edited(c[n - 1], plan[history[n]])]
    BY ReplayExists, Zenon DEF Replay
  <1> HIDE DEF c
  <1>2. c[0] = Original
    <2>1. 0 \in 0 .. Len(history)
      BY SMT
    <2> QED BY <1>1, <2>1, Zenon
  <1>3. ASSUME NEW n \in 1 .. Len(history)
        PROVE  c[n] = Edited(c[n - 1], plan[history[n]])
    <2>1. n \in 0 .. Len(history) /\ n # 0
      BY <1>3, SMT
    <2> QED BY <1>1, <2>1, Zenon
  <1> QED
    BY <1>2, <1>3 DEF c

\* A longer history begins with the contents of the shorter one.
LEMMA ReplayPrefix ==
    ASSUME NEW short, NEW long, Len(short) \in Nat, Len(long) \in Nat,
           Len(short) <= Len(long),
           \A n \in 1 .. Len(short) : short[n] = long[n]
    PROVE  \A n \in 0 .. Len(short) : Replay(long)[n] = Replay(short)[n]
  <1> DEFINE T == {n \in 0 .. Len(short) : Replay(long)[n] # Replay(short)[n]}
  <1> SUFFICES ASSUME T # {} PROVE FALSE
    OBVIOUS
  <1>1. PICK n \in T : \A m \in T : n <= m
    <2>1. T \subseteq Nat
      BY SMT
    <2> QED BY <2>1, Least
  <1>2. n # 0
    BY ReplayDefined
  <1>3. /\ n \in 1 .. Len(short) /\ n \in 1 .. Len(long)
        /\ n - 1 \in 0 .. Len(short) /\ n - 1 < n
    BY <1>1, <1>2, SMT
  <1>4. Replay(long)[n - 1] = Replay(short)[n - 1]
    <2>1. n - 1 \notin T
      BY <1>1, <1>3, SMT
    <2> QED BY <1>3, <2>1, Zenon
  <1>5. /\ Replay(short)[n] = Edited(Replay(short)[n - 1], plan[short[n]])
        /\ Replay(long)[n] = Edited(Replay(long)[n - 1], plan[long[n]])
    BY <1>3, ReplayDefined, Zenon
  <1>6. Replay(long)[n] = Replay(short)[n]
    BY <1>3, <1>4, <1>5, Zenon
  <1> QED
    BY <1>1, <1>6

\* One more edit is carried out after those of the history.
LEMMA ReplayAppend ==
    ASSUME NEW history \in Seq(Nat), NEW i \in Nat
    PROVE  Replay(Append(history, i))[Len(history) + 1]
              = Edited(Replay(history)[Len(history)], plan[i])
  <1> DEFINE longer == Append(history, i)
  <1>1. /\ Len(history) \in Nat
        /\ Len(longer) = Len(history) + 1
        /\ \A n \in 1 .. Len(history) : longer[n] = history[n]
        /\ longer[Len(history) + 1] = i
    BY AppendProperties, LenProperties
  <1> HIDE DEF longer
  <1>2. Replay(longer)[Len(history)] = Replay(history)[Len(history)]
    <2>1. /\ Len(longer) \in Nat
          /\ Len(history) <= Len(longer)
          /\ Len(history) \in 0 .. Len(history)
          /\ \A n \in 1 .. Len(history) : history[n] = longer[n]
      BY <1>1, SMT
    <2> QED BY <1>1, <2>1, ReplayPrefix
  <1>3. Replay(longer)[Len(history) + 1]
           = Edited(Replay(longer)[(Len(history) + 1) - 1], plan[longer[Len(history) + 1]])
    <2>1. Len(longer) \in Nat /\ Len(history) + 1 \in 1 .. Len(longer)
      BY <1>1, SMT
    <2> QED BY <2>1, ReplayDefined
  <1>4. (Len(history) + 1) - 1 = Len(history)
    BY <1>1, SMT
  <1> QED
    BY <1>1, <1>2, <1>3, <1>4 DEF longer

-----------------------------------------------------------------------------
(***************************************************************************)
(* The target and the drafts.                                              *)
(***************************************************************************)
\* The target is what it was at the beginning while there is no state file.
FileInv ==
    /\ disk = NoState => target = Original
    /\ DraftInv
    /\ EditInv

\* Steps that change neither the files nor how many packets are completed.
QuietStep ==
    \/ Resume
    \/ SkipPacket
    \/ PacketFails
    \/ Pause
    \/ NextPacket
    \/ \E decision \in Decisions : Verify(decision)
    \/ AlreadyVerified
    \/ WriteReport

LEMMA QuietStepKeepsFiles ==
    ASSUME StateInv, QuietStep
    PROVE  /\ UNCHANGED <<plan, mode, target, drafts, crashes>>
           /\ Readable
           /\ disk'.queue_index = disk.queue_index
           /\ at # "record" /\ at' # "record"
  <1>1. CASE PacketFails \/ Pause
    <2>1. Readable
      BY <1>1 DEF PacketFails, Pause, AtPacket, StateInv, Placed
    <2>2. disk \in State
      BY <2>1, StateFields DEF StateInv
    <2> QED
      BY <1>1, <2>1, <2>2 DEF PacketFails, Pause, AtPacket, given, State
  <1>2. CASE \E decision \in Decisions : Verify(decision)
    <2>1. Readable
      BY <1>2 DEF Verify, AllDone, StateInv, Placed
    <2>2. disk \in State
      BY <2>1, StateFields DEF StateInv
    <2> QED
      BY <1>2, <2>1, <2>2 DEF Verify, AllDone, given, State
  <1>3. CASE Resume
    BY <1>3 DEF Resume, BeginLoop, Readable, given
  <1>4. CASE SkipPacket \/ NextPacket
    BY <1>4 DEF SkipPacket, NextPacket, AtPacket, StateInv, Placed, given
  <1>5. CASE AlreadyVerified \/ WriteReport
    BY <1>5 DEF AlreadyVerified, WriteReport, AllDone, StateInv, Placed, given
  <1> QED
    BY <1>1, <1>2, <1>3, <1>4, <1>5 DEF QuietStep

LEMMA QuietStepKeeps ==
    ASSUME StateInv, StateInv', FileInv, QuietStep
    PROVE  FileInv'
  <1>1. /\ UNCHANGED <<plan, mode, target, drafts, crashes>>
        /\ Readable
        /\ disk'.queue_index = disk.queue_index
        /\ at # "record" /\ at' # "record"
    BY QuietStepKeepsFiles
  <1>2. disk' # NoState
    <2>1. CASE disk' = disk
      BY <1>1, <2>1 DEF Readable
    <2>2. CASE at' # "down"
      BY <2>2 DEF StateInv, Placed, Readable
    <2>3. disk' = disk \/ at' # "down"
      BY DEF QuietStep, Resume, BeginLoop, SkipPacket, PacketFails, Pause, NextPacket,
         Verify, AlreadyVerified, WriteReport, AllDone, AtPacket
    <2> QED
      BY <2>1, <2>2, <2>3
  <1>3. DraftInv'
    BY <1>1 DEF FileInv, DraftInv, DraftsFollowState
  <1>4. EditInv'
    <2> SUFFICES ASSUME mode = "apply"
                 PROVE  EditInv'
      BY <1>1 DEF EditInv
    <2>1. PICK history \in Histories :
            /\ Len(history) <= disk.queue_index + crashes + 0
            /\ Range(history) \subseteq 1 .. disk.queue_index + 1
            /\ 1 .. disk.queue_index \subseteq Range(history)
            /\ \A n \in 2 .. Len(history) : history[n - 1] <= history[n]
            /\ target = Replay(history)[Len(history)]
      BY <1>1 DEF FileInv, EditInv
    <2>2. Histories' = Histories /\ Replay(history)' = Replay(history)
      BY <1>1 DEF Histories, Replay, Edited
    <2> QED
      BY <1>1, <2>1, <2>2 DEF EditInv
  <1> QED
    BY <1>2, <1>3, <1>4 DEF FileInv

LEMMA StartKeepsFiles ==
    ASSUME StateInv, FileInv, Start
    PROVE  FileInv'
  <1>1. /\ target = Original
        /\ UNCHANGED <<plan, mode, target, drafts, crashes>>
        /\ at' = "packets"
        /\ disk' = [status |-> "running", queue_index |-> 0, completed |-> <<>>,
                    verification_completed |-> FALSE, decision |-> "none"]
    BY DEF Start, BeginLoop, given, FileInv
  <1>2. disk'.queue_index = 0 /\ 1 .. disk'.queue_index = {}
    BY <1>1, SMT
  <1>3. DraftInv'
    BY <1>1, <1>2 DEF DraftInv, DraftsFollowState
  <1>4. EditInv'
    <2>1. /\ Len(<<>>) = 0
          /\ crashes' \in Nat
          /\ Len(plan') \in Nat
      BY <1>1, PlanPackets, WorkflowAssumption, SMT DEF StateInv, TypeOK
    <2>2. <<>> \in Histories'
      <3>1. <<>> \in [1 .. 0 -> DOMAIN plan'] /\ 0 \in 0 .. Len(plan') + crashes' + 1
        BY <2>1, SMT
      <3> QED BY <3>1, Zenon DEF Histories
    <2>3. Range(<<>>) = {}
      BY DEF Range
    <2>4. Replay(<<>>)'[0] = Original
      <3>1. Replay(<<>>)' = Replay(<<>>)
        BY <1>1 DEF Replay, Edited
      <3> QED BY <3>1, <2>1, ReplayDefined
    <2>5. Len(<<>>) <= disk'.queue_index + crashes' + 0
      <3>1. \A n \in Nat : 0 <= 0 + n + 0
        BY SMT
      <3> QED BY <1>2, <2>1, <3>1, Zenon
    <2>6. \A n \in 2 .. Len(<<>>) : <<>>[n - 1] <= <<>>[n]
      BY <2>1, SMT
    <2> QED
      BY <1>1, <1>2, <2>1, <2>2, <2>3, <2>4, <2>5, <2>6 DEF EditInv
  <1> QED
    BY <1>1, <1>3, <1>4 DEF FileInv

LEMMA CrashKeepsFiles ==
    ASSUME StateInv, FileInv, Crash
    PROVE  FileInv'
  <1>1. /\ UNCHANGED <<plan, mode, target, drafts>>
        /\ at # "down" /\ at' = "down"
        /\ crashes' = crashes + 1
        /\ disk' \in {disk, Torn}
        /\ Readable
    BY DEF Crash, given, StateInv, Placed
  <1>2. disk' # NoState /\ (Readable' => disk' = disk)
    BY <1>1, StateAssumption DEF Readable
  <1>3. DraftInv'
    BY <1>1, <1>2 DEF FileInv, DraftInv, DraftsFollowState
  <1>4. EditInv'
    <2> SUFFICES ASSUME mode = "apply", Readable'
                 PROVE  EditInv'
      BY <1>1 DEF EditInv
    <2>1. PICK history \in Histories :
            /\ Len(history) <= disk.queue_index + crashes + (IF at = "record" THEN 1 ELSE 0)
            /\ Range(history) \subseteq 1 .. disk.queue_index + 1
            /\ 1 .. disk.queue_index \subseteq Range(history)
            /\ \A n \in 2 .. Len(history) : history[n - 1] <= history[n]
            /\ target = Replay(history)[Len(history)]
      BY <1>1 DEF FileInv, EditInv
    <2>2. /\ crashes \in Nat /\ Len(plan) \in Nat /\ disk.queue_index \in Nat
          /\ DOMAIN plan = 1 .. Len(plan)
      BY <1>1, PlanPackets, StateFields, WorkflowAssumption, SMT DEF StateInv, TypeOK
    <2>3. PICK k \in 0 .. Len(plan) + crashes + 1 : history \in [1 .. k -> DOMAIN plan]
      BY <2>1, Zenon DEF Histories
    <2>4. Len(history) = k
      BY <2>2, <2>3, SMT
    <2>5. history \in Histories'
      <3>1. k \in 0 .. Len(plan') + crashes' + 1
        BY <1>1, <2>2, SMT
      <3> QED BY <1>1, <2>3, <3>1, Zenon DEF Histories
    <2>6. Len(history) <= disk'.queue_index + crashes' + 0
      BY <1>1, <1>2, <2>1, <2>2, <2>4, SMT
    <2>7. Replay(history)' = Replay(history)
      BY <1>1 DEF Replay, Edited
    <2> QED
      BY <1>1, <1>2, <2>1, <2>5, <2>6, <2>7 DEF EditInv
  <1> QED
    BY <1>2, <1>3, <1>4 DEF FileInv

LEMMA RecordPacketKeepsFiles ==
    ASSUME StateInv, FileInv, RecordPacket
    PROVE  FileInv'
  <1>1. /\ UNCHANGED <<plan, mode, target, drafts, crashes, cursor>>
        /\ at = "record" /\ at' = "limit"
        /\ disk' = [disk EXCEPT !.completed = Append(@, plan[cursor].id), !.queue_index = cursor]
    BY DEF RecordPacket, given
  <1>2. /\ Readable
        /\ cursor = disk.queue_index + 1
    BY <1>1 DEF StateInv, Placed
  <1>3. /\ disk \in State
        /\ disk.queue_index \in Nat
    BY <1>2, StateFields DEF StateInv
  <1>4. disk'.queue_index = cursor
    BY <1>1, <1>3 DEF State
  <1>5. \A i \in 1 .. cursor : i \in 1 .. disk.queue_index \/ i = cursor
    BY <1>2, <1>3, SMT
  <1>6. disk' # NoState
    BY <1>1, RecordPacketKeeps DEF StateInv, Placed, Readable
  <1>7. DraftInv'
    <2>1. ASSUME mode = "draft", NEW i \in 1 .. cursor
          PROVE  drafts[plan[i].id, plan[i].path] = Applied(plan[i], Original[plan[i].path])
      BY <1>1, <1>2, <1>5, <2>1 DEF FileInv, DraftInv, DraftsFollowState
    <2>2. mode = "draft" => target = Original
      BY DEF FileInv, DraftInv, DraftsFollowState
    <2> QED
      BY <1>1, <1>4, <2>1, <2>2 DEF DraftInv, DraftsFollowState
  <1>8. EditInv'
    <2> SUFFICES ASSUME mode = "apply"
                 PROVE  EditInv'
      BY <1>1 DEF EditInv
    <2>1. PICK history \in Histories :
            /\ Len(history) <= disk.queue_index + crashes + 1
            /\ Range(history) \subseteq 1 .. disk.queue_index + 1
            /\ 1 .. disk.queue_index \subseteq Range(history)
            /\ cursor \in Range(history)
            /\ \A n \in 2 .. Len(history) : history[n - 1] <= history[n]
            /\ target = Replay(history)[Len(history)]
      BY <1>1, <1>2 DEF FileInv, EditInv
    <2>2. crashes \in Nat
      BY WorkflowAssumption, SMT DEF StateInv, TypeOK
    <2>3. Len(history) <= disk'.queue_index + crashes' + 0
      <3>1. disk.queue_index + crashes + 1 = cursor + crashes + 0
        BY <1>2, <1>3, <2>2, SMT
      <3> QED BY <1>1, <1>4, <2>1, <3>1
    <2>4. Range(history) \subseteq 1 .. disk'.queue_index + 1
      BY <1>2, <1>3, <1>4, <2>1, SMT
    <2>5. 1 .. disk'.queue_index \subseteq Range(history)
      BY <1>4, <1>5, <2>1
    <2>6. Histories' = Histories /\ Replay(history)' = Replay(history)
      BY <1>1 DEF Histories, Replay, Edited
    <2> QED
      BY <1>1, <2>1, <2>3, <2>4, <2>5, <2>6 DEF EditInv
  <1> QED
    BY <1>6, <1>7, <1>8 DEF FileInv

\* A draft run writes the draft of the packet and leaves those before it alone.
LEMMA ProcessPacketKeepsDrafts ==
    ASSUME DistinctIds, StateInv, FileInv, ProcessPacket
    PROVE  DraftInv'
  <1> DEFINE packet == plan[cursor]
             after == Applied(packet, target[packet.path])
  <1>1. /\ UNCHANGED <<plan, mode, cursor, disk>>
        /\ Readable' = Readable
        /\ mode = "draft" =>
              /\ drafts' = [drafts EXCEPT ![<<packet.id, packet.path>>] = after]
              /\ target' = target
    BY DEF ProcessPacket, given, Readable
  <1>2. /\ Readable
        /\ cursor = disk.queue_index + 1
        /\ cursor \in 1 .. Len(plan)
        /\ disk.queue_index \in Nat
    BY NotSkipped, StateFields DEF ProcessPacket, StateInv
  <1>3. /\ DOMAIN plan = 1 .. Len(plan)
        /\ Len(plan) \in Nat
        /\ \A i \in 1 .. Len(plan) : plan[i].id \in Ids /\ plan[i].path \in Files
    BY PlanPackets DEF StateInv, TypeOK
  <1>4. drafts \in [Ids \X Files -> Content \cup {Absent}]
    BY DEF StateInv, TypeOK
  <1>5. mode = "draft" =>
           /\ target = Original
           /\ \A i \in 1 .. disk.queue_index :
                 drafts[plan[i].id, plan[i].path] = Applied(plan[i], Original[plan[i].path])
    BY <1>2 DEF FileInv, DraftInv, DraftsFollowState
  <1> SUFFICES ASSUME mode = "draft"
               PROVE  DraftInv'
    BY <1>1 DEF DraftInv, DraftsFollowState
  <1>6. /\ drafts'[<<packet.id, packet.path>>] = Applied(packet, Original[packet.path])
        /\ \A d \in Ids \X Files : d # <<packet.id, packet.path>> => drafts'[d] = drafts[d]
    <2>1. <<packet.id, packet.path>> \in Ids \X Files
      BY <1>2, <1>3
    <2> HIDE DEF packet
    <2> QED BY <1>1, <1>4, <1>5, <2>1
  <1>7. ASSUME NEW i \in 1 .. disk.queue_index
        PROVE  drafts'[plan[i].id, plan[i].path] = Applied(plan[i], Original[plan[i].path])
    <2>1. i \in 1 .. Len(plan) /\ i # cursor
      BY <1>2, <1>3, SMT
    <2>2. plan[i].id # packet.id
      BY <1>2, <1>3, <2>1, Zenon DEF DistinctIds, StateInv, TypeOK
    <2>3. <<plan[i].id, plan[i].path>> \in Ids \X Files
          /\ <<plan[i].id, plan[i].path>> # <<packet.id, packet.path>>
      BY <1>3, <2>1, <2>2
    <2>4. drafts'[plan[i].id, plan[i].path] = drafts[plan[i].id, plan[i].path]
      BY <1>6, <2>3
    <2> QED
      BY <1>5, <2>4
  <1> QED
    BY <1>1, <1>5, <1>6, <1>7 DEF DraftInv, DraftsFollowState

\* An apply run carries out the packet's edit after those already there.
LEMMA ProcessPacketKeepsEdits ==
    ASSUME StateInv, FileInv, ProcessPacket
    PROVE  EditInv'
  <1>1. /\ UNCHANGED <<plan, mode, cursor, disk, crashes>>
        /\ Readable' = Readable
        /\ at = "packets" /\ at' = "record"
        /\ mode # "draft" => target' = Edited(target, plan[cursor])
    BY DEF ProcessPacket, AtPacket, given, Readable, Edited
  <1>2. /\ Readable
        /\ cursor = disk.queue_index + 1
        /\ cursor \in 1 .. Len(plan)
        /\ disk.queue_index \in Nat
    BY NotSkipped, StateFields DEF ProcessPacket, StateInv
  <1>3. /\ DOMAIN plan = 1 .. Len(plan)
        /\ Len(plan) \in Nat
        /\ crashes \in Nat
    BY PlanPackets, WorkflowAssumption, SMT DEF StateInv, TypeOK
  <1> SUFFICES ASSUME mode = "apply"
               PROVE  EditInv'
    BY <1>1 DEF EditInv
  <1>4. PICK history \in Histories :
          /\ Len(history) <= disk.queue_index + crashes + 0
          /\ Range(history) \subseteq 1 .. disk.queue_index + 1
          /\ 1 .. disk.queue_index \subseteq Range(history)
          /\ \A n \in 2 .. Len(history) : history[n - 1] <= history[n]
          /\ target = Replay(history)[Len(history)]
    BY <1>1, <1>2 DEF FileInv, EditInv
  <1> DEFINE longer == Append(history, cursor)
  <1>5. PICK k \in 0 .. Len(plan) + crashes + 1 : history \in [1 .. k -> 1 .. Len(plan)]
    BY <1>3, <1>4, Zenon DEF Histories
  <1>6. /\ Len(history) = k
        /\ k \in Nat
        /\ history \in Seq(1 .. Len(plan))
        /\ DOMAIN history = 1 .. k
    BY <1>3, <1>5, SMT
  <1>7. /\ longer \in Seq(1 .. Len(plan))
        /\ Len(longer) = k + 1
        /\ \A n \in 1 .. k : longer[n] = history[n]
        /\ longer[k + 1] = cursor
    BY <1>2, <1>6, AppendProperties
  <1>8. target' = Replay(longer)[Len(longer)]
    <2>1. history \in Seq(Nat) /\ cursor \in Nat
      BY <1>2, <1>3, <1>6, SeqMonotonic, SMT
    <2>2. Replay(longer)[k + 1] = Edited(Replay(history)[k], plan[cursor])
      BY <1>6, <2>1, ReplayAppend
    <2> HIDE DEF longer
    <2> QED BY <1>1, <1>4, <1>6, <1>7, <2>2
  <1> HIDE DEF longer
  <1>9. DOMAIN longer = 1 .. k + 1
    BY <1>7, LenProperties
  <1>10. k + 1 \in 0 .. Len(plan) + crashes + 1 /\ k <= disk.queue_index + crashes
    BY <1>2, <1>3, <1>4, <1>6, SMT
  <1>11. longer \in Histories
    <2>1. longer \in [1 .. k + 1 -> DOMAIN plan]
      BY <1>3, <1>7, LenProperties
    <2> QED BY <1>10, <2>1, Zenon DEF Histories
  <1>12. Range(longer) = Range(history) \cup {cursor}
    <2>1. 1 .. k + 1 = (1 .. k) \cup {k + 1}
      BY <1>6, SMT
    <2>2. Range(longer) = {longer[n] : n \in 1 .. k} \cup {longer[k + 1]}
      BY <1>9, <2>1, Zenon DEF Range
    <2>3. {longer[n] : n \in 1 .. k} = {history[n] : n \in 1 .. k}
      BY <1>7
    <2> QED
      BY <1>6, <1>7, <2>2, <2>3, Zenon DEF Range
  <1>13. \A n \in 2 .. Len(longer) : longer[n - 1] <= longer[n]
    <2> SUFFICES ASSUME NEW n \in 2 .. k + 1
                 PROVE  longer[n - 1] <= longer[n]
      BY <1>7
    <2>1. CASE n \in 2 .. k
      <3>1. longer[n - 1] = history[n - 1] /\ longer[n] = history[n]
        BY <1>6, <1>7, <2>1, SMT
      <3> QED BY <1>4, <1>6, <2>1, <3>1
    <2>2. CASE n = k + 1
      <3>1. n - 1 \in 1 .. k
        BY <1>6, <2>2, SMT
      <3>2. history[n - 1] \in 1 .. disk.queue_index + 1
        BY <1>4, <1>6, <3>1, Zenon DEF Range
      <3>3. longer[n - 1] = history[n - 1] /\ longer[n] = cursor
        BY <1>7, <2>2, <3>1
      <3> QED BY <1>2, <3>2, <3>3, SMT
    <2> QED
      BY <1>6, <2>1, <2>2, SMT
  <1>14. Len(longer) <= disk'.queue_index + crashes' + 1
    BY <1>1, <1>2, <1>3, <1>7, <1>10, SMT
  <1>15. Range(longer) \subseteq 1 .. disk'.queue_index + 1
    BY <1>1, <1>2, <1>4, <1>12, SMT
  <1>16. \E h \in Histories :
            /\ Len(h) <= disk'.queue_index + crashes' + 1
            /\ Range(h) \subseteq 1 .. disk'.queue_index + 1
            /\ 1 .. disk'.queue_index \subseteq Range(h)
            /\ cursor' \in Range(h)
            /\ \A n \in 2 .. Len(h) : h[n - 1] <= h[n]
            /\ target' = Replay(h)[Len(h)]
    BY <1>1, <1>4, <1>8, <1>11, <1>12, <1>13, <1>14, <1>15
  <1>17. PICK h \in Histories :
            /\ Len(h) <= disk'.queue_index + crashes' + 1
            /\ Range(h) \subseteq 1 .. disk'.queue_index + 1
            /\ 1 .. disk'.queue_index \subseteq Range(h)
            /\ cursor' \in Range(h)
            /\ \A n \in 2 .. Len(h) : h[n - 1] <= h[n]
            /\ target' = Replay(h)[Len(h)]
    BY <1>16
  <1>18. Histories' = Histories /\ Replay(h)' = Replay(h)
    BY <1>1 DEF Histories, Replay, Edited
  <1> QED
    BY <1>1, <1>17, <1>18 DEF EditInv

LEMMA StepFileInv ==
    ASSUME DistinctIds, StateInv, FileInv, [Next]_vars
    PROVE  FileInv'
  <1>1. StateInv'
    BY StepStateInv
  <1>2. CASE Start BY <1>2, StartKeepsFiles
  <1>3. CASE ProcessPacket
    <2>1. disk' # NoState
      BY <1>3, NotSkipped DEF ProcessPacket, Readable
    <2> QED
      BY <1>3, <2>1, ProcessPacketKeepsDrafts, ProcessPacketKeepsEdits DEF FileInv
  <1>4. CASE RecordPacket BY <1>4, RecordPacketKeepsFiles
  <1>5. CASE QuietStep BY <1>1, <1>5, QuietStepKeeps
  <1>6. CASE Crash BY <1>6, CrashKeepsFiles
  <1>7. CASE UNCHANGED vars
    <2>1. UNCHANGED <<plan, mode, at, cursor, target, drafts, disk, crashes>>
      BY <1>7 DEF vars, given
    <2>2. DraftInv' /\ (disk' = NoState => target' = Original)
      BY <2>1 DEF FileInv, DraftInv, DraftsFollowState, Readable
    <2>3. EditInv'
      <3> SUFFICES ASSUME mode = "apply", Readable
                   PROVE  EditInv'
        BY <2>1 DEF EditInv, Readable
      <3>1. PICK history \in Histories :
              /\ Len(history) <= disk.queue_index + crashes + (IF at = "record" THEN 1 ELSE 0)
              /\ Range(history) \subseteq 1 .. disk.queue_index + 1
              /\ 1 .. disk.queue_index \subseteq Range(history)
              /\ at = "record" => cursor \in Range(history)
              /\ \A n \in 2 .. Len(history) : history[n - 1] <= history[n]
              /\ target = Replay(history)[Len(history)]
        BY DEF FileInv, EditInv
      <3>2. Histories' = Histories /\ Replay(history)' = Replay(history)
        BY <2>1 DEF Histories, Replay, Edited
      <3> QED
        BY <2>1, <3>1, <3>2 DEF EditInv
    <2> QED
      BY <2>2, <2>3 DEF FileInv
  <1> QED
    BY <1>2, <1>3, <1>4, <1>5, <1>6, <1>7 DEF Next, Step, QuietStep

\* Whatever pauses, failures and crashes there were, the target holds the edits of
\* the completed packets in the order of the plan, none more often than the crashes
\* explain, and a draft run leaves it alone: workflow.py, process_packet_apply and
\* run_implementation_workflow.
THEOREM TargetIsRight ==
    ASSUME DistinctIds
    PROVE  Spec => []TargetFollowsState
  <1>1. Init => FileInv
    BY DEF Init, FileInv, DraftInv, DraftsFollowState, EditInv, Readable
  <1>2. StateInv /\ FileInv /\ [Next]_vars => FileInv'
    BY StepFileInv
  <1>3. FileInv => TargetFollowsState
    BY Zenon DEF FileInv, DraftInv, EditInv, TargetFollowsState, EditsFollowState
  <1> QED
    BY <1>1, <1>2, <1>3, StateInvariant, PTL DEF Spec

=============================================================================
