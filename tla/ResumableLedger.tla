--------------------------- MODULE ResumableLedger ---------------------------
(***************************************************************************)
(* What a resumable workflow promises about its durable state, without     *)
(* queues, batches or processes: a plan of entries that only grows at its  *)
(* end, and a ledger that records them one by one, in order, each once.    *)
(* The work is complete only when the ledger has caught up with the plan.  *)
(* A canceled or closed ledger is never touched again.  The documenter     *)
(* review and the implementation workflow both implement it.               *)
(***************************************************************************)
EXTENDS Sequences, SequencesExt

CONSTANT Entries

VARIABLES
    plan,     \* the entries to record, in order
    ledger,   \* the entries recorded
    phase     \* "none", "open", "complete", "canceled", "closed" or "lost"

vars == <<plan, ledger, phase>>

Init == plan = <<>> /\ ledger = <<>> /\ phase = "none"

Open ==
    /\ phase = "none"
    /\ plan' # <<>>
    /\ phase' = "open"
    /\ UNCHANGED ledger

\* The next planned entry is recorded; the plan may grow in the same step.
RecordNext ==
    /\ phase = "open"
    /\ Len(ledger) < Len(plan)
    /\ ledger' = Append(ledger, plan[Len(ledger) + 1])
    /\ IsPrefix(plan, plan')
    /\ UNCHANGED phase

Complete ==
    /\ phase = "open"
    /\ ledger = plan
    /\ phase' = "complete"
    /\ UNCHANGED <<plan, ledger>>

\* The summary failed, or a complete review is resumed.
Reopen ==
    /\ phase = "complete"
    /\ phase' = "open"
    /\ UNCHANGED <<plan, ledger>>

Close ==
    /\ phase = "complete"
    /\ phase' = "closed"
    /\ UNCHANGED <<plan, ledger>>

Cancel ==
    /\ phase = "open"
    /\ phase' = "canceled"
    /\ UNCHANGED <<plan, ledger>>

\* The durable state becomes unreadable.
Lose ==
    /\ phase \in {"open", "complete"}
    /\ phase' = "lost"
    /\ plan' = <<>>
    /\ ledger' = <<>>

Next == Open \/ RecordNext \/ Complete \/ Reopen \/ Close \/ Cancel \/ Lose

Spec == Init /\ [][Next]_vars

=============================================================================
