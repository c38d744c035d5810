------------------------ MODULE ApprovalContinuation ------------------------
(***************************************************************************)
(* The packet-design approvals of controller_service/server.py: a planning *)
(* run waits for approval, a chat message that names its run id continues  *)
(* or denies it, and a marker in the planning run's record says that the   *)
(* approval is used.                                                       *)
(*                                                                         *)
(* The marker is looked at before the continuation is run, which takes as  *)
(* long as a workflow takes, and written after it, by another load and     *)
(* another write of the record.  Every message has a request thread of its *)
(* own; nothing holds a lock over these steps, and the process may end     *)
(* between any two of them.                                                *)
(*                                                                         *)
(* The record of a run is one atomic value here; its two copies, file and  *)
(* cache, are RunRegistry's subject.                                       *)
(***************************************************************************)
CONSTANTS
    Sources,        \* the planning runs that wait for approval
    Threads,        \* request threads
    Continuations,  \* run ids of continuations; bounds how many there are
    Nothing         \* no source, no continuation

ASSUME ApprovalAssumption == Nothing \notin Sources \cup Continuations

\* record["approval_continuation"]; "none" if there is no marker.
Marker == [status : {"none", "consumed", "denied"}, by : Continuations \cup {Nothing}]

NoMarker == [status |-> "none", by |-> Nothing]

VARIABLES
    present,   \* present[s]: the record of s exists
    fresh,     \* fresh[s]: it is younger than APPROVAL_CONTINUATION_TTL_SECONDS
    marker,    \* marker[s]: its marker
    ran,       \* ran[s]: the continuations that have been run for s
    at,        \* at[t]: the control point of a request thread
    message,   \* message[t]: what its message asks for
    source,    \* source[t]: the run its message names
    cont,      \* cont[t]: the continuation it has run
    raced      \* history: s was continued by overlapping requests, or the
               \* process ended between a continuation of s and its marker

vars == <<present, fresh, marker, ran, at, message, source, cont, raced>>

TypeOK ==
    /\ present \in [Sources -> BOOLEAN]
    /\ fresh \in [Sources -> BOOLEAN]
    /\ marker \in [Sources -> Marker]
    /\ ran \in [Sources -> SUBSET Continuations]
    /\ at \in [Threads -> {"idle", "validate", "continue", "load", "persist"}]
    /\ message \in [Threads -> {"none", "approve", "deny"}]
    /\ source \in [Threads -> Sources \cup {Nothing}]
    /\ cont \in [Threads -> Continuations \cup {Nothing}]
    /\ raced \in [Sources -> BOOLEAN]

Init ==
    /\ present = [s \in Sources |-> TRUE]
    /\ fresh = [s \in Sources |-> TRUE]
    /\ marker = [s \in Sources |-> NoMarker]
    /\ ran = [s \in Sources |-> {}]
    /\ at = [t \in Threads |-> "idle"]
    /\ message = [t \in Threads |-> "none"]
    /\ source = [t \in Threads |-> Nothing]
    /\ cont = [t \in Threads |-> Nothing]
    /\ raced = [s \in Sources |-> FALSE]

-----------------------------------------------------------------------------
Goto(t, point) == at' = [at EXCEPT ![t] = point]

\* The request ends, with a reply or with an error.
Answer(t) ==
    /\ Goto(t, "idle")
    /\ message' = [message EXCEPT ![t] = "none"]
    /\ source' = [source EXCEPT ![t] = Nothing]
    /\ cont' = [cont EXCEPT ![t] = Nothing]

\* A chat message approves or denies the run that it names.
Receive(t, what, s) ==
    /\ at[t] = "idle"
    /\ Goto(t, "validate")
    /\ message' = [message EXCEPT ![t] = what]
    /\ source' = [source EXCEPT ![t] = s]
    /\ UNCHANGED <<present, fresh, marker, ran, cont, raced>>

\* Mutant: a consumed approval is not refused.
PendingUnlessDenied(s) == present[s] /\ marker[s].status # "denied" /\ fresh[s]

\* Mutant: a denied approval is not refused.
PendingUnlessConsumed(s) == present[s] /\ marker[s].status # "consumed" /\ fresh[s]

\* validate_approval_continuation_source returns.
Pending(s) == present[s] /\ marker[s].status = "none" /\ fresh[s]

\* It raises, or an approval asks for another scope or target.
Refuse(t) ==
    /\ at[t] = "validate"
    /\ message[t] = "approve" \/ ~ Pending(source[t])
    /\ Answer(t)
    /\ UNCHANGED <<present, fresh, marker, ran, raced>>

\* Another approval of s is between its validation and its marker.
Approving(t, s) ==
    /\ at[t] \in {"continue", "load", "persist"}
    /\ message[t] = "approve"
    /\ source[t] = s

Accept(t) ==
    /\ at[t] = "validate"
    /\ Pending(source[t])
    /\ Goto(t, IF message[t] = "approve" THEN "continue" ELSE "load")
    /\ raced' = [raced EXCEPT ![source[t]] =
                    \/ @
                    \/ /\ message[t] = "approve"
                       /\ \E u \in Threads : Approving(u, source[t])]
    /\ UNCHANGED <<present, fresh, marker, ran, message, source, cont>>

\* handle_workflow_router_plan returns, with whatever status.
RunContinuation(t, c) ==
    /\ at[t] = "continue"
    /\ \A s \in Sources : c \notin ran[s]
    /\ ran' = [ran EXCEPT ![source[t]] = @ \cup {c}]
    /\ cont' = [cont EXCEPT ![t] = c]
    /\ Goto(t, "load")
    /\ UNCHANGED <<present, fresh, marker, message, source, raced>>

\* It raises: the approval stays as it is.
ContinuationRaises(t) ==
    /\ at[t] = "continue"
    /\ Answer(t)
    /\ UNCHANGED <<present, fresh, marker, ran, raced>>

(***************************************************************************)
(* mark_approval_continuation_consumed and _denied: load the record, put   *)
(* the marker into it, whatever marker it has by now, and persist it.      *)
(***************************************************************************)
LoadForMark(t) ==
    /\ at[t] = "load"
    /\ present[source[t]]
    /\ Goto(t, "persist")
    /\ UNCHANGED <<present, fresh, marker, ran, message, source, cont, raced>>

\* The record has been cleaned up: 404, after the continuation was run.
SourceIsGone(t) ==
    /\ at[t] = "load"
    /\ ~ present[source[t]]
    /\ Answer(t)
    /\ UNCHANGED <<present, fresh, marker, ran, raced>>

\* Mutant: the marker names the run that was approved.
PersistMarkOfSource(t) ==
    /\ at[t] = "persist"
    /\ marker' = [marker EXCEPT ![source[t]] =
                     [status |-> IF message[t] = "approve" THEN "consumed" ELSE "denied",
                      by |-> source[t]]]
    /\ present' = [present EXCEPT ![source[t]] = TRUE]
    /\ Answer(t)
    /\ UNCHANGED <<fresh, ran, raced>>

\* Mutant: a denial is marked like an approval.
PersistMarkConsumed(t) ==
    /\ at[t] = "persist"
    /\ marker' = [marker EXCEPT ![source[t]] = [status |-> "consumed", by |-> cont[t]]]
    /\ present' = [present EXCEPT ![source[t]] = TRUE]
    /\ Answer(t)
    /\ UNCHANGED <<fresh, ran, raced>>

PersistMark(t) ==
    /\ at[t] = "persist"
    /\ marker' = [marker EXCEPT ![source[t]] =
                     [status |-> IF message[t] = "approve" THEN "consumed" ELSE "denied",
                      by |-> cont[t]]]
    /\ present' = [present EXCEPT ![source[t]] = TRUE]
    /\ Answer(t)
    /\ UNCHANGED <<fresh, ran, raced>>

\* The approval gets older than its time to live.
Expire(s) ==
    /\ fresh[s]
    /\ fresh' = [fresh EXCEPT ![s] = FALSE]
    /\ UNCHANGED <<present, marker, ran, at, message, source, cont, raced>>

\* cleanup_run_records deletes the record, and the marker with it.
CleanUp(s) ==
    /\ present[s]
    /\ present' = [present EXCEPT ![s] = FALSE]
    /\ marker' = [marker EXCEPT ![s] = NoMarker]
    /\ UNCHANGED <<fresh, ran, at, message, source, cont, raced>>

\* The process ends and is started again: the records stay.
Restart ==
    /\ at' = [t \in Threads |-> "idle"]
    /\ message' = [t \in Threads |-> "none"]
    /\ source' = [t \in Threads |-> Nothing]
    /\ cont' = [t \in Threads |-> Nothing]
    /\ raced' = [s \in Sources |->
                    \/ raced[s]
                    \/ \E t \in Threads : Approving(t, s) /\ cont[t] # Nothing]
    /\ UNCHANGED <<present, fresh, marker, ran>>

Request(t) ==
    \/ \E what \in {"approve", "deny"}, s \in Sources : Receive(t, what, s)
    \/ Refuse(t)
    \/ Accept(t)
    \/ \E c \in Continuations : RunContinuation(t, c)
    \/ ContinuationRaises(t)
    \/ LoadForMark(t)
    \/ SourceIsGone(t)
    \/ PersistMark(t)

Next ==
    \/ \E t \in Threads : Request(t)
    \/ \E s \in Sources : Expire(s) \/ CleanUp(s)
    \/ Restart

Spec == Init /\ [][Next]_vars

-----------------------------------------------------------------------------
(***************************************************************************)
(* Properties.                                                             *)
(***************************************************************************)
\* What holds of "continued exactly once": an approval is continued twice only
\* if two requests overlap, the second validated before the first has written
\* its marker, or if the process ends between a continuation and its marker.
\* A late answer, an expiry or a cleanup in between is not enough.
OnceUnlessRaced ==
    \A s \in Sources :
        ~ raced[s] => \A c, d \in ran[s] : c = d

\* A marker that says consumed names a continuation that was run for this
\* approval, although the marker is put into a record loaded anew.
ConsumedByItsContinuation ==
    \A s \in Sources : marker[s].status = "consumed" => marker[s].by \in ran[s]

\* Nobody has the approval in his hands: no request about s has passed its
\* validation.
Quiet(s) ==
    \A t \in Threads : source[t] = s => at[t] \in {"idle", "validate"}

Used(s) == ~ present[s] \/ marker[s].status # "none"

\* "Duplicate and denied approvals cannot be reused": once an approval is
\* consumed, denied or deleted and no request is still at it, it is never
\* continued again, whatever messages, cleanups and restarts follow.
UsedStaysUsed ==
    \A s \in Sources, done \in SUBSET Continuations :
        [](Used(s) /\ Quiet(s) /\ ran[s] = done => [](ran[s] = done))

=============================================================================
