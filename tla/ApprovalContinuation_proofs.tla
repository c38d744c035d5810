--------------------- MODULE ApprovalContinuation_proofs ---------------------
(***************************************************************************)
(* What ApprovalContinuation keeps for every number of approvals, request  *)
(* threads and continuations.                                              *)
(***************************************************************************)
EXTENDS ApprovalContinuation, TLAPS

Started(t) == at[t] \in {"load", "persist"} /\ message[t] = "approve"

\* A request at work knows the run its message names; one that has run a
\* continuation holds that continuation.
RequestHolds ==
    \A t \in Threads :
        /\ at[t] # "idle" => source[t] \in Sources /\ message[t] # "none"
        /\ at[t] = "continue" => message[t] = "approve"
        /\ Started(t) <=> cont[t] # Nothing
        /\ Started(t) => cont[t] \in ran[source[t]]

\* Unless they have raced, one request at most continues an approval, and the
\* approval has not been continued before.
OneAtATime ==
    \A s \in Sources : ~ raced[s] =>
        /\ \A t, u \in Threads : Approving(t, s) /\ Approving(u, s) => t = u
        /\ \A t \in Threads : Approving(t, s) /\ at[t] = "continue" => ran[s] = {}

\* A continued approval is used, or its marker is on the way.
MarkerFollows ==
    \A s \in Sources : ~ raced[s] /\ ran[s] # {} =>
        Used(s) \/ \E t \in Threads : Approving(t, s) /\ Started(t)

IInv ==
    /\ TypeOK
    /\ ConsumedByItsContinuation
    /\ RequestHolds
    /\ OneAtATime
    /\ MarkerFollows
    /\ OnceUnlessRaced

\* At the start every approval is pending and nobody is at work.
LEMMA InitHolds == Init => IInv
  BY ApprovalAssumption
     DEF Init, IInv, TypeOK, ConsumedByItsContinuation, RequestHolds, OneAtATime,
         MarkerFollows, OnceUnlessRaced, NoMarker, Marker, Started, Approving

\* Every step of a request, and every expiry, cleanup and restart, keeps the
\* invariant.
LEMMA StepKeeps == IInv /\ [Next]_vars => IInv'
<1> SUFFICES ASSUME IInv, [Next]_vars PROVE IInv'
  OBVIOUS
<1> USE ApprovalAssumption
    DEF IInv, TypeOK, ConsumedByItsContinuation, RequestHolds, OneAtATime,
        MarkerFollows, OnceUnlessRaced, Started, Approving, Used, Goto
<1>1. ASSUME NEW t \in Threads, Request(t) PROVE IInv'
  <2>1. ASSUME NEW what \in {"approve", "deny"}, NEW s \in Sources, Receive(t, what, s)
        PROVE  IInv'
    BY <2>1 DEF Receive
  <2>2. CASE Refuse(t)
    BY <2>2 DEF Refuse, Answer
  <2>3. CASE Accept(t)
    BY <2>3 DEF Accept, Pending
  <2>4. ASSUME NEW c \in Continuations, RunContinuation(t, c) PROVE IInv'
    BY <2>4 DEF RunContinuation
  <2>5. CASE ContinuationRaises(t)
    BY <2>5 DEF ContinuationRaises, Answer
  <2>6. CASE LoadForMark(t)
    BY <2>6 DEF LoadForMark
  <2>7. CASE SourceIsGone(t)
    BY <2>7 DEF SourceIsGone, Answer
  <2>8. CASE PersistMark(t)
    BY <2>8 DEF PersistMark, Answer, Marker
  <2> HIDE DEF IInv
  <2> QED BY <1>1, <2>1, <2>2, <2>3, <2>4, <2>5, <2>6, <2>7, <2>8 DEF Request
<1>2. ASSUME NEW s \in Sources, Expire(s) PROVE IInv'
  BY <1>2 DEF Expire
<1>3. ASSUME NEW s \in Sources, CleanUp(s) PROVE IInv'
  BY <1>3 DEF CleanUp, NoMarker, Marker
<1>4. CASE Restart
  BY <1>4 DEF Restart
<1>5. CASE UNCHANGED vars
  BY <1>5 DEF vars
<1> HIDE DEF IInv
<1> QED BY <1>1, <1>2, <1>3, <1>4, <1>5 DEF Next

\* The strengthened invariant holds in every reachable state.
THEOREM Inductive == Spec => []IInv
<1>1. Init => IInv
  BY InitHolds
<1>2. IInv /\ [Next]_vars => IInv'
  BY StepKeeps
<1> QED BY <1>1, <1>2, PTL DEF Spec

\* Every variable keeps its type.
THEOREM TypeCorrect == Spec => []TypeOK
<1>1. IInv => TypeOK
  BY DEF IInv
<1> QED BY <1>1, Inductive, PTL

\* Requests that do not overlap, and are not cut off between a continuation
\* and its marker, continue an approval once at most.
THEOREM OnceWithoutRace == Spec => []OnceUnlessRaced
<1>1. IInv => OnceUnlessRaced
  BY DEF IInv
<1> QED BY <1>1, Inductive, PTL

\* The continuation that a consumed marker names was run for that approval.
THEOREM MarkersName == Spec => []ConsumedByItsContinuation
<1>1. IInv => ConsumedByItsContinuation
  BY DEF IInv
<1> QED BY <1>1, Inductive, PTL

-----------------------------------------------------------------------------
Over(s, done) == Used(s) /\ Quiet(s) /\ ran[s] = done

\* A used approval that nobody has in his hands stays so in every step.
LEMMA OverStays ==
    ASSUME NEW s \in Sources, NEW done \in SUBSET Continuations
    PROVE  IInv /\ Over(s, done) /\ [Next]_vars => Over(s, done)'
<1> SUFFICES ASSUME IInv, Over(s, done), [Next]_vars PROVE Over(s, done)'
  OBVIOUS
<1> USE DEF IInv, TypeOK, RequestHolds, Over, Used, Quiet, Goto
<1>1. ASSUME NEW t \in Threads, Request(t) PROVE Over(s, done)'
  <2>1. ASSUME NEW what \in {"approve", "deny"}, NEW q \in Sources, Receive(t, what, q)
        PROVE  Over(s, done)'
    BY <2>1 DEF Receive
  <2>2. CASE Refuse(t)
    BY <2>2 DEF Refuse, Answer
  <2>3. CASE Accept(t)
    BY <2>3 DEF Accept, Pending
  <2>4. ASSUME NEW c \in Continuations, RunContinuation(t, c) PROVE Over(s, done)'
    BY <2>4 DEF RunContinuation
  <2>5. CASE ContinuationRaises(t)
    BY <2>5 DEF ContinuationRaises, Answer
  <2>6. CASE LoadForMark(t)
    BY <2>6 DEF LoadForMark
  <2>7. CASE SourceIsGone(t)
    BY <2>7 DEF SourceIsGone, Answer
  <2>8. CASE PersistMark(t)
    BY <2>8 DEF PersistMark, Answer
  <2> HIDE DEF Over
  <2> QED BY <1>1, <2>1, <2>2, <2>3, <2>4, <2>5, <2>6, <2>7, <2>8 DEF Request
<1>2. ASSUME NEW q \in Sources, Expire(q) PROVE Over(s, done)'
  BY <1>2 DEF Expire
<1>3. ASSUME NEW q \in Sources, CleanUp(q) PROVE Over(s, done)'
  BY <1>3 DEF CleanUp
<1>4. CASE Restart
  BY <1>4 DEF Restart
<1>5. CASE UNCHANGED vars
  BY <1>5 DEF vars
<1> HIDE DEF Over
<1> QED BY <1>1, <1>2, <1>3, <1>4, <1>5 DEF Next

\* A consumed, denied or deleted approval that no request is still at is never
\* continued again.
THEOREM UsedForGood == Spec => UsedStaysUsed
<1> SUFFICES ASSUME NEW s \in Sources, NEW done \in SUBSET Continuations
             PROVE  Spec => [](Over(s, done) => [](ran[s] = done))
  BY DEF UsedStaysUsed, Over
<1>1. IInv /\ Over(s, done) /\ [Next]_vars => Over(s, done)'
  BY OverStays
<1>2. Over(s, done) => ran[s] = done
  BY DEF Over
<1> QED BY <1>1, <1>2, Inductive, PTL DEF Spec

=============================================================================
