----------------------------- MODULE Delegation -----------------------------
(***************************************************************************)
(* ExternalAICoordinator (src/src/core/coordination/index.ts): delegations *)
(* to external AI providers, kept in one process's memory.  The module     *)
(* follows one delegation id; every delegate() call for it makes a record  *)
(* of its own and puts it in the coordinator's map, over the one there.    *)
(*                                                                         *)
(* A call gives control away at each await: the policy evaluation, every   *)
(* audit, the provider and the pause between two attempts.  Each action    *)
(* is the code from one await to the next.  Meanwhile the other calls,     *)
(* cancelDelegation, the timer and the owner's answers run.                *)
(***************************************************************************)
EXTENDS Naturals

CONSTANTS
    Call,         \* delegate() calls with this id
    NoCall,       \* the map has no record
    MaxRetries,   \* maxRetries of the requests
    CallBound     \* provider calls are counted up to here

ASSUME DelegationAssumption ==
    /\ NoCall \notin Call
    /\ MaxRetries \in Nat
    /\ CallBound \in Nat /\ CallBound > MaxRetries + 1

VARIABLES
    current,       \* the call whose record is in the map
    status,        \* per call: rec.status
    verification,  \* per call: rec.verificationStatus
    attempts,      \* per call: rec.retryCount
    level,         \* per call: policyResult.safetyLevel
    pc,            \* per call: the await it is at
    answer,        \* per call: what provider.execute came back with
    timer,         \* per call: the timeout: off, armed, fired (isTimedOut)
    approval,      \* status of the approval row of this delegation
    paid,          \* history: calls for which a token was consumed
    asked          \* history: times the provider was called, per call

recVars == <<status, verification, attempts>>
history == <<paid, asked>>
vars == <<current, recVars, level, pc, answer, timer, approval, history>>
-----------------------------------------------------------------------------
Terminal == {"SUCCEEDED", "FAILED", "CANCELLED", "TIMED_OUT", "REJECTED", "BLOCKED"}

DelegationStatus == Terminal \cup
    {"CREATED", "AUTHORIZED", "APPROVAL_REQUIRED", "APPROVED", "DISPATCHED", "RUNNING"}

\* An opaque result has an output that JSON.stringify cannot write.
Answer == {"null", "throws", "result", "opaque"}

TypeOK ==
    /\ current \in Call \cup {NoCall}
    /\ status \in [Call -> DelegationStatus \cup {"NONE"}]
    /\ verification \in [Call -> {"PENDING", "PASSED", "FAILED", "REJECTED"}]
    /\ attempts \in [Call -> 0..(MaxRetries + 1)]
    /\ level \in [Call -> {"SAFE", "APPROVAL_REQUIRED", "BLOCKED"}]
    /\ pc \in [Call -> {"none", "policy", "created", "authorized", "dispatched",
                        "provider", "spinning", "answered", "pause", "returned"}]
    /\ answer \in [Call -> Answer]
    /\ timer \in [Call -> {"off", "armed", "fired"}]
    /\ approval \in {"NONE", "PENDING", "APPROVED", "CONSUMED", "DEAD"}
    /\ paid \subseteq Call
    /\ asked \in [Call -> 0..CallBound]

Init ==
    /\ current = NoCall
    /\ status = [c \in Call |-> "NONE"]
    /\ verification = [c \in Call |-> "PENDING"]
    /\ attempts = [c \in Call |-> 0]
    /\ level = [c \in Call |-> "BLOCKED"]
    /\ pc = [c \in Call |-> "none"]
    /\ answer = [c \in Call |-> "null"]
    /\ timer = [c \in Call |-> "off"]
    /\ approval = "NONE"
    /\ paid = {}
    /\ asked = [c \in Call |-> 0]
-----------------------------------------------------------------------------
Goto(c, l) == pc' = [pc EXCEPT ![c] = l]
Become(c, s) == status' = [status EXCEPT ![c] = s]

\* A record ends: its status and verification are set, the timer is cleared.
End(c, s, v) ==
    /\ Become(c, s)
    /\ verification' = [verification EXCEPT ![c] = v]
    /\ timer' = [timer EXCEPT ![c] = "off"]
    /\ Goto(c, "returned")

\* this.delegations.get(rec.id)?.status === "CANCELLED": it asks the record in
\* the map, which may be the one of a later call.
IsCancelled == current # NoCall /\ status[current] = "CANCELLED"
-----------------------------------------------------------------------------
(* delegate *)

\* Identity, membership or provider is missing.
DelegateBlocked(c) ==
    /\ pc[c] = "none"
    /\ current' = c
    /\ End(c, "BLOCKED", "REJECTED")
    /\ UNCHANGED <<attempts, level, answer, approval, history>>

\* The gates pass; policyEngine.evaluate is awaited before there is a record.
DelegateGated(c) ==
    /\ pc[c] = "none"
    /\ Goto(c, "policy")
    /\ UNCHANGED <<current, recVars, level, answer, timer, approval, history>>

Evaluated(c) ==
    /\ pc[c] = "policy"
    /\ \E l \in {"SAFE", "APPROVAL_REQUIRED", "BLOCKED"} : level' = [level EXCEPT ![c] = l]
    /\ current' = c
    /\ Become(c, "CREATED")
    /\ Goto(c, "created")
    /\ UNCHANGED <<verification, attempts, answer, timer, approval, history>>

PolicyBlocks(c) ==
    /\ pc[c] = "created" /\ level[c] = "BLOCKED"
    /\ End(c, "BLOCKED", "REJECTED")
    /\ UNCHANGED <<current, attempts, level, answer, approval, history>>

\* delegate returns; the record waits for approveDelegation.
PolicyAsksApproval(c) ==
    /\ pc[c] = "created" /\ level[c] = "APPROVAL_REQUIRED"
    /\ approval' = "PENDING"
    /\ Become(c, "APPROVAL_REQUIRED")
    /\ Goto(c, "returned")
    /\ UNCHANGED <<current, verification, attempts, level, answer, timer, history>>

PolicyAllows(c) ==
    /\ pc[c] = "created" /\ level[c] = "SAFE"
    /\ Become(c, "AUTHORIZED")
    /\ Goto(c, "authorized")
    /\ UNCHANGED <<current, verification, attempts, level, answer, timer, approval, history>>
-----------------------------------------------------------------------------
(* approveDelegation, cancelDelegation: they find the record in the map. *)

Approvable(c) == current = c /\ pc[c] = "returned" /\ status[c] = "APPROVAL_REQUIRED"

\* Another workspace, an approver who is no member, or no token to consume.
ApproveRejected(c) ==
    /\ Approvable(c)
    /\ End(c, "REJECTED", "REJECTED")
    /\ UNCHANGED <<current, attempts, level, answer, approval, history>>

\* Mutant: the result of consumeApproval is ignored.
ApproveUnchecked(c) ==
    /\ Approvable(c)
    /\ approval' = IF approval \in {"PENDING", "APPROVED"} THEN "CONSUMED" ELSE approval
    /\ paid' = IF approval \in {"PENDING", "APPROVED"} THEN paid \cup {c} ELSE paid
    /\ Become(c, "APPROVED")
    /\ Goto(c, "authorized")
    /\ UNCHANGED <<current, verification, attempts, level, answer, timer, asked>>

\* grantApproval and consumeApproval, in one go (module Approvals).
Approve(c) ==
    /\ Approvable(c)
    /\ approval \in {"PENDING", "APPROVED"}
    /\ approval' = "CONSUMED"
    /\ paid' = paid \cup {c}
    /\ Become(c, "APPROVED")
    /\ Goto(c, "authorized")
    /\ UNCHANGED <<current, verification, attempts, level, answer, timer, asked>>

CancelDelegation(c) ==
    /\ current = c /\ status[c] \notin Terminal
    /\ Become(c, "CANCELLED")
    /\ verification' = [verification EXCEPT ![c] = "REJECTED"]
    /\ UNCHANGED <<current, attempts, level, pc, answer, timer, approval, history>>
-----------------------------------------------------------------------------
(* dispatchDelegation *)

Dispatch(c) ==
    /\ pc[c] = "authorized"
    /\ Become(c, "DISPATCHED")
    /\ Goto(c, "dispatched")
    /\ UNCHANGED <<current, verification, attempts, level, answer, timer, approval, history>>

AskProvider(c) ==
    /\ Goto(c, "provider")
    /\ asked' = [asked EXCEPT ![c] = IF @ < CallBound THEN @ + 1 ELSE @]
    /\ UNCHANGED paid

\* After the audit the record is RUNNING, whatever it was; the first turn of
\* the loop follows without an await.
Start(c) ==
    /\ pc[c] = "dispatched"
    /\ Become(c, "RUNNING")
    /\ IF current # c /\ IsCancelled
       THEN /\ verification' = [verification EXCEPT ![c] = "REJECTED"]
            /\ Goto(c, "returned")
            /\ UNCHANGED <<timer, history>>
       ELSE /\ timer' = [timer EXCEPT ![c] = "armed"]
            /\ AskProvider(c)
            /\ UNCHANGED verification
    /\ UNCHANGED <<current, attempts, level, answer, approval>>

\* external: provider.execute answers nothing, at once, again and again.  The
\* loop then goes from promise to promise, and neither a timer nor anything else
\* in the process has a turn again.
Spins(c) ==
    /\ pc[c] = "provider"
    /\ Goto(c, "spinning")
    /\ UNCHANGED <<current, recVars, level, answer, timer, approval, history>>

\* external: provider.execute settles.
ProviderSettles(c) ==
    /\ pc[c] = "provider"
    /\ \E a \in Answer : answer' = [answer EXCEPT ![c] = a]
    /\ Goto(c, "answered")
    /\ UNCHANGED <<current, recVars, level, timer, approval, history>>

\* What comes after the loop when the delegation was cancelled or timed out
\* meanwhile; the status of a cancelled one stays as it is.
StopCancelled(c) ==
    /\ IsCancelled
    /\ End(c, status[c], "REJECTED")

StopTimedOut(c) ==
    /\ ~IsCancelled /\ timer[c] = "fired"
    /\ End(c, "TIMED_OUT", "FAILED")

Undisturbed(c) == ~IsCancelled /\ timer[c] # "fired"

\* The loop is left: cancelled, timed out, or out of attempts.
LeaveLoop(c) ==
    /\ \/ /\ pc[c] = "answered"
          /\ answer[c] = "null" => ~Undisturbed(c)
          /\ answer[c] = "throws" => attempts[c] >= MaxRetries \/ ~Undisturbed(c)
       \/ pc[c] = "pause" /\ ~Undisturbed(c)
    /\ attempts' = [attempts EXCEPT ![c] =
                       IF pc[c] = "answered" /\ answer[c] = "throws" THEN @ + 1 ELSE @]
    /\ \/ StopCancelled(c)
       \/ StopTimedOut(c)
       \/ /\ Undisturbed(c) /\ answer[c] = "throws"
          /\ End(c, "FAILED", "FAILED")
    /\ UNCHANGED <<current, level, answer, approval, history>>

\* Mutants: a result is taken without a look at cancellation; a result that is
\* accepted does not set verificationStatus.
FinalizeAnyway(c) ==
    /\ pc[c] = "answered" /\ answer[c] = "result" /\ timer[c] # "fired"
    /\ \E outcome \in {<<"SUCCEEDED", "PASSED">>, <<"FAILED", "FAILED">>, <<"REJECTED", "REJECTED">>} :
          End(c, outcome[1], outcome[2])
    /\ UNCHANGED <<current, attempts, level, answer, approval, history>>

FinalizeStatusOnly(c) ==
    /\ pc[c] = "answered" /\ answer[c] = "result" /\ Undisturbed(c)
    /\ \E outcome \in {<<"SUCCEEDED", verification[c]>>, <<"FAILED", "FAILED">>, <<"REJECTED", "REJECTED">>} :
          End(c, outcome[1], outcome[2])
    /\ UNCHANGED <<current, attempts, level, answer, approval, history>>

\* verifyAndFinalizeResult: foreign ids, scope expansion or size REJECT the
\* result (an opaque one with foreign ids as well), success: false FAILS it.
Finalize(c) ==
    /\ pc[c] = "answered" /\ Undisturbed(c)
    /\ \/ answer[c] = "result" /\ End(c, "SUCCEEDED", "PASSED")
       \/ answer[c] = "result" /\ End(c, "FAILED", "FAILED")
       \/ answer[c] \in {"result", "opaque"} /\ End(c, "REJECTED", "REJECTED")
    /\ UNCHANGED <<current, attempts, level, answer, approval, history>>

\* JSON.stringify throws.  dispatchDelegation returns the promise without awaiting
\* it, so that its catch does not see the error: the call rejects, RUNNING stays.
FinalizeThrows(c) ==
    /\ pc[c] = "answered" /\ answer[c] = "opaque" /\ Undisturbed(c)
    /\ timer' = [timer EXCEPT ![c] = "off"]
    /\ Goto(c, "returned")
    /\ UNCHANGED <<current, recVars, level, answer, approval, history>>

\* Mutant: the loop does not look at isTimedOut after an empty answer.
AskAgainTimedOut(c) ==
    /\ pc[c] = "answered" /\ answer[c] = "null" /\ ~IsCancelled
    /\ AskProvider(c)
    /\ UNCHANGED <<current, recVars, level, answer, timer, approval>>

\* An empty answer is asked for again at once, and is not an attempt.
AskAgain(c) ==
    /\ pc[c] = "answered" /\ answer[c] = "null" /\ Undisturbed(c)
    /\ AskProvider(c)
    /\ UNCHANGED <<current, recVars, level, answer, timer, approval>>

\* A provider that throws is tried again after a pause.
Pause(c) ==
    /\ pc[c] = "answered" /\ answer[c] = "throws"
    /\ attempts[c] < MaxRetries /\ Undisturbed(c)
    /\ attempts' = [attempts EXCEPT ![c] = @ + 1]
    /\ Goto(c, "pause")
    /\ UNCHANGED <<current, status, verification, level, answer, timer, approval, history>>

Retry(c) ==
    /\ pc[c] = "pause" /\ Undisturbed(c)
    /\ AskProvider(c)
    /\ UNCHANGED <<current, recVars, level, answer, timer, approval>>
-----------------------------------------------------------------------------
(* Around the coordinator. *)

TimerFires(c) ==
    /\ timer[c] = "armed"
    /\ timer' = [timer EXCEPT ![c] = "fired"]
    /\ UNCHANGED <<current, recVars, level, pc, answer, approval, history>>

\* The request is denied, expires, or is granted by another way.
OwnerAnswers ==
    /\ approval \in {"PENDING", "APPROVED"}
    /\ approval' \in (IF approval = "PENDING" THEN {"APPROVED", "DEAD"} ELSE {"DEAD"})
    /\ UNCHANGED <<current, recVars, level, pc, answer, timer, history>>

\* auditManager.recordEvent throws: the call ends, the record stays.
AuditFails(c) ==
    /\ pc[c] \in {"created", "authorized", "dispatched"}
    /\ Goto(c, "returned")
    /\ UNCHANGED <<current, recVars, level, answer, timer, approval, history>>

\* The steps of a call that has begun.
Continue(c) ==
    \/ Evaluated(c)
    \/ PolicyBlocks(c) \/ PolicyAsksApproval(c) \/ PolicyAllows(c)
    \/ Dispatch(c) \/ Start(c)
    \/ ProviderSettles(c)
    \/ LeaveLoop(c) \/ Finalize(c) \/ FinalizeThrows(c)
    \/ AskAgain(c) \/ Pause(c) \/ Retry(c)

\* The process takes turns: no call keeps it for itself.
Responsive == \A c \in Call : pc[c] # "spinning"

Next ==
    /\ Responsive
    /\ \/ \E c \in Call :
             \/ DelegateBlocked(c) \/ DelegateGated(c)
             \/ Continue(c) \/ Spins(c)
             \/ ApproveRejected(c) \/ Approve(c)
             \/ CancelDelegation(c)
             \/ TimerFires(c)
             \/ AuditFails(c)
       \/ OwnerAnswers

Spec == Init /\ [][Next]_vars

\* Awaits come back, the provider's included, and timers fire, while the process
\* takes turns.
Fairness ==
    \A c \in Call : WF_vars(Responsive /\ Continue(c)) /\ WF_vars(Responsive /\ TimerFires(c))

FairSpec == Spec /\ Fairness
-----------------------------------------------------------------------------
(* Properties. *)

\* However a record ends, and whatever was overwritten on the way, its status
\* and its verification tell the same story: nothing is SUCCEEDED that is not
\* PASSED, and no cancelled or refused record carries a PASSED.
OutcomeAgrees ==
    \A c \in Call :
        /\ status[c] = "SUCCEEDED" <=> verification[c] = "PASSED"
        /\ status[c] \in {"FAILED", "TIMED_OUT"} => verification[c] = "FAILED"
        /\ status[c] \in {"CANCELLED", "REJECTED", "BLOCKED"} => verification[c] = "REJECTED"

\* A delegation that needs the owner's approval has consumed a token of its own
\* before it reaches the provider, although calls with the same id share one
\* approval row and replace each other in the map.
ApprovedBeforeCall ==
    \A c \in Call : level[c] = "APPROVAL_REQUIRED" /\ asked[c] > 0 => c \in paid

\* Once the provider has been called a cancellation is final: a result that
\* comes in later, or an attempt under way, does not bring the record back.
CancelledWhileAsking ==
    [][\A c \in Call :
          (status[c] = "CANCELLED" /\ asked[c] > 0 /\ current = c)
          => status'[c] = "CANCELLED"]_vars

\* A running delegation ends and its call returns, whether its provider throws,
\* answers nothing or fails; empty answers without end are stopped by the timer,
\* unless they come at once and keep the timer from its turn.  Only a record that
\* a later call replaced in the map, or one whose result cannot be written out,
\* may stay RUNNING.
DelegationEnds ==
    \A c \in Call :
        (status[c] = "RUNNING") ~>
            \/ pc[c] = "returned" /\ (status[c] \in Terminal \/ current # c \/ answer[c] = "opaque")
            \/ ~Responsive
=============================================================================
