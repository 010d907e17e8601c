------------------------- MODULE Delegation_proofs -------------------------
(***************************************************************************)
(* Proofs about Delegation for any set of delegate() calls with one id,    *)
(* any retry limit and audits that may fail.                               *)
(***************************************************************************)
EXTENDS Delegation, TLAPS

\* The disjunct of Next that belongs to one call.
CallStep(c) ==
    \/ DelegateBlocked(c) \/ DelegateGated(c)
    \/ Continue(c) \/ Spins(c)
    \/ ApproveRejected(c) \/ Approve(c)
    \/ CancelDelegation(c)
    \/ TimerFires(c)
    \/ AuditFails(c)

(* TypeOK is not inductive: retryCount stays in bounds because a call that is   *)
(* still under way has an attempt left.  Placed says where in its call a record  *)
(* can be in which state.                                                       *)

Asking == {"provider", "spinning", "answered", "pause"}

Placed ==
    \A c \in Call :
        /\ pc[c] \in {"none", "policy"} =>
              status[c] = "NONE" /\ verification[c] = "PENDING" /\ current # c
        /\ pc[c] \in {"created", "authorized", "dispatched"} =>
              status[c] \notin Terminal \ {"CANCELLED"}
        /\ pc[c] \in Asking => status[c] \in {"RUNNING", "CANCELLED"}
        /\ asked[c] > 0 => pc[c] \in Asking \cup {"returned"} /\ status[c] # "APPROVAL_REQUIRED"

AttemptsLeft ==
    \A c \in Call :
        pc[c] # "returned" \/ status[c] = "APPROVAL_REQUIRED" => attempts[c] <= MaxRetries

LEMMA TypeInductive == TypeOK /\ AttemptsLeft /\ [Next]_vars => TypeOK'
<1> SUFFICES ASSUME TypeOK, AttemptsLeft, [Next]_vars PROVE TypeOK'
  OBVIOUS
<1> USE DelegationAssumption
        DEF TypeOK, Terminal, DelegationStatus, Answer, Goto, Become, recVars, history
<1>1. ASSUME NEW c \in Call, CallStep(c)
      PROVE  TypeOK'
  <2>1. CASE DelegateBlocked(c)
    BY <2>1 DEF DelegateBlocked, End
  <2>2. CASE DelegateGated(c)
    BY <2>2 DEF DelegateGated
  <2>3. CASE Evaluated(c)
    BY <2>3 DEF Evaluated
  <2>4. CASE PolicyBlocks(c)
    BY <2>4 DEF PolicyBlocks, End
  <2>5. CASE PolicyAsksApproval(c)
    BY <2>5 DEF PolicyAsksApproval
  <2>6. CASE PolicyAllows(c)
    BY <2>6 DEF PolicyAllows
  <2>7. CASE Dispatch(c)
    BY <2>7 DEF Dispatch
  <2>8. CASE Start(c)
    BY <2>8 DEF Start, AskProvider
  <2>9. CASE ProviderSettles(c)
    BY <2>9 DEF ProviderSettles
  <2>10. CASE LeaveLoop(c)
    <3>1. attempts' \in [Call -> 0..(MaxRetries + 1)]
      <4>1. attempts[c] \in 0..MaxRetries
        BY <2>10 DEF LeaveLoop, AttemptsLeft
      <4>2. attempts' \in {attempts, [attempts EXCEPT ![c] = @ + 1]}
        BY <2>10 DEF LeaveLoop
      <4>3. QED
        BY <4>1, <4>2
    <3>2. \E s \in DelegationStatus \cup {"NONE"}, v \in {"FAILED", "REJECTED"} : End(c, s, v)
      BY <2>10 DEF LeaveLoop, StopCancelled, StopTimedOut
    <3>3. QED
      BY <2>10, <3>1, <3>2 DEF LeaveLoop, End
  <2>11. CASE Finalize(c)
    BY <2>11 DEF Finalize, End, Undisturbed
  <2>12. CASE AskAgain(c)
    BY <2>12 DEF AskAgain, AskProvider
  <2>13. CASE Pause(c)
    BY <2>13 DEF Pause
  <2>14. CASE Retry(c)
    BY <2>14 DEF Retry, AskProvider
  <2>15. CASE ApproveRejected(c)
    BY <2>15 DEF ApproveRejected, Approvable, End
  <2>16. CASE Approve(c)
    BY <2>16 DEF Approve, Approvable
  <2>17. CASE CancelDelegation(c)
    BY <2>17 DEF CancelDelegation
  <2>18. CASE TimerFires(c)
    BY <2>18 DEF TimerFires
  <2>19. CASE AuditFails(c)
    BY <2>19 DEF AuditFails
  <2>20. CASE FinalizeThrows(c)
    BY <2>20 DEF FinalizeThrows
  <2>21. CASE Spins(c)
    BY <2>21 DEF Spins
  <2>22. QED
    BY <1>1, <2>1, <2>2, <2>3, <2>4, <2>5, <2>6, <2>7, <2>8, <2>9, <2>10, <2>11, <2>12, <2>13, <2>14, <2>15, <2>16, <2>17, <2>18, <2>19, <2>20, <2>21 DEF CallStep, Continue
<1>2. CASE OwnerAnswers
  BY <1>2 DEF OwnerAnswers
<1>3. CASE UNCHANGED vars
  BY <1>3 DEF vars
<1>4. QED
  BY <1>1, <1>2, <1>3 DEF Next, CallStep

LEMMA PlacedInductive == TypeOK /\ Placed /\ [Next]_vars => Placed'
<1> SUFFICES ASSUME TypeOK, Placed, [Next]_vars PROVE Placed'
  OBVIOUS
<1> USE DelegationAssumption
        DEF TypeOK, Placed, Asking, Terminal, Goto, Become, recVars, history
<1>1. ASSUME NEW c \in Call, CallStep(c)
      PROVE  Placed'
  <2>1. CASE DelegateBlocked(c)
    BY <2>1 DEF DelegateBlocked, End
  <2>2. CASE DelegateGated(c)
    BY <2>2 DEF DelegateGated
  <2>3. CASE Evaluated(c)
    BY <2>3 DEF Evaluated
  <2>4. CASE PolicyBlocks(c)
    BY <2>4 DEF PolicyBlocks, End
  <2>5. CASE PolicyAsksApproval(c)
    BY <2>5 DEF PolicyAsksApproval
  <2>6. CASE PolicyAllows(c)
    BY <2>6 DEF PolicyAllows
  <2>7. CASE Dispatch(c)
    BY <2>7 DEF Dispatch
  <2>8. CASE Start(c)
    BY <2>8 DEF Start, AskProvider
  <2>9. CASE ProviderSettles(c)
    BY <2>9 DEF ProviderSettles
  <2>10. CASE LeaveLoop(c)
    <3>1. CASE StopCancelled(c)
      BY <2>10, <3>1 DEF LeaveLoop, StopCancelled, IsCancelled, End
    <3>2. CASE StopTimedOut(c)
      BY <2>10, <3>2 DEF LeaveLoop, StopTimedOut, End
    <3>3. CASE Undisturbed(c) /\ answer[c] = "throws" /\ End(c, "FAILED", "FAILED")
      BY <2>10, <3>3 DEF LeaveLoop, Undisturbed, End
    <3>4. QED
      BY <2>10, <3>1, <3>2, <3>3 DEF LeaveLoop
  <2>11. CASE Finalize(c)
    BY <2>11 DEF Finalize, End, Undisturbed
  <2>12. CASE AskAgain(c)
    BY <2>12 DEF AskAgain, AskProvider
  <2>13. CASE Pause(c)
    BY <2>13 DEF Pause
  <2>14. CASE Retry(c)
    BY <2>14 DEF Retry, AskProvider
  <2>15. CASE ApproveRejected(c)
    BY <2>15 DEF ApproveRejected, Approvable, End
  <2>16. CASE Approve(c)
    BY <2>16 DEF Approve, Approvable
  <2>17. CASE CancelDelegation(c)
    BY <2>17 DEF CancelDelegation
  <2>18. CASE TimerFires(c)
    BY <2>18 DEF TimerFires
  <2>19. CASE AuditFails(c)
    BY <2>19 DEF AuditFails
  <2>20. CASE FinalizeThrows(c)
    BY <2>20 DEF FinalizeThrows
  <2>21. CASE Spins(c)
    BY <2>21 DEF Spins
  <2>22. QED
    BY <1>1, <2>1, <2>2, <2>3, <2>4, <2>5, <2>6, <2>7, <2>8, <2>9, <2>10, <2>11, <2>12, <2>13, <2>14, <2>15, <2>16, <2>17, <2>18, <2>19, <2>20, <2>21 DEF CallStep, Continue
<1>2. CASE OwnerAnswers
  BY <1>2 DEF OwnerAnswers
<1>3. CASE UNCHANGED vars
  BY <1>3 DEF vars
<1>4. QED
  BY <1>1, <1>2, <1>3 DEF Next, CallStep

LEMMA AttemptsInductive == TypeOK /\ Placed /\ AttemptsLeft /\ [Next]_vars => AttemptsLeft'
<1> SUFFICES ASSUME TypeOK, Placed, AttemptsLeft, [Next]_vars PROVE AttemptsLeft'
  OBVIOUS
<1> USE DelegationAssumption
        DEF TypeOK, Placed, AttemptsLeft, Asking, Terminal, Goto, Become, recVars, history
<1>1. ASSUME NEW c \in Call, CallStep(c)
      PROVE  AttemptsLeft'
  <2>1. CASE DelegateBlocked(c)
    BY <2>1 DEF DelegateBlocked, End
  <2>2. CASE DelegateGated(c)
    BY <2>2 DEF DelegateGated
  <2>3. CASE Evaluated(c)
    BY <2>3 DEF Evaluated
  <2>4. CASE PolicyBlocks(c)
    BY <2>4 DEF PolicyBlocks, End
  <2>5. CASE PolicyAsksApproval(c)
    BY <2>5 DEF PolicyAsksApproval
  <2>6. CASE PolicyAllows(c)
    BY <2>6 DEF PolicyAllows
  <2>7. CASE Dispatch(c)
    BY <2>7 DEF Dispatch
  <2>8. CASE Start(c)
    BY <2>8 DEF Start, AskProvider
  <2>9. CASE ProviderSettles(c)
    BY <2>9 DEF ProviderSettles
  <2>10. CASE LeaveLoop(c)
    <3>1. CASE StopCancelled(c)
      BY <2>10, <3>1 DEF LeaveLoop, StopCancelled, IsCancelled, End
    <3>2. CASE StopTimedOut(c)
      BY <2>10, <3>2 DEF LeaveLoop, StopTimedOut, End
    <3>3. CASE Undisturbed(c) /\ answer[c] = "throws" /\ End(c, "FAILED", "FAILED")
      BY <2>10, <3>3 DEF LeaveLoop, Undisturbed, End
    <3>4. QED
      BY <2>10, <3>1, <3>2, <3>3 DEF LeaveLoop
  <2>11. CASE Finalize(c)
    BY <2>11 DEF Finalize, End, Undisturbed
  <2>12. CASE AskAgain(c)
    BY <2>12 DEF AskAgain, AskProvider
  <2>13. CASE Pause(c)
    BY <2>13 DEF Pause
  <2>14. CASE Retry(c)
    BY <2>14 DEF Retry, AskProvider
  <2>15. CASE ApproveRejected(c)
    BY <2>15 DEF ApproveRejected, Approvable, End
  <2>16. CASE Approve(c)
    BY <2>16 DEF Approve, Approvable
  <2>17. CASE CancelDelegation(c)
    BY <2>17 DEF CancelDelegation
  <2>18. CASE TimerFires(c)
    BY <2>18 DEF TimerFires
  <2>19. CASE AuditFails(c)
    BY <2>19 DEF AuditFails
  <2>20. CASE FinalizeThrows(c)
    BY <2>20 DEF FinalizeThrows
  <2>21. CASE Spins(c)
    BY <2>21 DEF Spins
  <2>22. QED
    BY <1>1, <2>1, <2>2, <2>3, <2>4, <2>5, <2>6, <2>7, <2>8, <2>9, <2>10, <2>11, <2>12, <2>13, <2>14, <2>15, <2>16, <2>17, <2>18, <2>19, <2>20, <2>21 DEF CallStep, Continue
<1>2. CASE OwnerAnswers
  BY <1>2 DEF OwnerAnswers
<1>3. CASE UNCHANGED vars
  BY <1>3 DEF vars
<1>4. QED
  BY <1>1, <1>2, <1>3 DEF Next, CallStep

LEMMA InitPlaced == Init => TypeOK /\ Placed /\ AttemptsLeft
<1> SUFFICES ASSUME Init PROVE TypeOK /\ Placed /\ AttemptsLeft
  OBVIOUS
<1>1. TypeOK
  BY DelegationAssumption DEF Init, TypeOK, Answer
<1>2. Placed /\ AttemptsLeft
  BY DelegationAssumption DEF Init, Placed, AttemptsLeft, Terminal, Asking
<1>3. QED
  BY <1>1, <1>2

\* The records, their calls and the approval row keep the shape TypeOK gives;
\* retryCount in particular never passes maxRetries + 1.
THEOREM TypeCorrect == Spec => []TypeOK
<1> QED
  BY InitPlaced, TypeInductive, PlacedInductive, AttemptsInductive, PTL DEF Spec
-----------------------------------------------------------------------------
(* OutcomeAgrees holds because of where a record can be in which state: a call *)
(* that stops because of a cancellation keeps its status, and a cancellation    *)
(* that is overwritten leaves REJECTED behind.                                 *)

LEMMA OutcomeInductive == TypeOK /\ Placed /\ OutcomeAgrees /\ [Next]_vars => OutcomeAgrees'
<1> SUFFICES ASSUME TypeOK, Placed, OutcomeAgrees, [Next]_vars PROVE OutcomeAgrees'
  OBVIOUS
<1> USE DEF TypeOK, Placed, OutcomeAgrees, Asking, Terminal, Goto, Become, recVars
<1>1. ASSUME NEW c \in Call, CallStep(c)
      PROVE  OutcomeAgrees'
  <2>1. CASE DelegateBlocked(c)
    BY <2>1 DEF DelegateBlocked, End
  <2>2. CASE DelegateGated(c)
    BY <2>2 DEF DelegateGated
  <2>3. CASE Evaluated(c)
    BY <2>3 DEF Evaluated
  <2>4. CASE PolicyBlocks(c)
    BY <2>4 DEF PolicyBlocks, End
  <2>5. CASE PolicyAsksApproval(c)
    BY <2>5 DEF PolicyAsksApproval
  <2>6. CASE PolicyAllows(c)
    BY <2>6 DEF PolicyAllows
  <2>7. CASE Dispatch(c)
    BY <2>7 DEF Dispatch
  <2>8. CASE Start(c)
    BY <2>8 DEF Start, AskProvider
  <2>9. CASE ProviderSettles(c)
    BY <2>9 DEF ProviderSettles
  <2>10. CASE LeaveLoop(c)
    <3>1. CASE StopCancelled(c)
      BY <2>10, <3>1 DEF LeaveLoop, StopCancelled, IsCancelled, End
    <3>2. CASE StopTimedOut(c)
      BY <2>10, <3>2 DEF LeaveLoop, StopTimedOut, End
    <3>3. CASE Undisturbed(c) /\ answer[c] = "throws" /\ End(c, "FAILED", "FAILED")
      BY <2>10, <3>3 DEF LeaveLoop, Undisturbed, End
    <3>4. QED
      BY <2>10, <3>1, <3>2, <3>3 DEF LeaveLoop
  <2>11. CASE Finalize(c)
    BY <2>11 DEF Finalize, End, Undisturbed
  <2>12. CASE AskAgain(c)
    BY <2>12 DEF AskAgain, AskProvider
  <2>13. CASE Pause(c)
    BY <2>13 DEF Pause
  <2>14. CASE Retry(c)
    BY <2>14 DEF Retry, AskProvider
  <2>15. CASE ApproveRejected(c)
    BY <2>15 DEF ApproveRejected, Approvable, End
  <2>16. CASE Approve(c)
    BY <2>16 DEF Approve, Approvable
  <2>17. CASE CancelDelegation(c)
    BY <2>17 DEF CancelDelegation
  <2>18. CASE TimerFires(c)
    BY <2>18 DEF TimerFires
  <2>19. CASE AuditFails(c)
    BY <2>19 DEF AuditFails
  <2>20. CASE FinalizeThrows(c)
    BY <2>20 DEF FinalizeThrows
  <2>21. CASE Spins(c)
    BY <2>21 DEF Spins
  <2>22. QED
    BY <1>1, <2>1, <2>2, <2>3, <2>4, <2>5, <2>6, <2>7, <2>8, <2>9, <2>10, <2>11, <2>12, <2>13, <2>14, <2>15, <2>16, <2>17, <2>18, <2>19, <2>20, <2>21 DEF CallStep, Continue
<1>2. CASE OwnerAnswers
  BY <1>2 DEF OwnerAnswers
<1>3. CASE UNCHANGED vars
  BY <1>3 DEF vars
<1>4. QED
  BY <1>1, <1>2, <1>3 DEF Next, CallStep

\* What a record finally says of itself is consistent, whatever was overwritten
\* on the way and whichever calls shared the id.
THEOREM OutcomesAgree == Spec => []OutcomeAgrees
<1>1. Init => OutcomeAgrees
  BY DEF Init, OutcomeAgrees
<1>2. QED
  BY <1>1, InitPlaced, TypeCorrect, PlacedInductive, OutcomeInductive, PTL DEF Spec
-----------------------------------------------------------------------------
(* ApprovedBeforeCall: the token is consumed before the call is authorized.   *)

PaidFirst ==
    \A c \in Call :
        level[c] = "APPROVAL_REQUIRED"
        /\ (pc[c] \in {"authorized", "dispatched"} \cup Asking \/ asked[c] > 0)
        => c \in paid

LEMMA PaidInductive == TypeOK /\ Placed /\ PaidFirst /\ [Next]_vars => PaidFirst'
<1> SUFFICES ASSUME TypeOK, Placed, PaidFirst, [Next]_vars PROVE PaidFirst'
  OBVIOUS
<1> USE DelegationAssumption
        DEF TypeOK, Placed, PaidFirst, Asking, Goto, Become, recVars, history
<1>1. ASSUME NEW c \in Call, CallStep(c)
      PROVE  PaidFirst'
  <2>1. CASE DelegateBlocked(c)
    BY <2>1 DEF DelegateBlocked, End
  <2>2. CASE DelegateGated(c)
    BY <2>2 DEF DelegateGated
  <2>3. CASE Evaluated(c)
    BY <2>3 DEF Evaluated
  <2>4. CASE PolicyBlocks(c)
    BY <2>4 DEF PolicyBlocks, End
  <2>5. CASE PolicyAsksApproval(c)
    BY <2>5 DEF PolicyAsksApproval
  <2>6. CASE PolicyAllows(c)
    BY <2>6 DEF PolicyAllows
  <2>7. CASE Dispatch(c)
    BY <2>7 DEF Dispatch
  <2>8. CASE Start(c)
    BY <2>8 DEF Start, AskProvider
  <2>9. CASE ProviderSettles(c)
    BY <2>9 DEF ProviderSettles
  <2>10. CASE LeaveLoop(c)
    <3>1. CASE StopCancelled(c)
      BY <2>10, <3>1 DEF LeaveLoop, StopCancelled, IsCancelled, End
    <3>2. CASE StopTimedOut(c)
      BY <2>10, <3>2 DEF LeaveLoop, StopTimedOut, End
    <3>3. CASE Undisturbed(c) /\ answer[c] = "throws" /\ End(c, "FAILED", "FAILED")
      BY <2>10, <3>3 DEF LeaveLoop, Undisturbed, End
    <3>4. QED
      BY <2>10, <3>1, <3>2, <3>3 DEF LeaveLoop
  <2>11. CASE Finalize(c)
    BY <2>11 DEF Finalize, End, Undisturbed
  <2>12. CASE AskAgain(c)
    BY <2>12 DEF AskAgain, AskProvider
  <2>13. CASE Pause(c)
    BY <2>13 DEF Pause
  <2>14. CASE Retry(c)
    BY <2>14 DEF Retry, AskProvider
  <2>15. CASE ApproveRejected(c)
    BY <2>15 DEF ApproveRejected, Approvable, End
  <2>16. CASE Approve(c)
    BY <2>16 DEF Approve, Approvable
  <2>17. CASE CancelDelegation(c)
    BY <2>17 DEF CancelDelegation
  <2>18. CASE TimerFires(c)
    BY <2>18 DEF TimerFires
  <2>19. CASE AuditFails(c)
    BY <2>19 DEF AuditFails
  <2>20. CASE FinalizeThrows(c)
    BY <2>20 DEF FinalizeThrows
  <2>21. CASE Spins(c)
    BY <2>21 DEF Spins
  <2>22. QED
    BY <1>1, <2>1, <2>2, <2>3, <2>4, <2>5, <2>6, <2>7, <2>8, <2>9, <2>10, <2>11, <2>12, <2>13, <2>14, <2>15, <2>16, <2>17, <2>18, <2>19, <2>20, <2>21 DEF CallStep, Continue
<1>2. CASE OwnerAnswers
  BY <1>2 DEF OwnerAnswers
<1>3. CASE UNCHANGED vars
  BY <1>3 DEF vars
<1>4. QED
  BY <1>1, <1>2, <1>3 DEF Next, CallStep

\* No delegation that needs the owner's approval reaches its provider without
\* having consumed a token of its own.
THEOREM ApprovedFirst == Spec => []ApprovedBeforeCall
<1>1. Init => PaidFirst
  BY DEF Init, PaidFirst, Asking
<1>2. PaidFirst => ApprovedBeforeCall
  BY DEF PaidFirst, ApprovedBeforeCall
<1>3. QED
  BY <1>1, <1>2, InitPlaced, TypeCorrect, PlacedInductive, PaidInductive, PTL DEF Spec
-----------------------------------------------------------------------------
LEMMA StepKeepsCancelled ==
    TypeOK /\ Placed /\ [Next]_vars =>
        \A d \in Call : status[d] = "CANCELLED" /\ asked[d] > 0 /\ current = d
                        => status'[d] = "CANCELLED"
<1> SUFFICES ASSUME TypeOK, Placed, [Next]_vars,
                    NEW d \in Call, status[d] = "CANCELLED", asked[d] > 0, current = d
             PROVE  status'[d] = "CANCELLED"
  OBVIOUS
<1> USE DelegationAssumption DEF TypeOK, Placed, Asking, Terminal, Goto, Become, recVars
<1>1. ASSUME NEW c \in Call, CallStep(c)
      PROVE  status'[d] = "CANCELLED"
  <2>1. CASE DelegateBlocked(c)
    BY <2>1 DEF DelegateBlocked, End
  <2>2. CASE DelegateGated(c)
    BY <2>2 DEF DelegateGated
  <2>3. CASE Evaluated(c)
    BY <2>3 DEF Evaluated
  <2>4. CASE PolicyBlocks(c)
    BY <2>4 DEF PolicyBlocks, End
  <2>5. CASE PolicyAsksApproval(c)
    BY <2>5 DEF PolicyAsksApproval
  <2>6. CASE PolicyAllows(c)
    BY <2>6 DEF PolicyAllows
  <2>7. CASE Dispatch(c)
    BY <2>7 DEF Dispatch
  <2>8. CASE Start(c)
    BY <2>8 DEF Start, AskProvider
  <2>9. CASE ProviderSettles(c)
    BY <2>9 DEF ProviderSettles
  <2>10. CASE LeaveLoop(c)
    <3>1. CASE StopCancelled(c)
      BY <2>10, <3>1 DEF LeaveLoop, StopCancelled, IsCancelled, End
    <3>2. CASE StopTimedOut(c)
      BY <2>10, <3>2 DEF LeaveLoop, StopTimedOut, IsCancelled, End
    <3>3. CASE Undisturbed(c) /\ answer[c] = "throws" /\ End(c, "FAILED", "FAILED")
      BY <2>10, <3>3 DEF LeaveLoop, Undisturbed, IsCancelled, End
    <3>4. QED
      BY <2>10, <3>1, <3>2, <3>3 DEF LeaveLoop
  <2>11. CASE Finalize(c)
    BY <2>11 DEF Finalize, End, Undisturbed, IsCancelled
  <2>12. CASE AskAgain(c)
    BY <2>12 DEF AskAgain, AskProvider
  <2>13. CASE Pause(c)
    BY <2>13 DEF Pause
  <2>14. CASE Retry(c)
    BY <2>14 DEF Retry, AskProvider
  <2>15. CASE ApproveRejected(c)
    BY <2>15 DEF ApproveRejected, Approvable, End
  <2>16. CASE Approve(c)
    BY <2>16 DEF Approve, Approvable
  <2>17. CASE CancelDelegation(c)
    BY <2>17 DEF CancelDelegation
  <2>18. CASE TimerFires(c)
    BY <2>18 DEF TimerFires
  <2>19. CASE AuditFails(c)
    BY <2>19 DEF AuditFails
  <2>20. CASE FinalizeThrows(c)
    BY <2>20 DEF FinalizeThrows
  <2>21. CASE Spins(c)
    BY <2>21 DEF Spins
  <2>22. QED
    BY <1>1, <2>1, <2>2, <2>3, <2>4, <2>5, <2>6, <2>7, <2>8, <2>9, <2>10, <2>11, <2>12, <2>13, <2>14, <2>15, <2>16, <2>17, <2>18, <2>19, <2>20, <2>21 DEF CallStep, Continue
<1>2. CASE OwnerAnswers
  BY <1>2 DEF OwnerAnswers
<1>3. CASE UNCHANGED vars
  BY <1>3 DEF vars
<1>4. QED
  BY <1>1, <1>2, <1>3 DEF Next, CallStep

\* Once the provider has been called, cancelDelegation has the last word.
THEOREM CancellationHolds == Spec => CancelledWhileAsking
<1>1. TypeOK /\ Placed /\ [Next]_vars =>
        [\A c \in Call : (status[c] = "CANCELLED" /\ asked[c] > 0 /\ current = c)
                         => status'[c] = "CANCELLED"]_vars
  BY StepKeepsCancelled
<1>2. QED
  BY <1>1, InitPlaced, TypeCorrect, PlacedInductive, PTL DEF Spec, CancelledWhileAsking
-----------------------------------------------------------------------------
(* Every call gets nearer to its end. *)

\* How far a call is from its return: three awaits for each attempt that is
\* left, before them the audits and the answer of the owner.
Distance(c) ==
    IF pc[c] = "returned"
    THEN IF status[c] = "APPROVAL_REQUIRED" THEN 3 * MaxRetries + 6 ELSE 0
    ELSE CASE pc[c] = "none" -> 3 * MaxRetries + 9
           [] pc[c] = "policy" -> 3 * MaxRetries + 8
           [] pc[c] = "created" -> 3 * MaxRetries + 7
           [] pc[c] = "authorized" -> 3 * MaxRetries + 5
           [] pc[c] = "dispatched" -> 3 * MaxRetries + 4
           [] pc[c] = "pause" -> 3 * (MaxRetries - attempts[c]) + 3
           [] pc[c] \in {"provider", "spinning"} -> 3 * (MaxRetries - attempts[c]) + 2
           [] pc[c] = "answered" -> 3 * (MaxRetries - attempts[c]) + 1

\* An empty answer is the one thing that is not counted: it is asked for again
\* while the timer has not fired and nobody has cancelled.
EmptyAnswer(c) == pc[c] = "answered" /\ answer[c] = "null" /\ Undisturbed(c)

\* Every other step of its own brings a call nearer to its end, and nothing
\* that other calls, the owner or the timer do sets it back.
Advances(c) ==
    /\ Distance(c) \in 0..(3 * MaxRetries + 9)
    /\ \/ Distance(c)' < Distance(c)
       \/ Distance(c)' = Distance(c) /\ ~Continue(c)
       \/ Continue(c) /\ EmptyAnswer(c)

\* A record that waits for the owner has no call under way.
Waiting == \A c \in Call : status[c] = "APPROVAL_REQUIRED" => pc[c] = "returned"

LEMMA WaitingInductive == TypeOK /\ Waiting /\ [Next]_vars => Waiting'
<1> SUFFICES ASSUME TypeOK, Waiting, [Next]_vars PROVE Waiting'
  OBVIOUS
<1> USE DelegationAssumption
        DEF TypeOK, Waiting, Terminal, Goto, Become, recVars, history
<1>1. ASSUME NEW c \in Call, CallStep(c)
      PROVE  Waiting'
  <2>1. CASE DelegateBlocked(c)
    BY <2>1 DEF DelegateBlocked, End
  <2>2. CASE DelegateGated(c)
    BY <2>2 DEF DelegateGated
  <2>3. CASE Evaluated(c)
    BY <2>3 DEF Evaluated
  <2>4. CASE PolicyBlocks(c)
    BY <2>4 DEF PolicyBlocks, End
  <2>5. CASE PolicyAsksApproval(c)
    BY <2>5 DEF PolicyAsksApproval
  <2>6. CASE PolicyAllows(c)
    BY <2>6 DEF PolicyAllows
  <2>7. CASE Dispatch(c)
    BY <2>7 DEF Dispatch
  <2>8. CASE Start(c)
    BY <2>8 DEF Start, AskProvider
  <2>9. CASE ProviderSettles(c)
    BY <2>9 DEF ProviderSettles
  <2>10. CASE LeaveLoop(c)
    <3>1. CASE StopCancelled(c)
      BY <2>10, <3>1 DEF LeaveLoop, StopCancelled, IsCancelled, End
    <3>2. CASE StopTimedOut(c)
      BY <2>10, <3>2 DEF LeaveLoop, StopTimedOut, End
    <3>3. CASE Undisturbed(c) /\ answer[c] = "throws" /\ End(c, "FAILED", "FAILED")
      BY <2>10, <3>3 DEF LeaveLoop, Undisturbed, End
    <3>4. QED
      BY <2>10, <3>1, <3>2, <3>3 DEF LeaveLoop
  <2>11. CASE Finalize(c)
    BY <2>11 DEF Finalize, End, Undisturbed
  <2>12. CASE AskAgain(c)
    BY <2>12 DEF AskAgain, AskProvider
  <2>13. CASE Pause(c)
    BY <2>13 DEF Pause
  <2>14. CASE Retry(c)
    BY <2>14 DEF Retry, AskProvider
  <2>15. CASE ApproveRejected(c)
    BY <2>15 DEF ApproveRejected, Approvable, End
  <2>16. CASE Approve(c)
    BY <2>16 DEF Approve, Approvable
  <2>17. CASE CancelDelegation(c)
    BY <2>17 DEF CancelDelegation
  <2>18. CASE TimerFires(c)
    BY <2>18 DEF TimerFires
  <2>19. CASE AuditFails(c)
    BY <2>19 DEF AuditFails
  <2>20. CASE FinalizeThrows(c)
    BY <2>20 DEF FinalizeThrows
  <2>21. CASE Spins(c)
    BY <2>21 DEF Spins
  <2>22. QED
    BY <1>1, <2>1, <2>2, <2>3, <2>4, <2>5, <2>6, <2>7, <2>8, <2>9, <2>10, <2>11, <2>12, <2>13, <2>14, <2>15, <2>16, <2>17, <2>18, <2>19, <2>20, <2>21 DEF CallStep, Continue
<1>2. CASE OwnerAnswers
  BY <1>2 DEF OwnerAnswers
<1>3. CASE UNCHANGED vars
  BY <1>3 DEF vars
<1>4. QED
  BY <1>1, <1>2, <1>3 DEF Next, CallStep

\* A step of its own.
LEMMA ContinueCloser ==
  ASSUME TypeOK, AttemptsLeft, Waiting, NEW c \in Call, Continue(c)
  PROVE  EmptyAnswer(c) \/ Distance(c)' < Distance(c)
<1>a. /\ MaxRetries \in Nat /\ attempts[c] \in 0..(MaxRetries + 1)
      /\ pc[c] # "returned" => attempts[c] <= MaxRetries
  BY DelegationAssumption DEF TypeOK, AttemptsLeft
<1> USE <1>a DEF TypeOK, Waiting, Distance, Terminal, Goto, Become, recVars, history
<1>1. CASE Evaluated(c)
  BY <1>1 DEF Evaluated
<1>2. CASE PolicyBlocks(c)
  BY <1>2 DEF PolicyBlocks, End
<1>3. CASE PolicyAsksApproval(c)
  BY <1>3 DEF PolicyAsksApproval
<1>4. CASE PolicyAllows(c)
  BY <1>4 DEF PolicyAllows
<1>5. CASE Dispatch(c)
  BY <1>5 DEF Dispatch
<1>6. CASE Start(c)
  BY <1>6 DEF Start, AskProvider
<1>7. CASE ProviderSettles(c)
  BY <1>7 DEF ProviderSettles
<1>8. CASE LeaveLoop(c)
  <2>1. CASE StopCancelled(c)
    BY <1>8, <2>1 DEF LeaveLoop, StopCancelled, IsCancelled, End
  <2>2. CASE StopTimedOut(c)
    BY <1>8, <2>2 DEF LeaveLoop, StopTimedOut, End
  <2>3. CASE Undisturbed(c) /\ answer[c] = "throws" /\ End(c, "FAILED", "FAILED")
    BY <1>8, <2>3 DEF LeaveLoop, Undisturbed, End
  <2>4. QED
    BY <1>8, <2>1, <2>2, <2>3 DEF LeaveLoop
<1>9. CASE Finalize(c)
  BY <1>9 DEF Finalize, End, Undisturbed
<1>10. CASE AskAgain(c)
  BY <1>10 DEF AskAgain, AskProvider, EmptyAnswer
<1>11. CASE Pause(c)
  BY <1>11 DEF Pause
<1>12. CASE Retry(c)
  BY <1>12 DEF Retry, AskProvider
<1>13. CASE FinalizeThrows(c)
  BY <1>13 DEF FinalizeThrows
<1>14. QED
  BY <1>1, <1>2, <1>3, <1>4, <1>5, <1>6, <1>7, <1>8, <1>9, <1>10, <1>11, <1>12, <1>13 DEF Continue

\* Its beginning, and what the owner, a user or the timer does to it.
LEMMA OtherwiseNotFarther ==
  ASSUME TypeOK, AttemptsLeft, Waiting, NEW c \in Call, CallStep(c), ~Continue(c)
  PROVE  Distance(c)' < Distance(c) \/ Distance(c)' = Distance(c)
<1>a. /\ MaxRetries \in Nat /\ attempts[c] \in 0..(MaxRetries + 1)
      /\ pc[c] # "returned" => attempts[c] <= MaxRetries
  BY DelegationAssumption DEF TypeOK, AttemptsLeft
<1> USE <1>a DEF TypeOK, Waiting, Distance, Terminal, Goto, Become, recVars, history
<1>1. CASE DelegateBlocked(c)
  BY <1>1 DEF DelegateBlocked, End
<1>2. CASE DelegateGated(c)
  BY <1>2 DEF DelegateGated
<1>3. CASE ApproveRejected(c)
  BY <1>3 DEF ApproveRejected, Approvable, End
<1>4. CASE Approve(c)
  BY <1>4 DEF Approve, Approvable
<1>5. CASE CancelDelegation(c)
  BY <1>5 DEF CancelDelegation
<1>6. CASE TimerFires(c)
  BY <1>6 DEF TimerFires
<1>7. CASE AuditFails(c)
  BY <1>7 DEF AuditFails
<1>8. CASE Spins(c)
  BY <1>8 DEF Spins
<1>9. QED
  BY <1>1, <1>2, <1>3, <1>4, <1>5, <1>6, <1>7, <1>8 DEF CallStep

\* What others do leaves a call where it is.
LEMMA OthersLeave ==
  ASSUME TypeOK, NEW c \in Call, NEW d \in Call, d # c, CallStep(d)
  PROVE  UNCHANGED <<pc[c], status[c], attempts[c]>>
<1> USE DEF TypeOK, Goto, Become, recVars
<1>1. CASE DelegateBlocked(d)
  BY <1>1 DEF DelegateBlocked, End
<1>2. CASE DelegateGated(d)
  BY <1>2 DEF DelegateGated
<1>3. CASE Evaluated(d)
  BY <1>3 DEF Evaluated
<1>4. CASE PolicyBlocks(d)
  BY <1>4 DEF PolicyBlocks, End
<1>5. CASE PolicyAsksApproval(d)
  BY <1>5 DEF PolicyAsksApproval
<1>6. CASE PolicyAllows(d)
  BY <1>6 DEF PolicyAllows
<1>7. CASE Dispatch(d)
  BY <1>7 DEF Dispatch
<1>8. CASE Start(d)
  BY <1>8 DEF Start, AskProvider
<1>9. CASE ProviderSettles(d)
  BY <1>9 DEF ProviderSettles
<1>10. CASE LeaveLoop(d)
  <2>1. CASE StopCancelled(d)
    BY <1>10, <2>1 DEF LeaveLoop, StopCancelled, IsCancelled, End
  <2>2. CASE StopTimedOut(d)
    BY <1>10, <2>2 DEF LeaveLoop, StopTimedOut, End
  <2>3. CASE Undisturbed(d) /\ answer[d] = "throws" /\ End(d, "FAILED", "FAILED")
    BY <1>10, <2>3 DEF LeaveLoop, Undisturbed, End
  <2>4. QED
    BY <1>10, <2>1, <2>2, <2>3 DEF LeaveLoop
<1>11. CASE Finalize(d)
  BY <1>11 DEF Finalize, End, Undisturbed
<1>12. CASE AskAgain(d)
  BY <1>12 DEF AskAgain, AskProvider
<1>13. CASE Pause(d)
  BY <1>13 DEF Pause
<1>14. CASE Retry(d)
  BY <1>14 DEF Retry, AskProvider
<1>15. CASE ApproveRejected(d)
  BY <1>15 DEF ApproveRejected, Approvable, End
<1>16. CASE Approve(d)
  BY <1>16 DEF Approve, Approvable
<1>17. CASE CancelDelegation(d)
  BY <1>17 DEF CancelDelegation
<1>18. CASE TimerFires(d)
  BY <1>18 DEF TimerFires
<1>19. CASE AuditFails(d)
  BY <1>19 DEF AuditFails
<1>20. CASE FinalizeThrows(d)
  BY <1>20 DEF FinalizeThrows
<1>21. CASE Spins(d)
  BY <1>21 DEF Spins
<1>22. QED
  BY <1>1, <1>2, <1>3, <1>4, <1>5, <1>6, <1>7, <1>8, <1>9, <1>10, <1>11, <1>12, <1>13, <1>14, <1>15, <1>16, <1>17, <1>18, <1>19, <1>20, <1>21 DEF CallStep, Continue

LEMMA DistanceTypes ==
  ASSUME TypeOK, AttemptsLeft, NEW c \in Call
  PROVE  Distance(c) \in 0..(3 * MaxRetries + 9)
<1>1. /\ MaxRetries \in Nat /\ attempts[c] \in 0..(MaxRetries + 1)
      /\ pc[c] # "returned" => attempts[c] <= MaxRetries
      /\ pc[c] \in {"none", "policy", "created", "authorized", "dispatched",
                    "provider", "spinning", "answered", "pause", "returned"}
  BY DelegationAssumption DEF TypeOK, AttemptsLeft
<1>2. CASE pc[c] \in Asking
  <2>1. PICK b \in {1, 2, 3} : Distance(c) = 3 * (MaxRetries - attempts[c]) + b
    BY <1>2 DEF Distance, Asking
  <2>2. attempts[c] \in Nat /\ attempts[c] <= MaxRetries /\ MaxRetries \in Nat
    BY <1>1, <1>2 DEF Asking
  <2>3. QED
    BY ONLY <2>1, <2>2
<1>3. CASE pc[c] \notin Asking
  <2>1. Distance(c) \in {0, 3 * MaxRetries + 4, 3 * MaxRetries + 5, 3 * MaxRetries + 6,
                         3 * MaxRetries + 7, 3 * MaxRetries + 8, 3 * MaxRetries + 9}
    BY <1>1, <1>3 DEF Distance, Asking
  <2>2. MaxRetries \in Nat
    BY <1>1
  <2>3. QED
    BY ONLY <2>1, <2>2
<1>4. QED
  BY <1>2, <1>3

\* Except for empty answers, which only the time between its first question and
\* its timer is left for, a call takes at most 3 * MaxRetries + 9 steps to its
\* end, the approval included, whatever calls with the same id do meanwhile.
THEOREM CallsAdvance == Spec => [][\A c \in Call : Advances(c)]_vars
<1>1. Init => Waiting
  BY DEF Init, Waiting
<1>2. TypeOK /\ AttemptsLeft /\ Waiting /\ [Next]_vars => [\A c \in Call : Advances(c)]_vars
  <2> SUFFICES ASSUME TypeOK, AttemptsLeft, Waiting, Next, NEW c \in Call PROVE Advances(c)
    OBVIOUS
  <2>a. Distance(c) \in 0..(3 * MaxRetries + 9) /\ Distance(c) \in Nat
    BY DistanceTypes, DelegationAssumption
  <2>1. ASSUME UNCHANGED <<pc[c], status[c], attempts[c]>> PROVE Distance(c)' = Distance(c)
    BY <2>1 DEF Distance
  <2>2. CASE Continue(c)
    BY <2>2, <2>a, ContinueCloser DEF Advances
  <2>3. CASE ~Continue(c)
    <3>1. Distance(c)' < Distance(c) \/ Distance(c)' = Distance(c)
      <4>1. CASE CallStep(c)
        BY <2>3, <4>1, OtherwiseNotFarther
      <4>2. ASSUME NEW d \in Call, d # c, CallStep(d) PROVE Distance(c)' = Distance(c)
        BY <2>1, <4>2, OthersLeave
      <4>3. ASSUME OwnerAnswers PROVE Distance(c)' = Distance(c)
        BY <2>1, <4>3 DEF OwnerAnswers, recVars
      <4>4. QED
        BY <4>1, <4>2, <4>3 DEF Next, CallStep
    <3>2. QED
      BY <2>3, <2>a, <3>1 DEF Advances
  <2>4. QED
    BY <2>2, <2>3
<1>3. QED
  BY <1>1, <1>2, InitPlaced, TypeCorrect, PlacedInductive, AttemptsInductive, WaitingInductive, PTL DEF Spec
=============================================================================
