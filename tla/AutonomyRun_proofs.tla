------------------------ MODULE AutonomyRun_proofs ------------------------
(***************************************************************************)
(* Proofs about AutonomyRun for any number of engines, copies and limits.  *)
(***************************************************************************)
EXTENDS AutonomyRun, FiniteSetTheorems, TLAPS

\* The disjuncts of Next that belong to one copy.
CopyStep(c) ==
    \/ \E e \in Engine : StartRun(c, e) \/ GetRun(c, e) \/ RecoverRead(c, e)
    \/ ExecuteIteration(c)
    \/ ApproveAndContinue(c) \/ ApprovalRejected(c)
    \/ Continue(c)
    \/ CancelRun(c)

LEMMA NextCases ==
  Next => \/ \E c \in Copy : CopyStep(c)
          \/ \E e \in Engine : Crash(e)
          \/ OwnerAnswers \/ LeaseExpires \/ RuntimeExceeded
BY DEF Next, CopyStep, Load

\* The names the actions use, so that the sets need not be expanded.
LEMMA LifecycleNames ==
  /\ "AUTHORIZED" \in Lifecycle
  /\ "RUNNING" \in Lifecycle
  /\ "VALIDATING" \in Lifecycle
  /\ "WAITING_FOR_APPROVAL" \in Lifecycle
  /\ "APPROVED" \in Lifecycle
  /\ "EXECUTING" \in Lifecycle
  /\ "VERIFYING" \in Lifecycle
  /\ "RETRYING" \in Lifecycle
  /\ "COMPLETED" \in Lifecycle
  /\ "FAILED" \in Lifecycle
  /\ "CANCELLED" \in Lifecycle
  /\ "TIMED_OUT" \in Lifecycle
  /\ "LIMIT_REACHED" \in Lifecycle
  /\ "BLOCKED" \in Lifecycle
BY DEF Lifecycle, Terminal

LEMMA PCNames ==
  /\ "idle" \in PC
  /\ "evaluate" \in PC
  /\ "begin" \in PC
  /\ "lookup" \in PC
  /\ "unknown" \in PC
  /\ "dispatch" \in PC
  /\ "mark" \in PC
  /\ "noagent" \in PC
  /\ "tool" \in PC
  /\ "result" \in PC
  /\ "verify" \in PC
  /\ "save" \in PC
  /\ "giveup" \in PC
  /\ "start" \in PC
  /\ "recover" \in PC
  /\ "reconcile" \in PC
BY DEF PC

\* A call past its lookup holds a step, and a run waits for approval only after
\* an iteration has begun: without this Lookup could read outside the table.
StepKnown ==
    /\ runStatus = "WAITING_FOR_APPROVAL" => stepIndex >= 1
    /\ \A c \in Copy :
          /\ status[c] = "WAITING_FOR_APPROVAL" => iterations[c] >= 1
          /\ pc[c] \in {"evaluate", "begin", "lookup"} => iterations[c] >= 1
          /\ pc[c] \in {"dispatch", "unknown", "mark", "noagent", "tool", "result", "verify"}
                => step[c] >= 1

\* What recovery puts into memory from a row, and the count of an iteration,
\* stay within the limits.
LEMMA RebuildTypes ==
  ASSUME StoreType, MemoryType, NEW c \in Copy, Rebuild(c), loaded' \subseteq Copy,
         engine' \in [Copy -> Engine \cup {NoEngine}]
  PROVE  MemoryType'
<1>1. 0 \in 0..MaxDelegations /\ 0 \in 0..MaxRetries
  BY AutonomyRunAssumption
<1>2. /\ runStatus \in Lifecycle \cup {"NONE"}
      /\ stepIndex \in 0..MaxIterations /\ stepIndex \in Nat
  BY AutonomyRunAssumption DEF StoreType
<1>3. QED
  BY <1>1, <1>2 DEF MemoryType, Rebuild

LEMMA CountedTypes ==
  ASSUME MemoryType, NEW c \in Copy, Counted(c)
  PROVE  iterations' \in [Copy -> 0..MaxIterations]
<1>1. iterations[c] + 1 \in 0..MaxIterations
  BY AutonomyRunAssumption DEF MemoryType, Counted
<1>2. QED
  BY <1>1 DEF MemoryType, Counted

LEMMA TypeInductive == TypeOK /\ StepKnown /\ [Next]_vars => TypeOK'
<1> SUFFICES ASSUME TypeOK, StepKnown, [Next]_vars PROVE TypeOK'
  OBVIOUS
<1>t. StoreType /\ MemoryType /\ CallType /\ EnvType
  BY DEF TypeOK
<1> USE <1>t, AutonomyRunAssumption
        DEF Step, CheckpointState, Verdict, Goto, Enter, rowVars, chkVars, memVars, frameVars, envVars
<1>1. ASSUME NEW c \in Copy, CopyStep(c)
      PROVE  TypeOK'
  <2>1. CASE \E e \in Engine : StartRun(c, e)
    <3>1. StoreType'
      BY <2>1, LifecycleNames DEF StoreType, StartRun, MakeCopy, Live, SaveRow
    <3>2. MemoryType'
      BY <2>1, LifecycleNames DEF MemoryType, StartRun, MakeCopy, Live
    <3>3. CallType' /\ EnvType'
      BY <2>1, PCNames DEF CallType, EnvType, StartRun, MakeCopy, Live
    <3>4. QED
      BY <3>1, <3>2, <3>3 DEF TypeOK
  <2>2. CASE \E e \in Engine : GetRun(c, e)
    <3>1. StoreType'
      BY <2>2, LifecycleNames DEF StoreType, MemoryType, CallType, GetRun, MakeCopy, Live, Rebuild
    <3>2. MemoryType'
      BY <2>2, RebuildTypes DEF GetRun, MakeCopy, Live, MemoryType
    <3>3. CallType'
      BY <2>2, PCNames DEF StoreType, MemoryType, CallType, GetRun, MakeCopy, Live, Rebuild
    <3>4. EnvType'
      BY <2>2, AutonomyRunAssumption DEF CallType, EnvType, GetRun, MakeCopy, Live, Rebuild
    <3>5. QED
      BY <3>1, <3>2, <3>3, <3>4 DEF TypeOK
  <2>3. CASE \E e \in Engine : RecoverRead(c, e)
    <3>1. StoreType'
      BY <2>3, LifecycleNames DEF StoreType, MemoryType, CallType, RecoverRead, MakeCopy, Live,
         Rebuild
    <3>2. MemoryType'
      BY <2>3, RebuildTypes DEF RecoverRead, MakeCopy, Live, MemoryType
    <3>3. CallType'
      BY <2>3, PCNames DEF StoreType, MemoryType, CallType, RecoverRead, MakeCopy, Live, Rebuild
    <3>4. EnvType'
      BY <2>3, AutonomyRunAssumption DEF CallType, EnvType, RecoverRead, MakeCopy, Live, Rebuild
    <3>5. QED
      BY <3>1, <3>2, <3>3, <3>4 DEF TypeOK
  <2>4. CASE IterationLeaseLost(c)
    <3>1. StoreType'
      BY <2>4, LifecycleNames DEF StoreType, MemoryType, IterationLeaseLost, SaveRow
    <3>2. MemoryType' /\ EnvType'
      BY <2>4, LifecycleNames DEF MemoryType, EnvType, IterationLeaseLost
    <3>3. CallType'
      BY <2>4, PCNames DEF CallType, IterationLeaseLost
    <3>4. QED
      BY <3>1, <3>2, <3>3 DEF TypeOK
  <2>4g. CASE GiveUp(c)
    BY <2>4g, LifecycleNames, PCNames DEF TypeOK, StoreType, MemoryType, CallType,
       EnvType, GiveUp, SaveRow, Callable
  <2>5. CASE IterationTimedOut(c)
    BY <2>5, LifecycleNames, PCNames DEF TypeOK, StoreType, MemoryType, CallType,
       EnvType, IterationTimedOut, Iterating, CheckLease, AcquireLease, Callable
  <2>6. CASE IterationLimit(c)
    BY <2>6, LifecycleNames, PCNames DEF TypeOK, StoreType, MemoryType, CallType,
       EnvType, IterationLimit, Iterating, CheckLease, AcquireLease, Callable
  <2>7. CASE IterationRevoked(c)
    BY <2>7, LifecycleNames, PCNames DEF TypeOK, StoreType, MemoryType, CallType,
       EnvType, IterationRevoked, Iterating, CheckLease, AcquireLease, Callable
  <2>8. CASE IterationThrows(c)
    <3>1. StoreType'
      BY <2>8, LifecycleNames DEF StoreType, MemoryType, CallType, IterationThrows,
         Counted, Iterating, CheckLease, AcquireLease, Callable
    <3>2. MemoryType'
      BY <2>8, CountedTypes DEF MemoryType, IterationThrows
    <3>3. CallType'
      BY <2>8, PCNames DEF StoreType, MemoryType, CallType, IterationThrows, Counted,
         Iterating, CheckLease, AcquireLease, Callable
    <3>4. EnvType'
      BY <2>8, AutonomyRunAssumption DEF CallType, EnvType, IterationThrows, Counted,
         Iterating, CheckLease, AcquireLease, Callable
    <3>5. QED
      BY <3>1, <3>2, <3>3, <3>4 DEF TypeOK
  <2>9. CASE ProposalInvalid(c)
    <3>1. StoreType'
      BY <2>9, LifecycleNames DEF StoreType, MemoryType, CallType, ProposalInvalid,
         Counted, Iterating, CheckLease, AcquireLease, Callable
    <3>2. MemoryType'
      <4>1. status' \in [Copy -> Lifecycle \cup {"NONE"}]
        BY <2>9, LifecycleNames DEF MemoryType, ProposalInvalid
      <4>2. QED
        BY <2>9, <4>1, CountedTypes DEF MemoryType, ProposalInvalid
    <3>3. CallType'
      BY <2>9, PCNames DEF StoreType, MemoryType, CallType, ProposalInvalid, Counted,
         Iterating, CheckLease, AcquireLease, Callable
    <3>4. EnvType'
      BY <2>9, AutonomyRunAssumption DEF CallType, EnvType, ProposalInvalid, Counted,
         Iterating, CheckLease, AcquireLease, Callable
    <3>5. QED
      BY <3>1, <3>2, <3>3, <3>4 DEF TypeOK
  <2>10. CASE DelegationLimit(c)
    <3>1. StoreType'
      BY <2>10, LifecycleNames DEF StoreType, MemoryType, CallType, DelegationLimit,
         Counted, Iterating, CheckLease, AcquireLease, Callable
    <3>2. MemoryType'
      <4>1. status' \in [Copy -> Lifecycle \cup {"NONE"}]
        BY <2>10, LifecycleNames DEF MemoryType, DelegationLimit
      <4>2. QED
        BY <2>10, <4>1, CountedTypes DEF MemoryType, DelegationLimit
    <3>3. CallType'
      BY <2>10, PCNames DEF StoreType, MemoryType, CallType, DelegationLimit,
         Counted, Iterating, CheckLease, AcquireLease, Callable
    <3>4. EnvType'
      BY <2>10, AutonomyRunAssumption DEF CallType, EnvType, DelegationLimit,
         Counted, Iterating, CheckLease, AcquireLease, Callable
    <3>5. QED
      BY <3>1, <3>2, <3>3, <3>4 DEF TypeOK
  <2>11. CASE ProposalValid(c)
    <3>1. StoreType'
      BY <2>11, LifecycleNames DEF StoreType, MemoryType, CallType, ProposalValid,
         Counted, Iterating, CheckLease, AcquireLease, Callable
    <3>2. MemoryType'
      <4>1. delegations' \in [Copy -> 0..MaxDelegations]
        BY <2>11 DEF MemoryType, ProposalValid
      <4>2. status' \in [Copy -> Lifecycle \cup {"NONE"}]
        BY <2>11, LifecycleNames DEF MemoryType, ProposalValid
      <4>3. QED
        BY <2>11, <4>1, <4>2, CountedTypes DEF MemoryType, ProposalValid
    <3>3. CallType'
      BY <2>11, PCNames DEF StoreType, MemoryType, CallType, ProposalValid, Counted,
         Iterating, CheckLease, AcquireLease, Callable
    <3>4. EnvType'
      BY <2>11, AutonomyRunAssumption DEF CallType, EnvType, ProposalValid, Counted,
         Iterating, CheckLease, AcquireLease, Callable
    <3>5. QED
      BY <3>1, <3>2, <3>3, <3>4 DEF TypeOK
  <2>12. CASE ApproveAndContinue(c)
    BY <2>12, LifecycleNames, PCNames DEF TypeOK, StoreType, MemoryType, CallType,
       EnvType, ApproveAndContinue
  <2>13. CASE ApprovalRejected(c)
    BY <2>13, LifecycleNames, PCNames DEF TypeOK, StoreType, MemoryType, CallType,
       EnvType, ApprovalRejected
  <2>14. CASE StartLease(c)
    <3>1. StoreType'
      <4>1. engine[c] \in Engine \cup {NoEngine}
        BY DEF MemoryType
      <4>2. UNCHANGED chkVars /\ (AcquireLease(c) \/ UNCHANGED rowVars)
        BY <2>14 DEF StartLease
      <4>3. QED
        BY <4>1, <4>2 DEF StoreType, AcquireLease
    <3>2. MemoryType'
      BY <2>14, LifecycleNames DEF MemoryType, StartLease, AcquireLease
    <3>3. CallType'
      BY <2>14, PCNames DEF CallType, StartLease, AcquireLease
    <3>4. EnvType'
      BY <2>14 DEF EnvType, StartLease, AcquireLease
    <3>5. QED
      BY <3>1, <3>2, <3>3, <3>4 DEF TypeOK
  <2>15. CASE EvaluatedBlocked(c)
    BY <2>15, LifecycleNames, PCNames DEF TypeOK, StoreType, MemoryType, CallType,
       EnvType, EvaluatedBlocked
  <2>16. CASE EvaluatedApproval(c)
    <3>1. StoreType'
      BY <2>16, LifecycleNames DEF StoreType, EvaluatedApproval
    <3>2. MemoryType'
      BY <2>16, LifecycleNames DEF MemoryType, EvaluatedApproval
    <3>3. CallType' /\ EnvType'
      BY <2>16, PCNames DEF CallType, EnvType, EvaluatedApproval
    <3>4. QED
      BY <3>1, <3>2, <3>3 DEF TypeOK
  <2>17. CASE EvaluatedSafe(c)
    BY <2>17, LifecycleNames, PCNames DEF TypeOK, StoreType, MemoryType, CallType,
       EnvType, EvaluatedSafe
  <2>18. CASE ActionLimit(c)
    <3>1. StoreType'
      BY <2>18, LifecycleNames DEF StoreType, ActionLimit
    <3>2. MemoryType'
      BY <2>18, LifecycleNames DEF MemoryType, ActionLimit
    <3>3. CallType' /\ EnvType'
      BY <2>18, PCNames DEF CallType, EnvType, ActionLimit
    <3>4. QED
      BY <3>1, <3>2, <3>3 DEF TypeOK
  <2>19. CASE ActionLeaseLost(c)
    <3>1. StoreType'
      BY <2>19, LifecycleNames DEF StoreType, MemoryType, ActionLeaseLost, SaveRow
    <3>2. MemoryType'
      BY <2>19, LifecycleNames DEF MemoryType, ActionLeaseLost
    <3>3. CallType' /\ EnvType'
      BY <2>19, PCNames DEF CallType, EnvType, ActionLeaseLost
    <3>4. QED
      BY <3>1, <3>2, <3>3 DEF TypeOK
  <2>20. CASE ActionLease(c)
    BY <2>20, LifecycleNames, PCNames DEF TypeOK, StoreType, MemoryType, CallType,
       EnvType, ActionLease, CheckLease, AcquireLease
  <2>21. CASE Lookup(c)
    <3>1. iterations[c] \in Step
      BY <2>21 DEF MemoryType, StepKnown, Lookup
    <3>2. pc' \in [Copy -> PC]
      BY <2>21, PCNames DEF CallType, Lookup
    <3>3. step' \in [Copy -> 0..MaxIterations] /\ verdict' \in [Copy -> Verdict \cup {"REFUSED"}]
      BY <2>21, <3>1 DEF StoreType, CallType, Lookup
    <3>4. StoreType' /\ MemoryType' /\ EnvType'
      BY <2>21 DEF StoreType, MemoryType, EnvType, Lookup
    <3>5. QED
      BY <3>2, <3>3, <3>4 DEF TypeOK, CallType
  <2>22. CASE FoundInFlight(c)
    <3>1. StoreType'
      BY <2>22, LifecycleNames DEF StoreType, FoundInFlight, SetCkpt
    <3>2. MemoryType'
      BY <2>22, LifecycleNames DEF MemoryType, FoundInFlight, SetCkpt
    <3>3. CallType' /\ EnvType'
      BY <2>22, PCNames DEF CallType, EnvType, FoundInFlight, SetCkpt
    <3>4. QED
      BY <3>1, <3>2, <3>3 DEF TypeOK
  <2>23. CASE Dispatch(c)
    BY <2>23, LifecycleNames, PCNames DEF TypeOK, StoreType, MemoryType, CallType,
       EnvType, Dispatch, SetCkpt
  <2>24. CASE MarkExecuting(c)
    <3>1. pc' \in [Copy -> PC]
      BY <2>24, PCNames DEF CallType, MarkExecuting
    <3>2. status' \in [Copy -> Lifecycle \cup {"NONE"}]
      BY <2>24, LifecycleNames DEF MemoryType, MarkExecuting
    <3>3. actions' \in [Copy -> Nat]
      BY <2>24 DEF MemoryType, MarkExecuting
    <3>4. StoreType'
      BY <2>24, LifecycleNames DEF StoreType, MemoryType, CallType, MarkExecuting, SaveRow
    <3>5. EnvType'
      BY <2>24 DEF EnvType, MarkExecuting
    <3>6. QED
      BY <2>24, <3>1, <3>2, <3>3, <3>4, <3>5 DEF TypeOK, MemoryType, CallType, MarkExecuting
  <2>25. CASE NoAgent(c)
    BY <2>25, LifecycleNames, PCNames DEF TypeOK, StoreType, MemoryType, CallType,
       EnvType, NoAgent, SetCkpt
  <2>26. CASE ToolRuns(c)
    <3>0. step[c] \in Step
      BY <2>26 DEF CallType, StepKnown, ToolRuns
    <3>1. effects' \in [Step -> Nat]
      BY <2>26, <3>0 DEF EnvType, ToolRuns
    <3>2. approval' \in {approval, "CONSUMED"}
      BY <2>26, Zenon DEF ToolRuns
    <3>3. EnvType'
      BY <2>26, <3>1, <3>2 DEF EnvType, ToolRuns
    <3>4. StoreType' /\ MemoryType'
      BY <2>26 DEF StoreType, MemoryType, ToolRuns
    <3>5. CallType'
      BY <2>26, PCNames DEF CallType, ToolRuns
    <3>6. QED
      BY <3>3, <3>4, <3>5 DEF TypeOK
  <2>27. CASE ToolRefused(c)
    BY <2>27, LifecycleNames, PCNames DEF TypeOK, StoreType, MemoryType, CallType,
       EnvType, ToolRefused
  <2>28. CASE RecordResult(c)
    <3>1. StoreType'
      <4>1. UNCHANGED rowVars
        BY <2>28 DEF RecordResult
      <4>2. ckpt' \in [Step -> CheckpointState]
        BY <2>28 DEF StoreType, RecordResult, SetCkpt
      <4>3. output' \in [Step -> Verdict]
        BY <2>28 DEF StoreType, CallType, RecordResult
      <4>4. QED
        BY <2>28, <4>1, <4>2, <4>3 DEF StoreType, RecordResult, SetCkpt
    <3>2. MemoryType'
      BY <2>28, LifecycleNames DEF StoreType, MemoryType, RecordResult, SetCkpt
    <3>3. CallType'
      BY <2>28, PCNames DEF StoreType, MemoryType, CallType, RecordResult, SetCkpt
    <3>4. EnvType'
      BY <2>28, AutonomyRunAssumption DEF CallType, EnvType, RecordResult, SetCkpt
    <3>5. QED
      BY <3>1, <3>2, <3>3, <3>4 DEF TypeOK
  <2>29. CASE VerifyThrows(c)
    BY <2>29, LifecycleNames, PCNames DEF TypeOK, StoreType, MemoryType, CallType,
       EnvType, VerifyThrows
  <2>30. CASE VerifyInconclusive(c)
    BY <2>30, LifecycleNames, PCNames DEF TypeOK, StoreType, MemoryType, CallType,
       EnvType, VerifyInconclusive, Verifying, SetCkpt
  <2>31. CASE VerifyFailed(c)
    <3>1. retries' \in [Copy -> 0..MaxRetries]
      BY <2>31 DEF MemoryType, VerifyFailed
    <3>2. MemoryType'
      BY <2>31, <3>1, LifecycleNames DEF MemoryType, VerifyFailed
    <3>3. StoreType' /\ CallType' /\ EnvType'
      BY <2>31, PCNames DEF StoreType, CallType, EnvType, VerifyFailed
    <3>4. QED
      BY <3>2, <3>3 DEF TypeOK
  <2>32. CASE VerifySucceeds(c)
    <3>1. StoreType'
      BY <2>32, LifecycleNames DEF StoreType, MemoryType, CallType, VerifySucceeds,
         Verifying, SetCkpt
    <3>2. MemoryType'
      BY <2>32, LifecycleNames DEF StoreType, MemoryType, VerifySucceeds, Verifying,
         SetCkpt
    <3>3. CallType'
      BY <2>32, PCNames DEF StoreType, MemoryType, CallType, VerifySucceeds,
         Verifying, SetCkpt
    <3>4. EnvType'
      BY <2>32, AutonomyRunAssumption DEF CallType, EnvType, VerifySucceeds,
         Verifying, SetCkpt
    <3>5. QED
      BY <3>1, <3>2, <3>3, <3>4 DEF TypeOK
  <2>33. CASE SaveRun(c)
    BY <2>33, LifecycleNames, PCNames DEF TypeOK, StoreType, MemoryType, CallType,
       EnvType, SaveRun, SaveRow
  <2>34. CASE RecoverRevoked(c)
    BY <2>34, LifecycleNames, PCNames DEF TypeOK, StoreType, MemoryType, CallType,
       EnvType, RecoverRevoked, SaveRow
  <2>35. CASE RecoverLease(c)
    <3>1. StoreType'
      BY <2>35, LifecycleNames DEF StoreType, MemoryType, RecoverLease, AcquireLease
    <3>2. MemoryType'
      BY <2>35, LifecycleNames DEF MemoryType, RecoverLease, AcquireLease
    <3>3. CallType' /\ EnvType'
      BY <2>35, PCNames DEF CallType, EnvType, RecoverLease, AcquireLease
    <3>4. QED
      BY <3>1, <3>2, <3>3 DEF TypeOK
  <2>36. CASE RecoverInFlight(c)
    BY <2>36, LifecycleNames, PCNames DEF TypeOK, StoreType, MemoryType, CallType,
       EnvType, RecoverInFlight, SetCkpt
  <2>37. CASE RecoverResume(c)
    <3>1. StoreType'
      BY <2>37, LifecycleNames DEF StoreType, RecoverResume
    <3>2. MemoryType'
      BY <2>37, LifecycleNames DEF MemoryType, RecoverResume
    <3>3. CallType'
      BY <2>37, PCNames DEF CallType, RecoverResume
    <3>4. EnvType'
      BY <2>37 DEF EnvType, RecoverResume
    <3>5. QED
      BY <3>1, <3>2, <3>3, <3>4 DEF TypeOK
  <2>38. CASE CancelRun(c)
    BY <2>38, LifecycleNames, PCNames DEF TypeOK, StoreType, MemoryType, CallType,
       EnvType, CancelRun, SaveRow, Callable
  <2>40. QED
    BY <1>1, <2>1, <2>2, <2>3, <2>4, <2>4g, <2>5, <2>6, <2>7, <2>8, <2>9, <2>10, <2>11,
       <2>12, <2>13, <2>14, <2>15, <2>16, <2>17, <2>18, <2>19, <2>20, <2>21, <2>22,
       <2>23, <2>24, <2>25, <2>26, <2>27, <2>28, <2>29, <2>30, <2>31, <2>32, <2>33,
       <2>34, <2>35, <2>36, <2>37, <2>38 DEF CopyStep, ExecuteIteration,
       Continue
<1>1c. ASSUME NEW e \in Engine, Crash(e)
      PROVE  TypeOK'
  <2>1. MemoryType'
    BY <1>1c DEF MemoryType, Crash
  <2>2. StoreType' /\ CallType' /\ EnvType'
    BY <1>1c, PCNames DEF StoreType, CallType, EnvType, Crash
  <2>3. QED
    BY <2>1, <2>2 DEF TypeOK
<1>2. CASE OwnerAnswers
  BY <1>2 DEF TypeOK, StoreType, MemoryType, CallType, EnvType, OwnerAnswers
<1>3. CASE LeaseExpires
  BY <1>3 DEF TypeOK, StoreType, MemoryType, CallType, EnvType, LeaseExpires
<1>4. CASE RuntimeExceeded
  BY <1>4 DEF TypeOK, StoreType, MemoryType, CallType, EnvType, RuntimeExceeded
<1>5. CASE UNCHANGED vars
  BY <1>5 DEF TypeOK, StoreType, MemoryType, CallType, EnvType, vars
<1>6. QED
  BY <1>1, <1>1c, <1>2, <1>3, <1>4, <1>5, NextCases

LEMMA StepKnownInductive == TypeOK /\ StepKnown /\ [Next]_vars => StepKnown'
<1> SUFFICES ASSUME TypeOK, StepKnown, [Next]_vars PROVE StepKnown'
  OBVIOUS
<1>t. StoreType /\ MemoryType /\ CallType
  BY DEF TypeOK
<1> USE <1>t, AutonomyRunAssumption
        DEF StepKnown, Goto, Enter, rowVars, memVars, frameVars
<1>1. ASSUME NEW c \in Copy, CopyStep(c)
      PROVE  StepKnown'
  <2>1. CASE \E e \in Engine : StartRun(c, e)
    BY <2>1 DEF StoreType, MemoryType, CallType, StartRun, MakeCopy, Live, SaveRow
  <2>2. CASE \E e \in Engine : GetRun(c, e)
    BY <2>2 DEF StoreType, MemoryType, CallType, GetRun, MakeCopy, Live, Rebuild
  <2>3. CASE \E e \in Engine : RecoverRead(c, e)
    BY <2>3 DEF StoreType, MemoryType, CallType, RecoverRead, MakeCopy, Live, Rebuild
  <2>4. CASE IterationLeaseLost(c)
    BY <2>4 DEF StoreType, MemoryType, CallType, IterationLeaseLost, SaveRow,
       Callable
  <2>4g. CASE GiveUp(c)
    BY <2>4g DEF StoreType, MemoryType, CallType, GiveUp, SaveRow,
       Callable
  <2>5. CASE IterationTimedOut(c)
    BY <2>5 DEF StoreType, MemoryType, CallType, IterationTimedOut, Iterating,
       CheckLease, AcquireLease, Callable
  <2>6. CASE IterationLimit(c)
    BY <2>6 DEF StoreType, MemoryType, CallType, IterationLimit, Iterating,
       CheckLease, AcquireLease, Callable
  <2>7. CASE IterationRevoked(c)
    BY <2>7 DEF StoreType, MemoryType, CallType, IterationRevoked, Iterating,
       CheckLease, AcquireLease, Callable
  <2>8. CASE IterationThrows(c)
    BY <2>8 DEF StoreType, MemoryType, CallType, IterationThrows, Counted, Iterating,
       CheckLease, AcquireLease, Callable
  <2>9. CASE ProposalInvalid(c)
    BY <2>9 DEF StoreType, MemoryType, CallType, ProposalInvalid, Counted, Iterating,
       CheckLease, AcquireLease, Callable
  <2>10. CASE DelegationLimit(c)
    BY <2>10 DEF StoreType, MemoryType, CallType, DelegationLimit, Counted,
       Iterating, CheckLease, AcquireLease, Callable
  <2>11. CASE ProposalValid(c)
    BY <2>11 DEF StoreType, MemoryType, CallType, ProposalValid, Counted, Iterating,
       CheckLease, AcquireLease, Callable
  <2>12. CASE ApproveAndContinue(c)
    BY <2>12 DEF StoreType, MemoryType, CallType, ApproveAndContinue
  <2>13. CASE ApprovalRejected(c)
    BY <2>13 DEF StoreType, MemoryType, CallType, ApprovalRejected
  <2>14. CASE StartLease(c)
    BY <2>14 DEF StoreType, MemoryType, CallType, StartLease, AcquireLease
  <2>15. CASE EvaluatedBlocked(c)
    BY <2>15 DEF StoreType, MemoryType, CallType, EvaluatedBlocked
  <2>16. CASE EvaluatedApproval(c)
    BY <2>16 DEF StoreType, MemoryType, CallType, EvaluatedApproval
  <2>17. CASE EvaluatedSafe(c)
    BY <2>17 DEF StoreType, MemoryType, CallType, EvaluatedSafe
  <2>18. CASE ActionLimit(c)
    BY <2>18 DEF StoreType, MemoryType, CallType, ActionLimit
  <2>19. CASE ActionLeaseLost(c)
    BY <2>19 DEF StoreType, MemoryType, CallType, ActionLeaseLost, SaveRow
  <2>20. CASE ActionLease(c)
    BY <2>20 DEF StoreType, MemoryType, CallType, ActionLease, CheckLease,
       AcquireLease
  <2>21. CASE Lookup(c)
    BY <2>21 DEF StoreType, MemoryType, CallType, Lookup
  <2>22. CASE FoundInFlight(c)
    BY <2>22 DEF StoreType, MemoryType, CallType, FoundInFlight, SetCkpt
  <2>23. CASE Dispatch(c)
    BY <2>23 DEF StoreType, MemoryType, CallType, Dispatch, SetCkpt
  <2>24. CASE MarkExecuting(c)
    BY <2>24 DEF StoreType, MemoryType, CallType, MarkExecuting, SaveRow
  <2>25. CASE NoAgent(c)
    BY <2>25 DEF StoreType, MemoryType, CallType, NoAgent, SetCkpt
  <2>26. CASE ToolRuns(c)
    BY <2>26 DEF StoreType, MemoryType, CallType, ToolRuns
  <2>27. CASE ToolRefused(c)
    BY <2>27 DEF StoreType, MemoryType, CallType, ToolRefused
  <2>28. CASE RecordResult(c)
    BY <2>28 DEF StoreType, MemoryType, CallType, RecordResult, SetCkpt
  <2>29. CASE VerifyThrows(c)
    BY <2>29 DEF StoreType, MemoryType, CallType, VerifyThrows
  <2>30. CASE VerifyInconclusive(c)
    BY <2>30 DEF StoreType, MemoryType, CallType, VerifyInconclusive, Verifying,
       SetCkpt
  <2>31. CASE VerifyFailed(c)
    BY <2>31 DEF StoreType, MemoryType, CallType, VerifyFailed, Verifying
  <2>32. CASE VerifySucceeds(c)
    BY <2>32 DEF StoreType, MemoryType, CallType, VerifySucceeds, Verifying, SetCkpt
  <2>33. CASE SaveRun(c)
    BY <2>33 DEF StoreType, MemoryType, CallType, SaveRun, SaveRow
  <2>34. CASE RecoverRevoked(c)
    BY <2>34 DEF StoreType, MemoryType, CallType, RecoverRevoked, SaveRow
  <2>35. CASE RecoverLease(c)
    BY <2>35 DEF StoreType, MemoryType, CallType, RecoverLease, AcquireLease
  <2>36. CASE RecoverInFlight(c)
    BY <2>36 DEF StoreType, MemoryType, CallType, RecoverInFlight, SetCkpt
  <2>37. CASE RecoverResume(c)
    BY <2>37 DEF StoreType, MemoryType, CallType, RecoverResume
  <2>38. CASE CancelRun(c)
    BY <2>38 DEF StoreType, MemoryType, CallType, CancelRun, SaveRow, Callable
  <2>40. QED
    BY <1>1, <2>1, <2>2, <2>3, <2>4, <2>4g, <2>5, <2>6, <2>7, <2>8, <2>9, <2>10, <2>11,
       <2>12, <2>13, <2>14, <2>15, <2>16, <2>17, <2>18, <2>19, <2>20, <2>21, <2>22,
       <2>23, <2>24, <2>25, <2>26, <2>27, <2>28, <2>29, <2>30, <2>31, <2>32, <2>33,
       <2>34, <2>35, <2>36, <2>37, <2>38 DEF CopyStep, ExecuteIteration,
       Continue
<1>1c. ASSUME NEW e \in Engine, Crash(e)
      PROVE  StepKnown'
  BY <1>1c DEF StoreType, MemoryType, CallType, Crash
<1>2. CASE OwnerAnswers
  BY <1>2 DEF OwnerAnswers
<1>3. CASE LeaseExpires
  BY <1>3 DEF LeaseExpires
<1>4. CASE RuntimeExceeded
  BY <1>4 DEF RuntimeExceeded
<1>5. CASE UNCHANGED vars
  BY <1>5 DEF vars
<1>6. QED
  BY <1>1, <1>1c, <1>2, <1>3, <1>4, <1>5, NextCases

LEMMA InitTyped == Init => TypeOK /\ StepKnown
BY AutonomyRunAssumption, LifecycleNames, PCNames
   DEF Init, TypeOK, StoreType, MemoryType, CallType, EnvType, Step, CheckpointState,
       Verdict, StepKnown

\* The state of the store, of the engines and of their calls is always of the
\* shape TypeOK gives it.
THEOREM TypeCorrect == Spec => []TypeOK
BY InitTyped, TypeInductive, StepKnownInductive, PTL DEF Spec

-----------------------------------------------------------------------------
(* The write-ahead rule and the truth of VERIFIED. *)

\* Every tool run has its checkpoint, and a call between its checkpoint and its
\* end holds the step of that checkpoint.
Recorded ==
    /\ \A k \in Step : effects[k] > 0 => ckpt[k] # "NONE"
    /\ \A c \in Copy :
          pc[c] \in {"unknown", "mark", "noagent", "tool", "result", "verify"}
          => step[c] \in Step /\ ckpt[step[c]] # "NONE"

LEMMA RecordedInductive == TypeOK /\ StepKnown /\ Recorded /\ [Next]_vars => Recorded'
<1> SUFFICES ASSUME TypeOK, StepKnown, Recorded, [Next]_vars PROVE Recorded'
  OBVIOUS
<1>t. StoreType /\ MemoryType /\ CallType /\ EnvType
  BY DEF TypeOK
<1> USE <1>t, AutonomyRunAssumption
        DEF Recorded, Goto, rowVars, chkVars, frameVars, envVars
<1>1. ASSUME NEW c \in Copy, CopyStep(c)
      PROVE  Recorded'
  <2>1. CASE \E e \in Engine : StartRun(c, e)
    BY <2>1 DEF StoreType, CallType, StartRun, MakeCopy, Live, SaveRow
  <2>2. CASE \E e \in Engine : GetRun(c, e)
    BY <2>2 DEF StoreType, CallType, GetRun, MakeCopy, Live, Rebuild
  <2>3. CASE \E e \in Engine : RecoverRead(c, e)
    BY <2>3 DEF StoreType, CallType, RecoverRead, MakeCopy, Live, Rebuild
  <2>4. CASE IterationLeaseLost(c)
    BY <2>4 DEF StoreType, CallType, IterationLeaseLost, SaveRow, Callable
  <2>4g. CASE GiveUp(c)
    BY <2>4g DEF StoreType, CallType, GiveUp, SaveRow, Callable
  <2>5. CASE IterationTimedOut(c)
    BY <2>5 DEF StoreType, CallType, IterationTimedOut, Iterating, CheckLease,
       AcquireLease, Callable
  <2>6. CASE IterationLimit(c)
    BY <2>6 DEF StoreType, CallType, IterationLimit, Iterating, CheckLease,
       AcquireLease, Callable
  <2>7. CASE IterationRevoked(c)
    BY <2>7 DEF StoreType, CallType, IterationRevoked, Iterating, CheckLease,
       AcquireLease, Callable
  <2>8. CASE IterationThrows(c)
    BY <2>8 DEF StoreType, CallType, IterationThrows, Counted, Iterating, CheckLease,
       AcquireLease, Callable
  <2>9. CASE ProposalInvalid(c)
    BY <2>9 DEF StoreType, CallType, ProposalInvalid, Counted, Iterating, CheckLease,
       AcquireLease, Callable
  <2>10. CASE DelegationLimit(c)
    BY <2>10 DEF StoreType, CallType, DelegationLimit, Counted, Iterating,
       CheckLease, AcquireLease, Callable
  <2>11. CASE ProposalValid(c)
    BY <2>11 DEF StoreType, CallType, ProposalValid, Counted, Iterating, CheckLease,
       AcquireLease, Callable
  <2>12. CASE ApproveAndContinue(c)
    BY <2>12 DEF StoreType, CallType, ApproveAndContinue
  <2>13. CASE ApprovalRejected(c)
    BY <2>13 DEF StoreType, CallType, ApprovalRejected
  <2>14. CASE StartLease(c)
    BY <2>14 DEF StoreType, CallType, StartLease, AcquireLease
  <2>15. CASE EvaluatedBlocked(c)
    BY <2>15 DEF StoreType, CallType, EvaluatedBlocked
  <2>16. CASE EvaluatedApproval(c)
    BY <2>16 DEF StoreType, CallType, EvaluatedApproval
  <2>17. CASE EvaluatedSafe(c)
    BY <2>17 DEF StoreType, CallType, EvaluatedSafe
  <2>18. CASE ActionLimit(c)
    BY <2>18 DEF StoreType, CallType, ActionLimit
  <2>19. CASE ActionLeaseLost(c)
    BY <2>19 DEF StoreType, CallType, ActionLeaseLost, SaveRow
  <2>20. CASE ActionLease(c)
    BY <2>20 DEF StoreType, CallType, ActionLease, CheckLease, AcquireLease
  <2>21. CASE Lookup(c)
    <3>1. iterations[c] \in Step
      BY <2>21 DEF MemoryType, CallType, StepKnown, Lookup, Step
    <3>2. QED
      BY <2>21, <3>1 DEF StoreType, CallType, EnvType, Lookup
  <2>22. CASE FoundInFlight(c)
    BY <2>22 DEF StoreType, CallType, FoundInFlight, SetCkpt
  <2>23. CASE Dispatch(c)
    <3>1. step[c] \in Step
      BY <2>23 DEF MemoryType, CallType, StepKnown, Dispatch, Step
    <3>2. QED
      BY <2>23, <3>1 DEF StoreType, CallType, EnvType, Dispatch, SetCkpt
  <2>24. CASE MarkExecuting(c)
    <3>1. step[c] \in Step
      BY <2>24 DEF MemoryType, CallType, StepKnown, MarkExecuting, Step
    <3>2. QED
      BY <2>24, <3>1 DEF StoreType, CallType, EnvType, MarkExecuting
  <2>25. CASE NoAgent(c)
    BY <2>25 DEF StoreType, CallType, NoAgent, SetCkpt
  <2>26. CASE ToolRuns(c)
    BY <2>26 DEF StoreType, CallType, ToolRuns
  <2>27. CASE ToolRefused(c)
    BY <2>27 DEF StoreType, CallType, ToolRefused
  <2>28. CASE RecordResult(c)
    BY <2>28 DEF StoreType, CallType, RecordResult, SetCkpt
  <2>29. CASE VerifyThrows(c)
    BY <2>29 DEF StoreType, CallType, VerifyThrows
  <2>30. CASE VerifyInconclusive(c)
    BY <2>30 DEF StoreType, CallType, VerifyInconclusive, Verifying, SetCkpt
  <2>31. CASE VerifyFailed(c)
    BY <2>31 DEF StoreType, CallType, VerifyFailed, Verifying
  <2>32. CASE VerifySucceeds(c)
    BY <2>32 DEF StoreType, CallType, VerifySucceeds, Verifying, SetCkpt
  <2>33. CASE SaveRun(c)
    BY <2>33 DEF StoreType, CallType, SaveRun, SaveRow
  <2>34. CASE RecoverRevoked(c)
    BY <2>34 DEF StoreType, CallType, RecoverRevoked, SaveRow
  <2>35. CASE RecoverLease(c)
    BY <2>35 DEF StoreType, CallType, RecoverLease, AcquireLease
  <2>36. CASE RecoverInFlight(c)
    BY <2>36 DEF StoreType, CallType, RecoverInFlight, SetCkpt
  <2>37. CASE RecoverResume(c)
    BY <2>37 DEF StoreType, CallType, RecoverResume
  <2>38. CASE CancelRun(c)
    BY <2>38 DEF StoreType, CallType, CancelRun, SaveRow, Callable
  <2>40. QED
    BY <1>1, <2>1, <2>2, <2>3, <2>4, <2>4g, <2>5, <2>6, <2>7, <2>8, <2>9, <2>10, <2>11,
       <2>12, <2>13, <2>14, <2>15, <2>16, <2>17, <2>18, <2>19, <2>20, <2>21, <2>22,
       <2>23, <2>24, <2>25, <2>26, <2>27, <2>28, <2>29, <2>30, <2>31, <2>32, <2>33,
       <2>34, <2>35, <2>36, <2>37, <2>38 DEF CopyStep, ExecuteIteration,
       Continue
<1>1c. ASSUME NEW e \in Engine, Crash(e)
      PROVE  Recorded'
  BY <1>1c DEF StoreType, CallType, Crash
<1>2. CASE OwnerAnswers
  BY <1>2 DEF OwnerAnswers
<1>3. CASE LeaseExpires
  BY <1>3 DEF LeaseExpires
<1>4. CASE RuntimeExceeded
  BY <1>4 DEF RuntimeExceeded
<1>5. CASE UNCHANGED vars
  BY <1>5 DEF vars
<1>6. QED
  BY <1>1, <1>1c, <1>2, <1>3, <1>4, <1>5, NextCases

\* A success on record was produced by a tool run, and so was the success a call
\* is about to verify.
Evidence ==
    /\ \A k \in Step : ckpt[k] = "VERIFIED" \/ output[k] = "SUCCESS" => effects[k] > 0
    /\ \A c \in Copy :
          pc[c] \in {"tool", "result", "verify"}
          => step[c] \in Step /\ (pc[c] # "tool" /\ verdict[c] = "SUCCESS" => effects[step[c]] > 0)

LEMMA EvidenceInductive == TypeOK /\ StepKnown /\ Evidence /\ [Next]_vars => Evidence'
<1> SUFFICES ASSUME TypeOK, StepKnown, Evidence, [Next]_vars PROVE Evidence'
  OBVIOUS
<1>t. StoreType /\ MemoryType /\ CallType /\ EnvType
  BY DEF TypeOK
<1> USE <1>t, AutonomyRunAssumption
        DEF Evidence, Goto, rowVars, chkVars, frameVars, envVars
<1>1. ASSUME NEW c \in Copy, CopyStep(c)
      PROVE  Evidence'
  <2>1. CASE \E e \in Engine : StartRun(c, e)
    BY <2>1 DEF StoreType, CallType, EnvType, StartRun, MakeCopy, Live, SaveRow
  <2>2. CASE \E e \in Engine : GetRun(c, e)
    BY <2>2 DEF StoreType, CallType, EnvType, GetRun, MakeCopy, Live, Rebuild
  <2>3. CASE \E e \in Engine : RecoverRead(c, e)
    BY <2>3 DEF StoreType, CallType, EnvType, RecoverRead, MakeCopy, Live, Rebuild
  <2>4. CASE IterationLeaseLost(c)
    BY <2>4 DEF StoreType, CallType, EnvType, IterationLeaseLost, SaveRow, Callable
  <2>4g. CASE GiveUp(c)
    BY <2>4g DEF StoreType, CallType, EnvType, GiveUp, SaveRow, Callable
  <2>5. CASE IterationTimedOut(c)
    BY <2>5 DEF StoreType, CallType, EnvType, IterationTimedOut, Iterating,
       CheckLease, AcquireLease, Callable
  <2>6. CASE IterationLimit(c)
    BY <2>6 DEF StoreType, CallType, EnvType, IterationLimit, Iterating, CheckLease,
       AcquireLease, Callable
  <2>7. CASE IterationRevoked(c)
    BY <2>7 DEF StoreType, CallType, EnvType, IterationRevoked, Iterating,
       CheckLease, AcquireLease, Callable
  <2>8. CASE IterationThrows(c)
    BY <2>8 DEF StoreType, CallType, EnvType, IterationThrows, Counted, Iterating,
       CheckLease, AcquireLease, Callable
  <2>9. CASE ProposalInvalid(c)
    BY <2>9 DEF StoreType, CallType, EnvType, ProposalInvalid, Counted, Iterating,
       CheckLease, AcquireLease, Callable
  <2>10. CASE DelegationLimit(c)
    BY <2>10 DEF StoreType, CallType, EnvType, DelegationLimit, Counted, Iterating,
       CheckLease, AcquireLease, Callable
  <2>11. CASE ProposalValid(c)
    BY <2>11 DEF StoreType, CallType, EnvType, ProposalValid, Counted, Iterating,
       CheckLease, AcquireLease, Callable
  <2>12. CASE ApproveAndContinue(c)
    BY <2>12 DEF StoreType, CallType, EnvType, ApproveAndContinue
  <2>13. CASE ApprovalRejected(c)
    BY <2>13 DEF StoreType, CallType, EnvType, ApprovalRejected
  <2>14. CASE StartLease(c)
    BY <2>14 DEF StoreType, CallType, EnvType, StartLease, AcquireLease
  <2>15. CASE EvaluatedBlocked(c)
    BY <2>15 DEF StoreType, CallType, EnvType, EvaluatedBlocked
  <2>16. CASE EvaluatedApproval(c)
    BY <2>16 DEF StoreType, CallType, EnvType, EvaluatedApproval
  <2>17. CASE EvaluatedSafe(c)
    BY <2>17 DEF StoreType, CallType, EnvType, EvaluatedSafe
  <2>18. CASE ActionLimit(c)
    BY <2>18 DEF StoreType, CallType, EnvType, ActionLimit
  <2>19. CASE ActionLeaseLost(c)
    BY <2>19 DEF StoreType, CallType, EnvType, ActionLeaseLost, SaveRow
  <2>20. CASE ActionLease(c)
    BY <2>20 DEF StoreType, CallType, EnvType, ActionLease, CheckLease, AcquireLease
  <2>21. CASE Lookup(c)
    <3>1. iterations[c] \in Step
      BY <2>21 DEF MemoryType, CallType, StepKnown, Lookup, Step
    <3>2. QED
      BY <2>21, <3>1 DEF StoreType, CallType, EnvType, Lookup
  <2>22. CASE FoundInFlight(c)
    BY <2>22 DEF StoreType, CallType, EnvType, FoundInFlight, SetCkpt
  <2>23. CASE Dispatch(c)
    <3>1. step[c] \in Step
      BY <2>23 DEF MemoryType, CallType, StepKnown, Dispatch, Step
    <3>2. QED
      BY <2>23, <3>1 DEF StoreType, CallType, EnvType, Dispatch, SetCkpt
  <2>24. CASE MarkExecuting(c)
    <3>1. step[c] \in Step
      BY <2>24 DEF MemoryType, CallType, StepKnown, MarkExecuting, Step
    <3>2. QED
      BY <2>24, <3>1 DEF StoreType, CallType, EnvType, MarkExecuting
  <2>25. CASE NoAgent(c)
    BY <2>25 DEF StoreType, CallType, EnvType, NoAgent, SetCkpt
  <2>26. CASE ToolRuns(c)
    BY <2>26 DEF StoreType, CallType, EnvType, ToolRuns
  <2>27. CASE ToolRefused(c)
    BY <2>27 DEF StoreType, CallType, EnvType, ToolRefused
  <2>28. CASE RecordResult(c)
    BY <2>28 DEF StoreType, CallType, EnvType, RecordResult, SetCkpt
  <2>29. CASE VerifyThrows(c)
    BY <2>29 DEF StoreType, CallType, EnvType, VerifyThrows
  <2>30. CASE VerifyInconclusive(c)
    BY <2>30 DEF StoreType, CallType, EnvType, VerifyInconclusive, Verifying, SetCkpt
  <2>31. CASE VerifyFailed(c)
    BY <2>31 DEF StoreType, CallType, EnvType, VerifyFailed, Verifying
  <2>32. CASE VerifySucceeds(c)
    BY <2>32 DEF StoreType, CallType, EnvType, VerifySucceeds, Verifying, SetCkpt
  <2>33. CASE SaveRun(c)
    BY <2>33 DEF StoreType, CallType, EnvType, SaveRun, SaveRow
  <2>34. CASE RecoverRevoked(c)
    BY <2>34 DEF StoreType, CallType, EnvType, RecoverRevoked, SaveRow
  <2>35. CASE RecoverLease(c)
    BY <2>35 DEF StoreType, CallType, EnvType, RecoverLease, AcquireLease
  <2>36. CASE RecoverInFlight(c)
    BY <2>36 DEF StoreType, CallType, EnvType, RecoverInFlight, SetCkpt
  <2>37. CASE RecoverResume(c)
    BY <2>37 DEF StoreType, CallType, EnvType, RecoverResume
  <2>38. CASE CancelRun(c)
    BY <2>38 DEF StoreType, CallType, EnvType, CancelRun, SaveRow, Callable
  <2>40. QED
    BY <1>1, <2>1, <2>2, <2>3, <2>4, <2>4g, <2>5, <2>6, <2>7, <2>8, <2>9, <2>10, <2>11,
       <2>12, <2>13, <2>14, <2>15, <2>16, <2>17, <2>18, <2>19, <2>20, <2>21, <2>22,
       <2>23, <2>24, <2>25, <2>26, <2>27, <2>28, <2>29, <2>30, <2>31, <2>32, <2>33,
       <2>34, <2>35, <2>36, <2>37, <2>38 DEF CopyStep, ExecuteIteration,
       Continue
<1>1c. ASSUME NEW e \in Engine, Crash(e)
      PROVE  Evidence'
  BY <1>1c DEF StoreType, CallType, EnvType, Crash
<1>2. CASE OwnerAnswers
  BY <1>2 DEF OwnerAnswers
<1>3. CASE LeaseExpires
  BY <1>3 DEF LeaseExpires
<1>4. CASE RuntimeExceeded
  BY <1>4 DEF RuntimeExceeded
<1>5. CASE UNCHANGED vars
  BY <1>5 DEF vars
<1>6. QED
  BY <1>1, <1>1c, <1>2, <1>3, <1>4, <1>5, NextCases

\* However many engines share the store and wherever their processes die, no
\* tool runs before its checkpoint is in the database.
THEOREM WriteAheadHolds == Spec => []WriteAhead
<1>1. Init => TypeOK /\ StepKnown
  BY InitTyped
<1>2. Init => Recorded
  BY AutonomyRunAssumption DEF Init, Recorded
<1>3. TypeOK /\ StepKnown /\ Recorded => WriteAhead
  BY DEF TypeOK, CallType, StepKnown, Recorded, WriteAhead, Step
<1>4. QED
  BY <1>1, <1>2, <1>3, TypeInductive, StepKnownInductive, RecordedInductive, PTL DEF Spec

\* No step is VERIFIED whose tool never ran, whatever crashed, was reused or was
\* recovered in between.
THEOREM VerifiedRan == Spec => []VerifiedMeansRan
<1>1. Init => TypeOK /\ StepKnown
  BY InitTyped
<1>2. Init => Evidence
  BY AutonomyRunAssumption DEF Init, Evidence
<1>3. Evidence => VerifiedMeansRan
  BY DEF Evidence, VerifiedMeansRan
<1>4. QED
  BY <1>1, <1>2, <1>3, TypeInductive, StepKnownInductive, EvidenceInductive, PTL DEF Spec

-----------------------------------------------------------------------------
(* The lifecycle table as a lock. *)

\* From where a waiting call leaves the run, no iteration is accepted.
LEMMA NoReentry ==
  \A s \in {"VALIDATING", "EXECUTING"} \cup Terminal : ~MayEnter(s, "RUNNING")
BY DEF MayEnter, CanGo, Allowed, Lifecycle, Terminal

\* While a call waits, the run is where the call left it, or ended.
Held ==
    \A c \in Copy :
        /\ pc[c] = "evaluate" => status[c] \in {"VALIDATING"} \cup Terminal
        /\ pc[c] \in {"tool", "result"} => status[c] \in {"EXECUTING"} \cup Terminal

LEMMA HeldInductive == TypeOK /\ Held /\ [Next]_vars => Held'
<1> SUFFICES ASSUME TypeOK, Held, [Next]_vars PROVE Held'
  OBVIOUS
<1>t. MemoryType /\ CallType
  BY DEF TypeOK
<1>e. {"TIMED_OUT", "LIMIT_REACHED", "BLOCKED", "CANCELLED"} \subseteq Terminal
  BY DEF Terminal
<1> USE <1>t, <1>e, NoReentry
        DEF Held, Goto, Enter, AtAwait, memVars, frameVars
<1>1. ASSUME NEW c \in Copy, CopyStep(c)
      PROVE  Held'
  <2>1. CASE \E e \in Engine : StartRun(c, e)
    BY <2>1 DEF MemoryType, CallType, StartRun, MakeCopy, Live, SaveRow
  <2>2. CASE \E e \in Engine : GetRun(c, e)
    BY <2>2 DEF MemoryType, CallType, GetRun, MakeCopy, Live, Rebuild
  <2>3. CASE \E e \in Engine : RecoverRead(c, e)
    BY <2>3 DEF MemoryType, CallType, RecoverRead, MakeCopy, Live, Rebuild
  <2>4. CASE IterationLeaseLost(c)
    BY <2>4 DEF MemoryType, CallType, IterationLeaseLost, SaveRow, Callable
  <2>4g. CASE GiveUp(c)
    BY <2>4g DEF MemoryType, CallType, GiveUp, SaveRow, Callable
  <2>5. CASE IterationTimedOut(c)
    BY <2>5 DEF MemoryType, CallType, IterationTimedOut, Iterating, CheckLease,
       AcquireLease, Callable
  <2>6. CASE IterationLimit(c)
    BY <2>6 DEF MemoryType, CallType, IterationLimit, Iterating, CheckLease,
       AcquireLease, Callable
  <2>7. CASE IterationRevoked(c)
    BY <2>7 DEF MemoryType, CallType, IterationRevoked, Iterating, CheckLease,
       AcquireLease, Callable
  <2>8. CASE IterationThrows(c)
    BY <2>8 DEF MemoryType, CallType, IterationThrows, Counted, Iterating,
       CheckLease, AcquireLease, Callable
  <2>9. CASE ProposalInvalid(c)
    BY <2>9 DEF MemoryType, CallType, ProposalInvalid, Counted, Iterating,
       CheckLease, AcquireLease, Callable
  <2>10. CASE DelegationLimit(c)
    BY <2>10 DEF MemoryType, CallType, DelegationLimit, Counted, Iterating,
       CheckLease, AcquireLease, Callable
  <2>11. CASE ProposalValid(c)
    BY <2>11 DEF MemoryType, CallType, ProposalValid, Counted, Iterating, CheckLease,
       AcquireLease, Callable
  <2>12. CASE ApproveAndContinue(c)
    BY <2>12 DEF MemoryType, CallType, ApproveAndContinue
  <2>13. CASE ApprovalRejected(c)
    BY <2>13 DEF MemoryType, CallType, ApprovalRejected
  <2>14. CASE StartLease(c)
    BY <2>14 DEF MemoryType, CallType, StartLease, AcquireLease
  <2>15. CASE EvaluatedBlocked(c)
    BY <2>15 DEF MemoryType, CallType, EvaluatedBlocked
  <2>16. CASE EvaluatedApproval(c)
    BY <2>16 DEF MemoryType, CallType, EvaluatedApproval
  <2>17. CASE EvaluatedSafe(c)
    BY <2>17 DEF MemoryType, CallType, EvaluatedSafe
  <2>18. CASE ActionLimit(c)
    BY <2>18 DEF MemoryType, CallType, ActionLimit
  <2>19. CASE ActionLeaseLost(c)
    BY <2>19 DEF MemoryType, CallType, ActionLeaseLost, SaveRow
  <2>20. CASE ActionLease(c)
    BY <2>20 DEF MemoryType, CallType, ActionLease, CheckLease, AcquireLease
  <2>21. CASE Lookup(c)
    BY <2>21 DEF MemoryType, CallType, Lookup
  <2>22. CASE FoundInFlight(c)
    BY <2>22 DEF MemoryType, CallType, FoundInFlight, SetCkpt
  <2>23. CASE Dispatch(c)
    BY <2>23 DEF MemoryType, CallType, Dispatch, SetCkpt
  <2>24. CASE MarkExecuting(c)
    BY <2>24 DEF MemoryType, CallType, MarkExecuting, SaveRow
  <2>25. CASE NoAgent(c)
    BY <2>25 DEF MemoryType, CallType, NoAgent, SetCkpt
  <2>26. CASE ToolRuns(c)
    BY <2>26 DEF MemoryType, CallType, ToolRuns
  <2>27. CASE ToolRefused(c)
    BY <2>27 DEF MemoryType, CallType, ToolRefused
  <2>28. CASE RecordResult(c)
    BY <2>28 DEF MemoryType, CallType, RecordResult, SetCkpt
  <2>29. CASE VerifyThrows(c)
    BY <2>29 DEF MemoryType, CallType, VerifyThrows
  <2>30. CASE VerifyInconclusive(c)
    BY <2>30 DEF MemoryType, CallType, VerifyInconclusive, Verifying, SetCkpt
  <2>31. CASE VerifyFailed(c)
    BY <2>31 DEF MemoryType, CallType, VerifyFailed, Verifying
  <2>32. CASE VerifySucceeds(c)
    BY <2>32 DEF MemoryType, CallType, VerifySucceeds, Verifying, SetCkpt
  <2>33. CASE SaveRun(c)
    BY <2>33 DEF MemoryType, CallType, SaveRun, SaveRow
  <2>34. CASE RecoverRevoked(c)
    BY <2>34 DEF MemoryType, CallType, RecoverRevoked, SaveRow
  <2>35. CASE RecoverLease(c)
    BY <2>35 DEF MemoryType, CallType, RecoverLease, AcquireLease
  <2>36. CASE RecoverInFlight(c)
    BY <2>36 DEF MemoryType, CallType, RecoverInFlight, SetCkpt
  <2>37. CASE RecoverResume(c)
    BY <2>37 DEF MemoryType, CallType, RecoverResume
  <2>38. CASE CancelRun(c)
    BY <2>38 DEF MemoryType, CallType, CancelRun, SaveRow, Callable
  <2>40. QED
    BY <1>1, <2>1, <2>2, <2>3, <2>4, <2>4g, <2>5, <2>6, <2>7, <2>8, <2>9, <2>10, <2>11,
       <2>12, <2>13, <2>14, <2>15, <2>16, <2>17, <2>18, <2>19, <2>20, <2>21, <2>22,
       <2>23, <2>24, <2>25, <2>26, <2>27, <2>28, <2>29, <2>30, <2>31, <2>32, <2>33,
       <2>34, <2>35, <2>36, <2>37, <2>38 DEF CopyStep, ExecuteIteration,
       Continue
<1>1c. ASSUME NEW e \in Engine, Crash(e)
      PROVE  Held'
  BY <1>1c DEF MemoryType, CallType, Crash
<1>2. CASE OwnerAnswers
  BY <1>2 DEF OwnerAnswers
<1>3. CASE LeaseExpires
  BY <1>3 DEF LeaseExpires
<1>4. CASE RuntimeExceeded
  BY <1>4 DEF RuntimeExceeded
<1>5. CASE UNCHANGED vars
  BY <1>5 DEF vars
<1>6. QED
  BY <1>1, <1>1c, <1>2, <1>3, <1>4, <1>5, NextCases

\* At most one call on a copy is past its synchronous prefix: the lifecycle
\* table, the engine's only lock, keeps every other call out.
THEOREM OneFramePerCopy == Spec => []OneFrame
<1>1. Init => TypeOK /\ StepKnown
  BY InitTyped
<1>2. Init => Held
  BY DEF Init, Held
<1>3. Held => OneFrame
  BY NoReentry DEF Held, OneFrame, Terminal
<1>4. QED
  BY <1>1, <1>2, <1>3, TypeInductive, StepKnownInductive, HeldInductive, PTL DEF Spec
-----------------------------------------------------------------------------
(* The end of a run in the memory of a copy. *)

\* Two stretches of a call that rely on nobody else having come in between.
Taken ==
    \A c \in Copy :
        /\ pc[c] = "noagent" => status[c] = "EXECUTING"
        /\ pc[c] \in {"recover", "reconcile"} => c \notin loaded

\* Nobody does.
LEMMA TakenInductive == TypeOK /\ Taken /\ [Next]_vars => Taken'
<1> SUFFICES ASSUME TypeOK, Taken, [Next]_vars PROVE Taken'
  OBVIOUS
<1>t. MemoryType /\ CallType
  BY DEF TypeOK
<1> USE <1>t DEF Taken, Goto, Enter, AtAwait, memVars, frameVars
<1>1. ASSUME NEW c \in Copy, CopyStep(c)
      PROVE  Taken'
  <2>1. CASE \E e \in Engine : StartRun(c, e)
    BY <2>1 DEF MemoryType, CallType, StartRun, MakeCopy, Live, SaveRow
  <2>2. CASE \E e \in Engine : GetRun(c, e)
    BY <2>2 DEF MemoryType, CallType, GetRun, MakeCopy, Live, Rebuild
  <2>3. CASE \E e \in Engine : RecoverRead(c, e)
    BY <2>3 DEF MemoryType, CallType, RecoverRead, MakeCopy, Live, Rebuild
  <2>4. CASE IterationLeaseLost(c)
    BY <2>4 DEF MemoryType, CallType, IterationLeaseLost, SaveRow, Callable
  <2>4g. CASE GiveUp(c)
    BY <2>4g DEF MemoryType, CallType, GiveUp, SaveRow, Callable
  <2>5. CASE IterationTimedOut(c)
    BY <2>5 DEF MemoryType, CallType, IterationTimedOut, Iterating, CheckLease,
       AcquireLease, Callable
  <2>6. CASE IterationLimit(c)
    BY <2>6 DEF MemoryType, CallType, IterationLimit, Iterating, CheckLease,
       AcquireLease, Callable
  <2>7. CASE IterationRevoked(c)
    BY <2>7 DEF MemoryType, CallType, IterationRevoked, Iterating, CheckLease,
       AcquireLease, Callable
  <2>8. CASE IterationThrows(c)
    BY <2>8 DEF MemoryType, CallType, IterationThrows, Counted, Iterating,
       CheckLease, AcquireLease, Callable
  <2>9. CASE ProposalInvalid(c)
    BY <2>9 DEF MemoryType, CallType, ProposalInvalid, Counted, Iterating,
       CheckLease, AcquireLease, Callable
  <2>10. CASE DelegationLimit(c)
    BY <2>10 DEF MemoryType, CallType, DelegationLimit, Counted, Iterating,
       CheckLease, AcquireLease, Callable
  <2>11. CASE ProposalValid(c)
    BY <2>11 DEF MemoryType, CallType, ProposalValid, Counted, Iterating, CheckLease,
       AcquireLease, Callable
  <2>12. CASE ApproveAndContinue(c)
    BY <2>12 DEF MemoryType, CallType, ApproveAndContinue
  <2>13. CASE ApprovalRejected(c)
    BY <2>13 DEF MemoryType, CallType, ApprovalRejected
  <2>14. CASE StartLease(c)
    BY <2>14 DEF MemoryType, CallType, StartLease, AcquireLease
  <2>15. CASE EvaluatedBlocked(c)
    BY <2>15 DEF MemoryType, CallType, EvaluatedBlocked
  <2>16. CASE EvaluatedApproval(c)
    BY <2>16 DEF MemoryType, CallType, EvaluatedApproval
  <2>17. CASE EvaluatedSafe(c)
    BY <2>17 DEF MemoryType, CallType, EvaluatedSafe
  <2>18. CASE ActionLimit(c)
    BY <2>18 DEF MemoryType, CallType, ActionLimit
  <2>19. CASE ActionLeaseLost(c)
    BY <2>19 DEF MemoryType, CallType, ActionLeaseLost, SaveRow
  <2>20. CASE ActionLease(c)
    BY <2>20 DEF MemoryType, CallType, ActionLease, CheckLease, AcquireLease
  <2>21. CASE Lookup(c)
    BY <2>21 DEF MemoryType, CallType, Lookup
  <2>22. CASE FoundInFlight(c)
    BY <2>22 DEF MemoryType, CallType, FoundInFlight, SetCkpt
  <2>23. CASE Dispatch(c)
    BY <2>23 DEF MemoryType, CallType, Dispatch, SetCkpt
  <2>24. CASE MarkExecuting(c)
    BY <2>24 DEF MemoryType, CallType, MarkExecuting, SaveRow
  <2>25. CASE NoAgent(c)
    BY <2>25 DEF MemoryType, CallType, NoAgent, SetCkpt
  <2>26. CASE ToolRuns(c)
    BY <2>26 DEF MemoryType, CallType, ToolRuns
  <2>27. CASE ToolRefused(c)
    BY <2>27 DEF MemoryType, CallType, ToolRefused
  <2>28. CASE RecordResult(c)
    BY <2>28 DEF MemoryType, CallType, RecordResult, SetCkpt
  <2>29. CASE VerifyThrows(c)
    BY <2>29 DEF MemoryType, CallType, VerifyThrows
  <2>30. CASE VerifyInconclusive(c)
    BY <2>30 DEF MemoryType, CallType, VerifyInconclusive, Verifying, SetCkpt
  <2>31. CASE VerifyFailed(c)
    BY <2>31 DEF MemoryType, CallType, VerifyFailed, Verifying
  <2>32. CASE VerifySucceeds(c)
    BY <2>32 DEF MemoryType, CallType, VerifySucceeds, Verifying, SetCkpt
  <2>33. CASE SaveRun(c)
    BY <2>33 DEF MemoryType, CallType, SaveRun, SaveRow
  <2>34. CASE RecoverRevoked(c)
    BY <2>34 DEF MemoryType, CallType, RecoverRevoked, SaveRow
  <2>35. CASE RecoverLease(c)
    BY <2>35 DEF MemoryType, CallType, RecoverLease, AcquireLease
  <2>36. CASE RecoverInFlight(c)
    BY <2>36 DEF MemoryType, CallType, RecoverInFlight, SetCkpt
  <2>37. CASE RecoverResume(c)
    BY <2>37 DEF MemoryType, CallType, RecoverResume
  <2>38. CASE CancelRun(c)
    BY <2>38 DEF MemoryType, CallType, CancelRun, SaveRow, Callable
  <2>40. QED
    BY <1>1, <2>1, <2>2, <2>3, <2>4, <2>4g, <2>5, <2>6, <2>7, <2>8, <2>9, <2>10, <2>11,
       <2>12, <2>13, <2>14, <2>15, <2>16, <2>17, <2>18, <2>19, <2>20, <2>21, <2>22,
       <2>23, <2>24, <2>25, <2>26, <2>27, <2>28, <2>29, <2>30, <2>31, <2>32, <2>33,
       <2>34, <2>35, <2>36, <2>37, <2>38 DEF CopyStep, ExecuteIteration,
       Continue
<1>1c. ASSUME NEW e \in Engine, Crash(e)
      PROVE  Taken'
  BY <1>1c DEF MemoryType, CallType, Crash
<1>2. CASE OwnerAnswers
  BY <1>2 DEF OwnerAnswers
<1>3. CASE LeaseExpires
  BY <1>3 DEF LeaseExpires
<1>4. CASE RuntimeExceeded
  BY <1>4 DEF RuntimeExceeded
<1>5. CASE UNCHANGED vars
  BY <1>5 DEF vars
<1>6. QED
  BY <1>1, <1>1c, <1>2, <1>3, <1>4, <1>5, NextCases

\* The copy knows no other end of the run, or is out of its map.
Kept(c) == status'[c] = status[c] \/ c \notin loaded'

\* What is over stays as it is.
LEMMA EndKept ==
  ASSUME TypeOK, Taken, [Next]_vars, NEW v \in Copy, v \in loaded, status[v] \in Terminal
  PROVE  Kept(v)
<1>t. MemoryType /\ CallType
  BY DEF TypeOK
<1>e. /\ status[v] \notin {"AUTHORIZED", "VALIDATING", "EXECUTING", "WAITING_FOR_APPROVAL"}
      /\ \A s : ~CanGo(status[v], s)
  BY DEF Terminal, CanGo
<1> USE <1>t, <1>e DEF Taken, Kept, MayEnter, Goto, Enter, AtAwait, memVars, frameVars
<1>1. ASSUME NEW c \in Copy, CopyStep(c)
      PROVE  Kept(v)
  <2>1. CASE \E e \in Engine : StartRun(c, e)
    BY <2>1 DEF MemoryType, CallType, StartRun, MakeCopy, Live, SaveRow
  <2>2. CASE \E e \in Engine : GetRun(c, e)
    BY <2>2 DEF MemoryType, CallType, GetRun, MakeCopy, Live, Rebuild
  <2>3. CASE \E e \in Engine : RecoverRead(c, e)
    BY <2>3 DEF MemoryType, CallType, RecoverRead, MakeCopy, Live, Rebuild
  <2>4. CASE IterationLeaseLost(c)
    BY <2>4 DEF MemoryType, CallType, IterationLeaseLost, SaveRow, Callable
  <2>4g. CASE GiveUp(c)
    BY <2>4g DEF MemoryType, CallType, GiveUp, SaveRow, Callable
  <2>5. CASE IterationTimedOut(c)
    BY <2>5 DEF MemoryType, CallType, IterationTimedOut, Iterating, CheckLease,
       AcquireLease, Callable
  <2>6. CASE IterationLimit(c)
    BY <2>6 DEF MemoryType, CallType, IterationLimit, Iterating, CheckLease,
       AcquireLease, Callable
  <2>7. CASE IterationRevoked(c)
    BY <2>7 DEF MemoryType, CallType, IterationRevoked, Iterating, CheckLease,
       AcquireLease, Callable
  <2>8. CASE IterationThrows(c)
    BY <2>8 DEF MemoryType, CallType, IterationThrows, Counted, Iterating,
       CheckLease, AcquireLease, Callable
  <2>9. CASE ProposalInvalid(c)
    BY <2>9 DEF MemoryType, CallType, ProposalInvalid, Counted, Iterating,
       CheckLease, AcquireLease, Callable
  <2>10. CASE DelegationLimit(c)
    BY <2>10 DEF MemoryType, CallType, DelegationLimit, Counted, Iterating,
       CheckLease, AcquireLease, Callable
  <2>11. CASE ProposalValid(c)
    BY <2>11 DEF MemoryType, CallType, ProposalValid, Counted, Iterating, CheckLease,
       AcquireLease, Callable
  <2>12. CASE ApproveAndContinue(c)
    BY <2>12 DEF MemoryType, CallType, ApproveAndContinue
  <2>13. CASE ApprovalRejected(c)
    BY <2>13 DEF MemoryType, CallType, ApprovalRejected
  <2>14. CASE StartLease(c)
    BY <2>14 DEF MemoryType, CallType, StartLease, AcquireLease
  <2>15. CASE EvaluatedBlocked(c)
    BY <2>15 DEF MemoryType, CallType, EvaluatedBlocked
  <2>16. CASE EvaluatedApproval(c)
    BY <2>16 DEF MemoryType, CallType, EvaluatedApproval
  <2>17. CASE EvaluatedSafe(c)
    BY <2>17 DEF MemoryType, CallType, EvaluatedSafe
  <2>18. CASE ActionLimit(c)
    BY <2>18 DEF MemoryType, CallType, ActionLimit
  <2>19. CASE ActionLeaseLost(c)
    BY <2>19 DEF MemoryType, CallType, ActionLeaseLost, SaveRow
  <2>20. CASE ActionLease(c)
    BY <2>20 DEF MemoryType, CallType, ActionLease, CheckLease, AcquireLease
  <2>21. CASE Lookup(c)
    BY <2>21 DEF MemoryType, CallType, Lookup
  <2>22. CASE FoundInFlight(c)
    BY <2>22 DEF MemoryType, CallType, FoundInFlight, SetCkpt
  <2>23. CASE Dispatch(c)
    BY <2>23 DEF MemoryType, CallType, Dispatch, SetCkpt
  <2>24. CASE MarkExecuting(c)
    BY <2>24 DEF MemoryType, CallType, MarkExecuting, SaveRow
  <2>25. CASE NoAgent(c)
    BY <2>25 DEF MemoryType, CallType, NoAgent, SetCkpt
  <2>26. CASE ToolRuns(c)
    BY <2>26 DEF MemoryType, CallType, ToolRuns
  <2>27. CASE ToolRefused(c)
    BY <2>27 DEF MemoryType, CallType, ToolRefused
  <2>28. CASE RecordResult(c)
    BY <2>28 DEF MemoryType, CallType, RecordResult, SetCkpt
  <2>29. CASE VerifyThrows(c)
    BY <2>29 DEF MemoryType, CallType, VerifyThrows
  <2>30. CASE VerifyInconclusive(c)
    BY <2>30 DEF MemoryType, CallType, VerifyInconclusive, Verifying, SetCkpt
  <2>31. CASE VerifyFailed(c)
    BY <2>31 DEF MemoryType, CallType, VerifyFailed, Verifying
  <2>32. CASE VerifySucceeds(c)
    BY <2>32 DEF MemoryType, CallType, VerifySucceeds, Verifying, SetCkpt
  <2>33. CASE SaveRun(c)
    BY <2>33 DEF MemoryType, CallType, SaveRun, SaveRow
  <2>34. CASE RecoverRevoked(c)
    BY <2>34 DEF MemoryType, CallType, RecoverRevoked, SaveRow
  <2>35. CASE RecoverLease(c)
    BY <2>35 DEF MemoryType, CallType, RecoverLease, AcquireLease
  <2>36. CASE RecoverInFlight(c)
    BY <2>36 DEF MemoryType, CallType, RecoverInFlight, SetCkpt
  <2>37. CASE RecoverResume(c)
    BY <2>37 DEF MemoryType, CallType, RecoverResume
  <2>38. CASE CancelRun(c)
    BY <2>38 DEF MemoryType, CallType, CancelRun, SaveRow, Callable
  <2>40. QED
    BY <1>1, <2>1, <2>2, <2>3, <2>4, <2>4g, <2>5, <2>6, <2>7, <2>8, <2>9, <2>10, <2>11,
       <2>12, <2>13, <2>14, <2>15, <2>16, <2>17, <2>18, <2>19, <2>20, <2>21, <2>22,
       <2>23, <2>24, <2>25, <2>26, <2>27, <2>28, <2>29, <2>30, <2>31, <2>32, <2>33,
       <2>34, <2>35, <2>36, <2>37, <2>38 DEF CopyStep, ExecuteIteration,
       Continue
<1>1c. ASSUME NEW e \in Engine, Crash(e)
      PROVE  Kept(v)
  BY <1>1c DEF MemoryType, CallType, Crash, InMap
<1>2. CASE OwnerAnswers
  BY <1>2 DEF OwnerAnswers
<1>3. CASE LeaseExpires
  BY <1>3 DEF LeaseExpires
<1>4. CASE RuntimeExceeded
  BY <1>4 DEF RuntimeExceeded
<1>5. CASE UNCHANGED vars
  BY <1>5 DEF vars
<1>6. QED
  BY <1>1, <1>1c, <1>2, <1>3, <1>4, <1>5, NextCases

\* A run that has ended in the memory of a copy, saved or not, is not moved by any
\* call on that copy, whatever was under way when it ended, nor by other copies:
\* the engine forgets the end only when its process dies, or when a recovery puts
\* another copy in the place of this one.
THEOREM EndIsKept ==
  Spec => [][\A c \in loaded : status[c] \in Terminal => Kept(c)]_vars
<1>1. Init => TypeOK /\ StepKnown
  BY InitTyped
<1>2. Init => Taken
  BY DEF Init, Taken
<1>3. TypeOK /\ Taken /\ [Next]_vars => [\A c \in loaded : status[c] \in Terminal => Kept(c)]_vars
  BY EndKept DEF TypeOK, MemoryType
<1>4. QED
  BY <1>1, <1>2, <1>3, TypeInductive, StepKnownInductive, TakenInductive, PTL DEF Spec
-----------------------------------------------------------------------------
(* Every step of a copy in the map brings its run nearer to the end. *)

\* How far a copy is from having nothing more to do: 17 steps for each
\* iteration that is left, one for a run that has not ended, and those of the
\* call in progress; a proposal that waits for the owner has most of them ahead.
Distance(c) ==
    17 * (MaxIterations - iterations[c]) +
        (IF status[c] = "WAITING_FOR_APPROVAL" /\ pc[c] \in {"idle", "save"}
         THEN IF pc[c] = "idle" THEN 15 ELSE 16
         ELSE (IF status[c] \in Terminal THEN 0 ELSE 2) +
              (CASE pc[c] = "evaluate" -> 16
                 [] pc[c] = "begin" -> 12
                 [] pc[c] = "lookup" -> 11
                 [] pc[c] \in {"dispatch", "unknown"} -> 10
                 [] pc[c] = "mark" -> 9
                 [] pc[c] = "tool" -> 8
                 [] pc[c] = "result" -> 6
                 [] pc[c] = "verify" -> 4
                 [] pc[c] = "noagent" -> 2
                 [] pc[c] \in {"save", "giveup", "start"} -> 1
                 [] OTHER -> 0))

\* Whatever changes where the copy stands brings it nearer to the end.
Advances(c) ==
    /\ Distance(c) \in 0..(17 * MaxIterations + 18)
    /\ \/ Distance(c)' < Distance(c)
       \/ UNCHANGED <<pc[c], status[c], iterations[c]>> /\ ~Continue(c)

\* A run that waits for the owner has no call under way, but the one that saves it.
Waits ==
    \A c \in Copy :
        c \in loaded /\ status[c] = "WAITING_FOR_APPROVAL" => pc[c] \in {"idle", "save"}

\* What one copy does leaves the others where they are, but for the map.
LEMMA OthersLeave ==
  ASSUME TypeOK, NEW v \in Copy, NEW c \in Copy, v # c, CopyStep(c)
  PROVE  /\ UNCHANGED <<pc[v], step[v], status[v], iterations[v], actions[v]>>
         /\ v \in loaded' => v \in loaded
<1> USE DEF TypeOK, MemoryType, CallType, Goto, Enter, memVars, frameVars
<1>1. CASE \E e \in Engine : StartRun(c, e)
  BY <1>1 DEF StartRun, MakeCopy, Live, SaveRow
<1>2. CASE \E e \in Engine : GetRun(c, e)
  BY <1>2 DEF GetRun, MakeCopy, Live, Rebuild
<1>3. CASE \E e \in Engine : RecoverRead(c, e)
  BY <1>3 DEF RecoverRead, MakeCopy, Live, Rebuild
<1>4. CASE IterationLeaseLost(c)
  BY <1>4 DEF IterationLeaseLost, SaveRow, Callable
<1>4g. CASE GiveUp(c)
  BY <1>4g DEF GiveUp, SaveRow, Callable
<1>5. CASE IterationTimedOut(c)
  BY <1>5 DEF IterationTimedOut, Iterating, CheckLease, AcquireLease, Callable
<1>6. CASE IterationLimit(c)
  BY <1>6 DEF IterationLimit, Iterating, CheckLease, AcquireLease, Callable
<1>7. CASE IterationRevoked(c)
  BY <1>7 DEF IterationRevoked, Iterating, CheckLease, AcquireLease, Callable
<1>8. CASE IterationThrows(c)
  BY <1>8 DEF IterationThrows, Counted, Iterating, CheckLease, AcquireLease, Callable
<1>9. CASE ProposalInvalid(c)
  BY <1>9 DEF ProposalInvalid, Counted, Iterating, CheckLease, AcquireLease, Callable
<1>10. CASE DelegationLimit(c)
  BY <1>10 DEF DelegationLimit, Counted, Iterating, CheckLease, AcquireLease, Callable
<1>11. CASE ProposalValid(c)
  BY <1>11 DEF ProposalValid, Counted, Iterating, CheckLease, AcquireLease, Callable
<1>12. CASE ApproveAndContinue(c)
  BY <1>12 DEF ApproveAndContinue
<1>13. CASE ApprovalRejected(c)
  BY <1>13 DEF ApprovalRejected
<1>14. CASE StartLease(c)
  BY <1>14 DEF StartLease, AcquireLease
<1>15. CASE EvaluatedBlocked(c)
  BY <1>15 DEF EvaluatedBlocked
<1>16. CASE EvaluatedApproval(c)
  BY <1>16 DEF EvaluatedApproval
<1>17. CASE EvaluatedSafe(c)
  BY <1>17 DEF EvaluatedSafe
<1>18. CASE ActionLimit(c)
  BY <1>18 DEF ActionLimit
<1>19. CASE ActionLeaseLost(c)
  BY <1>19 DEF ActionLeaseLost, SaveRow
<1>20. CASE ActionLease(c)
  BY <1>20 DEF ActionLease, CheckLease, AcquireLease
<1>21. CASE Lookup(c)
  BY <1>21 DEF Lookup
<1>22. CASE FoundInFlight(c)
  BY <1>22 DEF FoundInFlight, SetCkpt
<1>23. CASE Dispatch(c)
  BY <1>23 DEF Dispatch, SetCkpt
<1>24. CASE MarkExecuting(c)
  BY <1>24 DEF MarkExecuting, SaveRow
<1>25. CASE NoAgent(c)
  BY <1>25 DEF NoAgent, SetCkpt
<1>26. CASE ToolRuns(c)
  BY <1>26 DEF ToolRuns
<1>27. CASE ToolRefused(c)
  BY <1>27 DEF ToolRefused
<1>28. CASE RecordResult(c)
  BY <1>28 DEF RecordResult, SetCkpt
<1>29. CASE VerifyThrows(c)
  BY <1>29 DEF VerifyThrows
<1>30. CASE VerifyInconclusive(c)
  BY <1>30 DEF VerifyInconclusive, Verifying, SetCkpt
<1>31. CASE VerifyFailed(c)
  BY <1>31 DEF VerifyFailed, Verifying
<1>32. CASE VerifySucceeds(c)
  BY <1>32 DEF VerifySucceeds, Verifying, SetCkpt
<1>33. CASE SaveRun(c)
  BY <1>33 DEF SaveRun, SaveRow
<1>34. CASE RecoverRevoked(c)
  BY <1>34 DEF RecoverRevoked, SaveRow
<1>35. CASE RecoverLease(c)
  BY <1>35 DEF RecoverLease, AcquireLease
<1>36. CASE RecoverInFlight(c)
  BY <1>36 DEF RecoverInFlight, SetCkpt
<1>37. CASE RecoverResume(c)
  BY <1>37 DEF RecoverResume
<1>38. CASE CancelRun(c)
  BY <1>38 DEF CancelRun, SaveRow, Callable
<1>40. QED
  BY <1>1, <1>2, <1>3, <1>4, <1>4g, <1>5, <1>6, <1>7, <1>8, <1>9, <1>10,
     <1>11, <1>12, <1>13, <1>14, <1>15, <1>16, <1>17, <1>18, <1>19,
     <1>20, <1>21, <1>22, <1>23, <1>24, <1>25, <1>26, <1>27, <1>28,
     <1>29, <1>30, <1>31, <1>32, <1>33, <1>34, <1>35, <1>36, <1>37,
     <1>38 DEF CopyStep, ExecuteIteration, Continue

LEMMA WaitsInductive == TypeOK /\ Waits /\ [Next]_vars => Waits'
<1> SUFFICES ASSUME TypeOK, Waits, [Next]_vars, NEW v \in Copy, v \in loaded'
             PROVE  status'[v] = "WAITING_FOR_APPROVAL" => pc'[v] \in {"idle", "save"}
  BY DEF Waits
<1>t. MemoryType /\ CallType
  BY DEF TypeOK
<1>w. v \in loaded /\ status[v] = "WAITING_FOR_APPROVAL" => pc[v] \in {"idle", "save"}
  BY DEF Waits
<1>o. ASSUME UNCHANGED <<pc[v], status[v]>>, v \in loaded
      PROVE  status'[v] = "WAITING_FOR_APPROVAL" => pc'[v] \in {"idle", "save"}
  BY <1>o, <1>w
<1>1. ASSUME CopyStep(v)
      PROVE  status'[v] = "WAITING_FOR_APPROVAL" => pc'[v] \in {"idle", "save"}
  <2> USE <1>t, <1>w DEF MemoryType, CallType, Goto, Enter, memVars, frameVars
  <2>1. CASE \E e \in Engine : StartRun(v, e)
    BY <2>1 DEF StartRun, MakeCopy, Live, SaveRow
  <2>2. CASE \E e \in Engine : GetRun(v, e)
    BY <2>2 DEF GetRun, MakeCopy, Live, Rebuild
  <2>3. CASE \E e \in Engine : RecoverRead(v, e)
    BY <2>3 DEF RecoverRead, MakeCopy, Live, Rebuild
  <2>4. CASE IterationLeaseLost(v)
    BY <2>4 DEF IterationLeaseLost, SaveRow, Callable
  <2>4g. CASE GiveUp(v)
    BY <2>4g DEF GiveUp, SaveRow, Callable
  <2>5. CASE IterationTimedOut(v)
    BY <2>5 DEF IterationTimedOut, Iterating, CheckLease, AcquireLease, Callable
  <2>6. CASE IterationLimit(v)
    BY <2>6 DEF IterationLimit, Iterating, CheckLease, AcquireLease, Callable
  <2>7. CASE IterationRevoked(v)
    BY <2>7 DEF IterationRevoked, Iterating, CheckLease, AcquireLease, Callable
  <2>8. CASE IterationThrows(v)
    BY <2>8 DEF IterationThrows, Counted, Iterating, CheckLease, AcquireLease, Callable
  <2>9. CASE ProposalInvalid(v)
    BY <2>9 DEF ProposalInvalid, Counted, Iterating, CheckLease, AcquireLease, Callable
  <2>10. CASE DelegationLimit(v)
    BY <2>10 DEF DelegationLimit, Counted, Iterating, CheckLease, AcquireLease, Callable
  <2>11. CASE ProposalValid(v)
    BY <2>11 DEF ProposalValid, Counted, Iterating, CheckLease, AcquireLease, Callable
  <2>12. CASE ApproveAndContinue(v)
    BY <2>12 DEF ApproveAndContinue
  <2>13. CASE ApprovalRejected(v)
    BY <2>13 DEF ApprovalRejected
  <2>14. CASE StartLease(v)
    BY <2>14 DEF StartLease, AcquireLease
  <2>15. CASE EvaluatedBlocked(v)
    BY <2>15 DEF EvaluatedBlocked
  <2>16. CASE EvaluatedApproval(v)
    BY <2>16 DEF EvaluatedApproval
  <2>17. CASE EvaluatedSafe(v)
    BY <2>17 DEF EvaluatedSafe
  <2>18. CASE ActionLimit(v)
    BY <2>18 DEF ActionLimit
  <2>19. CASE ActionLeaseLost(v)
    BY <2>19 DEF ActionLeaseLost, SaveRow
  <2>20. CASE ActionLease(v)
    BY <2>20 DEF ActionLease, CheckLease, AcquireLease
  <2>21. CASE Lookup(v)
    BY <2>21 DEF Lookup
  <2>22. CASE FoundInFlight(v)
    BY <2>22 DEF FoundInFlight, SetCkpt
  <2>23. CASE Dispatch(v)
    BY <2>23 DEF Dispatch, SetCkpt
  <2>24. CASE MarkExecuting(v)
    BY <2>24 DEF MarkExecuting, SaveRow
  <2>25. CASE NoAgent(v)
    BY <2>25 DEF NoAgent, SetCkpt
  <2>26. CASE ToolRuns(v)
    BY <2>26 DEF ToolRuns
  <2>27. CASE ToolRefused(v)
    BY <2>27 DEF ToolRefused
  <2>28. CASE RecordResult(v)
    BY <2>28 DEF RecordResult, SetCkpt
  <2>29. CASE VerifyThrows(v)
    BY <2>29 DEF VerifyThrows
  <2>30. CASE VerifyInconclusive(v)
    BY <2>30 DEF VerifyInconclusive, Verifying, SetCkpt
  <2>31. CASE VerifyFailed(v)
    BY <2>31 DEF VerifyFailed, Verifying
  <2>32. CASE VerifySucceeds(v)
    BY <2>32 DEF VerifySucceeds, Verifying, SetCkpt
  <2>33. CASE SaveRun(v)
    BY <2>33 DEF SaveRun, SaveRow
  <2>34. CASE RecoverRevoked(v)
    BY <2>34 DEF RecoverRevoked, SaveRow
  <2>35. CASE RecoverLease(v)
    BY <2>35 DEF RecoverLease, AcquireLease
  <2>36. CASE RecoverInFlight(v)
    BY <2>36 DEF RecoverInFlight, SetCkpt
  <2>37. CASE RecoverResume(v)
    BY <2>37 DEF RecoverResume
  <2>38. CASE CancelRun(v)
    BY <2>38 DEF CancelRun, SaveRow, Callable
  <2>40. QED
    BY <1>1, <2>1, <2>2, <2>3, <2>4, <2>4g, <2>5, <2>6, <2>7, <2>8, <2>9, <2>10,
       <2>11, <2>12, <2>13, <2>14, <2>15, <2>16, <2>17, <2>18, <2>19,
       <2>20, <2>21, <2>22, <2>23, <2>24, <2>25, <2>26, <2>27, <2>28,
       <2>29, <2>30, <2>31, <2>32, <2>33, <2>34, <2>35, <2>36, <2>37,
       <2>38 DEF CopyStep, ExecuteIteration, Continue
<1>1c. ASSUME NEW e \in Engine, Crash(e)
      PROVE  status'[v] = "WAITING_FOR_APPROVAL" => pc'[v] \in {"idle", "save"}
  BY <1>1c, <1>t, <1>o DEF MemoryType, CallType, Crash, InMap
<1>2. ASSUME NEW c \in Copy, c # v, CopyStep(c)
      PROVE  status'[v] = "WAITING_FOR_APPROVAL" => pc'[v] \in {"idle", "save"}
  BY <1>2, <1>t, <1>o, OthersLeave
<1>3. CASE OwnerAnswers
  BY <1>3, <1>o DEF OwnerAnswers, memVars, frameVars
<1>4. CASE LeaseExpires
  BY <1>4, <1>o DEF LeaseExpires, memVars, frameVars
<1>5. CASE RuntimeExceeded
  BY <1>5, <1>o DEF RuntimeExceeded, memVars, frameVars
<1>6. CASE UNCHANGED vars
  BY <1>6, <1>o DEF vars, memVars, frameVars
<1>7. QED
  BY <1>1, <1>1c, <1>2, <1>3, <1>4, <1>5, <1>6, NextCases

LEMMA DistanceTypes ==
  ASSUME TypeOK, NEW c \in Copy
  PROVE  Distance(c) \in 0..(17 * MaxIterations + 18)
<1>1. MaxIterations \in Nat /\ iterations[c] \in 0..MaxIterations
  BY AutonomyRunAssumption DEF TypeOK, MemoryType
<1>2. PICK b \in 0..18 : Distance(c) = 17 * (MaxIterations - iterations[c]) + b
  BY DEF Distance
<1>3. QED
  BY ONLY <1>1, <1>2

\* A step of a call in progress.
LEMMA ContinueCloser ==
  ASSUME TypeOK, Taken, Waits, NEW c \in loaded, c \in loaded', Continue(c)
  PROVE  Distance(c)' < Distance(c)
<1>a. /\ c \in Copy /\ MaxIterations \in Nat /\ iterations[c] \in 0..MaxIterations
      /\ pc \in [Copy -> PC] /\ status \in [Copy -> Lifecycle \cup {"NONE"}]
      /\ status[c] = "WAITING_FOR_APPROVAL" => pc[c] \in {"idle", "save"}
      /\ pc[c] \notin {"recover", "reconcile"}
  BY AutonomyRunAssumption DEF TypeOK, MemoryType, CallType, Waits, Taken
<1> USE <1>a DEF Distance, Terminal, Goto, Enter, memVars
<1>1. CASE StartLease(c)
  BY <1>1 DEF StartLease
<1>1g. CASE GiveUp(c)
  BY <1>1g DEF GiveUp
<1>2. CASE EvaluatedBlocked(c)
  BY <1>2 DEF EvaluatedBlocked
<1>3. CASE EvaluatedApproval(c)
  BY <1>3 DEF EvaluatedApproval, CanGo
<1>4. CASE EvaluatedSafe(c)
  BY <1>4 DEF EvaluatedSafe
<1>5. CASE ActionLimit(c)
  BY <1>5 DEF ActionLimit
<1>6. CASE ActionLeaseLost(c)
  BY <1>6 DEF ActionLeaseLost
<1>7. CASE ActionLease(c)
  BY <1>7 DEF ActionLease
<1>8. CASE Lookup(c)
  BY <1>8 DEF Lookup
<1>9. CASE FoundInFlight(c)
  BY <1>9 DEF FoundInFlight
<1>10. CASE Dispatch(c)
  BY <1>10 DEF Dispatch
<1>11. CASE MarkExecuting(c)
  BY <1>11 DEF MarkExecuting, CanGo
<1>12. CASE NoAgent(c)
  BY <1>12 DEF NoAgent
<1>13. CASE ToolRuns(c)
  BY <1>13 DEF ToolRuns
<1>14. CASE ToolRefused(c)
  BY <1>14 DEF ToolRefused
<1>15. CASE RecordResult(c)
  BY <1>15 DEF RecordResult
<1>16. CASE VerifyThrows(c)
  BY <1>16 DEF VerifyThrows
<1>17. CASE VerifyInconclusive(c)
  BY <1>17 DEF VerifyInconclusive, Verifying
<1>18. CASE VerifyFailed(c)
  BY <1>18 DEF VerifyFailed, Verifying
<1>19. CASE VerifySucceeds(c)
  BY <1>19 DEF VerifySucceeds, Verifying
<1>20. CASE SaveRun(c)
  BY <1>20 DEF SaveRun
<1>21. CASE RecoverRevoked(c)
  BY <1>21 DEF RecoverRevoked
<1>22. CASE RecoverLease(c)
  BY <1>22 DEF RecoverLease
<1>23. CASE RecoverInFlight(c)
  BY <1>23 DEF RecoverInFlight
<1>24. CASE RecoverResume(c)
  BY <1>24 DEF RecoverResume
<1>25. QED
  BY <1>1, <1>1g, <1>2, <1>3, <1>4, <1>5, <1>6, <1>7, <1>8, <1>9, <1>10,
     <1>11, <1>12, <1>13, <1>14, <1>15, <1>16, <1>17, <1>18, <1>19,
     <1>20, <1>21, <1>22, <1>23, <1>24 DEF Continue

\* What callers, the owner's answer or a cancellation begin or end.
LEMMA CalledCloser ==
  ASSUME TypeOK, Waits, NEW c \in loaded, c \in loaded', CopyStep(c), ~Continue(c)
  PROVE  Distance(c)' < Distance(c) \/ UNCHANGED <<pc[c], status[c], iterations[c]>>
<1>a. /\ c \in Copy /\ MaxIterations \in Nat /\ iterations \in [Copy -> 0..MaxIterations]
      /\ pc \in [Copy -> PC] /\ status \in [Copy -> Lifecycle \cup {"NONE"}]
      /\ status[c] = "WAITING_FOR_APPROVAL" => pc[c] \in {"idle", "save"}
  BY AutonomyRunAssumption DEF TypeOK, MemoryType, CallType, Waits
<1> USE <1>a DEF Distance, Terminal, Goto, Enter, memVars, frameVars
<1>1. CASE \E e \in Engine : StartRun(c, e)
  BY <1>1 DEF StartRun, MakeCopy, Live
<1>2. CASE \E e \in Engine : GetRun(c, e)
  BY <1>2 DEF GetRun, MakeCopy, Live
<1>3. CASE \E e \in Engine : RecoverRead(c, e)
  BY <1>3 DEF RecoverRead, MakeCopy, Live
<1>4. CASE IterationLeaseLost(c)
  BY <1>4 DEF IterationLeaseLost, Callable
<1>5. CASE IterationTimedOut(c)
  BY <1>5 DEF IterationTimedOut, Iterating, Callable
<1>6. CASE IterationLimit(c)
  BY <1>6 DEF IterationLimit, Iterating, Callable
<1>7. CASE IterationRevoked(c)
  BY <1>7 DEF IterationRevoked, Iterating, Callable
<1>8. CASE IterationThrows(c)
  BY <1>8 DEF IterationThrows, Counted, Iterating, Callable
<1>9. CASE ProposalInvalid(c)
  BY <1>9 DEF ProposalInvalid, Counted, Iterating, Callable
<1>10. CASE DelegationLimit(c)
  BY <1>10 DEF DelegationLimit, Counted, Iterating, Callable
<1>11. CASE ProposalValid(c)
  BY <1>11 DEF ProposalValid, Counted, Iterating, Callable
<1>12. CASE ApproveAndContinue(c)
  BY <1>12 DEF ApproveAndContinue
<1>13. CASE ApprovalRejected(c)
  BY <1>13 DEF ApprovalRejected
<1>14. CASE CancelRun(c)
  BY <1>14 DEF CancelRun, Callable
<1>16. QED
  BY <1>1, <1>2, <1>3, <1>4, <1>5, <1>6, <1>7, <1>8, <1>9, <1>10,
     <1>11, <1>12, <1>13, <1>14 DEF CopyStep, ExecuteIteration, Continue

\* As long as it stays in the map, a copy goes through at most 17 * MaxIterations + 18
\* steps: every call ends, every retry, every rejected call and every proposal is
\* counted as an iteration, and neither other copies nor the owner, leases or the
\* clock give a step back.  (A crash or a recovery starts with another copy.)
THEOREM RunsAdvance == Spec => [][\A c \in loaded \cap loaded' : Advances(c)]_vars
<1>1. Init => Taken /\ Waits
  BY DEF Init, Taken, Waits
<1>2. TypeOK /\ Taken /\ Waits /\ [Next]_vars => [\A c \in loaded \cap loaded' : Advances(c)]_vars
  <2> SUFFICES ASSUME TypeOK, Taken, Waits, Next, NEW c \in loaded, c \in loaded' PROVE Advances(c)
    OBVIOUS
  <2>t. c \in Copy
    BY DEF TypeOK, MemoryType
  <2>1. Distance(c) \in 0..(17 * MaxIterations + 18)
    BY <2>t, DistanceTypes
  <2>2. CASE Continue(c)
    BY <2>1, <2>2, ContinueCloser DEF Advances
  <2>3. CASE ~Continue(c)
    <3>1. Distance(c)' < Distance(c) \/ UNCHANGED <<pc[c], status[c], iterations[c]>>
      <4>1. CASE CopyStep(c)
        BY <2>3, <4>1, CalledCloser
      <4>2. ASSUME NEW v \in Copy, v # c, CopyStep(v)
            PROVE  UNCHANGED <<pc[c], status[c], iterations[c]>>
        BY <2>t, <4>2, OthersLeave
      <4>3. CASE OwnerAnswers \/ LeaseExpires \/ RuntimeExceeded
        BY <4>3 DEF OwnerAnswers, LeaseExpires, RuntimeExceeded, memVars, frameVars
      <4>4. ASSUME NEW e \in Engine, Crash(e)
            PROVE  UNCHANGED <<pc[c], status[c], iterations[c]>>
        BY <2>t, <4>4 DEF Crash, InMap, TypeOK, MemoryType, CallType
      <4>5. QED
        BY <2>t, <4>1, <4>2, <4>3, <4>4, NextCases
    <3>2. QED
      BY <2>1, <2>3, <3>1 DEF Advances
  <2>4. QED
    BY <2>2, <2>3
<1>3. QED
  BY <1>1, <1>2, InitTyped, TypeInductive, StepKnownInductive, TakenInductive, WaitsInductive, PTL DEF Spec
-----------------------------------------------------------------------------
(* How often any number of engines and copies runs a tool. *)

\* A call works on a step its copy has counted.
Behind ==
    \A c \in Copy : pc[c] \in {"dispatch", "mark", "tool"} => step[c] <= iterations[c]

\* Where a copy may still run the tool of a step: it is in a map and has not come to
\* the step, or waits there for the owner, or a call of it is on the way to the tool.
CanStillRun(c, k) ==
    \/ /\ c \in loaded
       /\ iterations[c] < k \/ (iterations[c] = k /\ status[c] = "WAITING_FOR_APPROVAL")
    \/ iterations[c] = k /\ pc[c] \in {"evaluate", "begin", "lookup"}
    \/ step[c] = k /\ pc[c] \in {"dispatch", "mark", "tool"}

MayRun(k) == {c \in Copy : CanStillRun(c, k)}

\* Every copy put into a map may run the tool of a step once.
CopyCount ==
    \A k \in Step : effects[k] + Cardinality(MayRun(k)) <= made

\* The steps that put a copy into a map.
EntersMap(c) == (\E e \in Engine : StartRun(c, e) \/ GetRun(c, e)) \/ RecoverResume(c)

\* A call stays with what its copy has counted.
LEMMA BehindInductive == TypeOK /\ Taken /\ Behind /\ [Next]_vars => Behind'
<1> SUFFICES ASSUME TypeOK, Taken, Behind, [Next]_vars PROVE Behind'
  OBVIOUS
<1> DEFINE Stays(v) == pc[v] \in {"dispatch", "mark", "tool"} => step[v] <= iterations[v]
<1>t. /\ loaded \subseteq Copy /\ status \in [Copy -> Lifecycle \cup {"NONE"}]
      /\ iterations \in [Copy -> 0..MaxIterations] /\ MaxIterations \in Nat
      /\ pc \in [Copy -> PC] /\ step \in [Copy -> 0..MaxIterations]
  BY AutonomyRunAssumption DEF TypeOK, MemoryType, CallType
<1>s. \A v \in Copy : Stays(v)
  BY DEF Behind
<1>u. \A v \in Copy : pc[v] \in {"recover", "reconcile"} => v \notin loaded
  BY DEF Taken
<1>1. ASSUME NEW c \in Copy, CopyStep(c)
      PROVE  Stays(c)'
  <2>s. Stays(c)
    BY <1>s
  <2> USE <1>t, <2>s, <1>u DEF Goto, Enter, AtAwait, memVars, frameVars
  <2>1. CASE \E e \in Engine : StartRun(c, e)
    BY <2>1 DEF StartRun, MakeCopy, Live, SaveRow
  <2>2. CASE \E e \in Engine : GetRun(c, e)
    BY <2>2 DEF GetRun, MakeCopy, Live, Rebuild
  <2>3. CASE \E e \in Engine : RecoverRead(c, e)
    BY <2>3 DEF RecoverRead, MakeCopy, Live, Rebuild
  <2>4. CASE IterationLeaseLost(c)
    BY <2>4 DEF IterationLeaseLost, SaveRow, Callable
  <2>4g. CASE GiveUp(c)
    BY <2>4g DEF GiveUp, SaveRow, Callable
  <2>5. CASE IterationTimedOut(c)
    BY <2>5 DEF IterationTimedOut, Iterating, CheckLease, AcquireLease, Callable
  <2>6. CASE IterationLimit(c)
    BY <2>6 DEF IterationLimit, Iterating, CheckLease, AcquireLease, Callable
  <2>7. CASE IterationRevoked(c)
    BY <2>7 DEF IterationRevoked, Iterating, CheckLease, AcquireLease, Callable
  <2>8. CASE IterationThrows(c)
    BY <2>8 DEF IterationThrows, Counted, Iterating, CheckLease, AcquireLease, Callable
  <2>9. CASE ProposalInvalid(c)
    BY <2>9 DEF ProposalInvalid, Counted, Iterating, CheckLease, AcquireLease, Callable
  <2>10. CASE DelegationLimit(c)
    BY <2>10 DEF DelegationLimit, Counted, Iterating, CheckLease, AcquireLease, Callable
  <2>11. CASE ProposalValid(c)
    BY <2>11 DEF ProposalValid, Counted, Iterating, CheckLease, AcquireLease, Callable
  <2>12. CASE ApproveAndContinue(c)
    BY <2>12 DEF ApproveAndContinue
  <2>13. CASE ApprovalRejected(c)
    BY <2>13 DEF ApprovalRejected
  <2>14. CASE StartLease(c)
    BY <2>14 DEF StartLease, AcquireLease
  <2>15. CASE EvaluatedBlocked(c)
    BY <2>15 DEF EvaluatedBlocked
  <2>16. CASE EvaluatedApproval(c)
    BY <2>16 DEF EvaluatedApproval
  <2>17. CASE EvaluatedSafe(c)
    BY <2>17 DEF EvaluatedSafe
  <2>18. CASE ActionLimit(c)
    BY <2>18 DEF ActionLimit
  <2>19. CASE ActionLeaseLost(c)
    BY <2>19 DEF ActionLeaseLost, SaveRow
  <2>20. CASE ActionLease(c)
    BY <2>20 DEF ActionLease, CheckLease, AcquireLease
  <2>21. CASE Lookup(c)
    BY <2>21 DEF Lookup
  <2>22. CASE FoundInFlight(c)
    BY <2>22 DEF FoundInFlight
  <2>23. CASE Dispatch(c)
    BY <2>23 DEF Dispatch
  <2>24. CASE MarkExecuting(c)
    BY <2>24 DEF MarkExecuting, SaveRow
  <2>25. CASE NoAgent(c)
    BY <2>25 DEF NoAgent
  <2>26. CASE ToolRuns(c)
    BY <2>26 DEF ToolRuns
  <2>27. CASE ToolRefused(c)
    BY <2>27 DEF ToolRefused
  <2>28. CASE RecordResult(c)
    BY <2>28 DEF RecordResult
  <2>29. CASE VerifyThrows(c)
    BY <2>29 DEF VerifyThrows
  <2>30. CASE VerifyInconclusive(c)
    BY <2>30 DEF VerifyInconclusive, Verifying
  <2>31. CASE VerifyFailed(c)
    BY <2>31 DEF VerifyFailed, Verifying
  <2>32. CASE VerifySucceeds(c)
    BY <2>32 DEF VerifySucceeds, Verifying
  <2>33. CASE SaveRun(c)
    BY <2>33 DEF SaveRun, SaveRow
  <2>34. CASE RecoverRevoked(c)
    BY <2>34 DEF RecoverRevoked, SaveRow
  <2>35. CASE RecoverLease(c)
    BY <2>35 DEF RecoverLease, AcquireLease
  <2>36. CASE RecoverInFlight(c)
    BY <2>36 DEF RecoverInFlight
  <2>37. CASE RecoverResume(c)
    BY <2>37 DEF RecoverResume
  <2>38. CASE CancelRun(c)
    BY <2>38 DEF CancelRun, SaveRow, Callable
  <2>40. QED
    BY <1>1, <2>1, <2>2, <2>3, <2>4, <2>4g, <2>5, <2>6, <2>7, <2>8, <2>9, <2>10,
       <2>11, <2>12, <2>13, <2>14, <2>15, <2>16, <2>17, <2>18, <2>19,
       <2>20, <2>21, <2>22, <2>23, <2>24, <2>25, <2>26, <2>27, <2>28,
       <2>29, <2>30, <2>31, <2>32, <2>33, <2>34, <2>35, <2>36, <2>37,
       <2>38 DEF CopyStep, ExecuteIteration, Continue
<1>1c. ASSUME NEW e \in Engine, Crash(e), NEW v \in Copy
      PROVE  Stays(v)'
  BY <1>t, <1>s, <1>1c DEF Crash
<1>2. ASSUME NEW c \in Copy, CopyStep(c), NEW v \in Copy, v # c
      PROVE  Stays(v)'
  <2>1. /\ UNCHANGED <<pc[v], step[v], status[v], iterations[v], actions[v]>>
        /\ v \in loaded' => v \in loaded
    BY <1>2, OthersLeave
  <2>2. QED
    BY <1>s, <2>1
<1>3. CASE OwnerAnswers \/ LeaseExpires \/ RuntimeExceeded \/ UNCHANGED vars
  <2>1. UNCHANGED <<pc, step, iterations, loaded>>
    BY <1>3 DEF OwnerAnswers, LeaseExpires, RuntimeExceeded, vars, memVars, frameVars
  <2>2. QED
    BY <1>s, <2>1 DEF Behind
<1>4. ASSUME NEW c \in Copy, CopyStep(c)
      PROVE  \A v \in Copy : Stays(v)'
  BY <1>1, <1>2, <1>4
<1>5. (\A v \in Copy : Stays(v)') => Behind'
  BY DEF Behind
<1>6. QED
  BY <1>1c, <1>3, <1>4, <1>5, NextCases

\* A copy does not come back to a step whose tool it has run.
LEMMA NeverRunsAgain ==
  ASSUME TypeOK, Taken, Behind, NEW c \in Copy, CopyStep(c), ~EntersMap(c),
         NEW k \in Step, CanStillRun(c, k)'
  PROVE  CanStillRun(c, k)
<1>t. /\ loaded \subseteq Copy /\ status \in [Copy -> Lifecycle \cup {"NONE"}]
      /\ iterations \in [Copy -> 0..MaxIterations] /\ k \in 1..MaxIterations
      /\ MaxIterations \in Nat
      /\ pc \in [Copy -> PC] /\ step \in [Copy -> 0..MaxIterations]
  BY AutonomyRunAssumption DEF TypeOK, MemoryType, CallType, Step
<1>s. pc[c] \in {"recover", "reconcile"} => c \notin loaded
  BY DEF Taken
<1> USE <1>t, <1>s DEF CanStillRun, Terminal, Goto, Enter, AtAwait, memVars, frameVars
<1>1. CASE \E e \in Engine : StartRun(c, e)
  BY <1>1 DEF EntersMap
<1>2. CASE \E e \in Engine : GetRun(c, e)
  BY <1>2 DEF EntersMap
<1>3. CASE \E e \in Engine : RecoverRead(c, e)
  BY <1>3 DEF RecoverRead, MakeCopy, Live, Rebuild
<1>4. CASE IterationLeaseLost(c)
  BY <1>4 DEF IterationLeaseLost, SaveRow, Callable
<1>4g. CASE GiveUp(c)
  BY <1>4g DEF GiveUp, SaveRow, Callable
<1>5. CASE IterationTimedOut(c)
  BY <1>5 DEF IterationTimedOut, Iterating, CheckLease, AcquireLease, Callable
<1>6. CASE IterationLimit(c)
  BY <1>6 DEF IterationLimit, Iterating, CheckLease, AcquireLease, Callable
<1>7. CASE IterationRevoked(c)
  BY <1>7 DEF IterationRevoked, Iterating, CheckLease, AcquireLease, Callable
<1>8. CASE IterationThrows(c)
  BY <1>8 DEF IterationThrows, Counted, Iterating, CheckLease, AcquireLease, Callable
<1>9. CASE ProposalInvalid(c)
  BY <1>9 DEF ProposalInvalid, Counted, Iterating, CheckLease, AcquireLease, Callable
<1>10. CASE DelegationLimit(c)
  BY <1>10 DEF DelegationLimit, Counted, Iterating, CheckLease, AcquireLease, Callable
<1>11. CASE ProposalValid(c)
  BY <1>11 DEF ProposalValid, Counted, Iterating, CheckLease, AcquireLease, Callable
<1>12. CASE ApproveAndContinue(c)
  BY <1>12 DEF ApproveAndContinue
<1>13. CASE ApprovalRejected(c)
  BY <1>13 DEF ApprovalRejected
<1>14. CASE StartLease(c)
  BY <1>14 DEF StartLease, AcquireLease
<1>15. CASE EvaluatedBlocked(c)
  BY <1>15 DEF EvaluatedBlocked
<1>16. CASE EvaluatedApproval(c)
  BY <1>16 DEF EvaluatedApproval
<1>17. CASE EvaluatedSafe(c)
  BY <1>17 DEF EvaluatedSafe
<1>18. CASE ActionLimit(c)
  BY <1>18 DEF ActionLimit
<1>19. CASE ActionLeaseLost(c)
  BY <1>19 DEF ActionLeaseLost, SaveRow
<1>20. CASE ActionLease(c)
  BY <1>20 DEF ActionLease, CheckLease, AcquireLease
<1>21. CASE Lookup(c)
  BY <1>21 DEF Lookup
<1>22. CASE FoundInFlight(c)
  BY <1>22 DEF FoundInFlight
<1>23. CASE Dispatch(c)
  BY <1>23 DEF Dispatch
<1>24. CASE MarkExecuting(c)
  BY <1>24 DEF MarkExecuting, SaveRow
<1>25. CASE NoAgent(c)
  BY <1>25 DEF NoAgent
<1>26. CASE ToolRuns(c)
  BY <1>26 DEF ToolRuns
<1>27. CASE ToolRefused(c)
  BY <1>27 DEF ToolRefused
<1>28. CASE RecordResult(c)
  BY <1>28 DEF RecordResult
<1>29. CASE VerifyThrows(c)
  BY <1>29 DEF VerifyThrows
<1>30. CASE VerifyInconclusive(c)
  BY <1>30 DEF VerifyInconclusive, Verifying
<1>31. CASE VerifyFailed(c)
  BY <1>31 DEF VerifyFailed, Verifying
<1>32. CASE VerifySucceeds(c)
  BY <1>32 DEF VerifySucceeds, Verifying
<1>33. CASE SaveRun(c)
  BY <1>33 DEF SaveRun, SaveRow
<1>34. CASE RecoverRevoked(c)
  BY <1>34 DEF RecoverRevoked, SaveRow
<1>35. CASE RecoverLease(c)
  BY <1>35 DEF RecoverLease, AcquireLease
<1>36. CASE RecoverInFlight(c)
  BY <1>36 DEF RecoverInFlight
<1>37. CASE RecoverResume(c)
  BY <1>37 DEF EntersMap
<1>38. CASE CancelRun(c)
  BY <1>38 DEF CancelRun, SaveRow, Callable
<1>40. QED
  BY <1>1, <1>2, <1>3, <1>4, <1>4g, <1>5, <1>6, <1>7, <1>8, <1>9, <1>10,
     <1>11, <1>12, <1>13, <1>14, <1>15, <1>16, <1>17, <1>18, <1>19,
     <1>20, <1>21, <1>22, <1>23, <1>24, <1>25, <1>26, <1>27, <1>28,
     <1>29, <1>30, <1>31, <1>32, <1>33, <1>34, <1>35, <1>36, <1>37,
     <1>38 DEF CopyStep, ExecuteIteration, Continue

\* A run of the tool uses the step up.
LEMMA RunUsesUp ==
  ASSUME TypeOK, StepKnown, Held, Behind, NEW c \in Copy, ToolRuns(c),
         NEW k \in Step, k = step[c]
  PROVE  /\ CanStillRun(c, k) /\ ~CanStillRun(c, k)'
         /\ effects'[k] = effects[k] + 1 /\ made' = made
<1>1. /\ effects \in [Step -> Nat] /\ loaded \subseteq Copy /\ status \in [Copy -> Lifecycle \cup {"NONE"}]
      /\ iterations \in [Copy -> 0..MaxIterations] /\ MaxIterations \in Nat
      /\ pc \in [Copy -> PC] /\ step \in [Copy -> 0..MaxIterations]
  BY AutonomyRunAssumption DEF TypeOK, MemoryType, CallType, EnvType
<1>2. /\ pc[c] = "tool" /\ step[c] \in Step /\ step[c] <= iterations[c]
      /\ status[c] # "WAITING_FOR_APPROVAL"
  BY <1>1 DEF StepKnown, Held, Behind, ToolRuns, Terminal, Step
<1>3. /\ pc'[c] = "result" /\ step' = step /\ UNCHANGED <<loaded, status, iterations>>
      /\ effects' = [effects EXCEPT ![step[c]] = @ + 1] /\ made' = made
  BY <1>1 DEF ToolRuns, Goto, memVars
<1>4. QED
  BY <1>1, <1>2, <1>3 DEF CanStillRun, Step

\* What the other actions do with the counts.
LEMMA OnlyToolsRun ==
  ASSUME NEW c \in Copy, CopyStep(c), ~ToolRuns(c)
  PROVE  /\ UNCHANGED effects
         /\ ~EntersMap(c) => made' = made
<1> USE DEF envVars
<1>1. CASE \E e \in Engine : StartRun(c, e)
  BY <1>1 DEF EntersMap, StartRun, MakeCopy, Live, SaveRow
<1>2. CASE \E e \in Engine : GetRun(c, e)
  BY <1>2 DEF EntersMap, GetRun, MakeCopy, Live, Rebuild
<1>3. CASE \E e \in Engine : RecoverRead(c, e)
  BY <1>3 DEF RecoverRead, MakeCopy, Live, Rebuild
<1>4. CASE IterationLeaseLost(c)
  BY <1>4 DEF IterationLeaseLost, SaveRow, Callable
<1>4g. CASE GiveUp(c)
  BY <1>4g DEF GiveUp, SaveRow, Callable
<1>5. CASE IterationTimedOut(c)
  BY <1>5 DEF IterationTimedOut, Iterating, CheckLease, AcquireLease, Callable
<1>6. CASE IterationLimit(c)
  BY <1>6 DEF IterationLimit, Iterating, CheckLease, AcquireLease, Callable
<1>7. CASE IterationRevoked(c)
  BY <1>7 DEF IterationRevoked, Iterating, CheckLease, AcquireLease, Callable
<1>8. CASE IterationThrows(c)
  BY <1>8 DEF IterationThrows, Counted, Iterating, CheckLease, AcquireLease, Callable
<1>9. CASE ProposalInvalid(c)
  BY <1>9 DEF ProposalInvalid, Counted, Iterating, CheckLease, AcquireLease, Callable
<1>10. CASE DelegationLimit(c)
  BY <1>10 DEF DelegationLimit, Counted, Iterating, CheckLease, AcquireLease, Callable
<1>11. CASE ProposalValid(c)
  BY <1>11 DEF ProposalValid, Counted, Iterating, CheckLease, AcquireLease, Callable
<1>12. CASE ApproveAndContinue(c)
  BY <1>12 DEF ApproveAndContinue
<1>13. CASE ApprovalRejected(c)
  BY <1>13 DEF ApprovalRejected
<1>14. CASE StartLease(c)
  BY <1>14 DEF StartLease, AcquireLease
<1>15. CASE EvaluatedBlocked(c)
  BY <1>15 DEF EvaluatedBlocked
<1>16. CASE EvaluatedApproval(c)
  BY <1>16 DEF EvaluatedApproval
<1>17. CASE EvaluatedSafe(c)
  BY <1>17 DEF EvaluatedSafe
<1>18. CASE ActionLimit(c)
  BY <1>18 DEF ActionLimit
<1>19. CASE ActionLeaseLost(c)
  BY <1>19 DEF ActionLeaseLost, SaveRow
<1>20. CASE ActionLease(c)
  BY <1>20 DEF ActionLease, CheckLease, AcquireLease
<1>21. CASE Lookup(c)
  BY <1>21 DEF Lookup
<1>22. CASE FoundInFlight(c)
  BY <1>22 DEF FoundInFlight
<1>23. CASE Dispatch(c)
  BY <1>23 DEF Dispatch
<1>24. CASE MarkExecuting(c)
  BY <1>24 DEF MarkExecuting, SaveRow
<1>25. CASE NoAgent(c)
  BY <1>25 DEF NoAgent
<1>26. CASE ToolRuns(c)
  BY <1>26
<1>27. CASE ToolRefused(c)
  BY <1>27 DEF ToolRefused
<1>28. CASE RecordResult(c)
  BY <1>28 DEF RecordResult
<1>29. CASE VerifyThrows(c)
  BY <1>29 DEF VerifyThrows
<1>30. CASE VerifyInconclusive(c)
  BY <1>30 DEF VerifyInconclusive, Verifying
<1>31. CASE VerifyFailed(c)
  BY <1>31 DEF VerifyFailed, Verifying
<1>32. CASE VerifySucceeds(c)
  BY <1>32 DEF VerifySucceeds, Verifying
<1>33. CASE SaveRun(c)
  BY <1>33 DEF SaveRun, SaveRow
<1>34. CASE RecoverRevoked(c)
  BY <1>34 DEF RecoverRevoked, SaveRow
<1>35. CASE RecoverLease(c)
  BY <1>35 DEF RecoverLease, AcquireLease
<1>36. CASE RecoverInFlight(c)
  BY <1>36 DEF RecoverInFlight
<1>37. CASE RecoverResume(c)
  BY <1>37 DEF EntersMap, RecoverResume
<1>38. CASE CancelRun(c)
  BY <1>38 DEF CancelRun, SaveRow, Callable
<1>40. QED
  BY <1>1, <1>2, <1>3, <1>4, <1>4g, <1>5, <1>6, <1>7, <1>8, <1>9, <1>10,
     <1>11, <1>12, <1>13, <1>14, <1>15, <1>16, <1>17, <1>18, <1>19,
     <1>20, <1>21, <1>22, <1>23, <1>24, <1>25, <1>26, <1>27, <1>28,
     <1>29, <1>30, <1>31, <1>32, <1>33, <1>34, <1>35, <1>36, <1>37,
     <1>38 DEF CopyStep, ExecuteIteration, Continue

\* Every run of a tool is paid for by a copy that has not yet run it.
LEMMA CopyCountInductive ==
  ASSUME IsFiniteSet(Copy), TypeOK, StepKnown, Held, Taken, Behind, CopyCount, [Next]_vars
  PROVE  CopyCount'
<1> SUFFICES ASSUME NEW k \in Step
             PROVE  effects'[k] + Cardinality(MayRun(k)') <= made'
  BY DEF CopyCount
<1>t. effects \in [Step -> Nat] /\ made \in Nat
  BY DEF TypeOK, EnvType
<1>c. /\ IsFiniteSet(MayRun(k)) /\ IsFiniteSet(MayRun(k)')
      /\ Cardinality(MayRun(k)) \in Nat /\ Cardinality(MayRun(k)') \in Nat
  <2>1. MayRun(k) \subseteq Copy /\ MayRun(k)' \subseteq Copy
    BY DEF MayRun
  <2>2. QED
    BY <2>1, FS_Subset, FS_CardinalityType
<1>l. effects[k] + Cardinality(MayRun(k)) <= made
  BY DEF CopyCount
<1>o. ASSUME NEW c \in Copy, CopyStep(c), NEW v \in Copy, v # c, v \in MayRun(k)'
      PROVE  v \in MayRun(k)
  <2>1. /\ UNCHANGED <<pc[v], step[v], status[v], iterations[v], actions[v]>>
        /\ v \in loaded' => v \in loaded
    BY <1>o, OthersLeave
  <2>2. QED
    BY <1>o, <2>1 DEF MayRun, CanStillRun
<1>1. ASSUME NEW c \in Copy, ToolRuns(c), k = step[c]
      PROVE  effects'[k] + Cardinality(MayRun(k)') <= made'
  <2>1. CopyStep(c)
    BY <1>1 DEF CopyStep, Continue
  <2>2. c \in MayRun(k) /\ c \notin MayRun(k)'
    BY <1>1, RunUsesUp DEF MayRun
  <2>3. MayRun(k)' \subseteq MayRun(k) \ {c}
    BY <1>o, <2>1, <2>2 DEF MayRun
  <2>4. Cardinality(MayRun(k)') <= Cardinality(MayRun(k)) - 1
    <3>1. IsFiniteSet(MayRun(k) \ {c}) /\ Cardinality(MayRun(k) \ {c}) = Cardinality(MayRun(k)) - 1
      BY <1>c, <2>2, FS_RemoveElement
    <3>2. QED
      BY <2>3, <3>1, FS_Subset
  <2>5. effects'[k] = effects[k] + 1 /\ made' = made
    BY <1>1, <1>t, RunUsesUp
  <2>6. QED
    BY <1>t, <1>c, <1>l, <2>4, <2>5
<1>2. ASSUME NEW c \in Copy, EntersMap(c)
      PROVE  effects'[k] + Cardinality(MayRun(k)') <= made'
  <2>1. CopyStep(c)
    BY <1>2 DEF CopyStep, Continue, EntersMap
  <2>2. MayRun(k)' \subseteq MayRun(k) \cup {c}
    BY <1>o, <2>1 DEF MayRun
  <2>3. /\ IsFiniteSet(MayRun(k) \cup {c})
        /\ Cardinality(MayRun(k) \cup {c}) \in {Cardinality(MayRun(k)), Cardinality(MayRun(k)) + 1}
    BY <1>c, FS_AddElement
  <2>4. Cardinality(MayRun(k)') <= Cardinality(MayRun(k)) + 1
    BY <1>c, <2>2, <2>3, FS_Subset
  <2>5. effects' = effects /\ made' = made + 1
    BY <1>2 DEF EntersMap, StartRun, GetRun, RecoverResume
  <2>6. QED
    BY <1>t, <1>c, <1>l, <2>4, <2>5
<1>3. ASSUME MayRun(k)' \subseteq MayRun(k), effects'[k] = effects[k], made' = made
      PROVE  effects'[k] + Cardinality(MayRun(k)') <= made'
  <2>1. Cardinality(MayRun(k)') <= Cardinality(MayRun(k))
    BY <1>3, <1>c, FS_Subset
  <2>2. QED
    BY <1>3, <1>t, <1>c, <1>l, <2>1
<1>4. ASSUME NEW c \in Copy, CopyStep(c), ~EntersMap(c), ~(ToolRuns(c) /\ k = step[c])
      PROVE  effects'[k] + Cardinality(MayRun(k)') <= made'
  <2>1. MayRun(k)' \subseteq MayRun(k)
    <3>1. c \in MayRun(k)' => c \in MayRun(k)
      BY <1>4, NeverRunsAgain DEF MayRun
    <3>2. QED
      BY <1>4, <1>o, <3>1 DEF MayRun
  <2>2. effects'[k] = effects[k] /\ made' = made
    <3>1. CASE ToolRuns(c)
      BY <1>4, <1>t, <3>1 DEF ToolRuns
    <3>2. QED
      BY <1>4, <3>1, OnlyToolsRun
  <2>3. QED
    BY <1>3, <2>1, <2>2
<1>5. CASE OwnerAnswers \/ LeaseExpires \/ RuntimeExceeded \/ UNCHANGED vars
  <2>1. UNCHANGED <<pc, step, status, iterations, loaded, effects, made>>
    BY <1>5 DEF OwnerAnswers, LeaseExpires, RuntimeExceeded, vars, memVars, frameVars, envVars
  <2>2. MayRun(k)' = MayRun(k)
    BY <2>1 DEF MayRun, CanStillRun
  <2>3. QED
    BY <1>3, <2>1, <2>2
<1>6. ASSUME NEW e \in Engine, Crash(e)
      PROVE  effects'[k] + Cardinality(MayRun(k)') <= made'
  <2>1. effects' = effects /\ made' = made
    BY <1>6 DEF Crash
  <2>2. ASSUME NEW v \in Copy, v \in MayRun(k)'
        PROVE  v \in MayRun(k)
    <3>1. \/ pc'[v] = "idle" /\ v \notin loaded'
          \/ UNCHANGED <<pc[v], step[v], status[v], iterations[v], v \in loaded>>
      BY <1>6 DEF Crash, InMap
    <3>2. QED
      BY <2>2, <3>1 DEF MayRun, CanStillRun
  <2>3. MayRun(k)' \subseteq MayRun(k)
    BY <2>2 DEF MayRun
  <2>4. QED
    BY <1>3, <2>1, <2>3
<1>7. QED
  BY <1>1, <1>2, <1>4, <1>5, <1>6, NextCases

\* However many engines share the database, however often they restart and
\* recover, each copy put into a map (by a start, a load or a recovery) runs the
\* tool of a step at most once: made copies run it at most that often.  (Not once:
\* two copies may each run it, since whatever saves the row clears the lease of
\* the one that is at work.)
THEOREM OncePerCopy ==
  ASSUME IsFiniteSet(Copy)
  PROVE  Spec => [](\A k \in Step : effects[k] <= made)
<1>1. Init => Held /\ Taken /\ Behind
  BY DEF Init, Held, Taken, Behind
<1>2. Init => CopyCount
  <2> SUFFICES ASSUME Init, NEW k \in Step
               PROVE  effects[k] + Cardinality(MayRun(k)) <= made
    BY DEF CopyCount
  <2>1. effects[k] = 0 /\ made = 0
    BY DEF Init
  <2>2. MayRun(k) = {}
    BY DEF MayRun, CanStillRun, Init
  <2>3. QED
    BY <2>1, <2>2, FS_EmptySet
<1>3. TypeOK /\ CopyCount => \A k \in Step : effects[k] <= made
  <2> SUFFICES ASSUME TypeOK, CopyCount, NEW k \in Step
               PROVE  effects[k] <= made
    OBVIOUS
  <2>1. MayRun(k) \subseteq Copy
    BY DEF MayRun
  <2>2. Cardinality(MayRun(k)) \in Nat
    BY <2>1, FS_Subset, FS_CardinalityType
  <2>3. effects[k] \in Nat /\ made \in Nat
    BY DEF TypeOK, EnvType
  <2>4. effects[k] + Cardinality(MayRun(k)) <= made
    BY DEF CopyCount
  <2>5. QED
    BY <2>2, <2>3, <2>4
<1>4. QED
  BY <1>1, <1>2, <1>3, InitTyped, TypeInductive, StepKnownInductive, HeldInductive, TakenInductive,
     BehindInductive, CopyCountInductive, PTL DEF Spec
-----------------------------------------------------------------------------
(* How many tools any number of engines run. *)

\* The limit was checked before the step was looked up, and the mark counts the
\* action before its tool is called.
Reserved ==
    \A c \in Copy :
        /\ pc[c] \in {"lookup", "dispatch", "mark"} => actions[c] < MaxActions
        /\ pc[c] = "tool" => actions[c] \in 1..MaxActions

\* The actions of its budget that a copy has left: it is in a map, or a call of it is
\* on the way to the tool.
HasLeft(c, a) ==
    \/ /\ c \in loaded \/ pc[c] \in {"evaluate", "begin", "lookup", "dispatch", "mark"}
       /\ actions[c] < a
    \/ actions[c] = a /\ pc[c] = "tool"

Budgets == {p \in Copy \X (1..MaxActions) : HasLeft(p[1], p[2])}

\* Every run of a tool, with its number among those of its step.
ToolCalls == {p \in Step \X Nat : 1 <= p[2] /\ p[2] <= effects[p[1]]}

\* Every copy put into a map has one budget.
BudgetCount ==
    /\ IsFiniteSet(ToolCalls)
    /\ Cardinality(ToolCalls) + Cardinality(Budgets) <= MaxActions * made

\* A call keeps what it has reserved.
LEMMA ReservedInductive == TypeOK /\ Reserved /\ [Next]_vars => Reserved'
<1> SUFFICES ASSUME TypeOK, Reserved, [Next]_vars PROVE Reserved'
  OBVIOUS
<1> DEFINE Keeps(v) ==
      /\ pc[v] \in {"lookup", "dispatch", "mark"} => actions[v] < MaxActions
      /\ pc[v] = "tool" => actions[v] \in 1..MaxActions
<1>t. /\ actions \in [Copy -> Nat] /\ MaxActions \in Nat /\ stepIndex \in Nat
      /\ pc \in [Copy -> PC]
  BY AutonomyRunAssumption DEF TypeOK, StoreType, MemoryType, CallType
<1>s. \A v \in Copy : Keeps(v)
  BY DEF Reserved
<1>1. ASSUME NEW c \in Copy, CopyStep(c)
      PROVE  Keeps(c)'
  <2>s. Keeps(c)
    BY <1>s
  <2> USE <1>t, <2>s DEF Goto, Enter, AtAwait, memVars, frameVars
  <2>1. CASE \E e \in Engine : StartRun(c, e)
    BY <2>1 DEF StartRun, MakeCopy, Live, SaveRow
  <2>2. CASE \E e \in Engine : GetRun(c, e)
    BY <2>2 DEF GetRun, MakeCopy, Live, Rebuild
  <2>3. CASE \E e \in Engine : RecoverRead(c, e)
    BY <2>3 DEF RecoverRead, MakeCopy, Live, Rebuild
  <2>4. CASE IterationLeaseLost(c)
    BY <2>4 DEF IterationLeaseLost, SaveRow, Callable
  <2>4g. CASE GiveUp(c)
    BY <2>4g DEF GiveUp, SaveRow, Callable
  <2>5. CASE IterationTimedOut(c)
    BY <2>5 DEF IterationTimedOut, Iterating, CheckLease, AcquireLease, Callable
  <2>6. CASE IterationLimit(c)
    BY <2>6 DEF IterationLimit, Iterating, CheckLease, AcquireLease, Callable
  <2>7. CASE IterationRevoked(c)
    BY <2>7 DEF IterationRevoked, Iterating, CheckLease, AcquireLease, Callable
  <2>8. CASE IterationThrows(c)
    BY <2>8 DEF IterationThrows, Counted, Iterating, CheckLease, AcquireLease, Callable
  <2>9. CASE ProposalInvalid(c)
    BY <2>9 DEF ProposalInvalid, Counted, Iterating, CheckLease, AcquireLease, Callable
  <2>10. CASE DelegationLimit(c)
    BY <2>10 DEF DelegationLimit, Counted, Iterating, CheckLease, AcquireLease, Callable
  <2>11. CASE ProposalValid(c)
    BY <2>11 DEF ProposalValid, Counted, Iterating, CheckLease, AcquireLease, Callable
  <2>12. CASE ApproveAndContinue(c)
    BY <2>12 DEF ApproveAndContinue
  <2>13. CASE ApprovalRejected(c)
    BY <2>13 DEF ApprovalRejected
  <2>14. CASE StartLease(c)
    BY <2>14 DEF StartLease, AcquireLease
  <2>15. CASE EvaluatedBlocked(c)
    BY <2>15 DEF EvaluatedBlocked
  <2>16. CASE EvaluatedApproval(c)
    BY <2>16 DEF EvaluatedApproval
  <2>17. CASE EvaluatedSafe(c)
    BY <2>17 DEF EvaluatedSafe
  <2>18. CASE ActionLimit(c)
    BY <2>18 DEF ActionLimit
  <2>19. CASE ActionLeaseLost(c)
    BY <2>19 DEF ActionLeaseLost, SaveRow
  <2>20. CASE ActionLease(c)
    BY <2>20 DEF ActionLease, CheckLease, AcquireLease
  <2>21. CASE Lookup(c)
    BY <2>21 DEF Lookup
  <2>22. CASE FoundInFlight(c)
    BY <2>22 DEF FoundInFlight
  <2>23. CASE Dispatch(c)
    BY <2>23 DEF Dispatch
  <2>24. CASE MarkExecuting(c)
    BY <2>24 DEF MarkExecuting, SaveRow
  <2>25. CASE NoAgent(c)
    BY <2>25 DEF NoAgent
  <2>26. CASE ToolRuns(c)
    BY <2>26 DEF ToolRuns
  <2>27. CASE ToolRefused(c)
    BY <2>27 DEF ToolRefused
  <2>28. CASE RecordResult(c)
    BY <2>28 DEF RecordResult
  <2>29. CASE VerifyThrows(c)
    BY <2>29 DEF VerifyThrows
  <2>30. CASE VerifyInconclusive(c)
    BY <2>30 DEF VerifyInconclusive, Verifying
  <2>31. CASE VerifyFailed(c)
    BY <2>31 DEF VerifyFailed, Verifying
  <2>32. CASE VerifySucceeds(c)
    BY <2>32 DEF VerifySucceeds, Verifying
  <2>33. CASE SaveRun(c)
    BY <2>33 DEF SaveRun, SaveRow
  <2>34. CASE RecoverRevoked(c)
    BY <2>34 DEF RecoverRevoked, SaveRow
  <2>35. CASE RecoverLease(c)
    BY <2>35 DEF RecoverLease, AcquireLease
  <2>36. CASE RecoverInFlight(c)
    BY <2>36 DEF RecoverInFlight
  <2>37. CASE RecoverResume(c)
    BY <2>37 DEF RecoverResume
  <2>38. CASE CancelRun(c)
    BY <2>38 DEF CancelRun, SaveRow, Callable
  <2>40. QED
    BY <1>1, <2>1, <2>2, <2>3, <2>4, <2>4g, <2>5, <2>6, <2>7, <2>8, <2>9, <2>10,
       <2>11, <2>12, <2>13, <2>14, <2>15, <2>16, <2>17, <2>18, <2>19,
       <2>20, <2>21, <2>22, <2>23, <2>24, <2>25, <2>26, <2>27, <2>28,
       <2>29, <2>30, <2>31, <2>32, <2>33, <2>34, <2>35, <2>36, <2>37,
       <2>38 DEF CopyStep, ExecuteIteration, Continue
<1>1c. ASSUME NEW e \in Engine, Crash(e), NEW v \in Copy
      PROVE  Keeps(v)'
  BY <1>t, <1>s, <1>1c DEF Crash
<1>2. ASSUME NEW c \in Copy, CopyStep(c), NEW v \in Copy, v # c
      PROVE  Keeps(v)'
  <2>1. UNCHANGED <<pc[v], step[v], status[v], iterations[v], actions[v]>>
    BY <1>2, OthersLeave
  <2>2. Keeps(v)
    BY <1>s
  <2>3. QED
    BY <2>1, <2>2
<1>3. CASE OwnerAnswers \/ LeaseExpires \/ RuntimeExceeded \/ UNCHANGED vars
  <2>1. UNCHANGED <<pc, actions>>
    BY <1>3 DEF OwnerAnswers, LeaseExpires, RuntimeExceeded, vars, memVars, frameVars
  <2>2. QED
    BY <1>s, <2>1 DEF Reserved
<1>4. ASSUME NEW c \in Copy, CopyStep(c)
      PROVE  \A v \in Copy : Keeps(v)'
  BY <1>1, <1>2, <1>4
<1>5. (\A v \in Copy : Keeps(v)') => Reserved'
  BY DEF Reserved
<1>6. QED
  BY <1>1c, <1>3, <1>4, <1>5, NextCases

\* No copy gets its budget back.
LEMMA BudgetOnlyShrinks ==
  ASSUME TypeOK, Taken, NEW c \in Copy, CopyStep(c), ~EntersMap(c),
         NEW a \in 1..MaxActions, HasLeft(c, a)'
  PROVE  HasLeft(c, a)
<1>t. /\ loaded \subseteq Copy /\ actions \in [Copy -> Nat] /\ MaxActions \in Nat
      /\ stepIndex \in Nat /\ pc \in [Copy -> PC]
  BY AutonomyRunAssumption DEF TypeOK, StoreType, MemoryType, CallType
<1>s. pc[c] \in {"recover", "reconcile"} => c \notin loaded
  BY DEF Taken
<1> USE <1>t, <1>s DEF HasLeft, Goto, Enter, AtAwait, memVars, frameVars
<1>1. CASE \E e \in Engine : StartRun(c, e)
  BY <1>1 DEF EntersMap
<1>2. CASE \E e \in Engine : GetRun(c, e)
  BY <1>2 DEF EntersMap
<1>3. CASE \E e \in Engine : RecoverRead(c, e)
  BY <1>3 DEF RecoverRead, MakeCopy, Live, Rebuild
<1>4. CASE IterationLeaseLost(c)
  BY <1>4 DEF IterationLeaseLost, SaveRow, Callable
<1>4g. CASE GiveUp(c)
  BY <1>4g DEF GiveUp, SaveRow, Callable
<1>5. CASE IterationTimedOut(c)
  BY <1>5 DEF IterationTimedOut, Iterating, CheckLease, AcquireLease, Callable
<1>6. CASE IterationLimit(c)
  BY <1>6 DEF IterationLimit, Iterating, CheckLease, AcquireLease, Callable
<1>7. CASE IterationRevoked(c)
  BY <1>7 DEF IterationRevoked, Iterating, CheckLease, AcquireLease, Callable
<1>8. CASE IterationThrows(c)
  BY <1>8 DEF IterationThrows, Counted, Iterating, CheckLease, AcquireLease, Callable
<1>9. CASE ProposalInvalid(c)
  BY <1>9 DEF ProposalInvalid, Counted, Iterating, CheckLease, AcquireLease, Callable
<1>10. CASE DelegationLimit(c)
  BY <1>10 DEF DelegationLimit, Counted, Iterating, CheckLease, AcquireLease, Callable
<1>11. CASE ProposalValid(c)
  BY <1>11 DEF ProposalValid, Counted, Iterating, CheckLease, AcquireLease, Callable
<1>12. CASE ApproveAndContinue(c)
  BY <1>12 DEF ApproveAndContinue
<1>13. CASE ApprovalRejected(c)
  BY <1>13 DEF ApprovalRejected
<1>14. CASE StartLease(c)
  BY <1>14 DEF StartLease, AcquireLease
<1>15. CASE EvaluatedBlocked(c)
  BY <1>15 DEF EvaluatedBlocked
<1>16. CASE EvaluatedApproval(c)
  BY <1>16 DEF EvaluatedApproval
<1>17. CASE EvaluatedSafe(c)
  BY <1>17 DEF EvaluatedSafe
<1>18. CASE ActionLimit(c)
  BY <1>18 DEF ActionLimit
<1>19. CASE ActionLeaseLost(c)
  BY <1>19 DEF ActionLeaseLost, SaveRow
<1>20. CASE ActionLease(c)
  BY <1>20 DEF ActionLease, CheckLease, AcquireLease
<1>21. CASE Lookup(c)
  BY <1>21 DEF Lookup
<1>22. CASE FoundInFlight(c)
  BY <1>22 DEF FoundInFlight
<1>23. CASE Dispatch(c)
  BY <1>23 DEF Dispatch
<1>24. CASE MarkExecuting(c)
  BY <1>24 DEF MarkExecuting, SaveRow
<1>25. CASE NoAgent(c)
  BY <1>25 DEF NoAgent
<1>26. CASE ToolRuns(c)
  BY <1>26 DEF ToolRuns
<1>27. CASE ToolRefused(c)
  BY <1>27 DEF ToolRefused
<1>28. CASE RecordResult(c)
  BY <1>28 DEF RecordResult
<1>29. CASE VerifyThrows(c)
  BY <1>29 DEF VerifyThrows
<1>30. CASE VerifyInconclusive(c)
  BY <1>30 DEF VerifyInconclusive, Verifying
<1>31. CASE VerifyFailed(c)
  BY <1>31 DEF VerifyFailed, Verifying
<1>32. CASE VerifySucceeds(c)
  BY <1>32 DEF VerifySucceeds, Verifying
<1>33. CASE SaveRun(c)
  BY <1>33 DEF SaveRun, SaveRow
<1>34. CASE RecoverRevoked(c)
  BY <1>34 DEF RecoverRevoked, SaveRow
<1>35. CASE RecoverLease(c)
  BY <1>35 DEF RecoverLease, AcquireLease
<1>36. CASE RecoverInFlight(c)
  BY <1>36 DEF RecoverInFlight
<1>37. CASE RecoverResume(c)
  BY <1>37 DEF EntersMap
<1>38. CASE CancelRun(c)
  BY <1>38 DEF CancelRun, SaveRow, Callable
<1>40. QED
  BY <1>1, <1>2, <1>3, <1>4, <1>4g, <1>5, <1>6, <1>7, <1>8, <1>9, <1>10,
     <1>11, <1>12, <1>13, <1>14, <1>15, <1>16, <1>17, <1>18, <1>19,
     <1>20, <1>21, <1>22, <1>23, <1>24, <1>25, <1>26, <1>27, <1>28,
     <1>29, <1>30, <1>31, <1>32, <1>33, <1>34, <1>35, <1>36, <1>37,
     <1>38 DEF CopyStep, ExecuteIteration, Continue

\* A run of a tool takes one action off the budget and is one call more.
LEMMA RunTakesOne ==
  ASSUME TypeOK, StepKnown, Reserved, NEW c \in Copy, ToolRuns(c)
  PROVE  /\ \E a \in 1..MaxActions : HasLeft(c, a) /\ ~HasLeft(c, a)'
         /\ \E q : q \notin ToolCalls /\ ToolCalls' = ToolCalls \cup {q}
         /\ made' = made
<1>1. /\ effects \in [Step -> Nat] /\ actions \in [Copy -> Nat] /\ MaxActions \in Nat
      /\ pc \in [Copy -> PC] /\ step[c] \in Step /\ loaded \subseteq Copy
      /\ pc[c] = "tool" /\ actions[c] \in 1..MaxActions
  BY AutonomyRunAssumption
     DEF TypeOK, MemoryType, CallType, EnvType, StepKnown, Reserved, ToolRuns, Step
<1>2. /\ pc'[c] = "result" /\ UNCHANGED <<loaded, actions>>
      /\ effects' = [effects EXCEPT ![step[c]] = @ + 1] /\ made' = made
  BY <1>1 DEF ToolRuns, Goto, memVars
<1>3. \E a \in 1..MaxActions : HasLeft(c, a) /\ ~HasLeft(c, a)'
  <2>1. PICK a \in 1..MaxActions : a = actions[c]
    BY <1>1
  <2>2. HasLeft(c, a) /\ ~HasLeft(c, a)'
    BY <1>1, <1>2, <2>1 DEF HasLeft
  <2>3. QED
    BY <2>2
<1>4. \E q : q \notin ToolCalls /\ ToolCalls' = ToolCalls \cup {q}
  <2>1. PICK q : q = <<step[c], effects[step[c]] + 1>>
    OBVIOUS
  <2>2. q \in Step \X Nat /\ q \notin ToolCalls
    BY <1>1, <2>1 DEF ToolCalls
  <2>3. ASSUME NEW p \in Step \X Nat
        PROVE  p \in ToolCalls' <=> p \in ToolCalls \/ p = q
    <3>1. PICK k \in Step, j \in Nat : p = <<k, j>>
      OBVIOUS
    <3>2. /\ p \in ToolCalls <=> 1 <= j /\ j <= effects[k]
          /\ p \in ToolCalls' <=> 1 <= j /\ j <= effects'[k]
      BY <3>1 DEF ToolCalls
    <3>3. p = q <=> k = step[c] /\ j = effects[step[c]] + 1
      BY <2>1, <3>1
    <3>4. effects'[k] = IF k = step[c] THEN effects[k] + 1 ELSE effects[k]
      BY <1>1, <1>2
    <3>5. effects[k] \in Nat
      BY <1>1
    <3>6. QED
      BY <3>2, <3>3, <3>4, <3>5
  <2>4. ToolCalls \subseteq Step \X Nat /\ ToolCalls' \subseteq Step \X Nat
    BY DEF ToolCalls, Step
  <2>5. ToolCalls' = ToolCalls \cup {q}
    BY <2>2, <2>3, <2>4
  <2>6. QED
    BY <2>2, <2>5
<1>5. QED
  BY <1>2, <1>3, <1>4

\* What is left is part of a finite number of budgets.
LEMMA BudgetsFinite ==
  ASSUME IsFiniteSet(Copy), MaxActions \in Nat
  PROVE  /\ IsFiniteSet(Budgets) /\ Cardinality(Budgets) \in Nat
         /\ IsFiniteSet(Copy \X (1..MaxActions))
         /\ IsFiniteSet(1..MaxActions) /\ Cardinality(1..MaxActions) = MaxActions
<1>1. Budgets \subseteq Copy \X (1..MaxActions)
  BY DEF Budgets
<1>2. IsFiniteSet(1..MaxActions) /\ Cardinality(1..MaxActions) = MaxActions
  BY FS_Interval
<1>3. IsFiniteSet(Copy \X (1..MaxActions))
  BY <1>2, FS_Product
<1>4. IsFiniteSet(Budgets) /\ Cardinality(Budgets) \in Nat
  BY <1>1, <1>3, FS_Subset, FS_CardinalityType
<1>5. QED
  BY <1>2, <1>3, <1>4

\* Every call of a tool is paid for out of the budget of a copy.
LEMMA BudgetCountInductive ==
  ASSUME IsFiniteSet(Copy), TypeOK, TypeOK', StepKnown, Taken, Reserved, BudgetCount,
         [Next]_vars
  PROVE  BudgetCount'
<1>t. /\ MaxActions \in Nat /\ made \in Nat /\ made' \in Nat
      /\ effects \in [Step -> Nat]
  BY AutonomyRunAssumption DEF TypeOK, EnvType
<1>m. MaxActions * made \in Nat
  BY <1>t
<1>c. /\ IsFiniteSet(Budgets) /\ Cardinality(Budgets) \in Nat
      /\ IsFiniteSet(Budgets') /\ Cardinality(Budgets') \in Nat
  <2>1. IsFiniteSet(Copy \X (1..MaxActions))
    BY <1>t, BudgetsFinite
  <2>2. Budgets' \subseteq Copy \X (1..MaxActions)
    BY DEF Budgets
  <2>3. QED
    BY <1>t, <2>1, <2>2, BudgetsFinite, FS_Subset, FS_CardinalityType
<1>f. IsFiniteSet(ToolCalls) /\ Cardinality(ToolCalls) \in Nat
  BY FS_CardinalityType DEF BudgetCount
<1>l. Cardinality(ToolCalls) + Cardinality(Budgets) <= MaxActions * made
  BY DEF BudgetCount
<1>o. ASSUME NEW c \in Copy, CopyStep(c), NEW v \in Copy, v # c,
             NEW a \in 1..MaxActions, HasLeft(v, a)'
      PROVE  HasLeft(v, a)
  <2>1. /\ UNCHANGED <<pc[v], step[v], status[v], iterations[v], actions[v]>>
        /\ v \in loaded' => v \in loaded
    BY <1>o, OthersLeave
  <2>2. QED
    BY <1>o, <2>1 DEF HasLeft
<1>p. \A v \in Copy, a \in 1..MaxActions :
          /\ <<v, a>> \in Budgets <=> HasLeft(v, a)
          /\ <<v, a>> \in Budgets' <=> HasLeft(v, a)'
  BY DEF Budgets
<1>q. /\ \A p \in Budgets : \E v \in Copy, a \in 1..MaxActions : p = <<v, a>>
      /\ \A p \in Budgets' : \E v \in Copy, a \in 1..MaxActions : p = <<v, a>>
  BY DEF Budgets
<1> HIDE DEF Budgets
<1>1. ASSUME NEW c \in Copy, ToolRuns(c)
      PROVE  BudgetCount'
  <2>1. CopyStep(c) /\ ~EntersMap(c)
    <3>1. CopyStep(c)
      BY <1>1 DEF CopyStep, Continue
    <3>2. made' = made
      BY <1>1, RunTakesOne
    <3>3. EntersMap(c) => made' = made + 1
      BY DEF EntersMap, StartRun, GetRun, RecoverResume
    <3>4. QED
      BY <1>t, <3>1, <3>2, <3>3
  <2>2. PICK a \in 1..MaxActions : HasLeft(c, a) /\ ~HasLeft(c, a)'
    BY <1>1, RunTakesOne
  <2>3. PICK q : q \notin ToolCalls /\ ToolCalls' = ToolCalls \cup {q}
    BY <1>1, RunTakesOne
  <2>4. <<c, a>> \in Budgets /\ <<c, a>> \notin Budgets'
    BY <1>p, <2>2
  <2>5. Budgets' \subseteq Budgets \ {<<c, a>>}
    <3>1. ASSUME NEW v \in Copy, NEW b \in 1..MaxActions, HasLeft(v, b)'
          PROVE  HasLeft(v, b)
      BY <1>o, <2>1, <3>1, BudgetOnlyShrinks
    <3>2. QED
      BY <1>p, <1>q, <2>4, <3>1
  <2>6. Cardinality(Budgets') <= Cardinality(Budgets) - 1
    <3>1. /\ IsFiniteSet(Budgets \ {<<c, a>>})
          /\ Cardinality(Budgets \ {<<c, a>>}) = Cardinality(Budgets) - 1
      BY <1>c, <2>4, FS_RemoveElement
    <3>2. QED
      BY <2>5, <3>1, FS_Subset
  <2>7. IsFiniteSet(ToolCalls') /\ Cardinality(ToolCalls') = Cardinality(ToolCalls) + 1
    BY <1>f, <2>3, FS_AddElement
  <2>8. made' = made
    BY <1>1, RunTakesOne
  <2> HIDE DEF ToolCalls
  <2>9. QED
    BY <1>t, <1>m, <1>c, <1>f, <1>l, <2>6, <2>7, <2>8 DEF BudgetCount
<1>2. ASSUME NEW c \in Copy, EntersMap(c)
      PROVE  BudgetCount'
  <2> DEFINE Full == {c} \X (1..MaxActions)
  <2>1. CopyStep(c)
    BY <1>2 DEF CopyStep, Continue, EntersMap
  <2>2. Budgets' \subseteq Budgets \cup Full
    <3>1. ASSUME NEW v \in Copy, NEW b \in 1..MaxActions, HasLeft(v, b)'
          PROVE  v = c \/ HasLeft(v, b)
      BY <1>o, <2>1, <3>1
    <3>2. QED
      BY <1>p, <1>q, <3>1
  <2>3. IsFiniteSet(Full) /\ Cardinality(Full) = MaxActions
    <3>1. IsFiniteSet({c}) /\ Cardinality({c}) = 1
      BY FS_Singleton
    <3>2. IsFiniteSet(1..MaxActions) /\ Cardinality(1..MaxActions) = MaxActions
      BY <1>t, BudgetsFinite
    <3>3. IsFiniteSet(Full) /\ Cardinality(Full) = Cardinality({c}) * Cardinality(1..MaxActions)
      BY <3>1, <3>2, FS_Product
    <3>4. QED
      BY <1>t, <3>1, <3>2, <3>3
  <2> HIDE DEF Full
  <2>4. Cardinality(Budgets') <= Cardinality(Budgets) + MaxActions
    <3>1. IsFiniteSet(Budgets \cup Full)
      BY <1>c, <2>3, FS_Union
    <3>2. /\ Cardinality(Budgets \cup Full) =
                Cardinality(Budgets) + Cardinality(Full) - Cardinality(Budgets \cap Full)
          /\ IsFiniteSet(Budgets \cap Full)
      BY <1>c, <2>3, FS_Union, FS_Intersection
    <3>3. Cardinality(Budgets \cap Full) \in Nat
      BY <3>2, FS_CardinalityType
    <3>4. Cardinality(Budgets') <= Cardinality(Budgets \cup Full)
      BY <2>2, <3>1, FS_Subset
    <3>5. QED
      BY <1>t, <1>c, <2>3, <3>2, <3>3, <3>4
  <2>5. effects' = effects /\ made' = made + 1
    BY <1>2 DEF EntersMap, StartRun, GetRun, RecoverResume
  <2>6. ToolCalls' = ToolCalls
    BY <2>5 DEF ToolCalls
  <2>7. MaxActions * made' =
          MaxActions * made + MaxActions
    BY <1>t, <2>5
  <2> HIDE DEF ToolCalls
  <2>8. Cardinality(ToolCalls) + Cardinality(Budgets') <= MaxActions * made + MaxActions
    BY <1>t, <1>m, <1>c, <1>f, <1>l, <2>4
  <2>9. IsFiniteSet(ToolCalls') /\ Cardinality(ToolCalls') = Cardinality(ToolCalls)
    BY <1>f, <2>6
  <2>10. Cardinality(ToolCalls') + Cardinality(Budgets') <= MaxActions * made'
    BY <2>7, <2>8, <2>9
  <2>11. QED
    BY <2>9, <2>10 DEF BudgetCount
<1>3. ASSUME Budgets' \subseteq Budgets, effects' = effects, made' = made
      PROVE  BudgetCount'
  <2>1. Cardinality(Budgets') <= Cardinality(Budgets)
    BY <1>3, <1>c, FS_Subset
  <2>2. ToolCalls' = ToolCalls
    BY <1>3 DEF ToolCalls
  <2> HIDE DEF ToolCalls
  <2>3. QED
    BY <1>3, <1>m, <1>c, <1>f, <1>l, <2>1, <2>2 DEF BudgetCount
<1>4. ASSUME NEW c \in Copy, CopyStep(c), ~EntersMap(c), ~ToolRuns(c)
      PROVE  BudgetCount'
  <2>1. ASSUME NEW v \in Copy, NEW b \in 1..MaxActions, HasLeft(v, b)'
        PROVE  HasLeft(v, b)
    BY <1>o, <1>4, <2>1, BudgetOnlyShrinks
  <2>2. Budgets' \subseteq Budgets
    BY <1>p, <1>q, <2>1
  <2>3. QED
    BY <1>3, <1>4, <2>2, OnlyToolsRun
<1>5. CASE OwnerAnswers \/ LeaseExpires \/ RuntimeExceeded \/ UNCHANGED vars
  <2>1. UNCHANGED <<pc, actions, loaded, effects, made>>
    BY <1>5 DEF OwnerAnswers, LeaseExpires, RuntimeExceeded, vars, memVars, frameVars, envVars
  <2>2. Budgets' = Budgets
    BY <2>1 DEF Budgets, HasLeft
  <2>3. QED
    BY <1>3, <2>1, <2>2
<1>6. ASSUME NEW e \in Engine, Crash(e)
      PROVE  BudgetCount'
  <2>1. effects' = effects /\ made' = made
    BY <1>6 DEF Crash
  <2>2. ASSUME NEW v \in Copy, NEW b \in 1..MaxActions, HasLeft(v, b)'
        PROVE  HasLeft(v, b)
    <3>1. \/ pc'[v] = "idle" /\ v \notin loaded'
          \/ UNCHANGED <<pc[v], actions[v], v \in loaded>>
      BY <1>6 DEF Crash, InMap
    <3>2. QED
      BY <2>2, <3>1 DEF HasLeft
  <2>3. Budgets' \subseteq Budgets
    BY <1>p, <1>q, <2>2
  <2>4. QED
    BY <1>3, <2>1, <2>3
<1>7. QED
  BY <1>1, <1>2, <1>4, <1>5, <1>6, NextCases

\* However many engines share the database, every copy put into a map runs at most
\* MaxActions tools, although the counts it was rebuilt with forget what others did.
THEOREM BudgetPerCopy ==
  ASSUME IsFiniteSet(Copy)
  PROVE  Spec => [](/\ IsFiniteSet(ToolCalls)
                    /\ Cardinality(ToolCalls) <= MaxActions * made)
<1>1. Init => Taken /\ Reserved
  BY DEF Init, Taken, Reserved
<1>2. Init => BudgetCount
  <2> SUFFICES ASSUME Init PROVE BudgetCount
    OBVIOUS
  <2>1. ToolCalls = {}
    <3>1. \A k \in Step : effects[k] = 0
      BY DEF Init
    <3>2. QED
      BY <3>1 DEF ToolCalls
  <2>2. made = 0 /\ MaxActions \in Nat
    BY AutonomyRunAssumption DEF Init
  <2>3. Budgets = {}
    BY DEF Init, Budgets, HasLeft
  <2>4. Cardinality(Budgets) = 0
    BY <2>3, FS_EmptySet
  <2>5. IsFiniteSet(ToolCalls) /\ Cardinality(ToolCalls) = 0
    BY <2>1, FS_EmptySet
  <2> HIDE DEF ToolCalls, Budgets
  <2>6. QED
    BY <2>2, <2>4, <2>5 DEF BudgetCount
<1>3. TypeOK /\ BudgetCount
        => /\ IsFiniteSet(ToolCalls)
           /\ Cardinality(ToolCalls) <= MaxActions * made
  <2> SUFFICES ASSUME TypeOK, BudgetCount
               PROVE  /\ IsFiniteSet(ToolCalls)
                      /\ Cardinality(ToolCalls) <= MaxActions * made
    OBVIOUS
  <2>1. MaxActions \in Nat /\ made \in Nat /\ Cardinality(Budgets) \in Nat
    BY BudgetsFinite, AutonomyRunAssumption DEF TypeOK, EnvType
  <2>2. IsFiniteSet(ToolCalls) /\ Cardinality(ToolCalls) \in Nat
    BY FS_CardinalityType DEF BudgetCount
  <2>3. Cardinality(ToolCalls) + Cardinality(Budgets) <= MaxActions * made
    BY DEF BudgetCount
  <2>4. MaxActions * made \in Nat
    BY <2>1
  <2> HIDE DEF ToolCalls, Budgets
  <2>5. QED
    BY <2>1, <2>2, <2>3, <2>4
<1>4. QED
  BY <1>1, <1>2, <1>3, InitTyped, TypeInductive, StepKnownInductive, TakenInductive,
     ReservedInductive, BudgetCountInductive, PTL DEF Spec
-----------------------------------------------------------------------------
(* Copies that come one after the other, in whichever engine. *)

\* At most one copy is in use.
Solo == \A c, d \in Copy : Live(c) /\ Live(d) => c = d

\* The steps of the system when c is the only copy in use, before or after.
Acts(c) ==
    \/ CopyStep(c)
    \/ \E e \in Engine : Crash(e)
    \/ OwnerAnswers \/ LeaseExpires \/ RuntimeExceeded \/ UNCHANGED vars

\* They are steps of that copy or of nobody.
LEMMA ActsAlone ==
  ASSUME NEW c \in Copy, Acts(c)
  PROVE  \/ \E e \in Engine : StartRun(c, e)
         \/ \E e \in Engine : GetRun(c, e)
         \/ \E e \in Engine : RecoverRead(c, e)
         \/ IterationLeaseLost(c) \/ IterationTimedOut(c) \/ IterationLimit(c)
         \/ IterationRevoked(c) \/ IterationThrows(c)
         \/ ProposalInvalid(c) \/ DelegationLimit(c) \/ ProposalValid(c)
         \/ ApproveAndContinue(c) \/ ApprovalRejected(c)
         \/ StartLease(c) \/ GiveUp(c)
         \/ EvaluatedBlocked(c) \/ EvaluatedApproval(c) \/ EvaluatedSafe(c)
         \/ ActionLimit(c) \/ ActionLeaseLost(c) \/ ActionLease(c)
         \/ Lookup(c) \/ FoundInFlight(c) \/ Dispatch(c) \/ MarkExecuting(c) \/ NoAgent(c)
         \/ ToolRuns(c) \/ ToolRefused(c) \/ RecordResult(c)
         \/ VerifyThrows(c) \/ VerifyInconclusive(c) \/ VerifyFailed(c) \/ VerifySucceeds(c)
         \/ SaveRun(c)
         \/ RecoverRevoked(c) \/ RecoverLease(c) \/ RecoverInFlight(c) \/ RecoverResume(c)
         \/ CancelRun(c) \/ \E e \in Engine : Crash(e)
         \/ OwnerAnswers \/ LeaseExpires \/ RuntimeExceeded \/ UNCHANGED vars
BY DEF Acts, CopyStep, ExecuteIteration, Continue

\* A step of a copy that is in use leaves alone as it was, and one that makes the
\* copy knows whether another one is in use.
LEMMA MadeOrInUse ==
  ASSUME NEW c \in Copy, CopyStep(c)
  PROVE  \/ Live(c) /\ alone' = alone
         \/ ~Live(c) /\ alone' = (alone /\ \A d \in Copy : ~Live(d))
<1> USE DEF envVars
<1>1. CASE \E e \in Engine : StartRun(c, e)
  BY <1>1 DEF StartRun, MakeCopy, SaveRow
<1>2. CASE \E e \in Engine : GetRun(c, e)
  BY <1>2 DEF GetRun, MakeCopy, Rebuild
<1>3. CASE \E e \in Engine : RecoverRead(c, e)
  BY <1>3 DEF RecoverRead, MakeCopy, Rebuild
<1>4. CASE IterationLeaseLost(c)
  BY <1>4 DEF Live, IterationLeaseLost, SaveRow, Callable
<1>4g. CASE GiveUp(c)
  BY <1>4g DEF Live, GiveUp, SaveRow, Callable
<1>5. CASE IterationTimedOut(c)
  BY <1>5 DEF Live, IterationTimedOut, Iterating, CheckLease, AcquireLease, Callable
<1>6. CASE IterationLimit(c)
  BY <1>6 DEF Live, IterationLimit, Iterating, CheckLease, AcquireLease, Callable
<1>7. CASE IterationRevoked(c)
  BY <1>7 DEF Live, IterationRevoked, Iterating, CheckLease, AcquireLease, Callable
<1>8. CASE IterationThrows(c)
  BY <1>8 DEF Live, IterationThrows, Counted, Iterating, CheckLease, AcquireLease, Callable
<1>9. CASE ProposalInvalid(c)
  BY <1>9 DEF Live, ProposalInvalid, Counted, Iterating, CheckLease, AcquireLease, Callable
<1>10. CASE DelegationLimit(c)
  BY <1>10 DEF Live, DelegationLimit, Counted, Iterating, CheckLease, AcquireLease, Callable
<1>11. CASE ProposalValid(c)
  BY <1>11 DEF Live, ProposalValid, Counted, Iterating, CheckLease, AcquireLease, Callable
<1>12. CASE ApproveAndContinue(c)
  BY <1>12 DEF Live, ApproveAndContinue
<1>13. CASE ApprovalRejected(c)
  BY <1>13 DEF Live, ApprovalRejected
<1>14. CASE StartLease(c)
  BY <1>14 DEF Live, StartLease, AcquireLease
<1>15. CASE EvaluatedBlocked(c)
  BY <1>15 DEF Live, EvaluatedBlocked
<1>16. CASE EvaluatedApproval(c)
  BY <1>16 DEF Live, EvaluatedApproval
<1>17. CASE EvaluatedSafe(c)
  BY <1>17 DEF Live, EvaluatedSafe
<1>18. CASE ActionLimit(c)
  BY <1>18 DEF Live, ActionLimit
<1>19. CASE ActionLeaseLost(c)
  BY <1>19 DEF Live, ActionLeaseLost, SaveRow
<1>20. CASE ActionLease(c)
  BY <1>20 DEF Live, ActionLease, CheckLease, AcquireLease
<1>21. CASE Lookup(c)
  BY <1>21 DEF Live, Lookup
<1>22. CASE FoundInFlight(c)
  BY <1>22 DEF Live, FoundInFlight
<1>23. CASE Dispatch(c)
  BY <1>23 DEF Live, Dispatch
<1>24. CASE MarkExecuting(c)
  BY <1>24 DEF Live, MarkExecuting, SaveRow
<1>25. CASE NoAgent(c)
  BY <1>25 DEF Live, NoAgent
<1>26. CASE ToolRuns(c)
  BY <1>26 DEF Live, ToolRuns
<1>27. CASE ToolRefused(c)
  BY <1>27 DEF Live, ToolRefused
<1>28. CASE RecordResult(c)
  BY <1>28 DEF Live, RecordResult
<1>29. CASE VerifyThrows(c)
  BY <1>29 DEF Live, VerifyThrows
<1>30. CASE VerifyInconclusive(c)
  BY <1>30 DEF Live, VerifyInconclusive, Verifying
<1>31. CASE VerifyFailed(c)
  BY <1>31 DEF Live, VerifyFailed, Verifying
<1>32. CASE VerifySucceeds(c)
  BY <1>32 DEF Live, VerifySucceeds, Verifying
<1>33. CASE SaveRun(c)
  BY <1>33 DEF Live, SaveRun, SaveRow
<1>34. CASE RecoverRevoked(c)
  BY <1>34 DEF Live, RecoverRevoked, SaveRow
<1>35. CASE RecoverLease(c)
  BY <1>35 DEF Live, RecoverLease, AcquireLease
<1>36. CASE RecoverInFlight(c)
  BY <1>36 DEF Live, RecoverInFlight
<1>37. CASE RecoverResume(c)
  BY <1>37 DEF Live, RecoverResume
<1>38. CASE CancelRun(c)
  BY <1>38 DEF Live, CancelRun, SaveRow, Callable
<1>40. QED
  BY <1>1, <1>2, <1>3, <1>4, <1>4g, <1>5, <1>6, <1>7, <1>8, <1>9, <1>10,
     <1>11, <1>12, <1>13, <1>14, <1>15, <1>16, <1>17, <1>18, <1>19,
     <1>20, <1>21, <1>22, <1>23, <1>24, <1>25, <1>26, <1>27, <1>28,
     <1>29, <1>30, <1>31, <1>32, <1>33, <1>34, <1>35, <1>36, <1>37,
     <1>38 DEF CopyStep, ExecuteIteration, Continue

\* Nobody comes into use but the copy that acts.
LEMMA OneAtATime ==
  ASSUME TypeOK, Solo, alone', alone, [Next]_vars
  PROVE  \E c \in Copy : Acts(c) /\ \A d \in Copy : d # c => ~Live(d) /\ ~Live(d)'
<1>1. ASSUME NEW c \in Copy, CopyStep(c)
      PROVE  \E q \in Copy : Acts(q) /\ \A d \in Copy : d # q => ~Live(d) /\ ~Live(d)'
  <2>1. \A d \in Copy : d # c => ~Live(d)
    BY <1>1, MadeOrInUse DEF Solo
  <2>2. \A d \in Copy : d # c => pc'[d] = pc[d] /\ (d \in loaded' => d \in loaded)
    BY <1>1, OthersLeave
  <2>3. \A d \in Copy : d # c => ~Live(d)'
    BY <2>1, <2>2 DEF Live
  <2>4. QED
    BY <1>1, <2>1, <2>3 DEF Acts
<1>2. ASSUME NEW e \in Engine, Crash(e)
      PROVE  \E q \in Copy : Acts(q) /\ \A d \in Copy : d # q => ~Live(d) /\ ~Live(d)'
  <2>1. PICK c \in Copy : engine[c] = e /\ Live(c)
    BY <1>2 DEF Crash
  <2>2. \A d \in Copy : d # c => ~Live(d)
    BY <2>1 DEF Solo
  <2>3. \A d \in Copy : Live(d)' => Live(d)
    BY <1>2 DEF Crash, InMap, Live
  <2>4. QED
    BY <1>2, <2>2, <2>3 DEF Acts
<1>3. CASE OwnerAnswers \/ LeaseExpires \/ RuntimeExceeded \/ UNCHANGED vars
  <2>1. UNCHANGED <<pc, loaded>>
    BY <1>3 DEF OwnerAnswers, LeaseExpires, RuntimeExceeded, vars, memVars, frameVars
  <2>2. \A c \in Copy : Acts(c)
    BY <1>3 DEF Acts
  <2>3. \E c \in Copy : \A d \in Copy : d # c => ~Live(d)
    BY AutonomyRunAssumption DEF Solo
  <2>4. \A d \in Copy : Live(d)' => Live(d)
    BY <2>1 DEF Live
  <2>5. QED
    BY <2>2, <2>3, <2>4
<1>4. QED
  BY <1>1, <1>2, <1>3, NextCases

\* The states of a checkpoint whose action is over.
Over == {"EXECUTED", "FAILED", "VERIFIED"}
OverBefore(n) == \A k \in Step : ckpt[k] \in Over => k < n

\* The copy is never behind the row: what it saves counts on.
Position(c) ==
    /\ runStatus = "NONE" => stepIndex = 0
    /\ Live(c) => status[c] # "NONE" /\ stepIndex <= iterations[c]
    /\ pc[c] \in {"recover", "reconcile"} => c \notin loaded
    /\ pc[c] \in {"dispatch", "unknown", "mark"} => step[c] = iterations[c]
    /\ pc[c] \in {"noagent", "tool", "result", "verify"} =>
          step[c] <= stepIndex /\ runStatus # "WAITING_FOR_APPROVAL"

\* What is over is behind the step that the next action will have, now or after
\* a restart from the row.
Fresh(c) ==
    /\ OverBefore(stepIndex + 1)
    /\ runStatus = "WAITING_FOR_APPROVAL" => OverBefore(stepIndex)
    /\ pc[c] \in {"evaluate", "begin", "lookup"} => OverBefore(iterations[c])
    /\ Live(c) /\ status[c] = "WAITING_FOR_APPROVAL" => OverBefore(iterations[c])

\* What a call finds for its step: an action that is over belongs to an earlier one.
LEMMA LookupFinds ==
  ASSUME TypeOK, StepKnown, NEW c \in Copy, Fresh(c), Lookup(c)
  PROVE  /\ pc[c] = "lookup" /\ iterations[c] \in Step
         /\ step' = [step EXCEPT ![c] = iterations[c]]
         /\ \/ ckpt[iterations[c]] = "NONE" /\ pc' = [pc EXCEPT ![c] = "dispatch"]
            \/ /\ ckpt[iterations[c]] \in {"DISPATCHED", "UNKNOWN"}
               /\ pc' = [pc EXCEPT ![c] = "unknown"]
         /\ UNCHANGED <<rowVars, chkVars, memVars, envVars>>
<1>1. iterations[c] \in Step /\ ckpt \in [Step -> CheckpointState]
  BY AutonomyRunAssumption DEF TypeOK, StoreType, MemoryType, StepKnown, Lookup, Step
<1>2. ckpt[iterations[c]] \notin Over /\ ckpt[iterations[c]] \in CheckpointState
  BY <1>1, AutonomyRunAssumption DEF Fresh, OverBefore, Lookup, Step
<1>3. ckpt[iterations[c]] \in {"NONE", "DISPATCHED", "UNKNOWN"}
  BY <1>2 DEF Over, CheckpointState
<1>4. QED
  BY <1>1, <1>3 DEF Lookup, Goto

\* The count of an iteration.
LEMMA CountedUp ==
  ASSUME TypeOK, NEW c \in Copy, Counted(c)
  PROVE  /\ iterations'[c] = iterations[c] + 1
         /\ iterations'[c] \in Nat /\ iterations[c] \in Nat /\ stepIndex \in Nat
         /\ c \in loaded /\ AtAwait(c) /\ status[c] \notin Terminal
         /\ UNCHANGED stepIndex /\ UNCHANGED runStatus
BY AutonomyRunAssumption
   DEF TypeOK, StoreType, MemoryType, Counted, Iterating, Callable, CheckLease, AcquireLease, rowVars

\* Every save counts on from the row.
LEMMA PositionInductive ==
  ASSUME NEW c \in Copy, TypeOK, StepKnown, Position(c), Fresh(c),
         Acts(c)
  PROVE  Position(c)'
<1>t. /\ pc \in [Copy -> PC] /\ step \in [Copy -> 0..MaxIterations]
      /\ status \in [Copy -> Lifecycle \cup {"NONE"}]
      /\ iterations \in [Copy -> 0..MaxIterations]
      /\ stepIndex \in 0..MaxIterations /\ MaxIterations \in Nat
  BY AutonomyRunAssumption DEF TypeOK, StoreType, MemoryType, CallType
<1> USE <1>t DEF Position, Live, Goto, Enter, rowVars, chkVars, memVars, frameVars, envVars
<1>1. CASE \E e \in Engine : StartRun(c, e)
  BY <1>1 DEF StartRun, MakeCopy, Live, SaveRow
<1>2. CASE \E e \in Engine : GetRun(c, e)
  BY <1>2 DEF GetRun, MakeCopy, Live, Rebuild
<1>3. CASE \E e \in Engine : RecoverRead(c, e)
  BY <1>3 DEF RecoverRead, MakeCopy, Live, Rebuild
<1>4. CASE IterationLeaseLost(c)
  BY <1>4 DEF IterationLeaseLost, SaveRow, Callable
<1>4g. CASE GiveUp(c)
  BY <1>4g DEF GiveUp, SaveRow, Callable
<1>5. CASE IterationTimedOut(c)
  BY <1>5 DEF IterationTimedOut, Iterating, CheckLease, AcquireLease, Callable
<1>6. CASE IterationLimit(c)
  BY <1>6 DEF IterationLimit, Iterating, CheckLease, AcquireLease, Callable
<1>7. CASE IterationRevoked(c)
  BY <1>7 DEF IterationRevoked, Iterating, CheckLease, AcquireLease, Callable
<1>8. CASE IterationThrows(c)
  BY <1>8, CountedUp DEF IterationThrows, AtAwait
<1>9. CASE ProposalInvalid(c)
  BY <1>9, CountedUp DEF ProposalInvalid, AtAwait
<1>10. CASE DelegationLimit(c)
  BY <1>10, CountedUp DEF DelegationLimit, AtAwait
<1>11. CASE ProposalValid(c)
  BY <1>11, CountedUp DEF ProposalValid, AtAwait
<1>12. CASE ApproveAndContinue(c)
  BY <1>12 DEF ApproveAndContinue
<1>13. CASE ApprovalRejected(c)
  BY <1>13 DEF ApprovalRejected
<1>14. CASE StartLease(c)
  BY <1>14 DEF StartLease, AcquireLease
<1>15. CASE EvaluatedBlocked(c)
  BY <1>15 DEF EvaluatedBlocked
<1>16. CASE EvaluatedApproval(c)
  BY <1>16 DEF EvaluatedApproval
<1>17. CASE EvaluatedSafe(c)
  BY <1>17 DEF EvaluatedSafe
<1>18. CASE ActionLimit(c)
  BY <1>18 DEF ActionLimit
<1>19. CASE ActionLeaseLost(c)
  BY <1>19 DEF ActionLeaseLost, SaveRow
<1>20. CASE ActionLease(c)
  BY <1>20 DEF ActionLease, CheckLease, AcquireLease
<1>21. CASE Lookup(c)
  BY <1>21, LookupFinds
<1>22. CASE FoundInFlight(c)
  BY <1>22 DEF FoundInFlight, SetCkpt
<1>23. CASE Dispatch(c)
  BY <1>23 DEF Dispatch, SetCkpt
<1>24. CASE MarkExecuting(c)
  BY <1>24 DEF MarkExecuting, SaveRow
<1>25. CASE NoAgent(c)
  BY <1>25 DEF NoAgent, SetCkpt
<1>26. CASE ToolRuns(c)
  BY <1>26 DEF ToolRuns
<1>27. CASE ToolRefused(c)
  BY <1>27 DEF ToolRefused
<1>28. CASE RecordResult(c)
  BY <1>28 DEF RecordResult, SetCkpt
<1>29. CASE VerifyThrows(c)
  BY <1>29 DEF VerifyThrows
<1>30. CASE VerifyInconclusive(c)
  BY <1>30 DEF VerifyInconclusive, Verifying, SetCkpt
<1>31. CASE VerifyFailed(c)
  BY <1>31 DEF VerifyFailed, Verifying
<1>32. CASE VerifySucceeds(c)
  BY <1>32 DEF VerifySucceeds, Verifying, SetCkpt
<1>33. CASE SaveRun(c)
  BY <1>33 DEF SaveRun, SaveRow
<1>34. CASE RecoverRevoked(c)
  BY <1>34 DEF RecoverRevoked, SaveRow
<1>35. CASE RecoverLease(c)
  BY <1>35 DEF RecoverLease, AcquireLease
<1>36. CASE RecoverInFlight(c)
  BY <1>36 DEF RecoverInFlight, SetCkpt
<1>37. CASE RecoverResume(c)
  BY <1>37 DEF RecoverResume
<1>38. CASE CancelRun(c)
  BY <1>38 DEF CancelRun, SaveRow, Callable
<1>39. CASE \E e \in Engine : Crash(e)
  BY <1>39 DEF Crash, InMap
<1>40. CASE OwnerAnswers
  BY <1>40 DEF OwnerAnswers
<1>41. CASE LeaseExpires
  BY <1>41 DEF LeaseExpires
<1>42. CASE RuntimeExceeded
  BY <1>42 DEF RuntimeExceeded
<1>43. CASE UNCHANGED vars
  BY <1>43 DEF vars
<1>44. QED
  BY <1>1, <1>2, <1>3, <1>4, <1>4g, <1>5, <1>6, <1>7, <1>8, <1>9, <1>10, <1>11, <1>12, <1>13,
     <1>14, <1>15, <1>16, <1>17, <1>18, <1>19, <1>20, <1>21, <1>22, <1>23, <1>24, <1>25,
     <1>26, <1>27, <1>28, <1>29, <1>30, <1>31, <1>32, <1>33, <1>34, <1>35, <1>36, <1>37,
     <1>38, <1>39, <1>40, <1>41, <1>42, <1>43, ActsAlone


\* What is over stays behind the next step.
LEMMA FreshInductive ==
  ASSUME NEW c \in Copy, TypeOK, StepKnown, Held, Position(c), Fresh(c),
         Acts(c)
  PROVE  Fresh(c)'
<1>t. /\ pc \in [Copy -> PC] /\ step \in [Copy -> 0..MaxIterations]
      /\ status \in [Copy -> Lifecycle \cup {"NONE"}]
      /\ iterations \in [Copy -> 0..MaxIterations]
      /\ stepIndex \in 0..MaxIterations /\ MaxIterations \in Nat
      /\ ckpt \in [Step -> CheckpointState]
  BY AutonomyRunAssumption DEF TypeOK, StoreType, MemoryType, CallType
<1> USE <1>t
        DEF Fresh, OverBefore, Over, Step, Position, Live, Goto, Enter,
            rowVars, chkVars, memVars, frameVars, envVars
<1>1. CASE \E e \in Engine : StartRun(c, e)
  BY <1>1 DEF StartRun, MakeCopy, Live, SaveRow
<1>2. CASE \E e \in Engine : GetRun(c, e)
  BY <1>2 DEF GetRun, MakeCopy, Live, Rebuild
<1>3. CASE \E e \in Engine : RecoverRead(c, e)
  BY <1>3 DEF RecoverRead, MakeCopy, Live, Rebuild
<1>4. CASE IterationLeaseLost(c)
  BY <1>4 DEF IterationLeaseLost, SaveRow, Callable
<1>4g. CASE GiveUp(c)
  BY <1>4g DEF GiveUp, SaveRow, Callable
<1>5. CASE IterationTimedOut(c)
  BY <1>5 DEF IterationTimedOut, Iterating, CheckLease, AcquireLease, Callable
<1>6. CASE IterationLimit(c)
  BY <1>6 DEF IterationLimit, Iterating, CheckLease, AcquireLease, Callable
<1>7. CASE IterationRevoked(c)
  BY <1>7 DEF IterationRevoked, Iterating, CheckLease, AcquireLease, Callable
<1>8. CASE IterationThrows(c)
  BY <1>8, CountedUp DEF IterationThrows, AtAwait
<1>9. CASE ProposalInvalid(c)
  BY <1>9, CountedUp DEF ProposalInvalid, AtAwait
<1>10. CASE DelegationLimit(c)
  BY <1>10, CountedUp DEF DelegationLimit, AtAwait
<1>11. CASE ProposalValid(c)
  BY <1>11, CountedUp DEF ProposalValid, AtAwait
<1>12. CASE ApproveAndContinue(c)
  BY <1>12 DEF ApproveAndContinue
<1>13. CASE ApprovalRejected(c)
  BY <1>13 DEF ApprovalRejected
<1>14. CASE StartLease(c)
  BY <1>14 DEF StartLease, AcquireLease
<1>15. CASE EvaluatedBlocked(c)
  BY <1>15 DEF EvaluatedBlocked
<1>16. CASE EvaluatedApproval(c)
  BY <1>16 DEF EvaluatedApproval
<1>17. CASE EvaluatedSafe(c)
  BY <1>17 DEF EvaluatedSafe
<1>18. CASE ActionLimit(c)
  BY <1>18 DEF ActionLimit
<1>19. CASE ActionLeaseLost(c)
  BY <1>19 DEF ActionLeaseLost, SaveRow
<1>20. CASE ActionLease(c)
  BY <1>20 DEF ActionLease, CheckLease, AcquireLease
<1>21. CASE Lookup(c)
  BY <1>21, LookupFinds
<1>22. CASE FoundInFlight(c)
  BY <1>22 DEF FoundInFlight, SetCkpt
<1>23. CASE Dispatch(c)
  BY <1>23 DEF Dispatch, SetCkpt
<1>24. CASE MarkExecuting(c)
  BY <1>24 DEF MarkExecuting, SaveRow
<1>25. CASE NoAgent(c)
  BY <1>25 DEF NoAgent, SetCkpt
<1>26. CASE ToolRuns(c)
  BY <1>26 DEF ToolRuns
<1>27. CASE ToolRefused(c)
  BY <1>27 DEF ToolRefused
<1>28. CASE RecordResult(c)
  <2>1. pc[c] = "result" /\ status[c] # "WAITING_FOR_APPROVAL"
    BY <1>28 DEF Held, RecordResult, Terminal
  <2>2. QED
    BY <1>28, <2>1 DEF RecordResult, SetCkpt
<1>29. CASE VerifyThrows(c)
  BY <1>29 DEF VerifyThrows
<1>30. CASE VerifyInconclusive(c)
  BY <1>30 DEF VerifyInconclusive, Verifying, SetCkpt
<1>31. CASE VerifyFailed(c)
  BY <1>31 DEF VerifyFailed, Verifying
<1>32. CASE VerifySucceeds(c)
  BY <1>32 DEF VerifySucceeds, Verifying, SetCkpt
<1>33. CASE SaveRun(c)
  BY <1>33 DEF SaveRun, SaveRow
<1>34. CASE RecoverRevoked(c)
  BY <1>34 DEF RecoverRevoked, SaveRow
<1>35. CASE RecoverLease(c)
  BY <1>35 DEF RecoverLease, AcquireLease
<1>36. CASE RecoverInFlight(c)
  BY <1>36 DEF RecoverInFlight, SetCkpt
<1>37. CASE RecoverResume(c)
  BY <1>37 DEF RecoverResume
<1>38. CASE CancelRun(c)
  BY <1>38 DEF CancelRun, SaveRow, Callable
<1>39. CASE \E e \in Engine : Crash(e)
  BY <1>39 DEF Crash, InMap
<1>40. CASE OwnerAnswers
  BY <1>40 DEF OwnerAnswers
<1>41. CASE LeaseExpires
  BY <1>41 DEF LeaseExpires
<1>42. CASE RuntimeExceeded
  BY <1>42 DEF RuntimeExceeded
<1>43. CASE UNCHANGED vars
  BY <1>43 DEF vars
<1>44. QED
  BY <1>1, <1>2, <1>3, <1>4, <1>4g, <1>5, <1>6, <1>7, <1>8, <1>9, <1>10, <1>11, <1>12, <1>13,
     <1>14, <1>15, <1>16, <1>17, <1>18, <1>19, <1>20, <1>21, <1>22, <1>23, <1>24, <1>25,
     <1>26, <1>27, <1>28, <1>29, <1>30, <1>31, <1>32, <1>33, <1>34, <1>35, <1>36, <1>37,
     <1>38, <1>39, <1>40, <1>41, <1>42, <1>43, ActsAlone

\* What the call has on record.
OnRecord(c) ==
    /\ pc[c] = "dispatch" => ckpt[step[c]] = "NONE"
    /\ pc[c] \in {"mark", "noagent", "tool", "result"} => ckpt[step[c]] = "DISPATCHED"
    /\ pc[c] = "verify" => ckpt[step[c]] \in {"EXECUTED", "FAILED"}

\* The record of a call is nobody else's.
LEMMA OnRecordInductive ==
  ASSUME NEW c \in Copy, TypeOK, StepKnown, Fresh(c), OnRecord(c),
         Acts(c)
  PROVE  OnRecord(c)'
<1>t. /\ pc \in [Copy -> PC] /\ step \in [Copy -> 0..MaxIterations]
      /\ ckpt \in [Step -> CheckpointState]
      /\ pc[c] \in {"dispatch", "unknown", "mark", "noagent", "tool", "result", "verify"}
            => step[c] \in Step
  BY AutonomyRunAssumption DEF TypeOK, StoreType, CallType, StepKnown, Step
<1> USE <1>t DEF OnRecord, Goto, AtAwait, rowVars, chkVars, memVars, frameVars, envVars
<1>1. CASE \E e \in Engine : StartRun(c, e)
  BY <1>1 DEF StartRun, MakeCopy, Live, SaveRow
<1>2. CASE \E e \in Engine : GetRun(c, e)
  BY <1>2 DEF GetRun, MakeCopy, Live, Rebuild
<1>3. CASE \E e \in Engine : RecoverRead(c, e)
  BY <1>3 DEF RecoverRead, MakeCopy, Live, Rebuild
<1>4. CASE IterationLeaseLost(c)
  BY <1>4 DEF IterationLeaseLost, SaveRow, Callable
<1>4g. CASE GiveUp(c)
  BY <1>4g DEF GiveUp, SaveRow, Callable
<1>5. CASE IterationTimedOut(c)
  BY <1>5 DEF IterationTimedOut, Iterating, CheckLease, AcquireLease, Callable
<1>6. CASE IterationLimit(c)
  BY <1>6 DEF IterationLimit, Iterating, CheckLease, AcquireLease, Callable
<1>7. CASE IterationRevoked(c)
  BY <1>7 DEF IterationRevoked, Iterating, CheckLease, AcquireLease, Callable
<1>8. CASE IterationThrows(c)
  BY <1>8 DEF IterationThrows, Counted, Iterating, CheckLease, AcquireLease, Callable
<1>9. CASE ProposalInvalid(c)
  BY <1>9 DEF ProposalInvalid, Counted, Iterating, CheckLease, AcquireLease, Callable
<1>10. CASE DelegationLimit(c)
  BY <1>10 DEF DelegationLimit, Counted, Iterating, CheckLease, AcquireLease, Callable
<1>11. CASE ProposalValid(c)
  BY <1>11 DEF ProposalValid, Counted, Iterating, CheckLease, AcquireLease, Callable
<1>12. CASE ApproveAndContinue(c)
  BY <1>12 DEF ApproveAndContinue
<1>13. CASE ApprovalRejected(c)
  BY <1>13 DEF ApprovalRejected
<1>14. CASE StartLease(c)
  BY <1>14 DEF StartLease, AcquireLease
<1>15. CASE EvaluatedBlocked(c)
  BY <1>15 DEF EvaluatedBlocked
<1>16. CASE EvaluatedApproval(c)
  BY <1>16 DEF EvaluatedApproval
<1>17. CASE EvaluatedSafe(c)
  BY <1>17 DEF EvaluatedSafe
<1>18. CASE ActionLimit(c)
  BY <1>18 DEF ActionLimit
<1>19. CASE ActionLeaseLost(c)
  BY <1>19 DEF ActionLeaseLost, SaveRow
<1>20. CASE ActionLease(c)
  BY <1>20 DEF ActionLease, CheckLease, AcquireLease
<1>21. CASE Lookup(c)
  BY <1>21, LookupFinds
<1>22. CASE FoundInFlight(c)
  BY <1>22 DEF FoundInFlight, SetCkpt
<1>23. CASE Dispatch(c)
  BY <1>23 DEF Dispatch, SetCkpt
<1>24. CASE MarkExecuting(c)
  BY <1>24 DEF MarkExecuting, SaveRow
<1>25. CASE NoAgent(c)
  BY <1>25 DEF NoAgent, SetCkpt
<1>26. CASE ToolRuns(c)
  BY <1>26 DEF ToolRuns
<1>27. CASE ToolRefused(c)
  BY <1>27 DEF ToolRefused
<1>28. CASE RecordResult(c)
  BY <1>28 DEF RecordResult, SetCkpt
<1>29. CASE VerifyThrows(c)
  BY <1>29 DEF VerifyThrows
<1>30. CASE VerifyInconclusive(c)
  BY <1>30 DEF VerifyInconclusive, Verifying, SetCkpt
<1>31. CASE VerifyFailed(c)
  BY <1>31 DEF VerifyFailed, Verifying
<1>32. CASE VerifySucceeds(c)
  BY <1>32 DEF VerifySucceeds, Verifying, SetCkpt
<1>33. CASE SaveRun(c)
  BY <1>33 DEF SaveRun, SaveRow
<1>34. CASE RecoverRevoked(c)
  BY <1>34 DEF RecoverRevoked, SaveRow
<1>35. CASE RecoverLease(c)
  BY <1>35 DEF RecoverLease, AcquireLease
<1>36. CASE RecoverInFlight(c)
  BY <1>36 DEF RecoverInFlight, SetCkpt
<1>37. CASE RecoverResume(c)
  BY <1>37 DEF RecoverResume
<1>38. CASE CancelRun(c)
  BY <1>38 DEF CancelRun, SaveRow, Callable
<1>39. CASE \E e \in Engine : Crash(e)
  BY <1>39 DEF Crash, InMap
<1>40. CASE OwnerAnswers
  BY <1>40 DEF OwnerAnswers
<1>41. CASE LeaseExpires
  BY <1>41 DEF LeaseExpires
<1>42. CASE RuntimeExceeded
  BY <1>42 DEF RuntimeExceeded
<1>43. CASE UNCHANGED vars
  BY <1>43 DEF vars
<1>44. QED
  BY <1>1, <1>2, <1>3, <1>4, <1>4g, <1>5, <1>6, <1>7, <1>8, <1>9, <1>10, <1>11, <1>12, <1>13,
     <1>14, <1>15, <1>16, <1>17, <1>18, <1>19, <1>20, <1>21, <1>22, <1>23, <1>24, <1>25,
     <1>26, <1>27, <1>28, <1>29, <1>30, <1>31, <1>32, <1>33, <1>34, <1>35, <1>36, <1>37,
     <1>38, <1>39, <1>40, <1>41, <1>42, <1>43, ActsAlone

\* A tool that is about to run has not run for this step.
Once(c) ==
    /\ \A k \in Step : effects[k] <= 1 /\ (effects[k] > 0 => k <= stepIndex)
    /\ pc[c] \in {"dispatch", "mark", "tool"} => effects[step[c]] = 0

\* No tool runs twice for a step.
LEMMA OnceInductive ==
  ASSUME NEW c \in Copy, TypeOK, StepKnown, Recorded, Position(c),
         Fresh(c), Once(c), Acts(c)
  PROVE  Once(c)'
<1>t. /\ pc \in [Copy -> PC] /\ step \in [Copy -> 0..MaxIterations]
      /\ effects \in [Step -> Nat]
      /\ iterations \in [Copy -> 0..MaxIterations]
      /\ stepIndex \in 0..MaxIterations /\ MaxIterations \in Nat
  BY AutonomyRunAssumption DEF TypeOK, StoreType, MemoryType, CallType, EnvType
<1>s. pc[c] \in {"dispatch", "unknown", "mark", "noagent", "tool", "result", "verify"}
         => step[c] \in Step
  BY <1>t DEF StepKnown, Step
<1> USE <1>t, <1>s
        DEF Once, Position, Live, Step, Goto, AtAwait,
            rowVars, chkVars, memVars, frameVars, envVars
<1>1. CASE \E e \in Engine : StartRun(c, e)
  BY <1>1 DEF StartRun, MakeCopy, Live, SaveRow
<1>2. CASE \E e \in Engine : GetRun(c, e)
  BY <1>2 DEF GetRun, MakeCopy, Live, Rebuild
<1>3. CASE \E e \in Engine : RecoverRead(c, e)
  BY <1>3 DEF RecoverRead, MakeCopy, Live, Rebuild
<1>4. CASE IterationLeaseLost(c)
  BY <1>4 DEF IterationLeaseLost, SaveRow, Callable
<1>4g. CASE GiveUp(c)
  BY <1>4g DEF GiveUp, SaveRow, Callable
<1>5. CASE IterationTimedOut(c)
  BY <1>5 DEF IterationTimedOut, Iterating, CheckLease, AcquireLease, Callable
<1>6. CASE IterationLimit(c)
  BY <1>6 DEF IterationLimit, Iterating, CheckLease, AcquireLease, Callable
<1>7. CASE IterationRevoked(c)
  BY <1>7 DEF IterationRevoked, Iterating, CheckLease, AcquireLease, Callable
<1>8. CASE IterationThrows(c)
  BY <1>8, CountedUp DEF IterationThrows, AtAwait
<1>9. CASE ProposalInvalid(c)
  BY <1>9, CountedUp DEF ProposalInvalid, AtAwait
<1>10. CASE DelegationLimit(c)
  BY <1>10, CountedUp DEF DelegationLimit, AtAwait
<1>11. CASE ProposalValid(c)
  BY <1>11, CountedUp DEF ProposalValid, AtAwait
<1>12. CASE ApproveAndContinue(c)
  BY <1>12 DEF ApproveAndContinue
<1>13. CASE ApprovalRejected(c)
  BY <1>13 DEF ApprovalRejected
<1>14. CASE StartLease(c)
  BY <1>14 DEF StartLease, AcquireLease
<1>15. CASE EvaluatedBlocked(c)
  BY <1>15 DEF EvaluatedBlocked
<1>16. CASE EvaluatedApproval(c)
  BY <1>16 DEF EvaluatedApproval
<1>17. CASE EvaluatedSafe(c)
  BY <1>17 DEF EvaluatedSafe
<1>18. CASE ActionLimit(c)
  BY <1>18 DEF ActionLimit
<1>19. CASE ActionLeaseLost(c)
  BY <1>19 DEF ActionLeaseLost, SaveRow
<1>20. CASE ActionLease(c)
  BY <1>20 DEF ActionLease, CheckLease, AcquireLease
<1>21. CASE Lookup(c)
  <2>1. ckpt[iterations[c]] = "NONE" => effects[iterations[c]] = 0
    BY <1>21, LookupFinds DEF Recorded
  <2>2. QED
    BY <1>21, <2>1, LookupFinds
<1>22. CASE FoundInFlight(c)
  BY <1>22 DEF FoundInFlight, SetCkpt
<1>23. CASE Dispatch(c)
  BY <1>23 DEF Dispatch, SetCkpt
<1>24. CASE MarkExecuting(c)
  BY <1>24 DEF MarkExecuting, SaveRow
<1>25. CASE NoAgent(c)
  BY <1>25 DEF NoAgent, SetCkpt
<1>26. CASE ToolRuns(c)
  BY <1>26 DEF ToolRuns
<1>27. CASE ToolRefused(c)
  BY <1>27 DEF ToolRefused
<1>28. CASE RecordResult(c)
  BY <1>28 DEF RecordResult, SetCkpt
<1>29. CASE VerifyThrows(c)
  BY <1>29 DEF VerifyThrows
<1>30. CASE VerifyInconclusive(c)
  BY <1>30 DEF VerifyInconclusive, Verifying, SetCkpt
<1>31. CASE VerifyFailed(c)
  BY <1>31 DEF VerifyFailed, Verifying
<1>32. CASE VerifySucceeds(c)
  BY <1>32 DEF VerifySucceeds, Verifying, SetCkpt
<1>33. CASE SaveRun(c)
  BY <1>33 DEF SaveRun, SaveRow
<1>34. CASE RecoverRevoked(c)
  BY <1>34 DEF RecoverRevoked, SaveRow
<1>35. CASE RecoverLease(c)
  BY <1>35 DEF RecoverLease, AcquireLease
<1>36. CASE RecoverInFlight(c)
  BY <1>36 DEF RecoverInFlight, SetCkpt
<1>37. CASE RecoverResume(c)
  BY <1>37 DEF RecoverResume
<1>38. CASE CancelRun(c)
  BY <1>38 DEF CancelRun, SaveRow, Callable
<1>39. CASE \E e \in Engine : Crash(e)
  BY <1>39 DEF Crash, InMap
<1>40. CASE OwnerAnswers
  BY <1>40 DEF OwnerAnswers
<1>41. CASE LeaseExpires
  BY <1>41 DEF LeaseExpires
<1>42. CASE RuntimeExceeded
  BY <1>42 DEF RuntimeExceeded
<1>43. CASE UNCHANGED vars
  BY <1>43 DEF vars
<1>44. QED
  BY <1>1, <1>2, <1>3, <1>4, <1>4g, <1>5, <1>6, <1>7, <1>8, <1>9, <1>10, <1>11, <1>12, <1>13,
     <1>14, <1>15, <1>16, <1>17, <1>18, <1>19, <1>20, <1>21, <1>22, <1>23, <1>24, <1>25,
     <1>26, <1>27, <1>28, <1>29, <1>30, <1>31, <1>32, <1>33, <1>34, <1>35, <1>36, <1>37,
     <1>38, <1>39, <1>40, <1>41, <1>42, <1>43, ActsAlone

\* The steps whose tool has run.
Ran == {k \in Step : effects[k] > 0}

\* What was run is covered by the count of the copy, which the check of the
\* limit read and the mark raises before the tool is called.
Budget(c) ==
    /\ Cardinality(Ran) <= MaxActions
    /\ Live(c) => Cardinality(Ran) <= actions[c]
    /\ pc[c] \in {"lookup", "dispatch", "mark"} => actions[c] < MaxActions
    /\ pc[c] = "tool" => Cardinality(Ran) < actions[c] /\ actions[c] <= MaxActions

LEMMA RanCounted ==
  ASSUME TypeOK, NEW c \in Copy, Once(c)
  PROVE  IsFiniteSet(Ran) /\ Cardinality(Ran) \in Nat /\ Cardinality(Ran) <= stepIndex
<1>1. stepIndex \in Nat
  BY AutonomyRunAssumption DEF TypeOK, StoreType
<1>2. Ran \subseteq 1..stepIndex
  BY <1>1, AutonomyRunAssumption DEF Ran, Once, Step
<1>3. IsFiniteSet(1..stepIndex) /\ Cardinality(1..stepIndex) = stepIndex
  BY <1>1, FS_Interval
<1>4. QED
  BY <1>2, <1>3, FS_Subset, FS_CardinalityType

LEMMA RanGrows ==
  ASSUME TypeOK, StepKnown, NEW c \in Copy, Once(c), ToolRuns(c)
  PROVE  Cardinality(Ran') = Cardinality(Ran) + 1
<1>1. step[c] \in Step /\ effects \in [Step -> Nat]
  BY AutonomyRunAssumption DEF TypeOK, CallType, EnvType, StepKnown, ToolRuns, Step
<1>2. effects' = [effects EXCEPT ![step[c]] = @ + 1] /\ effects[step[c]] = 0
  BY DEF ToolRuns, Once
<1>3. Ran' = Ran \cup {step[c]} /\ step[c] \notin Ran
  BY <1>1, <1>2 DEF Ran
<1>4. QED
  BY <1>3, RanCounted, FS_AddElement

\* The budget holds through every restart.
LEMMA BudgetInductive ==
  ASSUME NEW c \in Copy, TypeOK, StepKnown, Position(c), Fresh(c), Once(c),
         Budget(c), Acts(c)
  PROVE  Budget(c)'
<1>t. /\ pc \in [Copy -> PC] /\ actions \in [Copy -> Nat]
      /\ stepIndex \in Nat /\ MaxActions \in Nat
  BY AutonomyRunAssumption DEF TypeOK, StoreType, MemoryType, CallType
<1>r. effects' = effects => Ran' = Ran
  BY DEF Ran
<1>c. Cardinality(Ran) \in Nat /\ Cardinality(Ran) <= stepIndex
  BY RanCounted
<1>n. runStatus = "NONE" => stepIndex = 0
  BY DEF Position
<1> USE <1>t, <1>r, <1>c, <1>n DEF Budget, Live, Goto, AtAwait, memVars, frameVars, envVars
<1>1. CASE \E e \in Engine : StartRun(c, e)
  BY <1>1 DEF StartRun, MakeCopy, Live, SaveRow
<1>2. CASE \E e \in Engine : GetRun(c, e)
  BY <1>2 DEF GetRun, MakeCopy, Live, Rebuild
<1>3. CASE \E e \in Engine : RecoverRead(c, e)
  BY <1>3 DEF RecoverRead, MakeCopy, Live, Rebuild
<1>4. CASE IterationLeaseLost(c)
  BY <1>4 DEF IterationLeaseLost, SaveRow, Callable
<1>4g. CASE GiveUp(c)
  BY <1>4g DEF GiveUp, SaveRow, Callable
<1>5. CASE IterationTimedOut(c)
  BY <1>5 DEF IterationTimedOut, Iterating, CheckLease, AcquireLease, Callable
<1>6. CASE IterationLimit(c)
  BY <1>6 DEF IterationLimit, Iterating, CheckLease, AcquireLease, Callable
<1>7. CASE IterationRevoked(c)
  BY <1>7 DEF IterationRevoked, Iterating, CheckLease, AcquireLease, Callable
<1>8. CASE IterationThrows(c)
  BY <1>8 DEF IterationThrows, Counted, Iterating, CheckLease, AcquireLease, Callable
<1>9. CASE ProposalInvalid(c)
  BY <1>9 DEF ProposalInvalid, Counted, Iterating, CheckLease, AcquireLease, Callable
<1>10. CASE DelegationLimit(c)
  BY <1>10 DEF DelegationLimit, Counted, Iterating, CheckLease, AcquireLease, Callable
<1>11. CASE ProposalValid(c)
  BY <1>11 DEF ProposalValid, Counted, Iterating, CheckLease, AcquireLease, Callable
<1>12. CASE ApproveAndContinue(c)
  BY <1>12 DEF ApproveAndContinue
<1>13. CASE ApprovalRejected(c)
  BY <1>13 DEF ApprovalRejected
<1>14. CASE StartLease(c)
  BY <1>14 DEF StartLease, AcquireLease
<1>15. CASE EvaluatedBlocked(c)
  BY <1>15 DEF EvaluatedBlocked
<1>16. CASE EvaluatedApproval(c)
  BY <1>16 DEF EvaluatedApproval
<1>17. CASE EvaluatedSafe(c)
  BY <1>17 DEF EvaluatedSafe
<1>18. CASE ActionLimit(c)
  BY <1>18 DEF ActionLimit
<1>19. CASE ActionLeaseLost(c)
  BY <1>19 DEF ActionLeaseLost, SaveRow
<1>20. CASE ActionLease(c)
  BY <1>20 DEF ActionLease, CheckLease, AcquireLease
<1>21. CASE Lookup(c)
  BY <1>21, LookupFinds
<1>22. CASE FoundInFlight(c)
  BY <1>22 DEF FoundInFlight, SetCkpt
<1>23. CASE Dispatch(c)
  BY <1>23 DEF Dispatch, SetCkpt
<1>24. CASE MarkExecuting(c)
  BY <1>24 DEF MarkExecuting, SaveRow
<1>25. CASE NoAgent(c)
  BY <1>25 DEF NoAgent, SetCkpt
<1>26. CASE ToolRuns(c)
  <2>1. Cardinality(Ran') = Cardinality(Ran) + 1
    BY <1>26, RanGrows
  <2>2. pc[c] = "tool" /\ pc' = [pc EXCEPT ![c] = "result"] /\ UNCHANGED memVars
    BY <1>26 DEF ToolRuns
  <2>3. pc'[c] = "result" /\ actions'[c] \in Nat
    BY <2>2
  <2>4. QED
    BY <2>1, <2>2, <2>3
<1>27. CASE ToolRefused(c)
  BY <1>27 DEF ToolRefused
<1>28. CASE RecordResult(c)
  BY <1>28 DEF RecordResult, SetCkpt
<1>29. CASE VerifyThrows(c)
  BY <1>29 DEF VerifyThrows
<1>30. CASE VerifyInconclusive(c)
  BY <1>30 DEF VerifyInconclusive, Verifying, SetCkpt
<1>31. CASE VerifyFailed(c)
  BY <1>31 DEF VerifyFailed, Verifying
<1>32. CASE VerifySucceeds(c)
  BY <1>32 DEF VerifySucceeds, Verifying, SetCkpt
<1>33. CASE SaveRun(c)
  BY <1>33 DEF SaveRun, SaveRow
<1>34. CASE RecoverRevoked(c)
  BY <1>34 DEF RecoverRevoked, SaveRow
<1>35. CASE RecoverLease(c)
  BY <1>35 DEF RecoverLease, AcquireLease
<1>36. CASE RecoverInFlight(c)
  BY <1>36 DEF RecoverInFlight, SetCkpt
<1>37. CASE RecoverResume(c)
  BY <1>37 DEF RecoverResume
<1>38. CASE CancelRun(c)
  BY <1>38 DEF CancelRun, SaveRow, Callable
<1>39. CASE \E e \in Engine : Crash(e)
  BY <1>39 DEF Crash, InMap
<1>40. CASE OwnerAnswers
  BY <1>40 DEF OwnerAnswers
<1>41. CASE LeaseExpires
  BY <1>41 DEF LeaseExpires
<1>42. CASE RuntimeExceeded
  BY <1>42 DEF RuntimeExceeded
<1>43. CASE UNCHANGED vars
  BY <1>43 DEF vars
<1>44. QED
  BY <1>1, <1>2, <1>3, <1>4, <1>4g, <1>5, <1>6, <1>7, <1>8, <1>9, <1>10, <1>11, <1>12, <1>13,
     <1>14, <1>15, <1>16, <1>17, <1>18, <1>19, <1>20, <1>21, <1>22, <1>23, <1>24, <1>25,
     <1>26, <1>27, <1>28, <1>29, <1>30, <1>31, <1>32, <1>33, <1>34, <1>35, <1>36, <1>37,
     <1>38, <1>39, <1>40, <1>41, <1>42, <1>43, ActsAlone

\* A run that has ended in the database has ended in memory, in the same way.
Mirror(c) ==
    /\ Live(c) /\ runStatus \in Terminal => status[c] = runStatus
    /\ pc[c] \in {"recover", "reconcile"} => status[c] \notin Terminal
    /\ pc[c] = "noagent" => status[c] = "EXECUTING"
    /\ pc[c] = "giveup" => status[c] = "BLOCKED"

\* The row and the copy agree on the end of the run.
LEMMA MirrorInductive ==
  ASSUME NEW c \in Copy, TypeOK, StepKnown, Position(c), Fresh(c),
         Mirror(c), Acts(c)
  PROVE  Mirror(c)'
<1>t. /\ pc \in [Copy -> PC]
      /\ status \in [Copy -> Lifecycle \cup {"NONE"}]
  BY DEF TypeOK, MemoryType, CallType
<1>l. pc[c] \in {"recover", "reconcile"} => c \notin loaded
  BY DEF Position
<1> USE <1>t, <1>l DEF Mirror, Live, Terminal, CanGo, Goto, Enter, AtAwait, rowVars, memVars, frameVars
<1>1. CASE \E e \in Engine : StartRun(c, e)
  BY <1>1 DEF StartRun, MakeCopy, Live, SaveRow
<1>2. CASE \E e \in Engine : GetRun(c, e)
  BY <1>2 DEF GetRun, MakeCopy, Live, Rebuild
<1>3. CASE \E e \in Engine : RecoverRead(c, e)
  BY <1>3 DEF RecoverRead, MakeCopy, Live, Rebuild
<1>4. CASE IterationLeaseLost(c)
  BY <1>4 DEF IterationLeaseLost, SaveRow, Callable
<1>4g. CASE GiveUp(c)
  BY <1>4g DEF GiveUp, SaveRow, Callable
<1>5. CASE IterationTimedOut(c)
  BY <1>5 DEF IterationTimedOut, Iterating, CheckLease, AcquireLease, Callable
<1>6. CASE IterationLimit(c)
  BY <1>6 DEF IterationLimit, Iterating, CheckLease, AcquireLease, Callable
<1>7. CASE IterationRevoked(c)
  BY <1>7 DEF IterationRevoked, Iterating, CheckLease, AcquireLease, Callable
<1>8. CASE IterationThrows(c)
  BY <1>8 DEF IterationThrows, Counted, Iterating, CheckLease, AcquireLease, Callable
<1>9. CASE ProposalInvalid(c)
  BY <1>9 DEF ProposalInvalid, Counted, Iterating, CheckLease, AcquireLease, Callable
<1>10. CASE DelegationLimit(c)
  BY <1>10 DEF DelegationLimit, Counted, Iterating, CheckLease, AcquireLease, Callable
<1>11. CASE ProposalValid(c)
  BY <1>11 DEF ProposalValid, Counted, Iterating, CheckLease, AcquireLease, Callable
<1>12. CASE ApproveAndContinue(c)
  BY <1>12 DEF ApproveAndContinue
<1>13. CASE ApprovalRejected(c)
  BY <1>13 DEF ApprovalRejected
<1>14. CASE StartLease(c)
  BY <1>14 DEF StartLease, AcquireLease
<1>15. CASE EvaluatedBlocked(c)
  BY <1>15 DEF EvaluatedBlocked
<1>16. CASE EvaluatedApproval(c)
  BY <1>16 DEF EvaluatedApproval
<1>17. CASE EvaluatedSafe(c)
  BY <1>17 DEF EvaluatedSafe
<1>18. CASE ActionLimit(c)
  BY <1>18 DEF ActionLimit
<1>19. CASE ActionLeaseLost(c)
  BY <1>19 DEF ActionLeaseLost, SaveRow, MayEnter
<1>20. CASE ActionLease(c)
  BY <1>20 DEF ActionLease, CheckLease, AcquireLease
<1>21. CASE Lookup(c)
  BY <1>21, LookupFinds
<1>22. CASE FoundInFlight(c)
  BY <1>22 DEF FoundInFlight, SetCkpt, MayEnter
<1>23. CASE Dispatch(c)
  BY <1>23 DEF Dispatch, SetCkpt
<1>24. CASE MarkExecuting(c)
  BY <1>24 DEF MarkExecuting, SaveRow
<1>25. CASE NoAgent(c)
  BY <1>25 DEF NoAgent, SetCkpt
<1>26. CASE ToolRuns(c)
  BY <1>26 DEF ToolRuns
<1>27. CASE ToolRefused(c)
  BY <1>27 DEF ToolRefused
<1>28. CASE RecordResult(c)
  BY <1>28 DEF RecordResult, SetCkpt
<1>29. CASE VerifyThrows(c)
  BY <1>29 DEF VerifyThrows
<1>30. CASE VerifyInconclusive(c)
  BY <1>30 DEF VerifyInconclusive, Verifying, SetCkpt
<1>31. CASE VerifyFailed(c)
  BY <1>31 DEF VerifyFailed, Verifying
<1>32. CASE VerifySucceeds(c)
  BY <1>32 DEF VerifySucceeds, Verifying, SetCkpt
<1>33. CASE SaveRun(c)
  BY <1>33 DEF SaveRun, SaveRow
<1>34. CASE RecoverRevoked(c)
  BY <1>34 DEF RecoverRevoked, SaveRow
<1>35. CASE RecoverLease(c)
  BY <1>35 DEF RecoverLease, AcquireLease
<1>36. CASE RecoverInFlight(c)
  BY <1>36 DEF RecoverInFlight, SetCkpt
<1>37. CASE RecoverResume(c)
  BY <1>37 DEF RecoverResume
<1>38. CASE CancelRun(c)
  BY <1>38 DEF CancelRun, SaveRow, Callable
<1>39. CASE \E e \in Engine : Crash(e)
  BY <1>39 DEF Crash, InMap
<1>40. CASE OwnerAnswers
  BY <1>40 DEF OwnerAnswers
<1>41. CASE LeaseExpires
  BY <1>41 DEF LeaseExpires
<1>42. CASE RuntimeExceeded
  BY <1>42 DEF RuntimeExceeded
<1>43. CASE UNCHANGED vars
  BY <1>43 DEF vars
<1>44. QED
  BY <1>1, <1>2, <1>3, <1>4, <1>4g, <1>5, <1>6, <1>7, <1>8, <1>9, <1>10, <1>11, <1>12, <1>13,
     <1>14, <1>15, <1>16, <1>17, <1>18, <1>19, <1>20, <1>21, <1>22, <1>23, <1>24, <1>25,
     <1>26, <1>27, <1>28, <1>29, <1>30, <1>31, <1>32, <1>33, <1>34, <1>35, <1>36, <1>37,
     <1>38, <1>39, <1>40, <1>41, <1>42, <1>43, ActsAlone

\* A row that says the run has ended is not written again with another status.
LEMMA TerminalStays ==
  ASSUME NEW c \in Copy, TypeOK, StepKnown, Fresh(c), Mirror(c),
         Acts(c), runStatus \in Terminal
  PROVE  runStatus' = runStatus
<1>t. pc \in [Copy -> PC] /\ runStatus # "NONE"
  BY DEF TypeOK, CallType, Terminal
<1> USE <1>t DEF Mirror, Live, CanGo, Terminal, Goto, Enter, AtAwait, rowVars, memVars, frameVars
<1>1. CASE \E e \in Engine : StartRun(c, e)
  BY <1>1 DEF StartRun, MakeCopy, Live, SaveRow
<1>2. CASE \E e \in Engine : GetRun(c, e)
  BY <1>2 DEF GetRun, MakeCopy, Live, Rebuild
<1>3. CASE \E e \in Engine : RecoverRead(c, e)
  BY <1>3 DEF RecoverRead, MakeCopy, Live, Rebuild
<1>4. CASE IterationLeaseLost(c)
  BY <1>4 DEF IterationLeaseLost, SaveRow, Callable
<1>4g. CASE GiveUp(c)
  BY <1>4g DEF GiveUp, SaveRow, Callable
<1>5. CASE IterationTimedOut(c)
  BY <1>5 DEF IterationTimedOut, Iterating, CheckLease, AcquireLease, Callable
<1>6. CASE IterationLimit(c)
  BY <1>6 DEF IterationLimit, Iterating, CheckLease, AcquireLease, Callable
<1>7. CASE IterationRevoked(c)
  BY <1>7 DEF IterationRevoked, Iterating, CheckLease, AcquireLease, Callable
<1>8. CASE IterationThrows(c)
  BY <1>8 DEF IterationThrows, Counted, Iterating, CheckLease, AcquireLease, Callable
<1>9. CASE ProposalInvalid(c)
  BY <1>9 DEF ProposalInvalid, Counted, Iterating, CheckLease, AcquireLease, Callable
<1>10. CASE DelegationLimit(c)
  BY <1>10 DEF DelegationLimit, Counted, Iterating, CheckLease, AcquireLease, Callable
<1>11. CASE ProposalValid(c)
  BY <1>11 DEF ProposalValid, Counted, Iterating, CheckLease, AcquireLease, Callable
<1>12. CASE ApproveAndContinue(c)
  BY <1>12 DEF ApproveAndContinue
<1>13. CASE ApprovalRejected(c)
  BY <1>13 DEF ApprovalRejected
<1>14. CASE StartLease(c)
  BY <1>14 DEF StartLease, AcquireLease
<1>15. CASE EvaluatedBlocked(c)
  BY <1>15 DEF EvaluatedBlocked
<1>16. CASE EvaluatedApproval(c)
  BY <1>16 DEF EvaluatedApproval
<1>17. CASE EvaluatedSafe(c)
  BY <1>17 DEF EvaluatedSafe
<1>18. CASE ActionLimit(c)
  BY <1>18 DEF ActionLimit
<1>19. CASE ActionLeaseLost(c)
  BY <1>19 DEF ActionLeaseLost, SaveRow, MayEnter
<1>20. CASE ActionLease(c)
  BY <1>20 DEF ActionLease, CheckLease, AcquireLease
<1>21. CASE Lookup(c)
  BY <1>21, LookupFinds
<1>22. CASE FoundInFlight(c)
  BY <1>22 DEF FoundInFlight, SetCkpt, MayEnter
<1>23. CASE Dispatch(c)
  BY <1>23 DEF Dispatch, SetCkpt
<1>24. CASE MarkExecuting(c)
  BY <1>24 DEF MarkExecuting, SaveRow
<1>25. CASE NoAgent(c)
  BY <1>25 DEF NoAgent, SetCkpt
<1>26. CASE ToolRuns(c)
  BY <1>26 DEF ToolRuns
<1>27. CASE ToolRefused(c)
  BY <1>27 DEF ToolRefused
<1>28. CASE RecordResult(c)
  BY <1>28 DEF RecordResult, SetCkpt
<1>29. CASE VerifyThrows(c)
  BY <1>29 DEF VerifyThrows
<1>30. CASE VerifyInconclusive(c)
  BY <1>30 DEF VerifyInconclusive, Verifying, SetCkpt
<1>31. CASE VerifyFailed(c)
  BY <1>31 DEF VerifyFailed, Verifying
<1>32. CASE VerifySucceeds(c)
  BY <1>32 DEF VerifySucceeds, Verifying, SetCkpt
<1>33. CASE SaveRun(c)
  BY <1>33 DEF SaveRun, SaveRow
<1>34. CASE RecoverRevoked(c)
  BY <1>34 DEF RecoverRevoked, SaveRow
<1>35. CASE RecoverLease(c)
  BY <1>35 DEF RecoverLease, AcquireLease
<1>36. CASE RecoverInFlight(c)
  BY <1>36 DEF RecoverInFlight, SetCkpt
<1>37. CASE RecoverResume(c)
  BY <1>37 DEF RecoverResume
<1>38. CASE CancelRun(c)
  BY <1>38 DEF CancelRun, SaveRow, Callable
<1>39. CASE \E e \in Engine : Crash(e)
  BY <1>39 DEF Crash, InMap
<1>40. CASE OwnerAnswers
  BY <1>40 DEF OwnerAnswers
<1>41. CASE LeaseExpires
  BY <1>41 DEF LeaseExpires
<1>42. CASE RuntimeExceeded
  BY <1>42 DEF RuntimeExceeded
<1>43. CASE UNCHANGED vars
  BY <1>43 DEF vars
<1>44. QED
  BY <1>1, <1>2, <1>3, <1>4, <1>4g, <1>5, <1>6, <1>7, <1>8, <1>9, <1>10, <1>11, <1>12, <1>13,
     <1>14, <1>15, <1>16, <1>17, <1>18, <1>19, <1>20, <1>21, <1>22, <1>23, <1>24, <1>25,
     <1>26, <1>27, <1>28, <1>29, <1>30, <1>31, <1>32, <1>33, <1>34, <1>35, <1>36, <1>37,
     <1>38, <1>39, <1>40, <1>41, <1>42, <1>43, ActsAlone

\* An action of unknown fate gets no other state and no run.
LEMMA UnknownStays ==
  ASSUME NEW c \in Copy, TypeOK, StepKnown, Fresh(c), OnRecord(c),
         Acts(c), NEW k \in Step, ckpt[k] = "UNKNOWN"
  PROVE  ckpt'[k] = "UNKNOWN" /\ effects'[k] = effects[k]
<1>t. /\ ckpt \in [Step -> CheckpointState] /\ effects \in [Step -> Nat]
      /\ pc \in [Copy -> PC]
  BY DEF TypeOK, StoreType, CallType, EnvType
<1> USE <1>t DEF OnRecord, Goto, rowVars, chkVars, memVars, frameVars, envVars
<1>1. CASE \E e \in Engine : StartRun(c, e)
  BY <1>1 DEF StartRun, MakeCopy, Live, SaveRow
<1>2. CASE \E e \in Engine : GetRun(c, e)
  BY <1>2 DEF GetRun, MakeCopy, Live, Rebuild
<1>3. CASE \E e \in Engine : RecoverRead(c, e)
  BY <1>3 DEF RecoverRead, MakeCopy, Live, Rebuild
<1>4. CASE IterationLeaseLost(c)
  BY <1>4 DEF IterationLeaseLost, SaveRow, Callable
<1>4g. CASE GiveUp(c)
  BY <1>4g DEF GiveUp, SaveRow, Callable
<1>5. CASE IterationTimedOut(c)
  BY <1>5 DEF IterationTimedOut, Iterating, CheckLease, AcquireLease, Callable
<1>6. CASE IterationLimit(c)
  BY <1>6 DEF IterationLimit, Iterating, CheckLease, AcquireLease, Callable
<1>7. CASE IterationRevoked(c)
  BY <1>7 DEF IterationRevoked, Iterating, CheckLease, AcquireLease, Callable
<1>8. CASE IterationThrows(c)
  BY <1>8 DEF IterationThrows, Counted, Iterating, CheckLease, AcquireLease, Callable
<1>9. CASE ProposalInvalid(c)
  BY <1>9 DEF ProposalInvalid, Counted, Iterating, CheckLease, AcquireLease, Callable
<1>10. CASE DelegationLimit(c)
  BY <1>10 DEF DelegationLimit, Counted, Iterating, CheckLease, AcquireLease, Callable
<1>11. CASE ProposalValid(c)
  BY <1>11 DEF ProposalValid, Counted, Iterating, CheckLease, AcquireLease, Callable
<1>12. CASE ApproveAndContinue(c)
  BY <1>12 DEF ApproveAndContinue
<1>13. CASE ApprovalRejected(c)
  BY <1>13 DEF ApprovalRejected
<1>14. CASE StartLease(c)
  BY <1>14 DEF StartLease, AcquireLease
<1>15. CASE EvaluatedBlocked(c)
  BY <1>15 DEF EvaluatedBlocked
<1>16. CASE EvaluatedApproval(c)
  BY <1>16 DEF EvaluatedApproval
<1>17. CASE EvaluatedSafe(c)
  BY <1>17 DEF EvaluatedSafe
<1>18. CASE ActionLimit(c)
  BY <1>18 DEF ActionLimit
<1>19. CASE ActionLeaseLost(c)
  BY <1>19 DEF ActionLeaseLost, SaveRow, MayEnter
<1>20. CASE ActionLease(c)
  BY <1>20 DEF ActionLease, CheckLease, AcquireLease
<1>21. CASE Lookup(c)
  BY <1>21, LookupFinds
<1>22. CASE FoundInFlight(c)
  BY <1>22 DEF FoundInFlight, SetCkpt, MayEnter
<1>23. CASE Dispatch(c)
  BY <1>23 DEF Dispatch, SetCkpt
<1>24. CASE MarkExecuting(c)
  BY <1>24 DEF MarkExecuting, SaveRow
<1>25. CASE NoAgent(c)
  BY <1>25 DEF NoAgent, SetCkpt
<1>26. CASE ToolRuns(c)
  BY <1>26 DEF ToolRuns
<1>27. CASE ToolRefused(c)
  BY <1>27 DEF ToolRefused
<1>28. CASE RecordResult(c)
  BY <1>28 DEF RecordResult, SetCkpt
<1>29. CASE VerifyThrows(c)
  BY <1>29 DEF VerifyThrows
<1>30. CASE VerifyInconclusive(c)
  BY <1>30 DEF VerifyInconclusive, Verifying, SetCkpt
<1>31. CASE VerifyFailed(c)
  BY <1>31 DEF VerifyFailed, Verifying
<1>32. CASE VerifySucceeds(c)
  BY <1>32 DEF VerifySucceeds, Verifying, SetCkpt
<1>33. CASE SaveRun(c)
  BY <1>33 DEF SaveRun, SaveRow
<1>34. CASE RecoverRevoked(c)
  BY <1>34 DEF RecoverRevoked, SaveRow
<1>35. CASE RecoverLease(c)
  BY <1>35 DEF RecoverLease, AcquireLease
<1>36. CASE RecoverInFlight(c)
  BY <1>36 DEF RecoverInFlight, SetCkpt
<1>37. CASE RecoverResume(c)
  BY <1>37 DEF RecoverResume
<1>38. CASE CancelRun(c)
  BY <1>38 DEF CancelRun, SaveRow, Callable
<1>39. CASE \E e \in Engine : Crash(e)
  BY <1>39 DEF Crash, InMap
<1>40. CASE OwnerAnswers
  BY <1>40 DEF OwnerAnswers
<1>41. CASE LeaseExpires
  BY <1>41 DEF LeaseExpires
<1>42. CASE RuntimeExceeded
  BY <1>42 DEF RuntimeExceeded
<1>43. CASE UNCHANGED vars
  BY <1>43 DEF vars
<1>44. QED
  BY <1>1, <1>2, <1>3, <1>4, <1>4g, <1>5, <1>6, <1>7, <1>8, <1>9, <1>10, <1>11, <1>12, <1>13,
     <1>14, <1>15, <1>16, <1>17, <1>18, <1>19, <1>20, <1>21, <1>22, <1>23, <1>24, <1>25,
     <1>26, <1>27, <1>28, <1>29, <1>30, <1>31, <1>32, <1>33, <1>34, <1>35, <1>36, <1>37,
     <1>38, <1>39, <1>40, <1>41, <1>42, <1>43, ActsAlone


-----------------------------------------------------------------------------
(* What is left behind: the log of the actions, and the row. *)

\* What the result in the hands of a call says about its step.
Outcome(c) ==
    /\ pc[c] = "unknown" => ckpt[step[c]] \in {"DISPATCHED", "UNKNOWN"}
    /\ pc[c] = "result" /\ verdict[c] # "REFUSED" => effects[step[c]] = 1
    /\ pc[c] = "verify" /\ verdict[c] = "SUCCESS" => ckpt[step[c]] = "EXECUTED"

\* A success is recorded with the action that had it.
LEMMA OutcomeInductive ==
  ASSUME NEW c \in Copy, TypeOK, StepKnown, Fresh(c), OnRecord(c), Once(c),
         Outcome(c), Acts(c)
  PROVE  Outcome(c)'
<1>t. /\ pc \in [Copy -> PC] /\ step \in [Copy -> 0..MaxIterations]
      /\ verdict \in [Copy -> Verdict \cup {"REFUSED"}]
      /\ ckpt \in [Step -> CheckpointState] /\ effects \in [Step -> Nat]
      /\ pc[c] \in {"dispatch", "unknown", "mark", "noagent", "tool", "result", "verify"}
            => step[c] \in Step
  BY AutonomyRunAssumption DEF TypeOK, StoreType, CallType, EnvType, StepKnown, Step
<1>n. pc[c] = "tool" => effects[step[c]] = 0
  BY DEF Once
<1> USE <1>t DEF Outcome, Goto, AtAwait, rowVars, chkVars, memVars, frameVars, envVars
<1>1. CASE \E e \in Engine : StartRun(c, e)
  BY <1>1 DEF StartRun, MakeCopy, Live, SaveRow
<1>2. CASE \E e \in Engine : GetRun(c, e)
  BY <1>2 DEF GetRun, MakeCopy, Live, Rebuild
<1>3. CASE \E e \in Engine : RecoverRead(c, e)
  BY <1>3 DEF RecoverRead, MakeCopy, Live, Rebuild
<1>4. CASE IterationLeaseLost(c)
  BY <1>4 DEF IterationLeaseLost, SaveRow, Callable
<1>4g. CASE GiveUp(c)
  BY <1>4g DEF GiveUp, SaveRow, Callable
<1>5. CASE IterationTimedOut(c)
  BY <1>5 DEF IterationTimedOut, Iterating, CheckLease, AcquireLease, Callable
<1>6. CASE IterationLimit(c)
  BY <1>6 DEF IterationLimit, Iterating, CheckLease, AcquireLease, Callable
<1>7. CASE IterationRevoked(c)
  BY <1>7 DEF IterationRevoked, Iterating, CheckLease, AcquireLease, Callable
<1>8. CASE IterationThrows(c)
  BY <1>8 DEF IterationThrows, Counted, Iterating, CheckLease, AcquireLease, Callable
<1>9. CASE ProposalInvalid(c)
  BY <1>9 DEF ProposalInvalid, Counted, Iterating, CheckLease, AcquireLease, Callable
<1>10. CASE DelegationLimit(c)
  BY <1>10 DEF DelegationLimit, Counted, Iterating, CheckLease, AcquireLease, Callable
<1>11. CASE ProposalValid(c)
  BY <1>11 DEF ProposalValid, Counted, Iterating, CheckLease, AcquireLease, Callable
<1>12. CASE ApproveAndContinue(c)
  BY <1>12 DEF ApproveAndContinue
<1>13. CASE ApprovalRejected(c)
  BY <1>13 DEF ApprovalRejected
<1>14. CASE StartLease(c)
  BY <1>14 DEF StartLease, AcquireLease
<1>15. CASE EvaluatedBlocked(c)
  BY <1>15 DEF EvaluatedBlocked
<1>16. CASE EvaluatedApproval(c)
  BY <1>16 DEF EvaluatedApproval
<1>17. CASE EvaluatedSafe(c)
  BY <1>17 DEF EvaluatedSafe
<1>18. CASE ActionLimit(c)
  BY <1>18 DEF ActionLimit
<1>19. CASE ActionLeaseLost(c)
  BY <1>19 DEF ActionLeaseLost, SaveRow, MayEnter
<1>20. CASE ActionLease(c)
  BY <1>20 DEF ActionLease, CheckLease, AcquireLease
<1>21. CASE Lookup(c)
  BY <1>21, LookupFinds
<1>22. CASE FoundInFlight(c)
  BY <1>22 DEF FoundInFlight, SetCkpt, MayEnter
<1>23. CASE Dispatch(c)
  BY <1>23 DEF Dispatch, SetCkpt
<1>24. CASE MarkExecuting(c)
  BY <1>24 DEF MarkExecuting, SaveRow
<1>25. CASE NoAgent(c)
  BY <1>25 DEF NoAgent, SetCkpt
<1>26. CASE ToolRuns(c)
  BY <1>26, <1>n DEF ToolRuns
<1>27. CASE ToolRefused(c)
  BY <1>27 DEF ToolRefused
<1>28. CASE RecordResult(c)
  BY <1>28 DEF RecordResult, SetCkpt
<1>29. CASE VerifyThrows(c)
  BY <1>29 DEF VerifyThrows
<1>30. CASE VerifyInconclusive(c)
  BY <1>30 DEF VerifyInconclusive, Verifying, SetCkpt
<1>31. CASE VerifyFailed(c)
  BY <1>31 DEF VerifyFailed, Verifying
<1>32. CASE VerifySucceeds(c)
  BY <1>32 DEF VerifySucceeds, Verifying, SetCkpt
<1>33. CASE SaveRun(c)
  BY <1>33 DEF SaveRun, SaveRow
<1>34. CASE RecoverRevoked(c)
  BY <1>34 DEF RecoverRevoked, SaveRow
<1>35. CASE RecoverLease(c)
  BY <1>35 DEF RecoverLease, AcquireLease
<1>36. CASE RecoverInFlight(c)
  BY <1>36 DEF RecoverInFlight, SetCkpt
<1>37. CASE RecoverResume(c)
  BY <1>37 DEF RecoverResume
<1>38. CASE CancelRun(c)
  BY <1>38 DEF CancelRun, SaveRow, Callable
<1>39. CASE \E e \in Engine : Crash(e)
  BY <1>39 DEF Crash, InMap
<1>40. CASE OwnerAnswers
  BY <1>40 DEF OwnerAnswers
<1>41. CASE LeaseExpires
  BY <1>41 DEF LeaseExpires
<1>42. CASE RuntimeExceeded
  BY <1>42 DEF RuntimeExceeded
<1>43. CASE UNCHANGED vars
  BY <1>43 DEF vars
<1>44. QED
  BY <1>1, <1>2, <1>3, <1>4, <1>4g, <1>5, <1>6, <1>7, <1>8, <1>9, <1>10, <1>11, <1>12, <1>13,
     <1>14, <1>15, <1>16, <1>17, <1>18, <1>19, <1>20, <1>21, <1>22, <1>23, <1>24, <1>25,
     <1>26, <1>27, <1>28, <1>29, <1>30, <1>31, <1>32, <1>33, <1>34, <1>35, <1>36, <1>37,
     <1>38, <1>39, <1>40, <1>41, <1>42, <1>43, ActsAlone


\* Every step is one of the log, or leaves it alone.
LEMMA LogStep ==
  ASSUME NEW c \in Copy, TypeOK, StepKnown, Fresh(c), OnRecord(c), Once(c),
         Outcome(c), Acts(c)
  PROVE  [Log!Next]_<<ckpt, effects>>
<1>t. /\ pc \in [Copy -> PC]
      /\ ckpt \in [Step -> CheckpointState] /\ effects \in [Step -> Nat]
      /\ pc[c] \in {"dispatch", "unknown", "mark", "noagent", "tool", "result", "verify"}
            => step[c] \in Step
  BY AutonomyRunAssumption DEF TypeOK, StoreType, CallType, EnvType, StepKnown, Step
<1>r. /\ pc[c] = "dispatch" => ckpt[step[c]] = "NONE"
      /\ pc[c] \in {"noagent", "tool", "result"} => ckpt[step[c]] = "DISPATCHED"
      /\ pc[c] = "verify" => ckpt[step[c]] \in {"EXECUTED", "FAILED"}
      /\ pc[c] = "tool" => effects[step[c]] = 0
  BY DEF OnRecord, Once
<1>o. Outcome(c)
  OBVIOUS
<1>s. ASSUME NEW k \in Step, Log!Dispatch(k) \/ Log!Run(k) \/ Log!Settle(k) \/ Log!Verify(k) \/ Log!Lose(k)
      PROVE  [Log!Next]_<<ckpt, effects>>
  BY <1>s DEF Log!Next
<1> USE <1>t DEF Goto, rowVars, chkVars, memVars, frameVars, envVars
<1>1. CASE \E e \in Engine : StartRun(c, e)
  BY <1>1 DEF StartRun, MakeCopy, Live, SaveRow
<1>2. CASE \E e \in Engine : GetRun(c, e)
  BY <1>2 DEF GetRun, MakeCopy, Live, Rebuild
<1>3. CASE \E e \in Engine : RecoverRead(c, e)
  BY <1>3 DEF RecoverRead, MakeCopy, Live, Rebuild
<1>4. CASE IterationLeaseLost(c)
  BY <1>4 DEF IterationLeaseLost, SaveRow, Callable
<1>4g. CASE GiveUp(c)
  BY <1>4g DEF GiveUp, SaveRow, Callable
<1>5. CASE IterationTimedOut(c)
  BY <1>5 DEF IterationTimedOut, Iterating, CheckLease, AcquireLease, Callable
<1>6. CASE IterationLimit(c)
  BY <1>6 DEF IterationLimit, Iterating, CheckLease, AcquireLease, Callable
<1>7. CASE IterationRevoked(c)
  BY <1>7 DEF IterationRevoked, Iterating, CheckLease, AcquireLease, Callable
<1>8. CASE IterationThrows(c)
  BY <1>8 DEF IterationThrows, Counted, Iterating, CheckLease, AcquireLease, Callable
<1>9. CASE ProposalInvalid(c)
  BY <1>9 DEF ProposalInvalid, Counted, Iterating, CheckLease, AcquireLease, Callable
<1>10. CASE DelegationLimit(c)
  BY <1>10 DEF DelegationLimit, Counted, Iterating, CheckLease, AcquireLease, Callable
<1>11. CASE ProposalValid(c)
  BY <1>11 DEF ProposalValid, Counted, Iterating, CheckLease, AcquireLease, Callable
<1>12. CASE ApproveAndContinue(c)
  BY <1>12 DEF ApproveAndContinue
<1>13. CASE ApprovalRejected(c)
  BY <1>13 DEF ApprovalRejected
<1>14. CASE StartLease(c)
  BY <1>14 DEF StartLease, AcquireLease
<1>15. CASE EvaluatedBlocked(c)
  BY <1>15 DEF EvaluatedBlocked
<1>16. CASE EvaluatedApproval(c)
  BY <1>16 DEF EvaluatedApproval
<1>17. CASE EvaluatedSafe(c)
  BY <1>17 DEF EvaluatedSafe
<1>18. CASE ActionLimit(c)
  BY <1>18 DEF ActionLimit
<1>19. CASE ActionLeaseLost(c)
  BY <1>19 DEF ActionLeaseLost, SaveRow, MayEnter
<1>20. CASE ActionLease(c)
  BY <1>20 DEF ActionLease, CheckLease, AcquireLease
<1>21. CASE Lookup(c)
  BY <1>21, LookupFinds
<1>22. CASE FoundInFlight(c)
  <2>1. /\ step[c] \in Step /\ ckpt' = [ckpt EXCEPT ![step[c]] = "UNKNOWN"] /\ effects' = effects
        /\ ckpt[step[c]] \in {"DISPATCHED", "UNKNOWN"}
    BY <1>22, <1>o DEF FoundInFlight, SetCkpt, Outcome
  <2>2. CASE ckpt[step[c]] = "DISPATCHED"
    BY <1>s, <2>1, <2>2 DEF Log!Lose, Log!Record
  <2>3. CASE ckpt[step[c]] = "UNKNOWN"
    BY <2>1, <2>3
  <2>4. QED
    BY <2>1, <2>2, <2>3
<1>23. CASE Dispatch(c)
  BY <1>23, <1>r, <1>s DEF Dispatch, SetCkpt, Log!Dispatch, Log!Record
<1>24. CASE MarkExecuting(c)
  BY <1>24 DEF MarkExecuting, SaveRow
<1>25. CASE NoAgent(c)
  BY <1>25, <1>r, <1>s DEF NoAgent, SetCkpt, Log!Settle, Log!Record
<1>26. CASE ToolRuns(c)
  <2>1. /\ pc[c] = "tool" /\ ckpt' = ckpt
        /\ effects' = [effects EXCEPT ![step[c]] = @ + 1]
    BY <1>26 DEF ToolRuns
  <2>e. effects[step[c]] = 0 /\ ckpt[step[c]] = "DISPATCHED"
    BY <1>r, <2>1
  <2>f. effects' = [effects EXCEPT ![step[c]] = 1]
    BY <2>1, <2>e
  <2>2. Log!Run(step[c])
    BY <2>1, <2>e, <2>f DEF Log!Run
  <2>3. QED
    BY <1>s, <2>1, <2>2
<1>27. CASE ToolRefused(c)
  BY <1>27 DEF ToolRefused
<1>28. CASE RecordResult(c)
  <2>1. PICK s \in {"EXECUTED", "FAILED"} :
           /\ verdict[c] = "REFUSED" => s = "FAILED"
           /\ ckpt' = [ckpt EXCEPT ![step[c]] = s]
    BY <1>28 DEF RecordResult, SetCkpt
  <2>2. pc[c] = "result" /\ effects' = effects
    BY <1>28 DEF RecordResult
  <2>3. s = "EXECUTED" => effects[step[c]] = 1
    BY <1>o, <2>1, <2>2 DEF Outcome
  <2>4. QED
    BY <1>r, <1>s, <2>1, <2>2, <2>3 DEF Log!Settle, Log!Record
<1>29. CASE VerifyThrows(c)
  BY <1>29 DEF VerifyThrows
<1>30. CASE VerifyInconclusive(c)
  <2>1. /\ step[c] \in Step /\ ckpt' = [ckpt EXCEPT ![step[c]] = "FAILED"] /\ effects' = effects
        /\ ckpt[step[c]] \in {"EXECUTED", "FAILED"}
    BY <1>30, <1>r DEF VerifyInconclusive, Verifying, SetCkpt
  <2>2. CASE ckpt[step[c]] = "EXECUTED"
    BY <1>s, <2>1, <2>2 DEF Log!Verify, Log!Record
  <2>3. CASE ckpt[step[c]] = "FAILED"
    BY <2>1, <2>3
  <2>4. QED
    BY <2>1, <2>2, <2>3
<1>31. CASE VerifyFailed(c)
  BY <1>31 DEF VerifyFailed, Verifying
<1>32. CASE VerifySucceeds(c)
  <2>1. pc[c] = "verify" /\ ckpt[step[c]] = "EXECUTED"
    BY <1>32, <1>o DEF VerifySucceeds, Verifying, Outcome
  <2>2. QED
    BY <1>32, <1>s, <2>1 DEF VerifySucceeds, SetCkpt, Log!Verify, Log!Record
<1>33. CASE SaveRun(c)
  BY <1>33 DEF SaveRun, SaveRow
<1>34. CASE RecoverRevoked(c)
  BY <1>34 DEF RecoverRevoked, SaveRow
<1>35. CASE RecoverLease(c)
  BY <1>35 DEF RecoverLease, AcquireLease
<1>36. CASE RecoverInFlight(c)
  <2>1. PICK k \in Step : /\ ckpt[k] \in {"DISPATCHED", "UNKNOWN"}
                          /\ ckpt' = [ckpt EXCEPT ![k] = "UNKNOWN"]
    BY <1>36 DEF RecoverInFlight, SetCkpt
  <2>2. effects' = effects
    BY <1>36 DEF RecoverInFlight
  <2>3. CASE ckpt[k] = "DISPATCHED"
    BY <1>s, <2>1, <2>2, <2>3 DEF Log!Lose, Log!Record
  <2>4. CASE ckpt[k] = "UNKNOWN"
    BY <2>1, <2>2, <2>4
  <2>5. QED
    BY <2>1, <2>3, <2>4
<1>37. CASE RecoverResume(c)
  BY <1>37 DEF RecoverResume
<1>38. CASE CancelRun(c)
  BY <1>38 DEF CancelRun, SaveRow, Callable
<1>39. CASE \E e \in Engine : Crash(e)
  BY <1>39 DEF Crash, InMap
<1>40. CASE OwnerAnswers
  BY <1>40 DEF OwnerAnswers
<1>41. CASE LeaseExpires
  BY <1>41 DEF LeaseExpires
<1>42. CASE RuntimeExceeded
  BY <1>42 DEF RuntimeExceeded
<1>43. CASE UNCHANGED vars
  BY <1>43 DEF vars
<1>44. QED
  BY <1>1, <1>2, <1>3, <1>4, <1>4g, <1>5, <1>6, <1>7, <1>8, <1>9, <1>10, <1>11, <1>12, <1>13,
     <1>14, <1>15, <1>16, <1>17, <1>18, <1>19, <1>20, <1>21, <1>22, <1>23, <1>24, <1>25,
     <1>26, <1>27, <1>28, <1>29, <1>30, <1>31, <1>32, <1>33, <1>34, <1>35, <1>36, <1>37,
     <1>38, <1>39, <1>40, <1>41, <1>42, <1>43, ActsAlone


\* The row of the run counts on.
LEMMA StepIndexGrows ==
  ASSUME NEW c \in Copy, TypeOK, Position(c), Acts(c)
  PROVE  stepIndex' >= stepIndex
<1>t. /\ pc \in [Copy -> PC] /\ loaded \subseteq Copy
      /\ iterations \in [Copy -> 0..MaxIterations] /\ step \in [Copy -> 0..MaxIterations]
      /\ stepIndex \in 0..MaxIterations /\ MaxIterations \in Nat
  BY AutonomyRunAssumption DEF TypeOK, StoreType, MemoryType, CallType
<1>p. /\ runStatus = "NONE" => stepIndex = 0
      /\ c \in loaded \/ pc[c] # "idle" => stepIndex <= iterations[c]
      /\ pc[c] = "mark" => step[c] = iterations[c]
  BY DEF Position, Live
<1> USE <1>t, <1>p DEF rowVars, chkVars, memVars, frameVars, envVars
<1>1. CASE \E e \in Engine : StartRun(c, e)
  BY <1>1 DEF StartRun, MakeCopy, Live, SaveRow
<1>2. CASE \E e \in Engine : GetRun(c, e)
  BY <1>2 DEF GetRun, MakeCopy, Live, Rebuild
<1>3. CASE \E e \in Engine : RecoverRead(c, e)
  BY <1>3 DEF RecoverRead, MakeCopy, Live, Rebuild
<1>4. CASE IterationLeaseLost(c)
  BY <1>4 DEF IterationLeaseLost, SaveRow, Callable
<1>4g. CASE GiveUp(c)
  BY <1>4g DEF GiveUp, SaveRow, Callable
<1>5. CASE IterationTimedOut(c)
  BY <1>5 DEF IterationTimedOut, Iterating, CheckLease, AcquireLease, Callable
<1>6. CASE IterationLimit(c)
  BY <1>6 DEF IterationLimit, Iterating, CheckLease, AcquireLease, Callable
<1>7. CASE IterationRevoked(c)
  BY <1>7 DEF IterationRevoked, Iterating, CheckLease, AcquireLease, Callable
<1>8. CASE IterationThrows(c)
  BY <1>8 DEF IterationThrows, Counted, Iterating, CheckLease, AcquireLease, Callable
<1>9. CASE ProposalInvalid(c)
  BY <1>9 DEF ProposalInvalid, Counted, Iterating, CheckLease, AcquireLease, Callable
<1>10. CASE DelegationLimit(c)
  BY <1>10 DEF DelegationLimit, Counted, Iterating, CheckLease, AcquireLease, Callable
<1>11. CASE ProposalValid(c)
  BY <1>11 DEF ProposalValid, Counted, Iterating, CheckLease, AcquireLease, Callable
<1>12. CASE ApproveAndContinue(c)
  BY <1>12 DEF ApproveAndContinue
<1>13. CASE ApprovalRejected(c)
  BY <1>13 DEF ApprovalRejected
<1>14. CASE StartLease(c)
  BY <1>14 DEF StartLease, AcquireLease
<1>15. CASE EvaluatedBlocked(c)
  BY <1>15 DEF EvaluatedBlocked
<1>16. CASE EvaluatedApproval(c)
  BY <1>16 DEF EvaluatedApproval
<1>17. CASE EvaluatedSafe(c)
  BY <1>17 DEF EvaluatedSafe
<1>18. CASE ActionLimit(c)
  BY <1>18 DEF ActionLimit
<1>19. CASE ActionLeaseLost(c)
  BY <1>19 DEF ActionLeaseLost, SaveRow, MayEnter
<1>20. CASE ActionLease(c)
  BY <1>20 DEF ActionLease, CheckLease, AcquireLease
<1>21. CASE Lookup(c)
  BY <1>21 DEF Lookup
<1>22. CASE FoundInFlight(c)
  BY <1>22 DEF FoundInFlight, SetCkpt, MayEnter
<1>23. CASE Dispatch(c)
  BY <1>23 DEF Dispatch, SetCkpt
<1>24. CASE MarkExecuting(c)
  BY <1>24 DEF MarkExecuting, SaveRow
<1>25. CASE NoAgent(c)
  BY <1>25 DEF NoAgent, SetCkpt
<1>26. CASE ToolRuns(c)
  BY <1>26 DEF ToolRuns
<1>27. CASE ToolRefused(c)
  BY <1>27 DEF ToolRefused
<1>28. CASE RecordResult(c)
  BY <1>28 DEF RecordResult, SetCkpt
<1>29. CASE VerifyThrows(c)
  BY <1>29 DEF VerifyThrows
<1>30. CASE VerifyInconclusive(c)
  BY <1>30 DEF VerifyInconclusive, Verifying, SetCkpt
<1>31. CASE VerifyFailed(c)
  BY <1>31 DEF VerifyFailed, Verifying
<1>32. CASE VerifySucceeds(c)
  BY <1>32 DEF VerifySucceeds, Verifying, SetCkpt
<1>33. CASE SaveRun(c)
  BY <1>33 DEF SaveRun, SaveRow
<1>34. CASE RecoverRevoked(c)
  BY <1>34 DEF RecoverRevoked, SaveRow
<1>35. CASE RecoverLease(c)
  BY <1>35 DEF RecoverLease, AcquireLease
<1>36. CASE RecoverInFlight(c)
  BY <1>36 DEF RecoverInFlight, SetCkpt
<1>37. CASE RecoverResume(c)
  BY <1>37 DEF RecoverResume
<1>38. CASE CancelRun(c)
  BY <1>38 DEF CancelRun, SaveRow, Callable
<1>39. CASE \E e \in Engine : Crash(e)
  BY <1>39 DEF Crash, InMap
<1>40. CASE OwnerAnswers
  BY <1>40 DEF OwnerAnswers
<1>41. CASE LeaseExpires
  BY <1>41 DEF LeaseExpires
<1>42. CASE RuntimeExceeded
  BY <1>42 DEF RuntimeExceeded
<1>43. CASE UNCHANGED vars
  BY <1>43 DEF vars
<1>44. QED
  BY <1>1, <1>2, <1>3, <1>4, <1>4g, <1>5, <1>6, <1>7, <1>8, <1>9, <1>10, <1>11, <1>12, <1>13,
     <1>14, <1>15, <1>16, <1>17, <1>18, <1>19, <1>20, <1>21, <1>22, <1>23, <1>24, <1>25,
     <1>26, <1>27, <1>28, <1>29, <1>30, <1>31, <1>32, <1>33, <1>34, <1>35, <1>36, <1>37,
     <1>38, <1>39, <1>40, <1>41, <1>42, <1>43, ActsAlone
-----------------------------------------------------------------------------
(* The invariant of copies that come one after the other. *)

\* What holds of the copy in use.
CopyInv(c) ==
    /\ Position(c) /\ Fresh(c) /\ OnRecord(c) /\ Once(c) /\ Budget(c) /\ Mirror(c)
    /\ Outcome(c)

\* As long as every copy came alone.
AloneInv == alone => Solo /\ \A c \in Copy : CopyInv(c)

\* What CopyInv says of a copy in use covers those that are not.
LEMMA Passive ==
  ASSUME NEW c \in Copy, NEW d \in Copy, CopyInv(c)', ~Live(d)'
  PROVE  CopyInv(d)'
<1> USE DEF CopyInv
<1>1. Position(d)'
  BY DEF Position, Live
<1>2. Fresh(d)'
  BY DEF Fresh, Live
<1>3. OnRecord(d)' /\ Outcome(d)'
  BY DEF OnRecord, Outcome, Live
<1>4. Once(d)'
  BY DEF Once, Live
<1>5. Budget(d)'
  BY DEF Budget, Live
<1>6. Mirror(d)'
  BY DEF Mirror, Live
<1>7. QED
  BY <1>1, <1>2, <1>3, <1>4, <1>5, <1>6

\* The copy in use keeps it.
LEMMA CopyInvInductive ==
  ASSUME TypeOK, StepKnown, Recorded, Held, NEW c \in Copy, CopyInv(c), Acts(c)
  PROVE  CopyInv(c)'
<1>1. /\ Position(c) /\ Fresh(c) /\ OnRecord(c) /\ Once(c) /\ Budget(c) /\ Mirror(c)
      /\ Outcome(c)
  BY DEF CopyInv
<1>2. Position(c)'
  BY <1>1, PositionInductive
<1>3. Fresh(c)'
  BY <1>1, FreshInductive
<1>4. OnRecord(c)'
  BY <1>1, OnRecordInductive
<1>5. Once(c)'
  BY <1>1, OnceInductive
<1>6. Budget(c)'
  BY <1>1, BudgetInductive
<1>7. Mirror(c)'
  BY <1>1, MirrorInductive
<1>8. Outcome(c)'
  BY <1>1, OutcomeInductive
<1>9. QED
  BY <1>2, <1>3, <1>4, <1>5, <1>6, <1>7, <1>8 DEF CopyInv

\* alone does not come back.
LEMMA AloneEnds == [Next]_vars => (alone' => alone)
<1> SUFFICES ASSUME [Next]_vars, alone' PROVE alone
  OBVIOUS
<1>1. CASE \E c \in Copy : CopyStep(c)
  BY <1>1, MadeOrInUse
<1>2. CASE \E e \in Engine : Crash(e)
  BY <1>2 DEF Crash
<1>3. CASE OwnerAnswers \/ LeaseExpires \/ RuntimeExceeded \/ UNCHANGED vars
  BY <1>3 DEF OwnerAnswers, LeaseExpires, RuntimeExceeded, vars, envVars
<1>4. QED
  BY <1>1, <1>2, <1>3, NextCases

\* Every step keeps it.
LEMMA AloneInvInductive ==
  TypeOK /\ StepKnown /\ Recorded /\ Held /\ AloneInv /\ [Next]_vars => AloneInv'
<1> SUFFICES ASSUME TypeOK, StepKnown, Recorded, Held, AloneInv, [Next]_vars, alone'
             PROVE  Solo' /\ \A c \in Copy : CopyInv(c)'
  BY DEF AloneInv
<1>1. alone /\ Solo /\ \A c \in Copy : CopyInv(c)
  BY AloneEnds DEF AloneInv
<1>2. PICK c \in Copy : Acts(c) /\ \A d \in Copy : d # c => ~Live(d) /\ ~Live(d)'
  BY <1>1, OneAtATime
<1>3. CopyInv(c)'
  BY <1>1, <1>2, CopyInvInductive
<1>4. \A d \in Copy : CopyInv(d)'
  BY <1>2, <1>3, Passive
<1>5. Solo'
  BY <1>2 DEF Solo
<1>6. QED
  BY <1>4, <1>5

\* So it holds always.
LEMMA AloneAlways == Spec => [](TypeOK /\ StepKnown /\ AloneInv)
<1>1. Init => TypeOK /\ StepKnown
  BY InitTyped
<1>2. Init => Recorded /\ Held
  BY AutonomyRunAssumption DEF Init, Recorded, Held
<1>3. Init => AloneInv
  <2> SUFFICES ASSUME Init PROVE Solo /\ \A c \in Copy : CopyInv(c)
    BY DEF AloneInv
  <2>0. Solo
    BY DEF Init, Solo, Live
  <2> SUFFICES ASSUME NEW c \in Copy PROVE CopyInv(c)
    BY <2>0
  <2>1. Position(c) /\ OnRecord(c) /\ Mirror(c) /\ Outcome(c)
    BY DEF Init, Position, OnRecord, Mirror, Live, Terminal, Outcome
  <2>2. Fresh(c) /\ Once(c)
    BY DEF Init, Fresh, OverBefore, Over, Once, Live
  <2>3. Ran = {}
    BY DEF Init, Ran
  <2>4. Budget(c)
    BY <2>3, FS_EmptySet, AutonomyRunAssumption DEF Init, Budget, Live
  <2>5. QED
    BY <2>1, <2>2, <2>4 DEF CopyInv
<1>5. QED
  BY <1>1, <1>2, <1>3, AloneInvInductive, TypeInductive, StepKnownInductive, RecordedInductive,
     HeldInductive, PTL DEF Spec

\* What CopyInv says holds of the copy that acts.
LEMMA AloneActs ==
  ASSUME TypeOK, AloneInv, [Next]_vars, alone'
  PROVE  \E c \in Copy : Acts(c) /\ CopyInv(c)
<1>1. alone /\ Solo /\ \A c \in Copy : CopyInv(c)
  BY AloneEnds DEF AloneInv
<1>2. QED
  BY <1>1, OneAtATime

\* While copies come one after the other, wherever processes die and restart, the
\* tool of a step runs at most once; otherwise at most once for each copy.
THEOREM OncePerStep ==
  ASSUME IsFiniteSet(Copy)
  PROVE  Spec => []AtMostOncePerStep
<1>1. AloneInv /\ (\A k \in Step : effects[k] <= made) => AtMostOncePerStep
  BY AutonomyRunAssumption DEF AloneInv, CopyInv, Once, AtMostOncePerStep
<1>2. Spec => [](\A k \in Step : effects[k] <= made)
  BY OncePerCopy
<1>3. QED
  BY <1>1, <1>2, AloneAlways, PTL

\* The action budget holds through every restart, while copies come one after the other.
THEOREM ActionsBounded == Spec => []ActionsWithinLimit
<1>1. AloneInv => ActionsWithinLimit
  BY AutonomyRunAssumption DEF AloneInv, CopyInv, Budget, Ran, ActionsWithinLimit
<1>2. QED
  BY <1>1, AloneAlways, PTL

\* What a copy does leaves a run ended that has ended for the row and for every copy.
LEMMA EndedStep ==
  ASSUME TypeOK, Taken, Ended, NEW c \in Copy, CopyStep(c)
  PROVE  runStatus' \in Terminal /\ (Live(c)' => status'[c] \in Terminal)
<1>t. /\ pc \in [Copy -> PC] /\ loaded \subseteq Copy
      /\ status \in [Copy -> Lifecycle \cup {"NONE"}]
  BY DEF TypeOK, MemoryType, CallType
<1>e. runStatus \in Terminal /\ (Live(c) => status[c] \in Terminal)
  BY DEF Ended
<1>s. pc[c] \in {"recover", "reconcile"} => c \notin loaded
  BY DEF Taken
<1> USE <1>t, <1>e, <1>s DEF Live, Terminal, CanGo, MayEnter, Goto, Enter, rowVars, memVars, frameVars
<1>1. CASE \E e \in Engine : StartRun(c, e)
  BY <1>1 DEF StartRun, MakeCopy, SaveRow
<1>2. CASE \E e \in Engine : GetRun(c, e)
  BY <1>2 DEF GetRun, MakeCopy, Rebuild
<1>3. CASE \E e \in Engine : RecoverRead(c, e)
  BY <1>3 DEF RecoverRead, MakeCopy, Rebuild
<1>4. CASE IterationLeaseLost(c)
  BY <1>4 DEF IterationLeaseLost, SaveRow, Callable
<1>4g. CASE GiveUp(c)
  BY <1>4g DEF GiveUp, SaveRow, Callable
<1>5. CASE IterationTimedOut(c)
  BY <1>5 DEF IterationTimedOut, Iterating, CheckLease, AcquireLease, Callable
<1>6. CASE IterationLimit(c)
  BY <1>6 DEF IterationLimit, Iterating, CheckLease, AcquireLease, Callable
<1>7. CASE IterationRevoked(c)
  BY <1>7 DEF IterationRevoked, Iterating, CheckLease, AcquireLease, Callable
<1>8. CASE IterationThrows(c)
  BY <1>8 DEF IterationThrows, Counted, Iterating, CheckLease, AcquireLease, Callable
<1>9. CASE ProposalInvalid(c)
  BY <1>9 DEF ProposalInvalid, Counted, Iterating, CheckLease, AcquireLease, Callable
<1>10. CASE DelegationLimit(c)
  BY <1>10 DEF DelegationLimit, Counted, Iterating, CheckLease, AcquireLease, Callable
<1>11. CASE ProposalValid(c)
  BY <1>11 DEF ProposalValid, Counted, Iterating, CheckLease, AcquireLease, Callable
<1>12. CASE ApproveAndContinue(c)
  BY <1>12 DEF ApproveAndContinue
<1>13. CASE ApprovalRejected(c)
  BY <1>13 DEF ApprovalRejected
<1>14. CASE StartLease(c)
  BY <1>14 DEF StartLease, AcquireLease, CanAcquire
<1>15. CASE EvaluatedBlocked(c)
  BY <1>15 DEF EvaluatedBlocked
<1>16. CASE EvaluatedApproval(c)
  BY <1>16 DEF EvaluatedApproval
<1>17. CASE EvaluatedSafe(c)
  BY <1>17 DEF EvaluatedSafe
<1>18. CASE ActionLimit(c)
  BY <1>18 DEF ActionLimit
<1>19. CASE ActionLeaseLost(c)
  BY <1>19 DEF ActionLeaseLost, SaveRow
<1>20. CASE ActionLease(c)
  BY <1>20 DEF ActionLease, CheckLease, AcquireLease, CanAcquire
<1>21. CASE Lookup(c)
  BY <1>21 DEF Lookup
<1>22. CASE FoundInFlight(c)
  BY <1>22 DEF FoundInFlight
<1>23. CASE Dispatch(c)
  BY <1>23 DEF Dispatch
<1>24. CASE MarkExecuting(c)
  BY <1>24 DEF MarkExecuting, SaveRow
<1>25. CASE NoAgent(c)
  BY <1>25 DEF NoAgent
<1>26. CASE ToolRuns(c)
  BY <1>26 DEF ToolRuns
<1>27. CASE ToolRefused(c)
  BY <1>27 DEF ToolRefused
<1>28. CASE RecordResult(c)
  BY <1>28 DEF RecordResult
<1>29. CASE VerifyThrows(c)
  BY <1>29 DEF VerifyThrows
<1>30. CASE VerifyInconclusive(c)
  BY <1>30 DEF VerifyInconclusive, Verifying
<1>31. CASE VerifyFailed(c)
  BY <1>31 DEF VerifyFailed, Verifying
<1>32. CASE VerifySucceeds(c)
  BY <1>32 DEF VerifySucceeds, Verifying
<1>33. CASE SaveRun(c)
  BY <1>33 DEF SaveRun, SaveRow
<1>34. CASE RecoverRevoked(c)
  BY <1>34 DEF RecoverRevoked, SaveRow
<1>35. CASE RecoverLease(c)
  BY <1>35 DEF RecoverLease, AcquireLease, CanAcquire
<1>36. CASE RecoverInFlight(c)
  BY <1>36 DEF RecoverInFlight
<1>37. CASE RecoverResume(c)
  BY <1>37 DEF RecoverResume
<1>38. CASE CancelRun(c)
  BY <1>38 DEF CancelRun, SaveRow, Callable
<1>40. QED
  BY <1>1, <1>2, <1>3, <1>4, <1>4g, <1>5, <1>6, <1>7, <1>8, <1>9, <1>10,
     <1>11, <1>12, <1>13, <1>14, <1>15, <1>16, <1>17, <1>18, <1>19,
     <1>20, <1>21, <1>22, <1>23, <1>24, <1>25, <1>26, <1>27, <1>28,
     <1>29, <1>30, <1>31, <1>32, <1>33, <1>34, <1>35, <1>36, <1>37,
     <1>38 DEF CopyStep, ExecuteIteration, Continue


\* The end of a run that is written down is not taken back while copies come one after
\* the other, and once every copy knows it nothing takes it back.
THEOREM EndIsFinal == Spec => DurableTerminalFinal
<1>1. TypeOK /\ Taken /\ Ended /\ [Next]_vars => Ended'
  <2> SUFFICES ASSUME TypeOK, Taken, Ended, [Next]_vars
               PROVE  runStatus' \in Terminal /\ \A d \in Copy : Live(d)' => status'[d] \in Terminal
    BY DEF Ended
  <2>e. runStatus \in Terminal /\ \A d \in Copy : Live(d) => status[d] \in Terminal
    BY DEF Ended
  <2>1. ASSUME NEW c \in Copy, CopyStep(c)
        PROVE  runStatus' \in Terminal /\ \A d \in Copy : Live(d)' => status'[d] \in Terminal
    <3>1. runStatus' \in Terminal /\ (Live(c)' => status'[c] \in Terminal)
      BY <2>1, EndedStep
    <3>2. ASSUME NEW d \in Copy, d # c, Live(d)' PROVE status'[d] \in Terminal
      <4>1. UNCHANGED <<pc[d], status[d]>> /\ (d \in loaded' => d \in loaded)
        BY <2>1, <3>2, OthersLeave
      <4>2. Live(d)
        BY <3>2, <4>1 DEF Live
      <4>3. QED
        BY <2>e, <4>1, <4>2
    <3>3. QED
      BY <3>1, <3>2
  <2>2. ASSUME NEW e \in Engine, Crash(e)
        PROVE  runStatus' \in Terminal /\ \A d \in Copy : Live(d)' => status'[d] \in Terminal
    <3>1. runStatus' = runStatus
      BY <2>2 DEF Crash, rowVars
    <3>2. \A d \in Copy : Live(d)' => Live(d) /\ status'[d] = status[d]
      BY <2>2 DEF Crash, InMap, Live
    <3>3. QED
      BY <2>e, <3>1, <3>2
  <2>3. CASE OwnerAnswers \/ LeaseExpires \/ RuntimeExceeded \/ UNCHANGED vars
    <3>1. UNCHANGED <<runStatus, pc, loaded, status>>
      BY <2>3 DEF OwnerAnswers, LeaseExpires, RuntimeExceeded, vars, rowVars, memVars, frameVars
    <3>2. QED
      BY <2>e, <3>1 DEF Live
  <2>4. QED
    BY <2>1, <2>2, <2>3, NextCases
<1>2. TypeOK /\ StepKnown /\ AloneInv /\ [Next]_vars
        => (alone' /\ runStatus \in Terminal => runStatus' = runStatus)
  <2> SUFFICES ASSUME TypeOK, StepKnown, AloneInv, [Next]_vars, alone', runStatus \in Terminal
               PROVE  runStatus' = runStatus
    OBVIOUS
  <2>1. PICK c \in Copy : Acts(c) /\ CopyInv(c)
    BY AloneActs
  <2>2. Fresh(c) /\ Mirror(c)
    BY <2>1 DEF CopyInv
  <2>3. QED
    BY <2>1, <2>2, TerminalStays
<1>3. TypeOK /\ Taken /\ StepKnown /\ AloneInv /\ [Next]_vars
        => [ /\ Ended => Ended'
             /\ alone' /\ runStatus \in Terminal => runStatus' = runStatus ]_vars
  BY <1>1, <1>2
<1>4. Init => Taken
  BY DEF Init, Taken
<1>5. QED
  BY <1>3, <1>4, AloneAlways, TakenInductive, PTL DEF Spec, DurableTerminalFinal

\* An action whose fate is unknown is never tried again nor declared done, while
\* copies come one after the other.
UnknownIsFinal ==
    [][\A k \in Step : alone' /\ ckpt[k] = "UNKNOWN" =>
          ckpt'[k] = "UNKNOWN" /\ effects'[k] = effects[k]]_vars

\* An action of unknown fate is left alone for good: what ImplementsLog says of
\* UNKNOWN, by itself.
THEOREM UnknownForGood == Spec => UnknownIsFinal
<1>1. ASSUME TypeOK, StepKnown, AloneInv, [Next]_vars,
             NEW k \in Step, alone', ckpt[k] = "UNKNOWN"
      PROVE  ckpt'[k] = "UNKNOWN" /\ effects'[k] = effects[k]
  <2>1. PICK c \in Copy : Acts(c) /\ CopyInv(c)
    BY <1>1, AloneActs
  <2>2. Fresh(c) /\ OnRecord(c)
    BY <2>1 DEF CopyInv
  <2>3. QED
    BY <1>1, <2>1, <2>2, UnknownStays
<1>2. TypeOK /\ StepKnown /\ AloneInv /\ [Next]_vars
        => [\A k \in Step : alone' /\ ckpt[k] = "UNKNOWN" =>
               ckpt'[k] = "UNKNOWN" /\ effects'[k] = effects[k]]_vars
  BY <1>1
<1>3. QED
  BY <1>2, AloneAlways, PTL DEF Spec, UnknownIsFinal

\* While copies come one after the other the log of the actions is kept as ActionLog
\* says, wherever processes die: on record before the tool runs, one run, an end that
\* tells the truth, and nothing more once nobody knows.
THEOREM EngineKeepsLog == Spec => ImplementsLog
<1>1. Init => Log!Init
  BY DEF Init, Log!Init
<1>2. ASSUME TypeOK, StepKnown, AloneInv, [Next]_vars
      PROVE  [alone' => Log!Next]_<<ckpt, effects>>
  <2> SUFFICES ASSUME alone' PROVE [Log!Next]_<<ckpt, effects>>
    OBVIOUS
  <2>1. PICK c \in Copy : Acts(c) /\ CopyInv(c)
    BY <1>2, AloneActs
  <2>2. Fresh(c) /\ OnRecord(c) /\ Once(c) /\ Outcome(c)
    BY <2>1 DEF CopyInv
  <2>3. QED
    BY <1>2, <2>1, <2>2, LogStep
<1>3. TypeOK /\ StepKnown /\ AloneInv /\ [Next]_vars => [alone' => Log!Next]_<<ckpt, effects>>
  BY <1>2
<1>4. QED
  BY <1>1, <1>3, AloneAlways, PTL DEF Spec, ImplementsLog

\* While copies come one after the other the step written down for the run never goes
\* back, so that a restart from the row takes up no step that is over.
THEOREM StepsCountOn == Spec => [][alone' => stepIndex' >= stepIndex]_vars
<1>1. ASSUME TypeOK, StepKnown, AloneInv, [Next]_vars, alone'
      PROVE  stepIndex' >= stepIndex
  <2>1. PICK c \in Copy : Acts(c) /\ CopyInv(c)
    BY <1>1, AloneActs
  <2>2. Position(c)
    BY <2>1 DEF CopyInv
  <2>3. QED
    BY <1>1, <2>1, <2>2, StepIndexGrows
<1>2. TypeOK /\ StepKnown /\ AloneInv /\ [Next]_vars => [alone' => stepIndex' >= stepIndex]_vars
  BY <1>1
<1>3. QED
  BY <1>2, AloneAlways, PTL DEF Spec
=============================================================================
