----------------------------- MODULE AutonomyRun -----------------------------
(***************************************************************************)
(* One autonomy run as ControlledAutonomyEngine executes it on a           *)
(* DurableAutonomyRunStore (src/src/core/autonomy/index.ts).  Each engine  *)
(* is a process; all share the sqlite file with the row of the run and the *)
(* checkpoints of its actions.                                             *)
(*                                                                         *)
(* What an engine works on is a copy: a run object built by startRun, by   *)
(* getRun or by a recovery.  The engine's map holds at most one copy       *)
(* (loaded), and calls start on that one; but a recovery replaces the      *)
(* entry without looking at it, and a call goes on with the object it      *)
(* began with.  A copy has at most one call past its synchronous prefix    *)
(* (OneFrame checks that), so a call is the copy's pc, step and verdict.   *)
(*                                                                         *)
(* An engine gives control away at the awaits of the policy evaluation, of *)
(* the tool execution and of the recovery's audits, where other calls on   *)
(* it run; between two SQL statements the other processes run, and a       *)
(* process can die.  Each action is one such stretch of code.  A           *)
(* transition the engine refuses throws: the call ends with whatever was   *)
(* assigned before.                                                        *)
(***************************************************************************)
EXTENDS Integers, FiniteSets

CONSTANTS
    Engine,          \* engines (processes) sharing the store
    NoEngine,        \* active_worker_id IS NULL
    Copy,            \* run objects: how many can be in use at a time
    MaxIterations, MaxDelegations, MaxActions, MaxRetries,  \* AutonomyPolicy
    Levels,          \* what the policy may answer, BLOCKED aside
    MaxCrashes,      \* bound on the crashes explored
    MaxCopies        \* bound on repeated recoveries: none from this many copies on

ASSUME AutonomyRunAssumption ==
    /\ Engine # {} /\ NoEngine \notin Engine /\ Copy # {}
    /\ MaxIterations \in Nat \ {0}
    /\ MaxDelegations \in Nat /\ MaxActions \in Nat /\ MaxRetries \in Nat
    /\ MaxCrashes \in Nat /\ MaxCopies \in Nat

ASSUME LevelsAssumption == Levels \subseteq {"SAFE", "APPROVAL_REQUIRED"}

VARIABLES
    \* the row of autonomy_runs
    runStatus, stepIndex, activeWorker,
    lease,      \* lease_expires_at: null, live (in the future) or past
    ckpt,       \* action_checkpoints: state per step (idempotency key)
    output,     \* what the output stored with it verifies as
    \* per copy: the engine it was made in, whether it is in its map, its fields
    engine, loaded, status, iterations, delegations, actions, retries,
    \* per copy: the call in progress
    pc, step, verdict,
    \* around the engine
    runtime,    \* of maxRuntimeMs since createdAt: left or exceeded
    approval,   \* status of the approval row for the proposal
    effects,    \* history: times the tool ran, per step
    crashes,
    alone,      \* history: no copy was made while another one was in use
    made        \* history: copies put into a map

rowVars == <<runStatus, stepIndex, activeWorker, lease>>
memVars == <<engine, loaded, status, iterations, delegations, actions, retries>>
frameVars == <<pc, step, verdict>>
envVars == <<runtime, approval, effects, crashes, alone, made>>
chkVars == <<ckpt, output>>
vars == <<rowVars, chkVars, memVars, frameVars, envVars>>
-----------------------------------------------------------------------------
Step == 1..MaxIterations

Terminal == {"COMPLETED", "FAILED", "CANCELLED", "TIMED_OUT", "LIMIT_REACHED", "BLOCKED"}

\* The lifecycle states a run of this path goes through (the engine's other
\* states belong to runControlledAction).
Lifecycle == Terminal \cup
    {"AUTHORIZED", "RUNNING", "VALIDATING", "WAITING_FOR_APPROVAL", "APPROVED",
     "EXECUTING", "VERIFYING", "RETRYING"}

\* allowedStateTransitions.  PROPOSAL_RECEIVED, entered and left within one
\* call, is folded into RUNNING -> VALIDATING.
Allowed ==
    [s \in Lifecycle |->
        CASE s = "AUTHORIZED" -> {"RUNNING", "BLOCKED", "FAILED", "CANCELLED", "TIMED_OUT"}
          [] s = "RUNNING" -> Terminal \cup {"VALIDATING", "EXECUTING", "WAITING_FOR_APPROVAL"}
          [] s = "VALIDATING" -> (Terminal \ {"LIMIT_REACHED"}) \cup
                 {"WAITING_FOR_APPROVAL", "EXECUTING", "VERIFYING", "RETRYING"}
          [] s = "WAITING_FOR_APPROVAL" -> {"APPROVED", "BLOCKED", "FAILED", "CANCELLED", "TIMED_OUT"}
          [] s = "APPROVED" -> {"EXECUTING", "BLOCKED", "FAILED", "CANCELLED", "TIMED_OUT"}
          [] s = "EXECUTING" -> (Terminal \ {"LIMIT_REACHED"}) \cup
                 {"VERIFYING", "VALIDATING", "RETRYING"}
          [] s = "VERIFYING" -> Terminal \cup {"RUNNING", "RETRYING"}
          [] s = "RETRYING" -> (Terminal \ {"COMPLETED"}) \cup {"RUNNING", "EXECUTING"}
          [] OTHER -> {}]

\* Mutant: validateStateTransition forgets the table.
CanGoAnywhere(s, t) == s \notin Terminal

\* validateStateTransition
CanGo(s, t) == s \notin Terminal /\ t \in Allowed[s]

\* transitionRunState does nothing when the state is already there.
MayEnter(s, t) == s = t \/ CanGo(s, t)

CheckpointState == {"NONE", "DISPATCHED", "EXECUTED", "FAILED", "VERIFIED", "UNKNOWN"}

\* verifyExecutionResult; no output is INCONCLUSIVE.
Verdict == {"SUCCESS", "FAILED", "INCONCLUSIVE"}

PC == {"idle", "evaluate", "begin", "lookup", "unknown", "dispatch", "mark", "noagent",
       "tool", "result", "verify", "save", "giveup", "start", "recover", "reconcile"}

\* The points where a call waits and others may run on its engine.
AtAwait(c) == pc[c] \in {"idle", "evaluate", "tool", "result"}

\* A copy in use: in the map, or held by a call that has not returned.
Live(c) == c \in loaded \/ pc[c] # "idle"

\* One thread for each engine: a step of a call needs the others at an await.
Yields(c) == AtAwait(c) \/ pc[c] = "recover"
FreeToRun(e) == \A d \in Copy : engine[d] = e => Yields(d)
Turn(c) == \A d \in Copy \ {c} : engine[d] = engine[c] => Yields(d)

StoreType ==
    /\ runStatus \in Lifecycle \cup {"NONE"}
    /\ stepIndex \in 0..MaxIterations
    /\ activeWorker \in Engine \cup {NoEngine}
    /\ lease \in {"null", "live", "past"}
    /\ ckpt \in [Step -> CheckpointState]
    /\ output \in [Step -> Verdict]

MemoryType ==
    /\ engine \in [Copy -> Engine \cup {NoEngine}]
    /\ loaded \subseteq Copy
    /\ status \in [Copy -> Lifecycle \cup {"NONE"}]
    /\ iterations \in [Copy -> 0..MaxIterations]
    /\ delegations \in [Copy -> 0..MaxDelegations]
    /\ actions \in [Copy -> Nat]
    /\ retries \in [Copy -> 0..MaxRetries]

CallType ==
    /\ pc \in [Copy -> PC]
    /\ step \in [Copy -> 0..MaxIterations]
    /\ verdict \in [Copy -> Verdict \cup {"REFUSED"}]

EnvType ==
    /\ runtime \in {"left", "exceeded"}
    /\ approval \in {"NONE", "PENDING", "APPROVED", "CONSUMED", "DEAD"}
    /\ effects \in [Step -> Nat]
    /\ crashes \in 0..MaxCrashes
    /\ alone \in BOOLEAN
    /\ made \in Nat

TypeOK == StoreType /\ MemoryType /\ CallType /\ EnvType

Init ==
    /\ runStatus = "NONE" /\ stepIndex = 0 /\ activeWorker = NoEngine /\ lease = "null"
    /\ ckpt = [k \in Step |-> "NONE"]
    /\ output = [k \in Step |-> "INCONCLUSIVE"]
    /\ engine = [c \in Copy |-> NoEngine]
    /\ loaded = {}
    /\ status = [c \in Copy |-> "NONE"]
    /\ iterations = [c \in Copy |-> 0]
    /\ delegations = [c \in Copy |-> 0]
    /\ actions = [c \in Copy |-> 0]
    /\ retries = [c \in Copy |-> 0]
    /\ pc = [c \in Copy |-> "idle"]
    /\ step = [c \in Copy |-> 0]
    /\ verdict = [c \in Copy |-> "SUCCESS"]
    /\ runtime = "left"
    /\ approval = "NONE"
    /\ effects = [k \in Step |-> 0]
    /\ crashes = 0
    /\ alone = TRUE
    /\ made = 0
-----------------------------------------------------------------------------
(* Pieces of the store and of the engine. *)

Goto(c, l) == pc' = [pc EXCEPT ![c] = l]
Enter(c, s) == status' = [status EXCEPT ![c] = s]
SetCkpt(k, s) == ckpt' = [ckpt EXCEPT ![k] = s]

\* saveRun replaces the whole row; no caller of the engine passes a lease
\* expiry, so the column becomes NULL.
SaveRow(s, k, owner) ==
    /\ runStatus' = s
    /\ stepIndex' = k
    /\ activeWorker' = owner
    /\ lease' = "null"

\* isLeaseValid: a NULL expiry never ends.
LeaseValid(c) == activeWorker = engine[c] /\ lease # "past"

\* acquireLease: the same NULL expiry counts as expired for everybody else.
CanAcquire(c) ==
    /\ runStatus \notin Terminal \cup {"NONE"}
    /\ activeWorker \in {NoEngine, engine[c]} \/ lease # "live"

AcquireLease(c) ==
    /\ activeWorker' = engine[c]
    /\ lease' = "live"
    /\ UNCHANGED <<runStatus, stepIndex>>

\* The lease check of executeIteration and of executeAndVerifyAction.
HasLease(c) == LeaseValid(c) \/ CanAcquire(c)
CheckLease(c) == IF LeaseValid(c) THEN UNCHANGED rowVars ELSE AcquireLease(c)

\* Mutant: the store does not rebuild the action count.
RebuildNoActions(c) ==
    /\ status' = [status EXCEPT ![c] = runStatus]
    /\ iterations' = [iterations EXCEPT ![c] = stepIndex]
    /\ actions' = [actions EXCEPT ![c] = 0]
    /\ delegations' = [delegations EXCEPT ![c] = 0]
    /\ retries' = [retries EXCEPT ![c] = 0]

\* getRun of the store: the counters are rebuilt from step_index alone.
Rebuild(c) ==
    /\ status' = [status EXCEPT ![c] = runStatus]
    /\ iterations' = [iterations EXCEPT ![c] = stepIndex]
    /\ actions' = [actions EXCEPT ![c] = stepIndex]
    /\ delegations' = [delegations EXCEPT ![c] = 0]
    /\ retries' = [retries EXCEPT ![c] = 0]
-----------------------------------------------------------------------------
(* startRun, getRun *)

\* A new copy for engine e, from startRun, getRun or a recovery.
MakeCopy(c, e) ==
    /\ ~Live(c) /\ FreeToRun(e)
    /\ engine' = [engine EXCEPT ![c] = e]
    /\ alone' = (alone /\ \A d \in Copy : ~Live(d))

\* The copies in the map of e: at most one (the map is keyed by run id).
InMap(e) == {d \in loaded : engine[d] = e}

\* startRun past its checks: the AUTHORIZED run is saved with this worker.  A
\* run id is started once: startRun itself would replace the row.
StartRun(c, e) ==
    /\ MakeCopy(c, e) /\ InMap(e) = {} /\ runStatus = "NONE"
    /\ loaded' = loaded \cup {c}
    /\ made' = made + 1
    /\ Enter(c, "AUTHORIZED")
    /\ SaveRow("AUTHORIZED", 0, e)
    /\ Goto(c, "start")
    /\ UNCHANGED <<chkVars, iterations, delegations, actions, retries, step, verdict,
                   runtime, approval, effects, crashes>>

\* The result of startRun's acquireLease is ignored.
StartLease(c) ==
    /\ pc[c] = "start" /\ Turn(c)
    /\ IF CanAcquire(c) THEN AcquireLease(c) ELSE UNCHANGED rowVars
    /\ Goto(c, "idle")
    /\ UNCHANGED <<chkVars, memVars, step, verdict, envVars>>

\* getRun of the engine when the run is not in its map: no lease is taken.
GetRun(c, e) ==
    /\ MakeCopy(c, e) /\ InMap(e) = {} /\ runStatus # "NONE"
    /\ loaded' = loaded \cup {c}
    /\ made' = made + 1
    /\ Rebuild(c)
    /\ UNCHANGED <<rowVars, chkVars, frameVars, runtime, approval, effects, crashes>>
-----------------------------------------------------------------------------
(* executeIteration, up to the await of policyEngine.evaluate.  It may be
   called while an earlier call of this engine is waiting. *)

Callable(c) == Turn(c) /\ AtAwait(c) /\ c \in loaded /\ status[c] \notin Terminal

\* No lease to be had: the engine marks the run BLOCKED, and then in the row,
\* whose owner it clears.  A second call, with the first one at an await, does
\* both in one step here.
IterationLeaseLost(c) ==
    /\ Callable(c) /\ ~HasLease(c)
    /\ Enter(c, "BLOCKED")
    /\ \/ pc[c] = "idle" /\ Goto(c, "giveup") /\ UNCHANGED rowVars
       \/ pc[c] # "idle" /\ SaveRow("BLOCKED", iterations[c], NoEngine) /\ UNCHANGED pc
    /\ UNCHANGED <<chkVars, engine, loaded, iterations, delegations, actions, retries,
                   step, verdict, envVars>>

GiveUp(c) ==
    /\ pc[c] = "giveup" /\ Turn(c)
    /\ SaveRow("BLOCKED", iterations[c], NoEngine)
    /\ Goto(c, "idle")
    /\ UNCHANGED <<chkVars, memVars, step, verdict, envVars>>

Iterating(c) == Callable(c) /\ HasLease(c) /\ CheckLease(c)

\* Mutant: the timeout is looked at only while the run is RUNNING.
TimedOutWhenRunning(c) ==
    /\ Iterating(c) /\ runtime = "exceeded"
    /\ Enter(c, IF status[c] = "RUNNING" THEN "TIMED_OUT" ELSE status[c])
    /\ UNCHANGED <<chkVars, engine, loaded, iterations, delegations, actions, retries, frameVars, envVars>>

\* TIMED_OUT, like the other early ends below, is not saved.
IterationTimedOut(c) ==
    /\ Iterating(c) /\ runtime = "exceeded"
    /\ Enter(c, IF CanGo(status[c], "TIMED_OUT") THEN "TIMED_OUT" ELSE status[c])
    /\ UNCHANGED <<chkVars, engine, loaded, iterations, delegations, actions, retries, frameVars, envVars>>

IterationLimit(c) ==
    /\ Iterating(c) /\ runtime = "left" /\ iterations[c] >= MaxIterations
    /\ Enter(c, IF CanGo(status[c], "LIMIT_REACHED") THEN "LIMIT_REACHED" ELSE status[c])
    /\ UNCHANGED <<chkVars, engine, loaded, iterations, delegations, actions, retries, frameVars, envVars>>

\* The owner was deactivated or left the workspace (any time, by other parts).
IterationRevoked(c) ==
    /\ Iterating(c) /\ runtime = "left" /\ iterations[c] < MaxIterations
    /\ Enter(c, "BLOCKED")
    /\ UNCHANGED <<chkVars, engine, loaded, iterations, delegations, actions, retries, frameVars, envVars>>

\* Mutant: a retry keeps its iteration.
CountedOncePerRetry(c) ==
    /\ Iterating(c) /\ runtime = "left" /\ iterations[c] < MaxIterations
    /\ iterations' = [iterations EXCEPT ![c] = IF status[c] = "RETRYING" THEN @ ELSE @ + 1]

\* iterationsCount++ precedes the transition to RUNNING, which may throw.
Counted(c) ==
    /\ Iterating(c) /\ runtime = "left" /\ iterations[c] < MaxIterations
    /\ iterations' = [iterations EXCEPT ![c] = @ + 1]

IterationThrows(c) ==
    /\ Counted(c)
    /\ ~MayEnter(status[c], "RUNNING")
    /\ UNCHANGED <<chkVars, engine, loaded, status, delegations, actions, retries, frameVars, envVars>>

\* validateAIProposal rejects the proposal.
ProposalInvalid(c) ==
    /\ Counted(c)
    /\ MayEnter(status[c], "RUNNING")
    /\ Enter(c, "BLOCKED")
    /\ UNCHANGED <<chkVars, engine, loaded, delegations, actions, retries, frameVars, envVars>>

\* The delegation limit is found in VALIDATING.
DelegationLimit(c) ==
    /\ Counted(c)
    /\ MayEnter(status[c], "RUNNING")
    /\ delegations[c] >= MaxDelegations
    /\ Enter(c, IF CanGo("VALIDATING", "LIMIT_REACHED") THEN "LIMIT_REACHED" ELSE "VALIDATING")
    /\ UNCHANGED <<chkVars, engine, loaded, delegations, actions, retries, frameVars, envVars>>

ProposalValid(c) ==
    /\ Counted(c)
    /\ pc[c] = "idle"
    /\ MayEnter(status[c], "RUNNING")
    /\ delegations[c] < MaxDelegations
    /\ delegations' = [delegations EXCEPT ![c] = @ + 1]
    /\ Enter(c, "VALIDATING")
    /\ Goto(c, "evaluate")
    /\ UNCHANGED <<chkVars, engine, loaded, actions, retries, step, verdict, envVars>>
-----------------------------------------------------------------------------
(* After the await of policyEngine.evaluate; approveAndContinueIteration. *)

EvaluatedBlocked(c) ==
    /\ pc[c] = "evaluate" /\ Turn(c)
    /\ Enter(c, IF CanGo(status[c], "BLOCKED") THEN "BLOCKED" ELSE status[c])
    /\ Goto(c, "idle")
    /\ UNCHANGED <<rowVars, chkVars, engine, loaded, iterations, delegations, actions, retries,
                   step, verdict, envVars>>

\* requestApproval comes before the transition, which throws if the run was
\* cancelled meanwhile.
EvaluatedApproval(c) ==
    /\ pc[c] = "evaluate" /\ Turn(c) /\ "APPROVAL_REQUIRED" \in Levels
    /\ approval' = "PENDING"
    /\ IF CanGo(status[c], "WAITING_FOR_APPROVAL")
       THEN Enter(c, "WAITING_FOR_APPROVAL") /\ Goto(c, "save")
       ELSE Goto(c, "idle") /\ UNCHANGED status
    /\ UNCHANGED <<rowVars, chkVars, engine, loaded, iterations, delegations, actions, retries,
                   step, verdict, runtime, effects, crashes, alone, made>>

EvaluatedSafe(c) ==
    /\ pc[c] = "evaluate" /\ Turn(c) /\ "SAFE" \in Levels
    /\ Goto(c, "begin")
    /\ UNCHANGED <<rowVars, chkVars, memVars, step, verdict, envVars>>

ApproveAndContinue(c) ==
    /\ pc[c] = "idle" /\ Turn(c) /\ c \in loaded /\ status[c] = "WAITING_FOR_APPROVAL"
    /\ approval = "APPROVED"
    /\ Enter(c, "APPROVED")
    /\ Goto(c, "begin")
    /\ UNCHANGED <<rowVars, chkVars, engine, loaded, iterations, delegations, actions, retries,
                   step, verdict, envVars>>

\* Another workspace, not a member, or an approval that is not APPROVED.
ApprovalRejected(c) ==
    /\ pc[c] = "idle" /\ Turn(c) /\ c \in loaded /\ status[c] = "WAITING_FOR_APPROVAL"
    /\ Enter(c, "BLOCKED")
    /\ UNCHANGED <<rowVars, chkVars, engine, loaded, iterations, delegations, actions, retries,
                   frameVars, envVars>>
-----------------------------------------------------------------------------
(* executeAndVerifyAction *)

ActionLimit(c) ==
    /\ pc[c] = "begin" /\ Turn(c) /\ actions[c] >= MaxActions
    /\ IF CanGo(status[c], "LIMIT_REACHED")
       THEN Enter(c, "LIMIT_REACHED") /\ Goto(c, "save")
       ELSE Goto(c, "idle") /\ UNCHANGED status
    /\ UNCHANGED <<rowVars, chkVars, engine, loaded, iterations, delegations, actions, retries,
                   step, verdict, envVars>>

ActionLeaseLost(c) ==
    /\ pc[c] = "begin" /\ Turn(c) /\ actions[c] < MaxActions /\ ~HasLease(c)
    /\ IF MayEnter(status[c], "BLOCKED")
       THEN Enter(c, "BLOCKED") /\ Goto(c, "giveup")
       ELSE Goto(c, "idle") /\ UNCHANGED status
    /\ UNCHANGED <<rowVars, chkVars, engine, loaded, iterations, delegations, actions, retries,
                   step, verdict, envVars>>

ActionLease(c) ==
    /\ pc[c] = "begin" /\ Turn(c) /\ actions[c] < MaxActions /\ HasLease(c)
    /\ CheckLease(c)
    /\ Goto(c, "lookup")
    /\ UNCHANGED <<chkVars, memVars, step, verdict, envVars>>

\* Mutant: no checkpoint is written ahead.
LookupSkipsDispatch(c) ==
    LET k == iterations[c] IN
    /\ pc[c] = "lookup" /\ Turn(c)
    /\ step' = [step EXCEPT ![c] = k]
    /\ verdict' = [verdict EXCEPT ![c] = output[k]]
    /\ Goto(c, CASE ckpt[k] \in {"NONE", "FAILED"} -> "mark"
                 [] ckpt[k] \in {"DISPATCHED", "UNKNOWN"} -> "unknown"
                 [] OTHER -> "verify")
    /\ UNCHANGED <<rowVars, chkVars, memVars, envVars>>

\* getCheckpointByIdempotencyKey.
Lookup(c) ==
    LET k == iterations[c] IN
    /\ pc[c] = "lookup" /\ Turn(c)
    /\ step' = [step EXCEPT ![c] = k]
    /\ verdict' = [verdict EXCEPT ![c] = output[k]]
    /\ Goto(c, CASE ckpt[k] = "NONE" -> "dispatch"
                 [] ckpt[k] = "FAILED" -> "mark"
                 [] ckpt[k] \in {"DISPATCHED", "UNKNOWN"} -> "unknown"
                 [] OTHER -> "verify")
    /\ UNCHANGED <<rowVars, chkVars, memVars, envVars>>

\* The step was dispatched and nobody knows what became of it: fail closed.
FoundInFlight(c) ==
    /\ pc[c] = "unknown" /\ Turn(c)
    /\ SetCkpt(step[c], "UNKNOWN")
    /\ IF MayEnter(status[c], "BLOCKED")
       THEN Enter(c, "BLOCKED") /\ Goto(c, "save")
       ELSE Goto(c, "idle") /\ UNCHANGED status
    /\ UNCHANGED <<rowVars, output, engine, loaded, iterations, delegations, actions, retries,
                   step, verdict, envVars>>

\* The write-ahead checkpoint.
Dispatch(c) ==
    /\ pc[c] = "dispatch" /\ Turn(c)
    /\ SetCkpt(step[c], "DISPATCHED")
    /\ output' = [output EXCEPT ![step[c]] = "INCONCLUSIVE"]
    /\ Goto(c, "mark")
    /\ UNCHANGED <<rowVars, memVars, step, verdict, envVars>>

\* Mutant: the transition to EXECUTING is not validated.
MarkUnchecked(c) ==
    /\ pc[c] = "mark" /\ Turn(c)
    /\ actions' = [actions EXCEPT ![c] = @ + 1]
    /\ Enter(c, "EXECUTING")
    /\ SaveRow("EXECUTING", step[c], engine[c])
    /\ \E next \in {"tool", "noagent"} : Goto(c, next)
    /\ UNCHANGED <<chkVars, engine, loaded, iterations, delegations, retries, step, verdict, envVars>>

\* Mutant: the run is saved only when the call ends.
MarkUnsaved(c) ==
    /\ pc[c] = "mark" /\ Turn(c)
    /\ actions' = [actions EXCEPT ![c] = @ + 1]
    /\ IF CanGo(status[c], "EXECUTING")
       THEN Enter(c, "EXECUTING") /\ \E next \in {"tool", "noagent"} : Goto(c, next)
       ELSE Goto(c, "idle") /\ UNCHANGED status
    /\ UNCHANGED <<rowVars, chkVars, engine, loaded, iterations, delegations, retries, step,
                   verdict, envVars>>

\* EXECUTING is saved before the tool is called, unless the run was ended
\* while the call was waiting.
MarkExecuting(c) ==
    /\ pc[c] = "mark" /\ Turn(c)
    /\ actions' = [actions EXCEPT ![c] = @ + 1]
    /\ IF CanGo(status[c], "EXECUTING")
       THEN /\ Enter(c, "EXECUTING")
            /\ SaveRow("EXECUTING", step[c], engine[c])
            /\ \E next \in {"tool", "noagent"} : Goto(c, next)
       ELSE Goto(c, "idle") /\ UNCHANGED <<status, rowVars>>
    /\ UNCHANGED <<chkVars, engine, loaded, iterations, delegations, retries, step, verdict, envVars>>

NoAgent(c) ==
    /\ pc[c] = "noagent" /\ Turn(c)
    /\ Enter(c, "FAILED")
    /\ SetCkpt(step[c], "FAILED")
    /\ Goto(c, "save")
    /\ UNCHANGED <<rowVars, output, engine, loaded, iterations, delegations, actions, retries,
                   step, verdict, envVars>>

\* toolEcosystem.execute: its gates, then the tool.  The gates evaluate the
\* policy again, for the tool, and may consume the approval.
ToolRuns(c) ==
    /\ pc[c] = "tool" /\ Turn(c)
    /\ \/ "SAFE" \in Levels /\ UNCHANGED approval
       \/ approval = "APPROVED" /\ approval' = "CONSUMED"
    /\ effects' = [effects EXCEPT ![step[c]] = @ + 1]
    /\ \E v \in Verdict : verdict' = [verdict EXCEPT ![c] = v]
    /\ Goto(c, "result")
    /\ UNCHANGED <<rowVars, chkVars, memVars, step, runtime, crashes, alone, made>>

\* A gate that refuses returns no output, which verifies as INCONCLUSIVE.
ToolRefused(c) ==
    /\ pc[c] = "tool" /\ Turn(c)
    /\ verdict' = [verdict EXCEPT ![c] = "REFUSED"]
    /\ Goto(c, "result")
    /\ UNCHANGED <<rowVars, chkVars, memVars, step, envVars>>

\* Mutant: a refusal of the ecosystem is taken for a success.
RecordRefusalAsSuccess(c) ==
    LET v == IF verdict[c] = "REFUSED" THEN "SUCCESS" ELSE verdict[c] IN
    /\ pc[c] = "result" /\ Turn(c)
    /\ SetCkpt(step[c], "EXECUTED")
    /\ output' = [output EXCEPT ![step[c]] = v]
    /\ verdict' = [verdict EXCEPT ![c] = v]
    /\ Goto(c, "verify")
    /\ UNCHANGED <<rowVars, memVars, step, envVars>>

\* The result is recorded whatever happened to the run meanwhile: EXECUTED when
\* the ecosystem reported success, which an output that does not verify may
\* come with too.
RecordResult(c) ==
    LET v == IF verdict[c] = "REFUSED" THEN "INCONCLUSIVE" ELSE verdict[c] IN
    /\ pc[c] = "result" /\ Turn(c)
    /\ \E s \in {"EXECUTED", "FAILED"} :
          /\ verdict[c] = "SUCCESS" => s = "EXECUTED"
          /\ verdict[c] = "REFUSED" => s = "FAILED"
          /\ SetCkpt(step[c], s)
    /\ output' = [output EXCEPT ![step[c]] = v]
    /\ verdict' = [verdict EXCEPT ![c] = v]
    /\ Goto(c, "verify")
    /\ UNCHANGED <<rowVars, memVars, step, envVars>>
-----------------------------------------------------------------------------
(* processCheckpointOutput *)

\* The transition to VERIFYING throws if the run is not where it was left.
VerifyThrows(c) ==
    /\ pc[c] = "verify" /\ Turn(c) /\ ~CanGo(status[c], "VERIFYING")
    /\ Goto(c, "idle")
    /\ UNCHANGED <<rowVars, chkVars, memVars, step, verdict, envVars>>

Verifying(c, v) == pc[c] = "verify" /\ Turn(c) /\ CanGo(status[c], "VERIFYING") /\ verdict[c] = v

VerifyInconclusive(c) ==
    /\ Verifying(c, "INCONCLUSIVE")
    /\ Enter(c, "FAILED")
    /\ SetCkpt(step[c], "FAILED")
    /\ Goto(c, "save")
    /\ UNCHANGED <<rowVars, output, engine, loaded, iterations, delegations, actions, retries,
                   step, verdict, envVars>>

VerifyFailed(c) ==
    /\ Verifying(c, "FAILED")
    /\ IF retries[c] < MaxRetries
       THEN Enter(c, "RETRYING") /\ retries' = [retries EXCEPT ![c] = @ + 1]
       ELSE Enter(c, "FAILED") /\ UNCHANGED retries
    /\ Goto(c, "save")
    /\ UNCHANGED <<rowVars, chkVars, engine, loaded, iterations, delegations, actions,
                   step, verdict, envVars>>

\* A terminal proposal, or the last iteration, completes the run.
VerifySucceeds(c) ==
    /\ Verifying(c, "SUCCESS")
    /\ SetCkpt(step[c], "VERIFIED")
    /\ \E s \in {"COMPLETED", "RUNNING"} :
          /\ iterations[c] >= MaxIterations => s = "COMPLETED"
          /\ Enter(c, s)
    /\ Goto(c, "save")
    /\ UNCHANGED <<rowVars, output, engine, loaded, iterations, delegations, actions, retries,
                   step, verdict, envVars>>

\* The saveRun that ends a call.  A copy that is not in the map (a recovery
\* blocked it, or another one took its place) is gone with its call.
SaveRun(c) ==
    /\ pc[c] = "save" /\ Turn(c)
    /\ SaveRow(status[c], iterations[c], engine[c])
    /\ Enter(c, IF c \in loaded THEN status[c] ELSE "NONE")
    /\ Goto(c, "idle")
    /\ UNCHANGED <<chkVars, engine, loaded, iterations, delegations, actions, retries,
                   step, verdict, envVars>>
-----------------------------------------------------------------------------
(* cancelRun *)

CancelRun(c) ==
    /\ Callable(c)
    /\ CanGo(status[c], "CANCELLED")
    /\ Enter(c, "CANCELLED")
    /\ SaveRow("CANCELLED", iterations[c], engine[c])
    /\ UNCHANGED <<chkVars, engine, loaded, iterations, delegations, actions, retries, frameVars, envVars>>
-----------------------------------------------------------------------------
(* recoverInterruptedTasks, which the loop calls on every start(): of a new
   process, or of one that works on the run. *)

\* listIncompleteRuns.  It does not look at the map; recoveries that find the
\* run there are bounded.
RecoverRead(c, e) ==
    /\ MakeCopy(c, e) /\ runStatus \notin Terminal \cup {"NONE"}
    /\ InMap(e) # {} => made < MaxCopies
    /\ Rebuild(c)
    /\ Goto(c, "recover")
    /\ UNCHANGED <<rowVars, chkVars, loaded, step, verdict,
                   runtime, approval, effects, crashes, made>>

\* Owner, membership or environment is no longer valid: BLOCKED, whoever holds
\* the lease.
RecoverRevoked(c) ==
    /\ pc[c] = "recover" /\ Turn(c)
    /\ SaveRow("BLOCKED", iterations[c], NoEngine)
    /\ Enter(c, "NONE")
    /\ Goto(c, "idle")
    /\ UNCHANGED <<chkVars, engine, loaded, iterations, delegations, actions, retries,
                   step, verdict, envVars>>

RecoverLease(c) ==
    /\ pc[c] = "recover" /\ Turn(c)
    /\ IF CanAcquire(c)
       THEN AcquireLease(c) /\ Goto(c, "reconcile") /\ UNCHANGED status
       ELSE Goto(c, "idle") /\ Enter(c, "NONE") /\ UNCHANGED rowVars
    /\ UNCHANGED <<chkVars, engine, loaded, iterations, delegations, actions, retries,
                   step, verdict, envVars>>

\* getLatestCheckpointForRun orders by step_index.
Latest(k) == ckpt[k] # "NONE" /\ \A j \in Step : j > k => ckpt[j] = "NONE"

\* Mutant: the step in flight is forgotten, so that it can be tried again.
RecoverForgets(c) ==
    /\ pc[c] = "reconcile" /\ Turn(c)
    /\ \E k \in Step :
          /\ Latest(k) /\ ckpt[k] \in {"DISPATCHED", "UNKNOWN"}
          /\ SetCkpt(k, "NONE")
    /\ Enter(c, "BLOCKED")
    /\ Goto(c, "save")
    /\ UNCHANGED <<rowVars, output, engine, loaded, iterations, delegations, actions, retries,
                   step, verdict, envVars>>

\* The latest step was dispatched and nobody knows what became of it.
RecoverInFlight(c) ==
    /\ pc[c] = "reconcile" /\ Turn(c)
    /\ \E k \in Step :
          /\ Latest(k) /\ ckpt[k] \in {"DISPATCHED", "UNKNOWN"}
          /\ SetCkpt(k, "UNKNOWN")
    /\ Enter(c, "BLOCKED")
    /\ Goto(c, "save")
    /\ UNCHANGED <<rowVars, output, engine, loaded, iterations, delegations, actions, retries,
                   step, verdict, envVars>>

\* The copy takes the place of the one in the map, whatever that one is doing.
RecoverResume(c) ==
    /\ pc[c] = "reconcile" /\ Turn(c)
    /\ \A k \in Step : Latest(k) => ckpt[k] \notin {"DISPATCHED", "UNKNOWN"}
    /\ loaded' = (loaded \ InMap(engine[c])) \cup {c}
    /\ made' = made + 1
    /\ Goto(c, "idle")
    /\ UNCHANGED <<rowVars, chkVars, engine, status, iterations, delegations, actions, retries,
                   step, verdict, runtime, approval, effects, crashes, alone>>
-----------------------------------------------------------------------------
(* The process, the owner and the clock. *)

\* The process dies, and its map and its calls with it; it starts again.
Crash(e) ==
    LET Reset(f, zero) == [c \in Copy |-> IF engine[c] = e THEN zero ELSE f[c]] IN
    /\ crashes < MaxCrashes
    /\ \E c \in Copy : engine[c] = e /\ Live(c)
    /\ crashes' = crashes + 1
    /\ loaded' = loaded \ InMap(e)
    /\ engine' = Reset(engine, NoEngine)
    /\ status' = Reset(status, "NONE")
    /\ iterations' = Reset(iterations, 0)
    /\ delegations' = Reset(delegations, 0)
    /\ actions' = Reset(actions, 0)
    /\ retries' = Reset(retries, 0)
    /\ pc' = Reset(pc, "idle")
    /\ step' = Reset(step, 0)
    /\ verdict' = Reset(verdict, "SUCCESS")
    /\ UNCHANGED <<rowVars, chkVars, runtime, approval, effects, alone, made>>

\* The owner answers, or the request expires (module Approvals has the detail).
OwnerAnswers ==
    /\ approval \in {"PENDING", "APPROVED"}
    /\ approval' \in (IF approval = "PENDING" THEN {"APPROVED", "DEAD"} ELSE {"DEAD"})
    /\ UNCHANGED <<rowVars, chkVars, memVars, frameVars, runtime, effects, crashes,
                   alone, made>>

LeaseExpires ==
    /\ lease = "live"
    /\ lease' = "past"
    /\ UNCHANGED <<runStatus, stepIndex, activeWorker, chkVars, memVars, frameVars, envVars>>

RuntimeExceeded ==
    /\ runtime = "left" /\ runStatus # "NONE"
    /\ runtime' = "exceeded"
    /\ UNCHANGED <<rowVars, chkVars, memVars, frameVars, approval, effects, crashes,
                   alone, made>>

\* The steps that continue a call: they run whenever the process lives and the
\* policy evaluation or tool answers.
Continue(c) ==
    \/ StartLease(c) \/ GiveUp(c)
    \/ EvaluatedBlocked(c) \/ EvaluatedApproval(c) \/ EvaluatedSafe(c)
    \/ ActionLimit(c) \/ ActionLeaseLost(c) \/ ActionLease(c)
    \/ Lookup(c) \/ FoundInFlight(c) \/ Dispatch(c) \/ MarkExecuting(c) \/ NoAgent(c)
    \/ ToolRuns(c) \/ ToolRefused(c) \/ RecordResult(c)
    \/ VerifyThrows(c) \/ VerifyInconclusive(c) \/ VerifyFailed(c) \/ VerifySucceeds(c)
    \/ SaveRun(c)
    \/ RecoverRevoked(c) \/ RecoverLease(c) \/ RecoverInFlight(c) \/ RecoverResume(c)

ExecuteIteration(c) ==
    \/ IterationLeaseLost(c) \/ IterationTimedOut(c) \/ IterationLimit(c)
    \/ IterationRevoked(c) \/ IterationThrows(c)
    \/ ProposalInvalid(c) \/ DelegationLimit(c) \/ ProposalValid(c)

Load(c, e) == GetRun(c, e) \/ RecoverRead(c, e)

Next ==
    \/ \E c \in Copy : \E e \in Engine : StartRun(c, e) \/ Load(c, e)
    \/ \E c \in Copy :
         \/ ExecuteIteration(c)
         \/ ApproveAndContinue(c) \/ ApprovalRejected(c)
         \/ Continue(c)
         \/ CancelRun(c)
    \/ \E e \in Engine : Crash(e)
    \/ OwnerAnswers
    \/ LeaseExpires
    \/ RuntimeExceeded

Spec == Init /\ [][Next]_vars

\* What the process of an engine guarantees: a call in progress continues, an
\* engine without the run recovers or loads it, the caller keeps asking for
\* iterations, and time passes.  Crashes, further recoveries, cancellations,
\* answers of the owner and expiring leases are not fair.
Fairness ==
    /\ \A c \in Copy :
         /\ WF_vars(Continue(c))
         /\ WF_vars(ExecuteIteration(c))
    /\ \A e \in Engine : WF_vars(InMap(e) = {} /\ \E c \in Copy : Load(c, e))
    /\ WF_vars(RuntimeExceeded)

FairSpec == Spec /\ Fairness
-----------------------------------------------------------------------------
(* Properties of any number of engines and copies. *)

\* While a call waits for the policy or the tool, a second call on the same
\* copy cannot get past its prefix: the lifecycle table is the only lock the
\* engine has.  Breaking it takes a wrong entry in the table and two calls.
OneFrame ==
    \A c \in Copy :
        pc[c] \in {"evaluate", "tool", "result"} =>
            ~MayEnter(status[c], "RUNNING") /\ status[c] # "WAITING_FOR_APPROVAL"

\* The write-ahead rule: a tool never runs for a step that has no checkpoint,
\* and a call at the tool holds a step whose checkpoint is written, so
\* a crash at any point leaves a trace of the action.
WriteAhead ==
    /\ \A k \in Step : effects[k] > 0 => ckpt[k] # "NONE"
    /\ \A c \in Copy : pc[c] \in {"tool", "result"} =>
          step[c] \in Step /\ ckpt[step[c]] # "NONE"

\* A step is VERIFIED only after its tool really ran: neither the reuse of a
\* recorded output nor recovery invents a success.
VerifiedMeansRan == \A k \in Step : ckpt[k] = "VERIFIED" => effects[k] > 0

\* A tool runs at most once per step (idempotency key), whatever crashes in
\* between (m12 tests 4, 5 and 11), as long as the copies of the run come one
\* after the other.  A copy made next to another one, by a second engine or by
\* a recovery on an engine that works on the run, may repeat a step, but each
\* copy put into a map runs it once at most.
AtMostOncePerStep ==
    \A k \in Step : effects[k] <= IF alone THEN 1 ELSE made

\* The action budget survives restarts, although actionsCount is not stored:
\* the steps on record bound it, while copies come one after the other.
ActionsWithinLimit ==
    alone => Cardinality({k \in Step : effects[k] > 0}) <= MaxActions

\* The run has ended for the row and for every copy in use.
Ended == runStatus \in Terminal /\ \A c \in Copy : Live(c) => status[c] \in Terminal

\* validateStateTransition calls terminal states strictly immutable.  In the
\* row one is, while copies come one after the other: no copy built from an
\* older row, no refused transition and no late answer writes over it.  Next to
\* a copy that has not ended a terminal row can be overwritten (saveRun asks
\* nobody), but once every copy has ended too, the run stays ended.
DurableTerminalFinal ==
    [][ /\ Ended => Ended'
        /\ alone' /\ runStatus \in Terminal => runStatus' = runStatus ]_vars

\* While copies come one after the other, the checkpoints keep the contract of
\* ActionLog through crashes and restarts: an action is on record before its
\* tool runs, once; what the record says of its end is true, and UNKNOWN is final.
Log == INSTANCE ActionLog WITH Action <- Step, log <- ckpt, runs <- effects

ImplementsLog == Log!Init /\ [][alone' => Log!Next]_<<ckpt, effects>>

\* A run that started ends, at the latest by its runtime limit: no refused
\* transition leaves it out of reach of the timeout.
RunEnds ==
    (runStatus = "AUTHORIZED") ~>
        (runStatus \in Terminal \/ \E c \in loaded : status[c] \in Terminal)

(* What a test of the repository says, and a run refutes. *)

\* tests/m12_durable_recovery.test.ts, test 4: an action that was EXECUTED
\* before the crash is recognized and completed without running the tool again,
\* so the recovered run must not be in EXECUTING, which accepts no iteration.
ExecutedRunResumes ==
    \A c \in loaded :
        pc[c] = "idle" /\ iterations[c] \in Step
        /\ ckpt[iterations[c]] = "EXECUTED"
        => status[c] \in Terminal \/ MayEnter(status[c], "RUNNING")
=============================================================================
