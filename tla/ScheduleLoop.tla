---------------------------- MODULE ScheduleLoop ----------------------------
(***************************************************************************)
(* AutonomousExecutionLoop (src/src/core/autonomous/index.ts) and the      *)
(* controlled actions it runs: runControlledAction and                     *)
(* recoverLegacyRetries of ControlledAutonomyEngine                        *)
(* (src/src/core/autonomy/index.ts).                                       *)
(*                                                                         *)
(* A Proc is a start() that is recovering or a tick; setInterval does not  *)
(* wait, so several ticks may be under way, and a start() may recover      *)
(* while the ticks of an earlier one still run.  Each action is the code   *)
(* from one await to the next; an await that nothing is read after before  *)
(* the next one is folded into it.  Approvals are what SingleUseTokens     *)
(* promises of them.                                                       *)
(***************************************************************************)
EXTENDS Integers, FiniteSets

CONSTANTS
    Proc,        \* starts and ticks under way
    Task,        \* schedules, each with a task of its own
    Guarded,     \* tasks whose action needs the owner's approval
    Key, KeyOf,  \* approval fingerprints; equal actions share one
    MaxRetries,  \* budget.maxRetries of tick
    MaxGrants,   \* bound on the approvals granted
    MaxTimers    \* bound on starts whose timer is not cleared

ASSUME ScheduleLoopAssumption ==
    /\ Task # {} /\ Guarded \subseteq Task
    /\ KeyOf \in [Guarded -> Key]
    /\ MaxRetries \in Nat

ASSUME BoundsAssumption == MaxGrants \in Nat /\ MaxTimers \in Nat \ {0}

VARIABLES
    schedule,   \* status of the schedules table, per task
    retry,      \* status stored under task_retry:<taskId>
    spendable, issued, spent,  \* approvals (SingleUseTokens)
    running,    \* isRunning
    handle,     \* pollTimer is set
    timers,     \* intervals that are installed, the one of the handle included
    threw,      \* history: a recovery has thrown since the last start
    pc,         \* per proc: the await it is at
    todo,       \* per proc: schedules, or retry entries, still to be looked at
    task,       \* per proc: the task of its call
    used,       \* per proc: budget.usedRetries of its call
    succeeded,  \* history: tasks whose tool reported success
    runs        \* history: times a guarded tool ran, per fingerprint

tokenVars == <<spendable, issued, spent>>
loopVars == <<running, handle, timers, threw>>
callVars == <<pc, todo, task, used>>
history == <<succeeded, runs>>
vars == <<schedule, retry, tokenVars, loopVars, callVars, history>>

Tokens == INSTANCE SingleUseTokens
-----------------------------------------------------------------------------
Ended == {"COMPLETED", "CANCELLED"}

\* A call of runControlledAction is at one of these awaits.
InCall == {"gate", "tool", "retry", "done", "blocked", "failed"}
Recovering == {"recover", "recovering"}

AnyTask == CHOOSE t \in Task : TRUE  \* where there is no call

TypeOK ==
    /\ schedule \in [Task -> {"NONE", "SCHEDULED"} \cup Ended]
    /\ retry \in [Task -> {"NONE", "RETRYING", "EXHAUSTED", "COMPLETED", "CANCELLED"}]
    /\ Tokens!TypeOK
    /\ running \in BOOLEAN /\ handle \in BOOLEAN /\ timers \in Nat
    /\ threw \in BOOLEAN
    /\ pc \in [Proc -> {"idle"} \cup Recovering \cup InCall]
    /\ todo \in [Proc -> SUBSET Task]
    /\ task \in [Proc -> Task]
    /\ used \in [Proc -> 0..MaxRetries]
    /\ succeeded \subseteq Task
    /\ runs \in [Key -> Nat]

Init ==
    /\ schedule = [t \in Task |-> "NONE"]
    /\ retry = [t \in Task |-> "NONE"]
    /\ Tokens!Init
    /\ running = FALSE /\ handle = FALSE /\ timers = 0 /\ threw = FALSE
    /\ pc = [p \in Proc |-> "idle"]
    /\ todo = [p \in Proc |-> {}]
    /\ task = [p \in Proc |-> AnyTask]
    /\ used = [p \in Proc |-> 0]
    /\ succeeded = {}
    /\ runs = [k \in Key |-> 0]
-----------------------------------------------------------------------------
Goto(p, l) == pc' = [pc EXCEPT ![p] = l]
SetRetry(t, s) == retry' = [retry EXCEPT ![t] = s]

(* The callers: schedules are created, the owner decides. *)

CreateSchedule(t) ==
    /\ schedule[t] = "NONE"
    /\ schedule' = [schedule EXCEPT ![t] = "SCHEDULED"]
    /\ UNCHANGED <<retry, tokenVars, loopVars, callVars, history>>

OwnerGrants(k) ==
    /\ issued[k] < MaxGrants
    /\ Tokens!Issue(k)
    /\ UNCHANGED <<schedule, retry, loopVars, callVars, history>>

\* Denied, expired or asked for anew.
TokenLapses(k) ==
    /\ k \in spendable
    /\ spendable' = spendable \ {k}
    /\ UNCHANGED <<issued, spent>>
    /\ UNCHANGED <<schedule, retry, loopVars, callVars, history>>
-----------------------------------------------------------------------------
(* runControlledAction.  The action budget of tick (five) is never used up:
   an action is counted with every attempt, and there are at most four. *)

\* evaluateAutonomyDecision: environments, rules and scopes may block anything
\* at any time; a guarded action is SAFE while its approval is there.
Decisions(t) ==
    {"BLOCKED", IF t \in Guarded /\ KeyOf[t] \notin spendable
                THEN "APPROVAL_REQUIRED" ELSE "SAFE"}

\* The stretch up to the first await for task t with n retries used: no agent
\* (escalated), or a decision and what it leads to.
Attempt(p, t, n) ==
    /\ task' = [task EXCEPT ![p] = t]
    /\ used' = [used EXCEPT ![p] = n]
    /\ \/ Goto(p, "failed")
       \/ "SAFE" \in Decisions(t) /\ Goto(p, "gate")
       \/ "BLOCKED" \in Decisions(t) /\ Goto(p, "blocked")

\* Mutant: a retry is not counted.
FailsUncounted(p) ==
    /\ \/ /\ used[p] < MaxRetries
          /\ SetRetry(task[p], "RETRYING")
          /\ Goto(p, "retry")
       \/ /\ SetRetry(task[p], "EXHAUSTED")
          /\ Goto(p, "failed")
    /\ UNCHANGED used

\* The tool, or a gate of toolEcosystem.execute, reports a failure.  The entry
\* in operational memory has no environmentId, see RecoverCancels.
Fails(p) ==
    \/ /\ used[p] < MaxRetries
       /\ used' = [used EXCEPT ![p] = @ + 1]
       /\ SetRetry(task[p], "RETRYING")
       /\ Goto(p, "retry")
    \/ /\ SetRetry(task[p], "EXHAUSTED")
       /\ Goto(p, "failed")
       /\ UNCHANGED used

GateRefuses(p) ==
    /\ pc[p] = "gate"
    /\ Fails(p)
    /\ UNCHANGED <<schedule, tokenVars, loopVars, todo, task, history>>

\* Mutant: the gate trusts the decision made before.
GateTrustsDecision(p) ==
    /\ pc[p] = "gate"
    /\ IF task[p] \in Guarded
       THEN LET k == KeyOf[task[p]] IN
            /\ spendable' = spendable \ {k}
            /\ runs' = [runs EXCEPT ![k] = @ + 1]
            /\ UNCHANGED <<issued, spent>>
       ELSE UNCHANGED <<tokenVars, runs>>
    /\ Goto(p, "tool")
    /\ UNCHANGED <<schedule, retry, loopVars, todo, task, used, succeeded>>

\* The gate consumes the approval, whatever the decision was made on, and calls
\* the tool in the same stretch.
GatePasses(p) ==
    /\ pc[p] = "gate"
    /\ IF task[p] \in Guarded
       THEN LET k == KeyOf[task[p]] IN
            Tokens!Spend(k) /\ runs' = [runs EXCEPT ![k] = @ + 1]
       ELSE UNCHANGED <<tokenVars, runs>>
    /\ Goto(p, "tool")
    /\ UNCHANGED <<schedule, retry, loopVars, todo, task, used, succeeded>>

ToolFails(p) ==
    /\ pc[p] = "tool"
    /\ Fails(p)
    /\ UNCHANGED <<schedule, tokenVars, loopVars, todo, task, history>>

\* Requests of the loop have no acceptance criteria to fail.
ToolSucceeds(p) ==
    /\ pc[p] = "tool"
    /\ SetRetry(task[p], "COMPLETED")
    /\ succeeded' = succeeded \cup {task[p]}
    /\ Goto(p, "done")
    /\ UNCHANGED <<schedule, tokenVars, loopVars, todo, task, used, runs>>

\* The recursive call after the audit: at once, nextRetryAtIso is not waited for.
Retry(p) ==
    /\ pc[p] = "retry"
    /\ Attempt(p, task[p], used[p])
    /\ UNCHANGED <<schedule, retry, tokenVars, loopVars, todo, history>>
-----------------------------------------------------------------------------
(* The loop. *)

\* On to the next schedule of the snapshot, with a fresh budget, or return.
NextOf(p, rest) ==
    IF rest = {}
    THEN /\ Goto(p, "idle")
         /\ task' = [task EXCEPT ![p] = AnyTask]
         /\ used' = [used EXCEPT ![p] = 0]
         /\ UNCHANGED todo
    ELSE \E t \in rest :
            /\ todo' = [todo EXCEPT ![p] = rest \ {t}]
            /\ Attempt(p, t, 0)

\* getDueSchedules: the schedules created here are due.
Due == {t \in Task : schedule[t] = "SCHEDULED"}

Tick(p) ==
    /\ timers > 0 /\ running
    /\ pc[p] = "idle"
    /\ Due # {}
    /\ NextOf(p, Due)
    /\ UNCHANGED <<schedule, retry, tokenVars, loopVars, history>>

\* Mutant: whatever was not blocked is completed.
ReturnUnlessBlocked(p) ==
    /\ pc[p] \in {"done", "failed", "blocked"}
    /\ schedule' = [schedule EXCEPT ![task[p]] =
                       IF pc[p] = "blocked" THEN "CANCELLED" ELSE "COMPLETED"]
    /\ NextOf(p, todo[p])
    /\ UNCHANGED <<retry, tokenVars, loopVars, history>>

\* runControlledAction returns.  FAILED, ESCALATED and APPROVAL_REQUIRED leave
\* the schedule as it is.
Return(p) ==
    /\ pc[p] \in {"done", "failed", "blocked"}
    /\ schedule' = [schedule EXCEPT ![task[p]] =
                       CASE pc[p] = "done" -> "COMPLETED"
                         [] pc[p] = "blocked" -> "CANCELLED"
                         [] pc[p] = "failed" -> @]
    /\ NextOf(p, todo[p])
    /\ UNCHANGED <<retry, tokenVars, loopVars, history>>

Start(p) ==
    /\ ~running /\ pc[p] = "idle"
    /\ timers + Cardinality({q \in Proc : pc[q] \in Recovering}) < MaxTimers
    /\ running' = TRUE /\ threw' = FALSE
    /\ Goto(p, "recover")
    /\ UNCHANGED <<schedule, retry, tokenVars, handle, timers, todo, task, used, history>>

\* The keys are listed once, after the first await.
Entries(p) == IF pc[p] = "recover" THEN {t \in Task : retry[t] # "NONE"} ELSE todo[p]

\* The next entry that is RETRYING is cancelled: it lacks the environmentId,
\* which runControlledAction does not store.
RecoverCancels(p) ==
    /\ pc[p] \in Recovering
    /\ \E t \in Entries(p), rest \in SUBSET Entries(p) :
          /\ retry[t] = "RETRYING" /\ t \notin rest
          /\ \A u \in Entries(p) \ (rest \cup {t}) : retry[u] # "RETRYING"
          /\ SetRetry(t, "CANCELLED")
          /\ todo' = [todo EXCEPT ![p] = rest]
    /\ Goto(p, "recovering")
    /\ UNCHANGED <<schedule, tokenVars, loopVars, task, used, history>>

\* start() goes on: it installs the timer, even if stop() came in between.
RecoverEnds(p) ==
    /\ pc[p] \in Recovering
    /\ \A u \in Entries(p) : retry[u] # "RETRYING"
    /\ timers' = timers + 1
    /\ handle' = TRUE
    /\ todo' = [todo EXCEPT ![p] = {}]
    /\ Goto(p, "idle")
    /\ UNCHANGED <<schedule, retry, tokenVars, running, threw, task, used, history>>

\* The store or an audit throws, and with it start(): no timer is installed,
\* but the flag set before the await stays, so that later starts return at once
\* until somebody calls stop().
RecoverFails(p) ==
    /\ pc[p] \in Recovering
    /\ threw' = TRUE
    /\ todo' = [todo EXCEPT ![p] = {}]
    /\ Goto(p, "idle")
    /\ UNCHANGED <<schedule, retry, tokenVars, running, handle, timers, task, used, history>>

\* Mutant: the flag is not reset.
StopForgetsFlag ==
    /\ handle' = FALSE
    /\ timers' = IF handle THEN timers - 1 ELSE timers
    /\ UNCHANGED <<running, threw, schedule, retry, tokenVars, callVars, history>>

Stop ==
    /\ running' = FALSE
    /\ handle' = FALSE
    /\ timers' = IF handle THEN timers - 1 ELSE timers
    /\ UNCHANGED <<threw, schedule, retry, tokenVars, callVars, history>>

\* The process dies (an audit that throws in a tick ends it too: nothing
\* catches the rejection) and starts again with a loop that is not running.
Crash ==
    /\ running' = FALSE /\ handle' = FALSE /\ timers' = 0 /\ threw' = FALSE
    /\ pc' = [p \in Proc |-> "idle"]
    /\ todo' = [p \in Proc |-> {}]
    /\ task' = [p \in Proc |-> AnyTask]
    /\ used' = [p \in Proc |-> 0]
    /\ UNCHANGED <<schedule, retry, tokenVars, history>>
-----------------------------------------------------------------------------
\* What a start or a tick does once it has begun.
Continue(p) ==
    \/ GateRefuses(p) \/ GatePasses(p)
    \/ ToolFails(p) \/ ToolSucceeds(p)
    \/ Retry(p) \/ Return(p)
    \/ RecoverCancels(p) \/ RecoverEnds(p) \/ RecoverFails(p)

Next ==
    \/ \E t \in Task : CreateSchedule(t)
    \/ \E k \in Key : OwnerGrants(k) \/ TokenLapses(k)
    \/ \E p \in Proc : Start(p) \/ Tick(p) \/ Continue(p)
    \/ Stop
    \/ Crash

Spec == Init /\ [][Next]_vars

\* Awaits come back: audits, the policy evaluation and the tool.
FairSpec == Spec /\ \A p \in Proc : WF_vars(Continue(p))
-----------------------------------------------------------------------------
(* Properties. *)

\* The decision is made on an approval that another tick, a retry or another
\* schedule with the same action may have used by the time the tool is reached;
\* still a guarded tool runs at most once for every answer of the owner.
GuardedRunsPaid == \A k \in Key : runs[k] <= issued[k]

\* However ticks overlap, fail, retry and are cut off, a schedule that says
\* COMPLETED, and a retry entry that does, stand for a success of the tool.
CompletedRan ==
    \A t \in Task : "COMPLETED" \in {schedule[t], retry[t]} => t \in succeeded

\* A loop that says it is running polls, or is about to: starts and stops in
\* any order do not leave it running without a timer.  Only a recovery that
\* throws does (what start() sets before it awaits it is not taken back).
PollsWhileRunning ==
    running => handle \/ threw \/ \E p \in Proc : pc[p] \in Recovering

\* Every start and every tick comes to an end: retries are bounded, whatever
\* other ticks do with the same tasks.
TickReturns == \A p \in Proc : []<>(pc[p] = "idle")

(* What a test of the repository says, and a run refutes. *)

\* tests/crash_recovery.test.ts: an interrupted retry is detected and recovered.
RetryIsRecovered ==
    [][\A t \in Task : retry[t] = "RETRYING" => retry'[t] # "CANCELLED"]_vars
=============================================================================
