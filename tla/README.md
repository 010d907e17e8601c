# YarOperator in TLA+

Formal models of the parts of YarOperator whose correctness depends on the
order in which things happen: approvals, autonomy runs, scheduled occurrences,
the autonomous loop, delegations to external AI providers, plans of dependent
steps, incidents with their recovery through the gates before a tool, logins
and sessions up to the command they carry, and diagnoses over HTTP. TLC checks
the models on small instances; TLAPS proves most of the safety properties for
every value of the constants.

Paths such as `core/policy/index.ts` are relative to `src/src/`.

## 1. The system

YarOperator is one TypeScript program on Node.js. JavaScript runs a function
without interruption up to its next `await`; at an `await` any other call may
run. Durable state is in sqlite files, which several processes may open.
All stores but one set WAL mode and a busy timeout for that; the scheduler
(`core/scheduler/index.ts:82`) sets neither, so that a statement of its own may
throw because another process holds the file. Everything else lives in the memory
of a process and is lost when it stops. So there are three grains of
interleaving:

- between two `await`s nothing of the same process runs;
- between two SQL statements another process can run, unless a transaction
  holds them together;
- between any two statements the process can die.

### 1.1 Components

| Component | Source | State | Operations | Hard part | What makes it correct |
|---|---|---|---|---|---|
| Approval tokens | `core/policy/index.ts` (`ApprovalManager`) | table `approvals`, one row per fingerprint | request, grant, deny, consume, get, rehydrate | read then replace without a transaction; expiry; restarts | a token is used at most as often as it was granted, a request once |
| Policy rules | `core/policy/index.ts` (`PolicyEngine`) | map of rules | setRule, evaluate | none: a lookup that defaults to BLOCKED | unknown actions are blocked |
| Autonomy runs | `core/autonomy/index.ts` (`DurableAutonomyRunStore`, `ControlledAutonomyEngine`) | tables `autonomy_runs`, `action_checkpoints`; map of runs per engine | startRun, executeIteration, approveAndContinueIteration, cancelRun, recoverInterruptedTasks | crash around a tool call; leases; calls that overlap at awaits; recoveries of a run in use | one tool run per step, limits hold, terminal is final, a run ends |
| Controlled actions | same file (`runControlledAction`, `recoverLegacyRetries`) | retry states in operational memory | run, retry, escalate, recover | approvals consumed between decision and gate; retries across restarts | bounded retries; guarded tools run only when paid for |
| Scheduler | `core/scheduler/index.ts` | tables `schedules`, `occurrences` | create, register, complete, cancel, delete, claim, execute, reconcile, missed | several workers, slow executions, crashes, statements that throw | no occurrence twice without cause, none lost, the chain goes on |
| Autonomous loop | `core/autonomous/index.ts` | running flag, timer | start, stop, recover, tick | overlapping ticks; stop during start | COMPLETED means it succeeded; a running loop polls; ticks end |
| External AI coordination | `core/coordination/index.ts` | map of delegations | delegate, approve, cancel, dispatch | cancellation and timeout during awaits | cancelled means not executed; outcomes consistent |
| Tool gate | `core/tools/index.ts`, with `environment`, `workspace/policy.ts` | registries filled by bootstrap; capability reports | execute | several checks by several parties; token spent before the tool runs | no tool past a gate that refuses |
| Workflow, engine, orchestrator, brain, tasks | `core/workflow`, `engine`, `orchestrator`, `brain`, `task` | per call | execute a DAG, a plan, a task | a step failing after others had effects | dependencies first, stop at a failure |
| Identity and sessions | `core/identity/index.ts`, `web/server.ts`, `api/operator.ts`, `core/owner/index.ts` | tables of users, memberships, sessions; OAuth states and requests in memory | login, callback, logout, me, chat; start and stop | a callback delivered twice; expiry, logout and restart while a request is read | no command after its session ended, none for another owner; one session per login |
| Monitoring | `core/monitoring` | incidents | observe, transition, resolve, recover | operators and other incidents during a recovery | resolved means proven; a handler settles its incident; bounded attempts |
| Diagnosis, remote adapter | `core/diagnostic/index.ts`, `core/tools/yartrader.ts` | per call | diagnose, probe, read, change | redirects, silent and late servers, an audit that fails after the tools ran | bounds hold over a chain of redirects; an answer is true; every call ends |
| Improvement | `core/improvement/index.ts` | proposals | propose, approve, apply | order of the calls | applied only after approval |
| Notification, audit, memory | `core/notification`, `audit`, `memory` | tables | append, read, mark | failing writes | nothing lost |
| Development lifecycle, registries, other adapters, bootstrap | the rest of `core/` | - | verdicts, lookups, I/O, construction | - | - |

Interactions: the autonomy engine asks `PolicyEngine.evaluate`, requests
approvals, and executes tools through `SecureToolEcosystem.execute`, whose gate
consumes an approval token. The incident loop runs a recovery as a controlled
action. The autonomous loop asks the scheduler for due
schedules and runs a controlled action for each. Delegations use the same
policy engine and approval manager. All of them await the audit manager, and
each such await is a point where others run. The web server turns a cookie or a
bearer token into a session of the identity store and hands the command to the
owner's receiver, which compares the owner with the profile of the process. The
diagnostic worker and the remote adapter use one HTTP probe.

`PROJECT.json` lists every component with its status and every hazard at its
line, with the properties that cover it or the reason why none does yet.

### 1.2 Modules

| Module | Models | Lines of reasoning |
|---|---|---|
| `SingleUseTokens` | what approvals promise: tokens issued, spendable, spent | abstract specification |
| `ActionLog` | what checkpoints promise about actions: announced, run once, recorded truly | abstract specification |
| `WorkQueue` | what the occurrence queue promises: done at least once, again only when taken back | abstract specification |
| `Approvals` | `ApprovalManager`, several processes on one table | implements `SingleUseTokens` |
| `AutonomyRun` | one durable run, several engines on one store | run store, lease, checkpoints, lifecycle, iteration, recovery, the copies of the run; while these come one after the other it implements `ActionLog` |
| `Occurrences` | the scheduler's occurrence queue with several workers | claims, executions, reconciliation, missed occurrences; implements `WorkQueue` |
| `ScheduleLoop` | `AutonomousExecutionLoop` and the controlled actions it runs | ticks, retries, approvals (through `SingleUseTokens`), recovery of retries |
| `Delegation` | one delegation id in `ExternalAICoordinator` | delegate, approve, cancel, dispatch, retry, timeout |
| `ToolGate` | the rules, environments, workspaces and scopes that decide on a tool call | operators, no state |
| `Incidents` | `IncidentManager` and `IncidentResponseLoop` with the controlled action they run | uses `ToolGate` and `SingleUseTokens` |
| `Sessions` | `IdentityStore`, login, logout and chat of the web server, the bearer check, the profile check, start and stop of the process | sessions that outlive requests and processes; OAuth states implement `SingleUseTokens` |
| `Diagnosis` | `BoundedHttpProbe`, `DiagnosticWorker.executeDiagnostics`, the YarTrader adapter | a call against an arbitrary server |
| `PlanExecution` | `WorkflowValidator`, `validateBrainPlan`, and the three executors of plans | the cycle search, rounds and steps, retries, reports |
| `*_proofs` | theorems about the module they extend | TLAPS |
| `MC*` + `.cfg` | instances for TLC | symmetry sets, constants |

Operators named "Mutant ..." in a comment are the plausible mistakes used to
see that a property notices them; no specification uses them.

### 1.3 Plan

1. `Approvals`, `SingleUseTokens` - done.
2. `AutonomyRun` - done.
3. `Occurrences` - done.
4. `Delegation` - done.
5. `ScheduleLoop` (the loop with `runControlledAction` and
   `recoverLegacyRetries`) - done.
6. `PlanExecution`: workflow engine, plan orchestration and `TaskExecutor`; the
   cycle check against a definition of a cycle without search - done.
7. `ToolGate` (operators) and `Incidents`: the gates, and incidents whose
   recovery goes through them - done.
8. `Sessions`, with the web server's and the API's part in it - done.
9. `Diagnosis`: the probe, the diagnostic worker and the remote adapter - done.
10. Proofs of what had only been checked: `OneUsePerRequest`
    for any number of managers, `RunsPaid` and
    `ChainContinues` and `ChainNeverForks` for any number of workers, the
    properties of `Sessions` - done.
11. Proofs of every other safety property: those of
    `AutonomyRun` and of `Diagnosis`; that what `ScheduleLoop` and `Incidents`
    do to approvals is allowed by `SingleUseTokens`; and, for each run, call,
    handler, tick and plan, a measure that bounds its steps - done.
12. Abstract specifications of the checkpoints (`ActionLog`) and of the queue
    (`WorkQueue`), and proofs that `AutonomyRun` and `Occurrences` implement them;
    that OAuth states are tokens of `SingleUseTokens`; what remains true of a run
    that several engines work on - done.
13. The copies of a run in `AutonomyRun`, with recoveries in a process that works
    on the run; statements, notifications, recoveries and results that throw, in
    the other modules - done.
14. Left: the assistant as a caller of `runControlledAction`
    and requests with acceptance criteria; proposals and notifications, which
    one caller drives without waiting in between.

## 2. The models

### 2.1 Approvals

Each action is one SQL statement with the code up to the next one. A manager
that runs `grantApproval` or `denyApproval` is at `decide` between its SELECT
(`FetchRecord`) and its INSERT OR REPLACE (`GrantApproval`, `GrantTooLate`,
`DenyApproval`), at `expire` when the SELECT found a lapsed row that
`fetchRecord` will UPDATE, and at `rehydrate` while the constructor expires
lapsed rows. `ConsumeApproval` is one conditional UPDATE and needs no more.
`Stop` (a crash or `close`) may come at any of these points. `row[f].expires`
is in ticks of `clock`. Fingerprints are opaque: that equal parameters give
equal fingerprints is a property of `canonicalize`, which sorts keys.

`SingleUseTokens` keeps a set of spendable keys and two counters. The mapping:
a fingerprint is spendable while its row is APPROVED and its expiry is in the
future. An expiry step of the clock maps to dropping the token.

A grant writes back what it read. When that row was consumed, or has changed
its status, since it was read, the history variable `lost` counts it: two
processes can give one request a second use in this way and in no other, which
is what `OneUsePerRequest` says. One process, as
`bootstrap` builds it, never does (`SingleManagerOneUse`, section 5).

Run: `approvals_shared` (two processes).
Two requests and a clock of three are enough for a request to lapse, be renewed
and lapse again while another process still acts on what it read first.

### 2.2 AutonomyRun

The variables are the row of `autonomy_runs`, the checkpoints by step, and the
copies of the run. A copy is a run object: `startRun`, `getRun` or a recovery
builds it in the memory of one engine (`engine`), and the engine's map holds at
most one (`loaded`). A call starts on the one in the map and keeps it, whatever
becomes of the map. `recoverInterruptedTasks` does not look at the map: it rebuilds
the run from its row (`RecoverRead`), waits for audits, and puts its copy in the
place of the one that is there (`RecoverResume`), which a call may be working on.
The loop runs it at every `start`, so `stop` and `start` in one process are enough.
A copy in nobody's hands is out of use and can be taken again; two copies are
therefore enough for any history in which two run objects exist at a time.

`pc` names the statement a copy's call is about to execute; `evaluate`, `tool` and
`result` are awaits, where the same engine accepts other calls, and `recover` the
await of a recovery. Steps between two awaits run alone on their engine (`Turn`,
`FreeToRun`): other engines run in between, other copies of the same engine do not.
`OneFrame` shows why one call per copy is enough: the lifecycle table stops a second
one. `PROPOSAL_RECEIVED` is entered and left within one synchronous
stretch and is folded into the transition to `VALIDATING`. The step number
stands for the idempotency key: a run proposes the same action at a step each
time (the key also holds the action). `lease` is abstracted to null, live or
past, because the code only compares it with now; `saveRun` always writes null,
which `isLeaseValid` and `acquireLease` read in opposite ways. The two are one step
where the engine calls both: a lease that has been found invalid is not made valid
by anybody else, and the claim is one conditional UPDATE. `runtime` says
whether `maxRuntimeMs` has passed. `approval` is the state of the approval row
(module `Approvals` has the detail of it). `Levels` is what the policy may
answer besides BLOCKED: it is asked once per proposal by the engine and again
by the gate of the tool.

A refused transition throws: the call ends with whatever was assigned before,
and the actions that model it leave the rest unchanged. A run id is started
once; `startRun` would otherwise replace the row.

`made` counts the copies that came into a map, `alone` says that none was made
while another one was in use: one engine at a time, and recoveries only of a run
that nobody in the process holds. What the documents promise (one run of a tool per
step, the budget, a final end, `ActionLog`) holds `alone`; what holds beyond it is
stated with `made`, or of the state in which every copy has ended.

`ActionLog` keeps a record and a count of runs per action; the mapping takes the
checkpoints as the record and `effects` as the count (`ImplementsLog`). A crash,
an answer of the owner or a lease that lapses is no step of it; the recovery that
marks what was in flight is its `Lose`.

Runs: `autonomy_one` (one engine, two copies, two iterations, one action in the
budget, one crash, one repeated recovery, with and without approvals, liveness
included), `autonomy_two` (two engines, two copies, two iterations, two actions, a
retry, safe actions), and `autonomy_executed`, whose counterexample refutes a test.
Two iterations are enough for a step to be taken up again by another copy, one
action for the limit to be reached, after a restart as well as before it; a second
copy made beside the first is enough to see each part of the properties that is not
about `alone`. `MaxCopies` bounds the recoveries of a run that is in the map.

### 2.3 Occurrences

An occurrence is a pair of schedule and due time, which is how the code makes
its id. The claim is one transaction and one action. `executeOccurrence` is
three: the reads and the start of the workflow (`Execute`), the result
(`Finish`), the next occurrence (`FinishNext`); others run between them. A schedule
without a workflow is claimed like any other and then left (`ExecuteNothing`). At any
of these points the worker may die or the statement throw, the workflow too: the
call goes no further, and what it has written stays (`BreakOff`). `cut` remembers
what the worker that claimed an occurrence last has left undone of it.
`reconcileStaleClaims` and the SKIP policy are one UPDATE
each; RUN_ONCE is a loop of them. INTERVAL and CRON schedules (`recurring`) are
those with a next due time at a fixed distance; a registration may turn a
schedule into the other kind while an occurrence of it is being executed, which
is why `Execute` keeps what it read in `chained`. The clock is bounded by `MaxClock`, so due
times are bounded by `MaxClock + Interval`.

`WorkQueue` knows items, how often each was started and how often it was taken back;
the mapping is the status column with the counts `runs` and `reconciled`
(`ImplementsQueue`). It has no due times and no schedules, so that the chain of
occurrences is a matter of its own. `Finish` of the abstract queue takes a result of
work that was started whatever the item is now, because so does the code.

Run: `occurrences_workers`, two workers and a schedule that is registered up to
twice, with and without a workflow, as ONCE or recurring, with one call that breaks
off, liveness included. A clock of three
with a distance of one gives a chain of four occurrences, enough for a stale
claim of the first to meet the second. A second end of a chain for a late result needs
a third registration, which the instance does not have; `ChainNeverForksAlways`
covers it.

### 2.4 Delegation

One delegation id. Every `delegate` call for it makes a record and puts it in
the map (`current`) over the one that is there; the code asks the map whether
the delegation was cancelled, and so does `IsCancelled`. A call's `pc` names
the await it is at: the policy evaluation, an audit, the provider, the pause
between attempts. `ProviderSettles` is the provider's promise, `Finalize` the
checks of a result with their three outcomes. An `opaque` result is one that
`JSON.stringify` cannot write out: the check of its text throws outside the `catch`
(`FinalizeThrows`), and the record stays RUNNING. `Spins` is a provider whose empty
answers come at once: the loop that asks again never leaves the microtasks, no timer
and no other call has a turn, and the process does nothing else (`Responsive`).
`AuditFails` is an audit that throws. The coordinator keeps nothing on disk, so a restart has nothing to
recover and is not modelled. Providers cannot be unregistered, so the branch of
`approveDelegation` for a provider that is gone is unreachable and left out.

Run: `delegation_calls` (two calls with one id, one retry, liveness included).

### 2.5 ScheduleLoop

A `Proc` is a call of `start` that is recovering or a tick. `setInterval` does
not wait for a tick, so ticks overlap; `stop` during the recovery of a `start`
lets a second `start` begin. `pc` is the await: `gate` (the gate's own policy
evaluation, after the decision was made), `tool`, `retry` (the audit before the
recursive call), `done`, `blocked` and `failed` (what `runControlledAction`
returns), and `recover`, `recovering` for `start`. `todo` is the snapshot of
due schedules a tick works through, or the keys recovery still has to look at.

The decision reads the approval, the gate consumes it, and both are separate
actions, since other calls run in between. Approvals come from
`SingleUseTokens`, which `Approvals` is shown to implement: the gate's
`GatePasses` is its `Spend`. Two guarded schedules with the same action, whose
fingerprints are equal, compete for one token.

A choice stands for what the rules, environments and scopes answer and for
`classifyFailure`. The retry entry has no environment, as in the code, so
recovery can do nothing with it but cancel it; the branch of
`recoverLegacyRetries` that resumes is reached only by entries that tests write.
`Crash` is also what an audit that throws in a tick does, because nothing catches the rejection of the timer's callback. `RecoverFails` is a recovery
that throws in `start`, after the running flag is set. The repository builds the loop
in its tests only; schedules have the task id that the loop derives from them.

Runs: `loop_ticks` (two ticks or starts at a time, two schedules with the same
guarded action, one grant, one retry, liveness included) and `loop_recovery`.
Two ticks are enough for one to decide on what the other consumes, and one retry
for a retry to find its approval gone; two timers are enough for one to leak.

### 2.6 PlanExecution

One execution of one plan, whose graph, executor and outcomes are arbitrary.
`stack` and `color` spell out the recursive `hasCycle` of `WorkflowValidator`
(`visited` minus `recStack` is black, `recStack` is grey); that of
`validateBrainPlan` does the same, and looks for more cycles after the first
only to list them. Missing and duplicate ids are `wellFormed` being false. After
that, `kind` says who executes: `workflow` (`WorkflowEngine`), `task`
(`TaskExecutor`) and `plan` (`orchestratePlan`). The first two look for the
first ready step after every step, `orchestratePlan` keeps the steps that were
ready when a round began (`wave`) and marks what it leaves out as SKIPPED. A
step of `orchestratePlan` goes on to the next one or ends the plan; which gate
refused it is a choice, for `ScheduleLoop` and `AutonomyRun` have the gates.
`assisted` is an orchestrator with a `RealWorldAssistant`, which may try a
failed tool again, once (its budget has `maxRetries: 1`). Executions share
nothing but tools and policy; the executors wait for each step, so that their
awaits let others run but nothing of this execution.

`WorkflowEngine` is what the scheduler starts; tests alone call the other two.
No executor catches an audit, a notification or a policy that throws: the call
rejects and there is no report (`CallRejects`).

Run: `plan_steps` has every graph of three steps, cyclic or not, in every order
of the list, which contains a self-loop, both orientations of a triangle, a
chain, and two ready steps before a third. Four steps (1.9 million states) were
checked too and show nothing new; the theorems of section 5 hold for any number.

### 2.7 ToolGate and Incidents

`ToolGate` has no state. A `Site` is where a call happens: what is registered
for its environment and workspace, the tools of the registry and those of the
agent selected for it; `rules` is the map of `PolicyEngine`. `bootstrap` fills
all of them before anything runs. `Decision` is `evaluateAutonomyDecision`,
`GatesOpen` and `Evaluate` are what `SecureToolEcosystem.execute` asks. An
`Action` is a tool or one of its sub-actions, as `canonicalAction` is.

In `Incidents` every call of `handleObservation` makes one incident, so an
incident is also its handler. `pc` is the await: `gate` (the gate's policy
evaluation), `tool`, `retry`, `refused`, `failed` and `done` (audits of
`runControlledAction`, or its return), and `fetch` (the fresh observation).
`Observe` is everything up to the first await, which takes a new incident from
DETECTED to MITIGATING. A recovery that another incident retries uses the same
approval, with tokens from `SingleUseTokens` as in `ScheduleLoop`. An
observation is its reported status, its class of HTTP code, whether it has an
error and whether its scope is that of the incident; a status that is missing is
one that is UNKNOWN. `OperatorMoves` and `OperatorResolves` are the public
methods of `IncidentManager`, called by somebody else while a handler waits.

`IncidentManager` does not wait for its own audits, so they are no steps.
`notify` is synchronous and writes its table at once; when it throws, the status is
set already and the handler rejects (`EndNotified`; `CreationThrows` for the one of a
new severe incident). Severity only chooses the notification.

Run: `incidents_handled` has two incidents, an operator on one of them, a tool
with one sub-action, every map of rules for the two, and three sites: one in
order, one the decision refuses, one only the gate refuses. One grant for the
action both may want is enough for one to lose it, one retry (the budget of
`handleObservation`) for a retry to find it gone.

### 2.8 Sessions

`session` is the table: no row, a row before its `expires_at`, a row after it,
which `getSession` deletes when it finds it (`Reap`). `userOf` and `ownerOf` are
its columns. `phase`, `states` and the requests live in the process and go with
it (`Forget`), by a crash or at the end of `stop`, which waits for the requests
under way; the tables stay. `Start` is `bootstrapOperatorApplication` with the
constructors it calls: it registers a configured token for the owner of the
profile, who becomes a user and a member, and migrates the account. The profile
may differ from start to start, since it comes from the environment.

A handler is one step between two awaits. A callback takes its state out of
`authStates` and waits for the exchange of the code (`exchange`), then opens the
session (`Login`) or not (`LoginFails`: the exchange, the verification of the id
token and the check of the email are a choice). A chat request waits for its
body (`body`), and only then are its credentials looked up, the session, its
user and membership verified and the profile compared (`Receive`), all without a
wait; its command then runs (`command`). `sent` is what the cookie and the
header carry; two that differ are refused. `Lapse` is the time to live of a
session, `Administrate` a change of users and memberships made in the database,
which the code reads but has no operation for. The binding of a user to a provider,
which finds the same user again, and emails are left out.

Run: `sessions_requests`, two requests at a time, two login tokens, two OAuth
states, a configured token, two owners the process may be started for, two
starts. Two requests are enough for one callback to overtake another and for a
logout to come between the body and the command of a request (a logout takes one
step and needs no request of its own).

### 2.9 Diagnosis

One call: of the diagnostic worker, or of the remote adapter for a read or for a
change. `net` is where `BoundedHttpProbe.request` waits: for the name lookup
(`dns`), the head of the response (`sent`) or its body. A redirect goes through
the same checks one level deeper (`Visit`), with the deadline of the first
request. `carried` is what the server has done, at which level; a 2xx answers
what was carried out, every other answer, a lost or an empty one leaves it open.
`Inner` are the origins whose hostname is private as it stands; any other name may
have a private address, as the answer of the lookup says. `Exempt` is the exception
for private hosts, which compares hostnames, so that an entry covers other origins of
its host (`Covers`). `fetch` looks the name up again, and nothing is said of the
address it finds. The classification of addresses from text is left out. The first eight stages of
`executeDiagnostics` are one choice between a denial and going on, because they
only read; `ran` says that no tool was begun before.

Run: `diagnosis_calls`, every allowlist over three origins, one of them private,
with and without `"*"`, every set of SAFE tools, a deadline of three. Five
redirects fit into it or pass it, whichever comes first; liveness included.

## 3. What the runs show

Properties that hold:

| Run | Properties | States |
|---|---|---|
| `approvals_shared` | `EveryUseGranted`, `OneUsePerRequest`, `ImplementsTokens` | 1.8 million |
| `autonomy_two` | `OneFrame`, `WriteAhead`, `VerifiedMeansRan`, `AtMostOncePerStep`, `DurableTerminalFinal` | 5.0 million (up to symmetry) |
| `autonomy_one` | `AtMostOncePerStep`, `ActionsWithinLimit`, `ImplementsLog`, `RunEnds` | 1.4 million |
| `occurrences_workers` | `RunsPaid`, `ChainNeverForks`, `ChainContinues`, `ImplementsQueue`, `DueIsSettled` | 1.6 million |
| `loop_ticks` | `GuardedRunsPaid`, `CompletedRan`, `PollsWhileRunning`, `TickReturns` | 860,000 |
| `plan_steps` | `AcceptsExactlyDags`, `DependenciesFirst`, `ReportIsTrue`, `PlanEnds` | 21,000 |
| `incidents_handled` | `RecoveryPermitted`, `GuardedRunsPaid`, `ResolvedIsProven`, `ResolvedInScope`, `HandlerEnds` | 876,000 |
| `delegation_calls` | `OutcomeAgrees`, `ApprovedBeforeCall`, `CancelledWhileAsking`, `DelegationEnds` | 763,000 |
| `sessions_requests` | `OneSessionPerState`, `CommandForOwner`, `EndedStaysEnded` | 1.2 million (up to symmetry) |
| `diagnosis_calls` | `AnswerIsTrue`, `SendsWithinBounds`, `CallEnds` | 2.0 million |

`TypeOK` is proved of every module that has one (section 5), so no run checks
it again.

Symmetry is used only in runs without liveness properties: over engines and copies in
`autonomy_two`, over login tokens, states and requests in `sessions_requests`,
which the modules never tell apart.

Statements of the repository that the code does not keep, each with a run whose
counterexample shows how (`PROJECT.json` quotes them under "findings"):

| Run | Statement refuted | How |
|---|---|---|
| `autonomy_executed` | an EXECUTED action is recognised after a crash | the run is in EXECUTING, where no iteration is accepted |
| `loop_recovery` | an interrupted retry is recovered | the entry lacks the environment, so the next start cancels it |

Further divergences the models contain, as the code does them, without a run of
their own:

- Approvals: with two processes a grant that writes back what it read can revive
  a token that was consumed or denied meanwhile, so that one request is used
  twice (what remains true is `OneUsePerRequest`, with such grants counted), and
  `denyApproval` overwrites CONSUMED, although `docs/CTO_PROJECT_STATE.md:89`
  makes it an end state.
- AutonomyRun: a second engine, or a recovery in a process that works on the run,
  makes a copy of the run beside the first. Then a FAILED checkpoint is executed
  again without a new dispatch, although `tests/m12_durable_recovery.test.ts:532`
  names duplicate dispatch rejection; the budget is counted from a row that others
  write; and a late `saveRun` revives a row that has ended. What remains true of any
  number of copies: each runs a step at most once and at most `MaxActions` tools
  (`AtMostOncePerStep`, `BudgetPerCopy`), and once every copy has ended nothing
  revives the run (`DurableTerminalFinal`). An engine without the lease writes
  BLOCKED over the holder's row; TIMED_OUT is not saved by `executeIteration`, and a
  recovery forgets it as a restart does;
  the delegation limit is found in VALIDATING, which has no transition to
  LIMIT_REACHED, so the call throws and the run stays there.
- Occurrences: an execution slower than five minutes is taken for a stale claim
  and executed twice (`RunsPaid` is what remains true); a crash between the
  result and the next occurrence ends a recurring schedule, and so does an insert that
  throws there (no busy timeout), and the SKIP policy, which inserts no
  successor of what it skips (`ChainContinues` is what remains true); the occurrence
  of a schedule without a workflow, and one whose workflow or result write throws,
  stays CLAIMED until a start of the loop takes it back (`DueIsSettled` excepts it);
  `completeSchedule` and `cancelSchedule` overwrite each other's terminal state;
  the open occurrence of a cancelled schedule is still executed; an execution that
  began while the schedule was recurring and ends when it is ONCE inserts an
  occurrence as well, so that a schedule registered anew can have one open
  occurrence more than registrations (`late` counts these results, and
  `ChainNeverForks` bounds the occurrences with them).
- ScheduleLoop: a retry follows at once, although `nextRetryAtIso` says when it
  is due; a schedule whose action keeps failing stays due, and every tick tries
  it again with a fresh budget, although `docs/autonomous-loop-model.md:48` says
  loops "run within bounded retry limits" (`TickReturns` is what remains true);
  a tick that is blocked cancels a schedule that another tick has completed;
  after `stop` during the recovery of a `start` a timer stays that nothing
  clears; a recovery that throws leaves `isRunning` true and no timer, and every later
  `start` returns at once, until `stop` is called (`PollsWhileRunning` excepts it); a retry whose approval is gone leaves its entry RETRYING.
- Delegation: empty answers of the provider are not counted as attempts, so
  only the timer bounds the calls; a cancellation while an audit of `delegate`,
  `approveDelegation` or `dispatchDelegation` is awaited is overwritten by the
  status that follows it, and the provider is called, although
  `tests/m10_ai_coordination.test.ts:613` is named "cancels pending delegation
  and prevents execution" (`CancelledWhileAsking` is what remains true); empty answers
  that come at once keep the timer, and the whole process, from their turn; a result
  that cannot be written out leaves its record RUNNING (`DelegationEnds` excepts both);
  an audit that throws after the token was consumed leaves the record APPROVED for
  good, to be neither approved again nor sent.
- Incidents: a handler whose recovery was refused by the decision or a gate
  answers `actionExecuted: true`; `maxActionAttempts` cannot be reached, since
  every observation makes an incident of its own with no attempts (unless it
  is 0); `policyDecision` of the action record is the rule of the tool and not
  of the action that ran; `resolveIncident` leaves its evidence behind when the
  transition is refused, over that of a resolved incident too, so
  `ResolvedInScope` needs an incident no operator has touched; a fresh
  observation that rejects, an audit or a notification that throws leaves the incident
  DETECTED, VERIFYING or MITIGATING for good; a notification of the resolution that
  throws leaves it RESOLVED with its evidence although the handler rejects
  (`ResolvedInScope` says what such a resolution still rests on).
- PlanExecution: a task ends with success at a step that is conversation, and
  the steps after it never run; nothing resumes a plan, so running it again
  after an approval repeats the steps that succeeded; with an assistant a step
  can be reported BLOCKED or APPROVAL_REQUIRED although its tool has run once
  and used up the approval; an audit that throws makes the call reject after steps have
  run, without a report. The return for dependencies that cannot be resolved
  is dead code in all three executors (`NeverUnresolved`).

- Sessions: a configured token that was logged out or has expired gets a new
  session at the next start, although `tests/bearer_restart_auth.test.ts:66` and
  `:99` say that such a token "remains rejected after restart" (of a handler that
  is not given the token again), and is not renewed by a start that finds it
  live; a logout of a user who is disabled answers success and leaves the row,
  which works again once the user is enabled; OAuth states never expire, although
  `web/server.ts:663` answers "Invalid or expired state parameter"; the
  migration, "one-time" in `tests/m9_identity_authority.test.ts:122`, runs at
  every start and renews a withdrawn membership; a command that was received
  goes on after the revocation of its session; a process started without an
  owner id serves `owner_default` (`core/bootstrap/index.ts:335`), and refuses
  every command of a login, whose owner is `owner_sohrab`.
- Diagnosis: the name lookup has no deadline, so `CallEnds` leaves it out; the address
  that is checked is not the one `fetch` connects to, which it looks up again; the
  exception for a private host holds for every scheme, and without a port in the entry
  for every port, so that under `"*"` an origin beside the listed one is reached; a
  change is sent again to every redirect, with its method and body; a change that
  the remote service carried out is reported as a failure when the answer is
  late, lost or empty; a target for a workspace without an allowlist, and an
  audit that fails at the end, reject the call after tools have run.

Deadlock checking is off where the system may stop: a run, a queue, a
delegation or a diagnosis that has ended leaves nothing to do, and the clocks are bounded.
The approvals table never ends, sessions can always be looked at and the loop
always be stopped or killed; their runs check for deadlock.

## 4. Fairness

- `AutonomyRun`: a call in progress continues (weak fairness of `Continue`):
  the process lives, and the policy evaluation and the tool answer; nothing in
  the code bounds a tool that never does. The caller asks for iterations, a
  process that does not have the run loads or recovers it, and time passes. Crashes,
  further recoveries, cancellations, the owner's answers and leases are not fair;
  crashes and repeated recoveries are bounded.
- `Occurrences`: workers poll, workflows end and time passes; `DueIsSettled`
  excepts the claims that their own worker has left (they are taken back
  only when a loop starts), and nothing makes calls break off or claims be
  reconciled.
- `ScheduleLoop`: awaits come back (weak fairness of `Continue`): the audits, the
  policy evaluation and the tool. Timers, starts, stops and the owner are not
  fair.
- `PlanExecution`: the execution goes on (weak fairness of `Next`): policy, audits
  and tools answer.
- `Incidents`: awaits come back (weak fairness of `Continue`): audits, the tool
  and the fresh observation. New observations, owner and operator are not fair.
- `Diagnosis`: git, the health provider and the audit answer, timers fire (weak
  fairness of `Proceed`) and time passes. The network is owed nothing: lookups,
  answers and bodies may never come.
- `Delegation`: awaits come back, the provider's included, and timers fire, while
  the process takes turns (`Responsive`); which answer the provider gives is free,
  and audits may throw.

## 5. Proofs

All theorems hold for arbitrary constants that satisfy the assumptions named
in the modules; those only give the constants their types. `SingleManagerOneUse` assumes
one process, that is that all managers are equal; with two a request can be used
twice, as section 3 says. No theorem about `AutonomyRun` assumes one engine:
what holds only of copies that come one after the other is stated with `alone`, in
whichever engines they are and wherever these die. `OncePerCopy`, `BudgetPerCopy`
and `OncePerStep` count copies and assume that finitely many are in use at a time
(`IsFiniteSet(Copy)`).

- `Approvals_proofs`: `TypeCorrect`; `Refinement` shows that every step of any
  number of managers is a step or a stutter of `SingleUseTokens`; and
  `UsesAreGranted` follows from the abstract invariant. `OneUseAlways`
  rests on a count of what each row still allows: a row that is PENDING or
  APPROVED has a request, or a lost grant, that is not yet used up.
  `SingleManagerOneUse` adds that what the one manager has read is still what is
  in the row, so that nothing is lost.
- `AutonomyRun_proofs`: `TypeCorrect`; the invariant `StepKnown` (a call past
  the lookup is at a step) with `Recorded` (past the dispatch, the step has a
  checkpoint) gives `WriteAheadHolds`; `Evidence` (an output that verifies as a
  success, in a call or in a checkpoint, comes with an effect) gives
  `VerifiedRan`; `Held` (a waiting call keeps the status in states from which
  neither RUNNING nor an approval is accepted) gives `OneFramePerCopy`.
  None of these properties is inductive by itself, because a call decides on
  what an earlier step of it wrote down. `EndIsKept`
  says of the ends that are not saved what is true of them: the copy that has ended
  stays so through whatever calls are under way, until its process dies or a
  recovery takes it out of the map; it needs that a copy that is being recovered is
  not in the map yet (`Taken`).

  What holds of copies that come one after the other rests on one invariant,
  `AloneInv`: as long as `alone`, at most one copy is in use (`Solo`, which
  `OneAtATime` keeps), and every copy satisfies `CopyInv`, of seven parts. `Position`:
  a copy is never behind the row, and an action under way is at the step
  the row has reached. `Fresh`: what is over in
  the checkpoints is behind the step that the next action will have, now or
  after a restart from the row; so a lookup finds nothing, or an action of
  unknown fate (`LookupFinds`). `OnRecord`: between dispatch and result the
  checkpoint of the step is the one this call wrote. With these, `Once` (each
  tool ran at most once, and not yet where a call is about to run it) gives the
  first half of `OncePerStep`; `Budget` compares the set of steps that ran, counted
  with the library's theorems on cardinality, with the count in memory, which the
  check of the limit reads and the mark raises before the tool is called, and gives
  `ActionsBounded`; `Mirror` (a row that has ended has a copy that has ended) gives
  the part of `EndIsFinal` about the row; the other part needs no invariant but
  `Taken`, since no step leads out of a state in which the row and every copy have
  ended. `StepsCountOn` follows from `Position`,
  `UnknownForGood` from `Fresh` and `OnRecord`. `EngineKeepsLog` is the
  refinement: each step maps to one of `ActionLog` or to a stutter. It needs
  `Outcome` besides, since the abstract record tells the truth: a result in the
  hands of a call is that of a tool that ran, a success to be verified is that of a
  step recorded as EXECUTED, and what was found in flight is DISPATCHED. That a
  step of another copy, none of which is in use, cannot disturb these is `Passive`.

  Once a copy was made beside another these invariants fail: an engine without the
  lease writes over the row, and a checkpoint may be dispatched twice. `OncePerCopy`
  rests on what no other copy can touch, the memory of each. `MayRun(k)` is the
  set of copies that may still run the tool of step `k`; a run takes its copy out of
  the set (`RunUsesUp`), nothing but its being put into a map again brings it back
  (`NeverRunsAgain`), and so the runs and the members of the set together are at most
  the copies made (`CopyCount`). `Behind`
  (a call works on a step that its copy has counted) makes the first two true.
  `BudgetPerCopy` counts all steps in the same way: `Budgets` holds the actions each
  copy has left, a run of a tool takes one out (`RunTakesOne`) and is a new member
  of `ToolCalls`, and `BudgetCount` bounds both together by `MaxActions` per copy.
  `Reserved` (the limit that was checked still has room when the mark counts the
  action) is what keeps the action within the limit.
- `Occurrences_proofs`: `TypeCorrect`, and `SettledForGood`, which needs only
  the types. `QueueContract` is the refinement of `WorkQueue`, for any number of
  workers. The abstract start asks that the item was not started more often than
  it was taken back, which `Execute` does not look at: it follows from `Paid` below.
  The abstract finish asks that the item was started, which is `Started`, and a skip
  that it is in the queue, which is `Queued` (work is done on rows). `RecordIsTrue` is an invariant
  of the abstract queue and carries over. `RunsPaidAlways` needs `Paid`: the executions of an occurrence and
  the claims that may still become one (`Claimers`, counted with the library's
  theorems on cardinality) are no more than the claims taken, the last one or one
  that was taken back. `ChainContinuesAlways` needs that what has a row or is
  worked at was registered (`Known`), so that a first registration finds no
  executed occurrence; that what was claimed was due (`Due`), so that the next
  due time has a row; and that an execution of a schedule that is recurring and
  was registered once has read it as recurring (`Chained`); a call that breaks off
  between result and insert is in `cut` until the occurrence is claimed again.
  `ChainNeverForksAlways` counts more than the open rows: an occurrence that
  somebody executes and that has no next one yet is an end of the chain too
  (`Heads`), and a registration under way may become one (`Registering`);
  together they are at most the registrations and late results (`NoFork`). Two
  workers with the same occurrence are one end, because the next occurrence has
  one due time; that it is within the model's time needs `Due`, that the finished
  one is not open any more `NextSettled`.
- `Sessions_proofs`: `TypeCorrect`; `OneSessionAlways` needs that a state that a
  request holds or that a session came from is no longer in `authStates` and is
  held by one request only; `CommandsOfOwner` that the profile changes only
  while no request is under way; `EndedForGood` that a token in `ended` has no
  row that is live. `StatesAreTokens` maps OAuth states to `SingleUseTokens`: a state
  can be spent while it is in memory or its callback waits for the exchange of its
  code (`InHand`), and is spent by the session it opens (`OpenedFor`, counted); a
  callback that fails, and the end of the process, withdraw it.
  `SessionsKeepOwner` needs that a user's owner id is the user's own but for the
  login's account, and `EndedInv`, by which no live row is inserted over.
- `ScheduleLoop_proofs`: `TypeCorrect` needs `HandleIsATimer` (the handle is one
  of the installed timers, so that clearing it leaves a natural number);
  `GuardedPaid` rests on `PaidInv`, which links the runs to what was spent and
  carries the invariant of `SingleUseTokens` along; `UsesTokens` is the refinement
  behind it: whatever ticks, retries and the owner do to approvals is a step of
  `SingleUseTokens`, the specification that `Approvals_proofs` shows the manager
  and its table to implement, so the two halves meet in one specification;
  `CompletedIsTrue` needs that a call that is about to return success has one
  behind it; `RunningPolls` is inductive with the types.
- `PlanExecution_proofs`: the invariant `Search` of the depth-first search (the
  stack is a path of dependencies through exactly the grey steps; what a call has
  looked at is black or called from it; no black step is in a set whose members
  wait for each other) gives `ChecksExactly`, in both directions. `Working` (at
  most one step runs, the steps of a round stay ready) gives
  `RunsDependenciesFirst`; both together give `AlwaysResolves`, because waiting
  steps none of which is ready would be a cycle. `Counted` ties the runs of a
  tool to the retries and gives `ToolsRunBounded` and, with the others,
  `ReportsTruly`.
- `Delegation_proofs`: `Placed` (which state a record can be in at which await)
  is the invariant behind `TypeCorrect` (with `AttemptsLeft`), `OutcomesAgree`,
  `CancellationHolds`, and, with `PaidFirst` (a call that was authorized after
  an approval has paid), `ApprovedFirst`.
- `Incidents_proofs`: `Checked` (a handler past its first check has a tool with a
  SAFE rule) with `GateReadsOwnRule` (then a level the gate lets pass is the
  action's own rule) gives `PermittedAlways`, and is what makes `Paid` inductive
  for `GuardedRunsPaidAlways`: without it a declared level could stand in for a
  rule. `Counted` ties the runs to the retries. `Proven` (a handler with an
  outcome is over; evidence is healthy; a resolved incident is never left) gives
  both properties of resolution. `ReturnsSettledAlways` needs only the types.
  `UsesTokens` is the same refinement as in `ScheduleLoop_proofs`.

  The module also holds the theorems about `Diagnosis`, the probe that asks for
  the evidence, taken as an instance `D` whose names stand apart from those of
  the handlers. `Asking` (a request is under way while the call waits for it, the
  number of connections is that of the redirects, time spent and time left add up
  to the deadline) makes `D!TypeOK` inductive; with `Addressed` (the second and
  later requests go to listed origins, the first one to no private hostname without an
  entry) it gives `SendsBounded`; `Answered` (a good
  answer was carried out at the level it came from, a call that is denied began
  nothing) gives `AnswersTruly`. They assume `Timeout \in Nat \ {0}`.

Liveness needs two halves: that every step brings a call nearer to its end, and
that fairness makes it take steps. The first is an action property, and proved:

- `AutonomyRun_proofs`: `RunsAdvance`. As long as it stays in the map a copy goes
  through at most `17 * MaxIterations + 18` steps: every change of its
  place, its status or its count of iterations brings it nearer to the end, since
  each proposal, retry and call that throws is counted. It needs `Taken`, and that
  a run that waits for the owner has no call under way but the one that saves it
  (`Waits`). A call on a run that has ended its iterations may change nothing.
- `Occurrences_proofs`: `QueueMovesOn` and `WorkersAdvance`. An occurrence goes back
  in the queue only when its claim is stale, and is never lost from it, because
  work is done on rows (`Queued`); every step of a worker uses up a part of a call
  of at most three steps, or of what is to be skipped, or claims an occurrence.
- `Delegation_proofs`: `CallsAdvance`. A call is at most `3 * MaxRetries + 9` steps
  from its end, the approval included. Each of its own steps lowers this, except
  that an empty answer is asked for again without being counted while the timer
  has not fired; other calls with the same id, the owner and the timer raise it
  never (`Waiting`: a record that waits for the owner has no call under way).
- `Incidents_proofs`: `HandlersAdvance`, at most `6 * MaxRetries + 6` steps from the
  observation to the end of the handler; `CallAdvances`, at most `Timeout + 24`
  awaits and ticks for a diagnosis or an adapter call, against any server.
- `ScheduleLoop_proofs`: `TicksAdvance`. A start or a tick ends, leaves one entry of
  the list it has read behind, or has fewer awaits left for the entry it is at
  (`Closer`), and nothing that overlaps with it takes that back.
- `PlanExecution_proofs`: `PlansAdvance`. The search sees one more step, returns from
  a call or looks at one more dependency; the executor takes one more step or
  gets on with the one it has; in that order the measures fall lexicographically.

Each of these was checked with TLC on the run of its module before it was proved.

Only model-checked: liveness itself (`RunEnds`, `DueIsSettled`, `TickReturns`,
`DelegationEnds`, `PlanEnds`, `HandlerEnds`, `CallEnds`), because fairness and
`ENABLED`, and the induction over the measures, are beyond the prover. `RunEnds` also takes that crashes and repeated recoveries are bounded, `DueIsSettled` that there are finitely many occurrences
within the clock. Every safety property that a passing run checks is a theorem.

## 6. Not modelled

- Corrupt rows, missing databases and invalid inputs: the code throws before it
  changes anything.
- Several runs on one store: runs share no row, and no operation of one reads
  another's.
- The state that `ExecutionEngine` keeps for display, which concurrent workflows
  share, and parameters of a workflow step that are computed by a function and
  may throw.
- Contents of proposals, outputs, parameters and audit events; text matching in
  the brain, the owner vocabulary and the registries.
- The verification of id tokens and the exchange of codes, classification of
  addresses from text, cookies' attributes, static files and health endpoints.
- Workspaces beyond the one a chat request names: `WorkspaceManager` is a map
  that nothing removes from.
- Proposals (`core/improvement`): a state machine in memory that one caller
  drives; notifications and audit: append-only tables, whose failures are steps
  of their callers.
- sqlite itself: statements are atomic and durable, as WAL mode with its default
  settings gives for a process that dies; the loss of the machine is left out.
- Changes of rules, environments or workspace policies while the program runs:
  only `bootstrap` makes them. `CapabilityReporter`, which reports on tools and
  is not asked before they run.
- The components of section 1.1 without a module yet; section 1.3 says which
  are to come, `PROJECT.json` why the others are not.
