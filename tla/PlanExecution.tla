--------------------------- MODULE PlanExecution ---------------------------
(***************************************************************************)
(* The three executors of dependency plans: WorkflowEngine                 *)
(* (src/src/core/workflow/index.ts), TaskExecutor (task/index.ts) and      *)
(* AgentOrchestrator.orchestratePlan (orchestrator/index.ts), with the     *)
(* cycle check that each of them runs first (WorkflowValidator, and        *)
(* validateBrainPlan of brain/index.ts).                                   *)
(*                                                                         *)
(* One execution of one plan: executions share nothing but tools and       *)
(* policy, whose answers are free here.  The cycle check is synchronous    *)
(* code, spelled out step by step because it is an algorithm of its own.   *)
(***************************************************************************)
EXTENDS Integers, Sequences

CONSTANTS
    Step,       \* steps of the plan, numbers in the order of its list
    MaxRetries  \* budget.maxRetries of RealWorldAssistant

ASSUME PlanAssumption == Step \subseteq Nat /\ MaxRetries \in Nat

VARIABLES
    deps,        \* dependsOn, per step
    wellFormed,  \* ids are there and unique, and dependencies exist
    kind,        \* which executor
    assisted,    \* the orchestrator has an assistant
    color,       \* cycle check: grey is on the recursion stack, black is done
    stack,       \* cycle check: calls of hasCycle, with dependencies to look at
    pc,          \* where the execution is
    state,       \* per step
    wave,        \* orchestratePlan: steps of this round still to be run
    tries,       \* retries of the running step
    ran,         \* history: times the tool of a step ran
    result       \* what the executor returns

plan == <<deps, wellFormed, kind, assisted>>
check == <<color, stack>>
work == <<state, wave, tries, ran, result>>
vars == <<plan, check, pc, work>>
-----------------------------------------------------------------------------
Refusals == {"FAILED", "BLOCKED", "APPROVAL_REQUIRED"}
StepState == {"PENDING", "RUNNING", "SUCCEEDED", "CONVERSED", "SKIPPED"} \cup Refusals
Results == {"NONE", "INVALID", "UNRESOLVED", "COMPLETED", "VERIFICATION_FAILED", "PARTIAL"}
             \cup {"THROWN"} \cup Refusals

TypeOK ==
    /\ deps \in [Step -> SUBSET Step]
    /\ wellFormed \in BOOLEAN
    /\ kind \in {"workflow", "task", "plan"}
    /\ assisted \in BOOLEAN
    /\ color \in [Step -> {"white", "grey", "black"}]
    /\ stack \in Seq([node : Step, rest : SUBSET Step])
    /\ pc \in {"new", "validate", "next", "step", "tool", "ended"}
    /\ state \in [Step -> StepState]
    /\ wave \subseteq Step
    /\ tries \in 0..MaxRetries
    /\ ran \in [Step -> Nat]
    /\ result \in Results

Init ==
    /\ deps \in [Step -> SUBSET Step]
    /\ wellFormed \in BOOLEAN
    /\ kind \in {"workflow", "task", "plan"}
    /\ assisted \in (IF kind = "workflow" THEN {FALSE} ELSE BOOLEAN)
    /\ color = [s \in Step |-> "white"]
    /\ stack = <<>>
    /\ pc = "new"
    /\ state = [s \in Step |-> "PENDING"]
    /\ wave = {}
    /\ tries = 0
    /\ ran = [s \in Step |-> 0]
    /\ result = "NONE"

In(st) == {s \in Step : state[s] = st}
FirstOf(s, S) == s \in S /\ \A t \in S : s <= t

Reject ==
    /\ result' = "INVALID"
    /\ pc' = "ended"
    /\ UNCHANGED <<plan, check, state, wave, tries, ran>>
-----------------------------------------------------------------------------
(* The cycle check.  validateBrainPlan goes on after it has found a cycle,
   but only to list further errors. *)

SelfDependent == \E s \in Step : s \in deps[s]

RejectMalformed ==
    /\ pc = "new"
    /\ ~wellFormed \/ SelfDependent
    /\ Reject

BeginCheck ==
    /\ pc = "new"
    /\ wellFormed /\ ~SelfDependent
    /\ pc' = "validate"
    /\ UNCHANGED <<plan, check, work>>

Top == stack[Len(stack)]
BelowTop == SubSeq(stack, 1, Len(stack) - 1)

\* hasCycle is called for step s, by the loop or by the call frames stand for.
Visit(s, frames) ==
    /\ color[s] = "white"
    /\ color' = [color EXCEPT ![s] = "grey"]
    /\ stack' = Append(frames, [node |-> s, rest |-> deps[s]])
    /\ UNCHANGED <<plan, pc, work>>

VisitRoot(s) ==
    /\ pc = "validate" /\ stack = <<>>
    /\ FirstOf(s, {t \in Step : color[t] = "white"})
    /\ Visit(s, stack)

\* The top call with dependency d looked at.
After(d) == Append(BelowTop, [node |-> Top.node, rest |-> Top.rest \ {d}])

VisitDependency(d) ==
    /\ pc = "validate" /\ stack # <<>>
    /\ d \in Top.rest
    /\ Visit(d, After(d))

PassDone(d) ==
    /\ pc = "validate" /\ stack # <<>>
    /\ d \in Top.rest /\ color[d] = "black"
    /\ stack' = After(d)
    /\ UNCHANGED <<plan, color, pc, work>>

FindCycle(d) ==
    /\ pc = "validate" /\ stack # <<>>
    /\ d \in Top.rest /\ color[d] = "grey"
    /\ Reject

\* Mutant: the step is not taken off the recursion stack.
LeaveOnStack ==
    /\ pc = "validate" /\ stack # <<>>
    /\ Top.rest = {}
    /\ stack' = BelowTop
    /\ UNCHANGED <<plan, color, pc, work>>

Leave ==
    /\ pc = "validate" /\ stack # <<>>
    /\ Top.rest = {}
    /\ color' = [color EXCEPT ![Top.node] = "black"]
    /\ stack' = BelowTop
    /\ UNCHANGED <<plan, pc, work>>

Accept ==
    /\ pc = "validate" /\ stack = <<>>
    /\ \A s \in Step : color[s] # "white"
    /\ pc' = "next"
    /\ UNCHANGED <<plan, check, work>>

Validate ==
    \/ RejectMalformed \/ BeginCheck \/ Leave \/ Accept
    \/ \E s \in Step : VisitRoot(s) \/ VisitDependency(s) \/ PassDone(s) \/ FindCycle(s)
-----------------------------------------------------------------------------
(* The executors. *)

\* Mutant: one dependency that succeeded is enough.
ReadyEarly == {s \in In("PENDING") : deps[s] = {} \/ deps[s] \cap In("SUCCEEDED") # {}}

Ready == {s \in In("PENDING") : deps[s] \subseteq In("SUCCEEDED")}

\* orchestratePlan works through the steps that were ready when the round began,
\* the other two look for the first ready step again after every step.
Candidates == IF kind = "plan" /\ wave # {} THEN wave ELSE Ready

RunNext ==
    /\ pc = "next"
    /\ \E s \in Candidates :
          /\ FirstOf(s, Candidates)
          /\ state' = [state EXCEPT ![s] = "RUNNING"]
          /\ wave' = IF kind = "plan" THEN Candidates \ {s} ELSE {}
    /\ pc' = "step"
    /\ tries' = 0
    /\ UNCHANGED <<plan, check, ran, result>>

\* A plan marks the steps that are left when it ends.
LeftOut(s) == IF state[s] = "PENDING" /\ kind = "plan" THEN "SKIPPED" ELSE state[s]

\* No step is ready: all have run, or the dependencies cannot be resolved (a plan
\* then says so in its stopReason).  Only a task has acceptance criteria.
Finish ==
    /\ pc = "next" /\ Candidates = {}
    /\ IF In("PENDING") # {} THEN result' = "UNRESOLVED"
       ELSE \/ result' = "COMPLETED"
            \/ kind = "task" /\ result' = "VERIFICATION_FAILED"
    /\ state' = [s \in Step |-> LeftOut(s)]
    /\ pc' = "ended"
    /\ UNCHANGED <<plan, check, wave, tries, ran>>

\* What a plan is called that stopped at a step with outcome st.
Overall(st) ==
    IF kind = "plan" /\ In("SUCCEEDED") # {} THEN "PARTIAL" ELSE st

\* Mutant: the steps that were left out are not marked.
StopUnmarked(s, st) ==
    /\ result' = Overall(st)
    /\ state' = [state EXCEPT ![s] = st]
    /\ wave' = {}
    /\ pc' = "ended"
    /\ UNCHANGED <<plan, check, tries, ran>>

\* A step that did not succeed ends the execution.
Stop(s, st) ==
    /\ result' = Overall(st)
    /\ state' = [t \in Step |-> IF t = s THEN st ELSE LeftOut(t)]
    /\ wave' = {}
    /\ pc' = "ended"
    /\ UNCHANGED <<plan, check, tries, ran>>

\* Mutant: a step that is refused waits for its turn again.
RefusedWaits(s) ==
    /\ pc = "step" /\ state[s] = "RUNNING"
    /\ state' = [state EXCEPT ![s] = "PENDING"]
    /\ pc' = "next"
    /\ UNCHANGED <<plan, check, wave, tries, ran, result>>

\* Capability, registry, environment, policy or approval say no; for a workflow,
\* whose engine goes to the tool gate directly, all of them are failures.
StepRefused(s) ==
    /\ pc = "step" /\ state[s] = "RUNNING"
    /\ \E st \in Refusals : (kind = "workflow" => st = "FAILED") /\ Stop(s, st)

\* A step of a task that turns out to be talk ends the task, with success.
StepConverses(s) ==
    /\ pc = "step" /\ state[s] = "RUNNING"
    /\ kind = "task" /\ tries = 0
    /\ state' = [state EXCEPT ![s] = "CONVERSED"]
    /\ result' = "COMPLETED"
    /\ pc' = "ended"
    /\ UNCHANGED <<plan, check, wave, tries, ran>>

ToolRuns(s) ==
    /\ pc = "step" /\ state[s] = "RUNNING"
    /\ ran' = [ran EXCEPT ![s] = @ + 1]
    /\ pc' = "tool"
    /\ UNCHANGED <<plan, check, state, wave, tries, result>>

ToolSucceeds(s) ==
    /\ pc = "tool" /\ state[s] = "RUNNING"
    /\ state' = [state EXCEPT ![s] = "SUCCEEDED"]
    /\ pc' = "next"
    /\ UNCHANGED <<plan, check, wave, tries, ran, result>>

\* With an assistant a failure that looks temporary is tried again.
ToolFails(s) ==
    /\ pc = "tool" /\ state[s] = "RUNNING"
    /\ \/ /\ assisted /\ tries < MaxRetries
          /\ tries' = tries + 1
          /\ pc' = "step"
          /\ UNCHANGED <<plan, check, state, wave, ran, result>>
       \/ Stop(s, "FAILED")

\* An audit, a notification or the policy throws, before the tool or after it; in
\* a workflow, the function that gives a step its parameters.  No executor
\* catches that: the call rejects, and its caller sees no report.
CallRejects(s) ==
    /\ state[s] = "RUNNING"
    /\ pc = "step" \/ (pc = "tool" /\ assisted)
    /\ result' = "THROWN"
    /\ wave' = {}
    /\ pc' = "ended"
    /\ UNCHANGED <<plan, check, state, tries, ran>>

Execute ==
    \/ RunNext \/ Finish
    \/ \E s \in Step : \/ StepRefused(s) \/ StepConverses(s)
                       \/ ToolRuns(s) \/ ToolSucceeds(s) \/ ToolFails(s)
                       \/ CallRejects(s)

Next == Validate \/ Execute

Spec == Init /\ [][Next]_vars

\* The policy, the tools and the audits answer.
FairSpec == Spec /\ WF_vars(Next)
-----------------------------------------------------------------------------
(* Properties. *)

\* A set of steps none of which can be the first to run: the reference
\* definition of a cycle, without any search.
Deadlocked(C) == C # {} /\ \A s \in C : deps[s] \cap C # {}
Cyclic == \E C \in SUBSET Step : Deadlocked(C)

\* The depth-first search rejects a well-formed plan exactly if it has a cycle:
\* none slips through, and no diamond is taken for one.
AcceptsExactlyDags ==
    /\ pc \in {"next", "step", "tool"} => wellFormed /\ ~Cyclic
    /\ result = "INVALID" => ~wellFormed \/ Cyclic

\* No executor runs a step, in whatever round it became ready, before all its
\* dependencies succeeded.
DependenciesFirst ==
    \A s \in Step :
        state[s] \notin {"PENDING", "SKIPPED"} =>
            \A d \in deps[s] : state[d] = "SUCCEEDED"

\* Each executor has an answer for dependencies that cannot be resolved; a plan
\* that the validator let through never gets it.
NeverUnresolved == result # "UNRESOLVED"

\* What is reported is what happened: COMPLETED means that every step succeeded
\* (or a task ended in talk), a refusal names the one step that ended it, a step
\* whose tool ran is not shown as untouched, and a plan with effects and without
\* success is PARTIAL.  A call that rejects reports nothing.
ReportIsTrue ==
    pc = "ended" =>
        /\ result = "COMPLETED" => In("SUCCEEDED") = Step \/ In("CONVERSED") # {}
        /\ result \in Refusals =>
              \E s \in In(result) : \A t \in Step \ {s} : state[t] \notin Refusals
        /\ \A s \in Step : state[s] \in {"PENDING", "SKIPPED"} => ran[s] = 0
        /\ kind = "plan" /\ result \notin {"INVALID", "THROWN"} =>
              /\ In("PENDING") = {} /\ In("RUNNING") = {}
              /\ result = "PARTIAL" <=> In("SUCCEEDED") \notin {{}, Step}

\* A tool runs once for its step, and again only if an assistant may retry.
RunsBounded ==
    \A s \in Step : ran[s] <= IF assisted THEN 1 + MaxRetries ELSE 1

\* Every execution ends, whatever the plan looks like.
PlanEnds == <>(pc = "ended")
=============================================================================
