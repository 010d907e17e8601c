------------------------------ MODULE Incidents ------------------------------
(***************************************************************************)
(* Incidents of monitored services: HealthEvaluator, IncidentDetector,     *)
(* IncidentManager and IncidentResponseLoop                                *)
(* (src/src/core/monitoring/index.ts) with the controlled recovery action  *)
(* they run (runControlledAction, src/src/core/autonomy/index.ts) and the  *)
(* gates before the tool (module ToolGate).                                *)
(*                                                                         *)
(* Every call of handleObservation makes an incident of its own; an        *)
(* Incident is also the handler that made it.  An action is the code from  *)
(* one await to the next.  While a handler waits, other handlers run, the  *)
(* owner answers requests for approval, and an operator may move incidents *)
(* through the public methods of the manager.                              *)
(***************************************************************************)
EXTENDS ToolGate, Integers

CONSTANTS
    Incident,
    Operated,     \* incidents an operator works on
    AnySite,      \* the sites an instance looks at
    AnyRules,     \* the rules it looks at
    NoEvidence,
    MaxAttempts,  \* config.maxActionAttempts
    MaxRetries,   \* budget.maxRetries of handleObservation
    MaxGrants     \* bound on the approvals granted

HealthStatus == {"HEALTHY", "DEGRADED", "UNHEALTHY", "UNKNOWN"}

\* status as reported (UNKNOWN when missing), the HTTP code (below 400 or none;
\* from 400 to 499; 500 and above or 0), whether there is an error message, and
\* whether it names the workspace and environment of the incident it is used for.
Observation ==
    [status: HealthStatus, http: {"fine", "client", "failed"}, error: BOOLEAN, inScope: BOOLEAN]

ASSUME IncidentsAssumption ==
    /\ Operated \subseteq Incident
    /\ AnySite \subseteq Site /\ AnyRules \subseteq Rules
    /\ NoEvidence \notin Observation
    /\ MaxAttempts \in Nat /\ MaxRetries \in Nat

ASSUME GrantBoundAssumption == MaxGrants \in Nat

VARIABLES
    site, rules,   \* fixed when the program starts
    status,        \* of each incident, NONE before it is made
    evidence,      \* resolutionEvidence
    record,        \* success of its action record
    pc,            \* the await its handler is at
    action,        \* the recovery action of its handler
    used,          \* budget.usedRetries
    outcome,       \* what the handler returned
    spendable, issued, spent,  \* approvals (SingleUseTokens)
    succeeded,     \* history: incidents whose tool reported success
    runs,          \* history: times the tool ran, per incident
    ran,           \* history: times the tool ran, per action
    touched        \* history: incidents an operator has moved

tokenVars == <<spendable, issued, spent>>
incidentVars == <<status, evidence, record>>
handlerVars == <<pc, action, used, outcome>>
history == <<succeeded, runs, ran, touched>>
vars == <<site, rules, incidentVars, handlerVars, tokenVars, history>>

Tokens == INSTANCE SingleUseTokens WITH Key <- Action
-----------------------------------------------------------------------------
IncidentStatus ==
    {"DETECTED", "TRIAGED", "INVESTIGATING", "MITIGATING", "VERIFYING", "RESOLVED", "ESCALATED"}

InAction == {"gate", "tool", "retry", "refused", "failed", "done"}

TypeOK ==
    /\ site \in AnySite /\ rules \in AnyRules
    /\ status \in [Incident -> {"NONE"} \cup IncidentStatus]
    /\ evidence \in [Incident -> Observation \cup {NoEvidence}]
    /\ record \in [Incident -> {"NONE", "SUCCESS", "FAILURE"}]
    /\ pc \in [Incident -> {"idle", "fetch", "ended"} \cup InAction]
    /\ action \in [Incident -> Action]
    /\ used \in [Incident -> 0..MaxRetries]
    /\ outcome \in [Incident -> {"NONE", "resolved", "unresolved", "rejected"}]
    /\ Tokens!TypeOK
    /\ succeeded \subseteq Incident /\ touched \subseteq Incident
    /\ runs \in [Incident -> Nat] /\ ran \in [Action -> Nat]

Init ==
    /\ site \in AnySite /\ rules \in AnyRules
    /\ status = [i \in Incident |-> "NONE"]
    /\ evidence = [i \in Incident |-> NoEvidence]
    /\ record = [i \in Incident |-> "NONE"]
    /\ pc = [i \in Incident |-> "idle"]
    /\ action \in [Incident -> Action]
    /\ used = [i \in Incident |-> 0]
    /\ outcome = [i \in Incident |-> "NONE"]
    /\ Tokens!Init
    /\ succeeded = {} /\ touched = {}
    /\ runs = [i \in Incident |-> 0]
    /\ ran = [a \in Action |-> 0]
-----------------------------------------------------------------------------
(* Health and states. *)

\* Mutant: the reported status is taken at its word.
HealthAsReported(o) == o.status

\* HealthEvaluator.evaluate.
Health(o) ==
    IF o.status = "UNKNOWN" THEN "UNKNOWN"
    ELSE IF o.http = "failed" THEN "UNHEALTHY"
    ELSE IF o.error THEN (IF o.http = "client" THEN "DEGRADED" ELSE "UNHEALTHY")
    ELSE o.status

\* IncidentDetector.detect.
IsIncident(o) == Health(o) # "HEALTHY"

\* The table of transitionState.
Transitions ==
    {<<"DETECTED", "TRIAGED">>, <<"TRIAGED", "INVESTIGATING">>, <<"INVESTIGATING", "MITIGATING">>,
     <<"MITIGATING", "VERIFYING">>, <<"VERIFYING", "RESOLVED">>, <<"VERIFYING", "INVESTIGATING">>,
     <<"ESCALATED", "TRIAGED">>, <<"ESCALATED", "INVESTIGATING">>, <<"ESCALATED", "RESOLVED">>}
    \cup {<<s, "ESCALATED">> : s \in {"DETECTED", "TRIAGED", "INVESTIGATING", "MITIGATING", "VERIFYING"}}

Allowed(i, s) == <<status[i], s>> \in Transitions

MoveTo(i, s) == status' = [status EXCEPT ![i] = s]
Goto(i, l) == pc' = [pc EXCEPT ![i] = l]
SetRecord(i, r) == record' = [record EXCEPT ![i] = r]

End(i, result) ==
    /\ Goto(i, "ended")
    /\ outcome' = [outcome EXCEPT ![i] = result]

\* transitionState tells of an end after it has set the status, and notify, which
\* writes its table at once, may throw: the status stays and the handler rejects.
EndNotified(i, result) == End(i, result) \/ End(i, "rejected")

\* A transition the handler makes and does not catch: the handler goes on, or
\* the transition throws and the handler with it.
EndWith(i, s, result) ==
    IF Allowed(i, s)
    THEN MoveTo(i, s) /\ EndNotified(i, result)
    ELSE End(i, "rejected") /\ UNCHANGED status
-----------------------------------------------------------------------------
(* runControlledAction. *)

\* Up to its next await, with n retries used: no agent or no permission, or
\* the call of the tool through its gates.
Attempt(i, n) ==
    /\ used' = [used EXCEPT ![i] = n]
    /\ Goto(i, IF Decision(site, rules, action[i], action[i] \in spendable) = "SAFE"
               THEN "gate" ELSE "refused")

\* The tool or a gate reports a failure; classifyFailure, which reads its
\* text, says whether it is worth a retry.
Fails(i) ==
    \/ /\ used[i] < MaxRetries
       /\ used' = [used EXCEPT ![i] = @ + 1]
       /\ Goto(i, "retry")
    \/ Goto(i, "failed") /\ UNCHANGED used

\* The policy is asked again when the call has reached its gate.
GateLevel(i) == Evaluate(rules, action[i])

GateAllows(i) ==
    /\ GatesOpen(site, action[i])
    /\ \/ GateLevel(i) = "SAFE"
       \/ GateLevel(i) = "APPROVAL_REQUIRED" /\ action[i] \in spendable

\* Mutant: the refusal of a gate is retried without being counted.
GateRefusesUncounted(i) ==
    /\ pc[i] = "gate" /\ ~GateAllows(i)
    /\ Goto(i, "retry")
    /\ UNCHANGED <<site, rules, incidentVars, action, used, outcome, tokenVars, history>>

GateRefuses(i) ==
    /\ pc[i] = "gate" /\ ~GateAllows(i)
    /\ Fails(i)
    /\ UNCHANGED <<site, rules, incidentVars, action, outcome, tokenVars, history>>

ToolStarts(i) ==
    /\ runs' = [runs EXCEPT ![i] = @ + 1]
    /\ ran' = [ran EXCEPT ![action[i]] = @ + 1]
    /\ Goto(i, "tool")

\* Mutant: the gate trusts the decision and does not consume the approval.
GatePassesUnpaid(i) ==
    /\ pc[i] = "gate" /\ GatesOpen(site, action[i]) /\ GateLevel(i) # "BLOCKED"
    /\ ToolStarts(i)
    /\ UNCHANGED <<site, rules, incidentVars, action, used, outcome, tokenVars, succeeded, touched>>

\* The approval is consumed, and the tool called, in the same stretch.
GatePasses(i) ==
    /\ pc[i] = "gate" /\ GateAllows(i)
    /\ IF GateLevel(i) = "APPROVAL_REQUIRED" THEN Tokens!Spend(action[i]) ELSE UNCHANGED tokenVars
    /\ ToolStarts(i)
    /\ UNCHANGED <<site, rules, incidentVars, action, used, outcome, succeeded, touched>>

ToolFails(i) ==
    /\ pc[i] = "tool"
    /\ Fails(i)
    /\ UNCHANGED <<site, rules, incidentVars, action, outcome, tokenVars, history>>

\* A recovery action has no acceptance criteria.
ToolSucceeds(i) ==
    /\ pc[i] = "tool"
    /\ Goto(i, "done")
    /\ succeeded' = succeeded \cup {i}
    /\ UNCHANGED <<site, rules, incidentVars, action, used, outcome, tokenVars, runs, ran, touched>>

Retry(i) ==
    /\ pc[i] = "retry"
    /\ Attempt(i, used[i])
    /\ UNCHANGED <<site, rules, incidentVars, action, outcome, tokenVars, history>>

\* The audit that is awaited throws: the incident stays where it is.
AuditThrows(i) ==
    /\ pc[i] \in {"retry", "refused", "failed", "done"}
    /\ End(i, "rejected")
    /\ UNCHANGED <<site, rules, incidentVars, action, used, tokenVars, history>>
-----------------------------------------------------------------------------
(* handleObservation. *)

\* createIncident, TRIAGED, INVESTIGATING and, unless there is no recovery
\* action or the tool has no SAFE rule, MITIGATING, in one stretch.  A new
\* incident has made no attempt, whatever happened to its service before.
Observe(i) ==
    /\ pc[i] = "idle" /\ \E o \in Observation : IsIncident(o)
    /\ IF MaxAttempts > 0 /\ rules[ToolFor(action[i])] = "SAFE"
       THEN /\ MoveTo(i, "MITIGATING")
            /\ Attempt(i, 0)
            /\ UNCHANGED <<record, outcome>>
       ELSE /\ MoveTo(i, "ESCALATED")
            /\ SetRecord(i, IF MaxAttempts > 0 THEN "FAILURE" ELSE "NONE")
            /\ EndNotified(i, "unresolved")
            /\ UNCHANGED used
    /\ UNCHANGED <<site, rules, evidence, action, tokenVars, history>>

ObserveWithoutRecovery(i) ==
    /\ pc[i] = "idle" /\ \E o \in Observation : IsIncident(o)
    /\ MoveTo(i, "ESCALATED")
    /\ EndNotified(i, "unresolved")
    /\ UNCHANGED <<site, rules, evidence, record, action, used, tokenVars, history>>

\* The notification of a severe incident throws when createIncident has entered
\* it: nobody takes it any further.
CreationThrows(i) ==
    /\ pc[i] = "idle" /\ \E o \in Observation : IsIncident(o)
    /\ MoveTo(i, "DETECTED")
    /\ End(i, "rejected")
    /\ UNCHANGED <<site, rules, evidence, record, action, used, tokenVars, history>>

ReturnFailed(i) ==
    /\ pc[i] \in {"refused", "failed"}
    /\ SetRecord(i, "FAILURE")
    /\ EndWith(i, "ESCALATED", "unresolved")
    /\ UNCHANGED <<site, rules, evidence, action, used, tokenVars, history>>

ReturnDone(i) ==
    /\ pc[i] = "done"
    /\ SetRecord(i, "SUCCESS")
    /\ IF Allowed(i, "VERIFYING")
       THEN MoveTo(i, "VERIFYING") /\ Goto(i, "fetch") /\ UNCHANGED outcome
       ELSE End(i, "rejected") /\ UNCHANGED status
    /\ UNCHANGED <<site, rules, evidence, action, used, tokenVars, history>>

\* fetchFreshObservation rejects, which nothing catches.
FetchFails(i) ==
    /\ pc[i] = "fetch"
    /\ End(i, "rejected")
    /\ UNCHANGED <<site, rules, incidentVars, action, used, tokenVars, history>>

\* Mutant: the scope is not compared.
VerifyAnyScope(i) ==
    /\ pc[i] = "fetch"
    /\ \E o \in Observation :
          IF Health(o) = "HEALTHY"
          THEN /\ evidence' = [evidence EXCEPT ![i] = o]
               /\ IF Allowed(i, "RESOLVED")
                  THEN MoveTo(i, "RESOLVED") /\ EndNotified(i, "resolved")
                  ELSE EndWith(i, "ESCALATED", "unresolved")
          ELSE EndWith(i, "ESCALATED", "unresolved") /\ UNCHANGED evidence
    /\ UNCHANGED <<site, rules, record, action, used, tokenVars, history>>

\* The fresh observation, and resolveIncident, which sets the evidence before
\* it asks for the transition.  Out of scope, not healthy or refused: escalate.
\* When the notification of the resolution throws, the handler tries to escalate
\* as well, which a resolved incident refuses.
Verify(i) ==
    /\ pc[i] = "fetch"
    /\ \E o \in Observation :
          IF o.inScope /\ Health(o) = "HEALTHY"
          THEN /\ evidence' = [evidence EXCEPT ![i] = o]
               /\ IF Allowed(i, "RESOLVED")
                  THEN MoveTo(i, "RESOLVED") /\ EndNotified(i, "resolved")
                  ELSE EndWith(i, "ESCALATED", "unresolved")
          ELSE EndWith(i, "ESCALATED", "unresolved") /\ UNCHANGED evidence
    /\ UNCHANGED <<site, rules, record, action, used, tokenVars, history>>
-----------------------------------------------------------------------------
(* The owner and an operator. *)

\* Approvals are asked for where the rules demand them.
OwnerGrants(a) ==
    /\ rules[a] = "APPROVAL_REQUIRED" /\ issued[a] < MaxGrants
    /\ Tokens!Issue(a)
    /\ UNCHANGED <<site, rules, incidentVars, handlerVars, history>>

TokenLapses(a) ==
    /\ a \in spendable
    /\ spendable' = spendable \ {a}
    /\ UNCHANGED <<issued, spent, site, rules, incidentVars, handlerVars, history>>

\* transitionState from outside.
OperatorMoves(i, s) ==
    /\ Allowed(i, s)
    /\ MoveTo(i, s)
    /\ touched' = touched \cup {i}
    /\ UNCHANGED <<site, rules, evidence, record, handlerVars, tokenVars, succeeded, runs, ran>>

\* resolveIncident from outside: the evidence stays when the transition throws.
OperatorResolves(i, o) ==
    /\ status[i] # "NONE" /\ Health(o) = "HEALTHY"
    /\ evidence' = [evidence EXCEPT ![i] = o]
    /\ IF Allowed(i, "RESOLVED") THEN MoveTo(i, "RESOLVED") ELSE UNCHANGED status
    /\ touched' = touched \cup {i}
    /\ UNCHANGED <<site, rules, record, handlerVars, tokenVars, succeeded, runs, ran>>
-----------------------------------------------------------------------------
\* What a handler does once it has begun.
Continue(i) ==
    \/ GateRefuses(i) \/ GatePasses(i)
    \/ ToolFails(i) \/ ToolSucceeds(i)
    \/ Retry(i) \/ AuditThrows(i)
    \/ ReturnFailed(i) \/ ReturnDone(i)
    \/ FetchFails(i) \/ Verify(i)

Next ==
    \/ \E i \in Incident :
          \/ Observe(i) \/ ObserveWithoutRecovery(i) \/ CreationThrows(i)
          \/ Continue(i)
    \/ \E i \in Operated :
          \/ \E s \in IncidentStatus : OperatorMoves(i, s)
          \/ \E o \in Observation : OperatorResolves(i, o)
    \/ \E a \in Action : OwnerGrants(a) \/ TokenLapses(a)

Spec == Init /\ [][Next]_vars

\* Awaits come back: audits, the tool and the fresh observation.
FairSpec == Spec /\ \A i \in Incident : WF_vars(Continue(i))
-----------------------------------------------------------------------------
(* Properties. *)

\* A recovery tool runs only through every check on its way: the rule of the
\* tool that handleObservation reads, a rule of its own for what it really
\* does, the environment, the workspace and the agent.  The loop looks at the
\* tool's rule, the decision takes an unknown action for SAFE, and only the
\* gate is left to stop it.
RecoveryPermitted ==
    \A i \in Incident :
        runs[i] > 0 =>
            /\ rules[ToolFor(action[i])] = "SAFE"
            /\ rules[action[i]] \in {"SAFE", "APPROVAL_REQUIRED"}
            /\ GatesOpen(site, action[i])

\* Incidents that want the same guarded action compete for its approvals: it
\* runs at most once for every answer of the owner.
GuardedRunsPaid ==
    \A a \in Action : rules[a] = "APPROVAL_REQUIRED" => ran[a] <= issued[a]

\* An incident runs its recovery tool at most once more than its retries.
RunsBounded == \A i \in Incident : runs[i] <= 1 + MaxRetries

Healthy(o) == o.status = "HEALTHY" /\ o.http # "failed" /\ ~o.error

\* A handler that says resolved is right for good: its tool has succeeded, the
\* incident is resolved and rests on an observation without a sign of trouble,
\* even if an operator works on the same incident.
ResolvedIsProven ==
    \A i \in Incident :
        outcome[i] = "resolved" =>
            /\ status[i] = "RESOLVED" /\ i \in succeeded
            /\ evidence[i] # NoEvidence /\ Healthy(evidence[i])

\* An incident that only its handler has worked on is resolved on the success of
\* its tool and on healthy evidence from its own workspace and environment, and
\* the handler said so, unless telling of the resolution threw.
ResolvedInScope ==
    \A i \in Incident \ touched :
        status[i] = "RESOLVED" =>
            /\ outcome[i] \in {"resolved", "rejected"} /\ i \in succeeded
            /\ Healthy(evidence[i]) /\ evidence[i].inScope

\* A handler that returns has just settled its incident, whatever an operator
\* did while it was waiting; one that cannot, throws.
ReturnsSettled ==
    [][\A i \in Incident :
          outcome'[i] # outcome[i] =>
              \/ outcome'[i] = "rejected"
              \/ outcome'[i] = "resolved" /\ status'[i] = "RESOLVED"
              \/ outcome'[i] = "unresolved" /\ status'[i] = "ESCALATED"]_vars

\* Every handler comes to an end: retries are bounded, whoever refuses.
HandlerEnds == \A i \in Incident : []<>(pc[i] \in {"idle", "ended"})
=============================================================================
