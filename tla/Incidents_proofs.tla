------------------------- MODULE Incidents_proofs -------------------------
(***************************************************************************)
(* Proofs about Incidents for any number of incidents, handlers, operators,*)
(* tools, rules, sites and retries, and about the probe of Diagnosis for   *)
(* any origins and any timeout.                                            *)
(***************************************************************************)
EXTENDS Incidents, TLAPS

-----------------------------------------------------------------------------
(* Type correctness. *)

LEMMA FailsTypes ==
  ASSUME TypeOK, NEW i \in Incident, Fails(i)
  PROVE  /\ pc' \in [Incident -> {"idle", "fetch", "ended"} \cup InAction]
         /\ used' \in [Incident -> 0..MaxRetries]
<1> USE DEF TypeOK, Goto, InAction
<1>1. CASE used[i] < MaxRetries /\ used' = [used EXCEPT ![i] = @ + 1] /\ Goto(i, "retry")
  <2>1. used[i] + 1 \in 0..MaxRetries
    BY <1>1, IncidentsAssumption
  <2>2. QED
    BY <1>1, <2>1
<1>2. CASE Goto(i, "failed") /\ UNCHANGED used
  BY <1>2
<1>3. QED
  BY <1>1, <1>2 DEF Fails

LEMMA EndWithTypes ==
  ASSUME TypeOK, NEW i \in Incident, NEW s \in IncidentStatus, NEW r \in {"resolved", "unresolved"},
         EndWith(i, s, r)
  PROVE  /\ status' \in [Incident -> {"NONE"} \cup IncidentStatus]
         /\ pc' \in [Incident -> {"idle", "fetch", "ended"} \cup InAction]
         /\ outcome' \in [Incident -> {"NONE", "resolved", "unresolved", "rejected"}]
BY DEF TypeOK, EndWith, EndNotified, End, Goto, MoveTo

LEMMA TypeInductive == TypeOK /\ [Next]_vars => TypeOK'
<1> SUFFICES ASSUME TypeOK, [Next]_vars PROVE TypeOK'
  OBVIOUS
<1> USE DEF TypeOK, Tokens!TypeOK, incidentVars, handlerVars, tokenVars, history, Goto, MoveTo, SetRecord, End
<1>1. ASSUME NEW i \in Incident, GateRefuses(i) PROVE TypeOK'
  BY <1>1, FailsTypes DEF GateRefuses
<1>2. ASSUME NEW i \in Incident, GatePasses(i) PROVE TypeOK'
  <2>1. Tokens!TypeOK'
    BY <1>2 DEF GatePasses, Tokens!Spend
  <2>2. runs' \in [Incident -> Nat] /\ ran' \in [Action -> Nat]
    BY <1>2 DEF GatePasses, ToolStarts
  <2>3. QED
    BY <1>2, <2>1, <2>2 DEF GatePasses, ToolStarts, InAction
<1>3. ASSUME NEW i \in Incident, ToolFails(i) PROVE TypeOK'
  BY <1>3, FailsTypes DEF ToolFails
<1>4. ASSUME NEW i \in Incident, ToolSucceeds(i) PROVE TypeOK'
  BY <1>4 DEF ToolSucceeds, InAction
<1>5. ASSUME NEW i \in Incident, Retry(i) PROVE TypeOK'
  BY <1>5 DEF Retry, Attempt, InAction
<1>6. ASSUME NEW i \in Incident, AuditThrows(i) PROVE TypeOK'
  BY <1>6 DEF AuditThrows
<1>7. ASSUME NEW i \in Incident, Observe(i) PROVE TypeOK'
  <2>1. 0 \in 0..MaxRetries
    BY IncidentsAssumption
  <2>2. QED
    BY <1>7, <2>1 DEF Observe, EndNotified, Attempt, InAction, IncidentStatus
<1>8. ASSUME NEW i \in Incident, ObserveWithoutRecovery(i) PROVE TypeOK'
  BY <1>8 DEF ObserveWithoutRecovery, EndNotified, IncidentStatus
<1>8b. ASSUME NEW i \in Incident, CreationThrows(i) PROVE TypeOK'
  BY <1>8b DEF CreationThrows, IncidentStatus
<1>9. ASSUME NEW i \in Incident, ReturnFailed(i) PROVE TypeOK'
  <2>1. "ESCALATED" \in IncidentStatus
    BY DEF IncidentStatus
  <2>2. QED
    BY <1>9, <2>1, EndWithTypes DEF ReturnFailed
<1>10. ASSUME NEW i \in Incident, ReturnDone(i) PROVE TypeOK'
  BY <1>10 DEF ReturnDone, IncidentStatus
<1>11. ASSUME NEW i \in Incident, FetchFails(i) PROVE TypeOK'
  BY <1>11 DEF FetchFails
<1>12. ASSUME NEW i \in Incident, Verify(i) PROVE TypeOK'
  <2>1. {"RESOLVED", "ESCALATED"} \subseteq IncidentStatus
    BY DEF IncidentStatus
  <2>2. QED
    BY <1>12, <2>1, EndWithTypes DEF Verify, EndNotified
<1>13. ASSUME NEW i \in Operated, NEW s \in IncidentStatus, OperatorMoves(i, s) PROVE TypeOK'
  BY <1>13, IncidentsAssumption DEF OperatorMoves
<1>14. ASSUME NEW i \in Operated, NEW o \in Observation, OperatorResolves(i, o) PROVE TypeOK'
  <2>1. i \in Incident /\ "RESOLVED" \in IncidentStatus
    BY IncidentsAssumption DEF IncidentStatus
  <2>2. QED
    BY <1>14, <2>1 DEF OperatorResolves
<1>15. ASSUME NEW a \in Action, OwnerGrants(a) PROVE TypeOK'
  BY <1>15 DEF OwnerGrants, Tokens!Issue
<1>16. ASSUME NEW a \in Action, TokenLapses(a) PROVE TypeOK'
  BY <1>16 DEF TokenLapses
<1>17. CASE UNCHANGED vars
  BY <1>17 DEF vars
<1>18. QED
  BY <1>1, <1>2, <1>3, <1>4, <1>5, <1>6, <1>7, <1>8, <1>8b, <1>9,
     <1>10, <1>11, <1>12, <1>13, <1>14, <1>15, <1>16, <1>17
     DEF Next, Continue

LEMMA InitTypes == Init => TypeOK
<1> SUFFICES ASSUME Init PROVE TypeOK
  OBVIOUS
<1>1. Tokens!TypeOK
  BY DEF Init, Tokens!Init, Tokens!TypeOK
<1>2. 0 \in 0..MaxRetries
  BY IncidentsAssumption
<1>3. QED
  BY <1>1, <1>2 DEF Init, TypeOK

\* Statuses stay among those of the state machine, and no handler counts more
\* retries than its budget has.
THEOREM TypeCorrect == Spec => []TypeOK
BY InitTypes, TypeInductive, PTL DEF Spec

-----------------------------------------------------------------------------
(* What may run. *)

\* Where the tool is SAFE, a level the gate lets pass is the action's own rule:
\* neither the tool's rule nor its declared level can stand in for it.
LEMMA GateReadsOwnRule ==
  ASSUME rules \in Rules, NEW a \in Action, rules[ToolFor(a)] = "SAFE",
         Evaluate(rules, a) \in {"SAFE", "APPROVAL_REQUIRED"}
  PROVE  rules[a] = Evaluate(rules, a)
<1>1. CASE rules[a] # NoRule
  BY <1>1 DEF Evaluate, ResolveSafetyLevel
<1>2. CASE rules[a] = NoRule /\ a \in SubAction
  BY <1>2 DEF Evaluate, ResolveSafetyLevel
<1>3. CASE rules[a] = NoRule /\ a \in Tool
  BY <1>3 DEF ToolFor, NoRule
<1>4. QED
  BY <1>1, <1>2, <1>3 DEF Action

\* Every handler past its first check has a tool with a SAFE rule.
Checked ==
    \A i \in Incident :
        pc[i] \in InAction \cup {"fetch"} => rules[ToolFor(action[i])] = "SAFE"

\* Hence a call that the gate lets pass has a rule of its own.
LEMMA PassedIsPermitted ==
  ASSUME TypeOK, Checked, NEW i \in Incident, GatePasses(i)
  PROVE  /\ rules[action[i]] = GateLevel(i)
         /\ GateLevel(i) \in {"SAFE", "APPROVAL_REQUIRED"}
<1>1. action[i] \in Action /\ rules \in Rules
  BY IncidentsAssumption DEF TypeOK
<1>2. rules[ToolFor(action[i])] = "SAFE"
  BY DEF GatePasses, Checked, InAction
<1>3. GateLevel(i) \in {"SAFE", "APPROVAL_REQUIRED"}
  BY DEF GatePasses, GateAllows
<1>4. QED
  BY <1>1, <1>2, <1>3, GateReadsOwnRule DEF GateLevel

LEMMA CheckedInductive == TypeOK /\ Checked /\ [Next]_vars => Checked'
<1> SUFFICES ASSUME TypeOK, Checked, [Next]_vars PROVE Checked'
  OBVIOUS
<1> USE DEF Checked, TypeOK, InAction, incidentVars, handlerVars, tokenVars, history, Goto, End
<1>1. ASSUME NEW i \in Incident, GateRefuses(i) PROVE Checked'
  BY <1>1 DEF GateRefuses, Fails
<1>2. ASSUME NEW i \in Incident, GatePasses(i) PROVE Checked'
  BY <1>2 DEF GatePasses, ToolStarts
<1>3. ASSUME NEW i \in Incident, ToolFails(i) PROVE Checked'
  BY <1>3 DEF ToolFails, Fails
<1>4. ASSUME NEW i \in Incident, ToolSucceeds(i) PROVE Checked'
  BY <1>4 DEF ToolSucceeds
<1>5. ASSUME NEW i \in Incident, Retry(i) PROVE Checked'
  BY <1>5 DEF Retry, Attempt
<1>6. ASSUME NEW i \in Incident, AuditThrows(i) PROVE Checked'
  BY <1>6 DEF AuditThrows
<1>7. ASSUME NEW i \in Incident, Observe(i) PROVE Checked'
  BY <1>7 DEF Observe, EndNotified, Attempt
<1>8. ASSUME NEW i \in Incident, ObserveWithoutRecovery(i) PROVE Checked'
  BY <1>8 DEF ObserveWithoutRecovery, EndNotified
<1>8b. ASSUME NEW i \in Incident, CreationThrows(i) PROVE Checked'
  BY <1>8b DEF CreationThrows
<1>9. ASSUME NEW i \in Incident, ReturnFailed(i) PROVE Checked'
  BY <1>9 DEF ReturnFailed, EndWith, EndNotified
<1>10. ASSUME NEW i \in Incident, ReturnDone(i) PROVE Checked'
  BY <1>10 DEF ReturnDone
<1>11. ASSUME NEW i \in Incident, FetchFails(i) PROVE Checked'
  BY <1>11 DEF FetchFails
<1>12. ASSUME NEW i \in Incident, Verify(i) PROVE Checked'
  BY <1>12 DEF Verify, EndWith, EndNotified
<1>13. ASSUME NEW i \in Operated, NEW s \in IncidentStatus, OperatorMoves(i, s) PROVE Checked'
  BY <1>13 DEF OperatorMoves
<1>14. ASSUME NEW i \in Operated, NEW o \in Observation, OperatorResolves(i, o) PROVE Checked'
  BY <1>14 DEF OperatorResolves
<1>15. ASSUME NEW a \in Action, OwnerGrants(a) PROVE Checked'
  BY <1>15 DEF OwnerGrants
<1>16. ASSUME NEW a \in Action, TokenLapses(a) PROVE Checked'
  BY <1>16 DEF TokenLapses
<1>17. CASE UNCHANGED vars
  BY <1>17 DEF vars
<1>18. QED
  BY <1>1, <1>2, <1>3, <1>4, <1>5, <1>6, <1>7, <1>8, <1>8b, <1>9,
     <1>10, <1>11, <1>12, <1>13, <1>14, <1>15, <1>16, <1>17
     DEF Next, Continue

LEMMA PermittedInductive == TypeOK /\ Checked /\ RecoveryPermitted /\ [Next]_vars => RecoveryPermitted'
<1> SUFFICES ASSUME TypeOK, Checked, RecoveryPermitted, [Next]_vars PROVE RecoveryPermitted'
  OBVIOUS
<1> USE DEF RecoveryPermitted, handlerVars, history
<1>1. ASSUME NEW i \in Incident, GateRefuses(i) PROVE RecoveryPermitted'
  BY <1>1 DEF GateRefuses
<1>2. ASSUME NEW i \in Incident, GatePasses(i) PROVE RecoveryPermitted'
  <2>1. \A j \in Incident : j # i => runs'[j] = runs[j]
    BY <1>2 DEF GatePasses, ToolStarts, TypeOK
  <2>2. rules[ToolFor(action[i])] = "SAFE"
    BY <1>2 DEF GatePasses, Checked, InAction
  <2>3. GatesOpen(site, action[i])
    BY <1>2 DEF GatePasses, GateAllows
  <2>4. QED
    BY <1>2, <2>1, <2>2, <2>3, PassedIsPermitted DEF GatePasses
<1>3. ASSUME NEW i \in Incident, ToolFails(i) PROVE RecoveryPermitted'
  BY <1>3 DEF ToolFails
<1>4. ASSUME NEW i \in Incident, ToolSucceeds(i) PROVE RecoveryPermitted'
  BY <1>4 DEF ToolSucceeds
<1>5. ASSUME NEW i \in Incident, Retry(i) PROVE RecoveryPermitted'
  BY <1>5 DEF Retry
<1>6. ASSUME NEW i \in Incident, AuditThrows(i) PROVE RecoveryPermitted'
  BY <1>6 DEF AuditThrows
<1>7. ASSUME NEW i \in Incident, Observe(i) PROVE RecoveryPermitted'
  BY <1>7 DEF Observe, EndNotified
<1>8. ASSUME NEW i \in Incident, ObserveWithoutRecovery(i) PROVE RecoveryPermitted'
  BY <1>8 DEF ObserveWithoutRecovery, EndNotified
<1>8b. ASSUME NEW i \in Incident, CreationThrows(i) PROVE RecoveryPermitted'
  BY <1>8b DEF CreationThrows
<1>9. ASSUME NEW i \in Incident, ReturnFailed(i) PROVE RecoveryPermitted'
  BY <1>9 DEF ReturnFailed
<1>10. ASSUME NEW i \in Incident, ReturnDone(i) PROVE RecoveryPermitted'
  BY <1>10 DEF ReturnDone
<1>11. ASSUME NEW i \in Incident, FetchFails(i) PROVE RecoveryPermitted'
  BY <1>11 DEF FetchFails
<1>12. ASSUME NEW i \in Incident, Verify(i) PROVE RecoveryPermitted'
  BY <1>12 DEF Verify, EndNotified
<1>13. ASSUME NEW i \in Operated, NEW s \in IncidentStatus, OperatorMoves(i, s) PROVE RecoveryPermitted'
  BY <1>13 DEF OperatorMoves
<1>14. ASSUME NEW i \in Operated, NEW o \in Observation, OperatorResolves(i, o) PROVE RecoveryPermitted'
  BY <1>14 DEF OperatorResolves
<1>15. ASSUME NEW a \in Action, OwnerGrants(a) PROVE RecoveryPermitted'
  BY <1>15 DEF OwnerGrants
<1>16. ASSUME NEW a \in Action, TokenLapses(a) PROVE RecoveryPermitted'
  BY <1>16 DEF TokenLapses
<1>17. CASE UNCHANGED vars
  BY <1>17 DEF vars
<1>18. QED
  BY <1>1, <1>2, <1>3, <1>4, <1>5, <1>6, <1>7, <1>8, <1>8b, <1>9,
     <1>10, <1>11, <1>12, <1>13, <1>14, <1>15, <1>16, <1>17
     DEF Next, Continue

\* No recovery tool runs past the checks on its way.
THEOREM PermittedAlways == Spec => []RecoveryPermitted
<1>1. Init => TypeOK /\ Checked /\ RecoveryPermitted
  <2>1. Init => Checked
    BY DEF Init, Checked, InAction
  <2>2. Init => RecoveryPermitted
    BY DEF Init, RecoveryPermitted
  <2>3. QED
    BY <2>1, <2>2, InitTypes
<1>2. QED
  BY <1>1, TypeInductive, CheckedInductive, PermittedInductive, PTL DEF Spec

-----------------------------------------------------------------------------
(* What it costs. *)

\* A guarded action runs at most once per approval spent, and no more are spent
\* than were issued.
Paid ==
    /\ Tokens!NeverOverspent
    /\ \A a \in Action : rules[a] = "APPROVAL_REQUIRED" => ran[a] <= spent[a]

LEMMA PaidInductive == TypeOK /\ Checked /\ Paid /\ [Next]_vars => Paid'
<1> SUFFICES ASSUME TypeOK, Checked, Paid, [Next]_vars PROVE Paid'
  OBVIOUS
<1> USE DEF Paid, Tokens!NeverOverspent, TypeOK, Tokens!TypeOK, tokenVars, history
<1>1. ASSUME NEW i \in Incident, GateRefuses(i) PROVE Paid'
  BY <1>1 DEF GateRefuses
<1>2. ASSUME NEW i \in Incident, GatePasses(i) PROVE Paid'
  <2> DEFINE b == action[i]
  <2>1. b \in Action /\ rules[b] = GateLevel(i) /\ GateLevel(i) \in {"SAFE", "APPROVAL_REQUIRED"}
    BY <1>2, PassedIsPermitted
  <2>2. /\ UNCHANGED rules
        /\ ran' = [ran EXCEPT ![b] = @ + 1]
        /\ IF rules[b] = "APPROVAL_REQUIRED" THEN Tokens!Spend(b) ELSE UNCHANGED tokenVars
    BY <1>2, <2>1 DEF GatePasses, ToolStarts
  <2> HIDE DEF b
  <2>3. CASE rules[b] = "APPROVAL_REQUIRED"
    BY <2>1, <2>2, <2>3 DEF Tokens!Spend
  <2>4. CASE rules[b] # "APPROVAL_REQUIRED"
    BY <2>1, <2>2, <2>4
  <2>5. QED
    BY <2>3, <2>4
<1>3. ASSUME NEW i \in Incident, ToolFails(i) PROVE Paid'
  BY <1>3 DEF ToolFails
<1>4. ASSUME NEW i \in Incident, ToolSucceeds(i) PROVE Paid'
  BY <1>4 DEF ToolSucceeds
<1>5. ASSUME NEW i \in Incident, Retry(i) PROVE Paid'
  BY <1>5 DEF Retry
<1>6. ASSUME NEW i \in Incident, AuditThrows(i) PROVE Paid'
  BY <1>6 DEF AuditThrows
<1>7. ASSUME NEW i \in Incident, Observe(i) PROVE Paid'
  BY <1>7 DEF Observe, EndNotified
<1>8. ASSUME NEW i \in Incident, ObserveWithoutRecovery(i) PROVE Paid'
  BY <1>8 DEF ObserveWithoutRecovery, EndNotified
<1>8b. ASSUME NEW i \in Incident, CreationThrows(i) PROVE Paid'
  BY <1>8b DEF CreationThrows
<1>9. ASSUME NEW i \in Incident, ReturnFailed(i) PROVE Paid'
  BY <1>9 DEF ReturnFailed
<1>10. ASSUME NEW i \in Incident, ReturnDone(i) PROVE Paid'
  BY <1>10 DEF ReturnDone
<1>11. ASSUME NEW i \in Incident, FetchFails(i) PROVE Paid'
  BY <1>11 DEF FetchFails
<1>12. ASSUME NEW i \in Incident, Verify(i) PROVE Paid'
  BY <1>12 DEF Verify, EndNotified
<1>13. ASSUME NEW i \in Operated, NEW s \in IncidentStatus, OperatorMoves(i, s) PROVE Paid'
  BY <1>13 DEF OperatorMoves
<1>14. ASSUME NEW i \in Operated, NEW o \in Observation, OperatorResolves(i, o) PROVE Paid'
  BY <1>14 DEF OperatorResolves
<1>15. ASSUME NEW a \in Action, OwnerGrants(a) PROVE Paid'
  BY <1>15 DEF OwnerGrants, Tokens!Issue
<1>16. ASSUME NEW a \in Action, TokenLapses(a) PROVE Paid'
  BY <1>16 DEF TokenLapses
<1>17. CASE UNCHANGED vars
  BY <1>17 DEF vars
<1>18. QED
  BY <1>1, <1>2, <1>3, <1>4, <1>5, <1>6, <1>7, <1>8, <1>8b, <1>9,
     <1>10, <1>11, <1>12, <1>13, <1>14, <1>15, <1>16, <1>17
     DEF Next, Continue

\* However many incidents want the same guarded action, it runs at most once
\* for every approval.
THEOREM GuardedRunsPaidAlways == Spec => []GuardedRunsPaid
<1>1. Init => TypeOK /\ Checked /\ Paid
  <2>1. Init => Checked
    BY DEF Init, Checked, InAction
  <2>2. Init => Paid
    BY DEF Init, Paid, Tokens!Init, Tokens!NeverOverspent
  <2>3. QED
    BY <2>1, <2>2, InitTypes
<1>2. TypeOK /\ Paid => GuardedRunsPaid
  <2> SUFFICES ASSUME TypeOK, Paid, NEW a \in Action, rules[a] = "APPROVAL_REQUIRED"
               PROVE  ran[a] <= issued[a]
    BY DEF GuardedRunsPaid
  <2>1. spent[a] \in Nat /\ issued[a] \in Nat /\ ran[a] \in Nat
    BY DEF TypeOK, Tokens!TypeOK
  <2>2. ran[a] <= spent[a] /\ spent[a] <= issued[a]
    BY <2>1 DEF Paid, Tokens!NeverOverspent
  <2>3. QED
    BY <2>1, <2>2
<1>3. QED
  BY <1>1, <1>2, TypeInductive, CheckedInductive, PaidInductive, PTL DEF Spec

-----------------------------------------------------------------------------
(* How often. *)

\* Every run of the tool but the last is followed by a counted retry.
Counted ==
    \A i \in Incident :
        /\ runs[i] <= used[i] + 1
        /\ pc[i] \in {"idle", "gate", "retry", "refused"} => runs[i] <= used[i]
        /\ pc[i] = "idle" => runs[i] = 0

LEMMA CountedInductive == TypeOK /\ Counted /\ [Next]_vars => Counted'
<1> SUFFICES ASSUME TypeOK, Counted, [Next]_vars PROVE Counted'
  OBVIOUS
<1>a. /\ pc \in [Incident -> {"idle", "fetch", "ended"} \cup InAction]
      /\ used \in [Incident -> Nat]
      /\ runs \in [Incident -> Nat]
  BY IncidentsAssumption DEF TypeOK
<1> USE DEF Counted, incidentVars, handlerVars, history, Goto, End
<1>1. ASSUME NEW i \in Incident, GateRefuses(i) PROVE Counted'
  BY <1>1, <1>a DEF GateRefuses, Fails
<1>2. ASSUME NEW i \in Incident, GatePasses(i) PROVE Counted'
  BY <1>2, <1>a DEF GatePasses, ToolStarts
<1>3. ASSUME NEW i \in Incident, ToolFails(i) PROVE Counted'
  BY <1>3, <1>a DEF ToolFails, Fails
<1>4. ASSUME NEW i \in Incident, ToolSucceeds(i) PROVE Counted'
  BY <1>4, <1>a DEF ToolSucceeds
<1>5. ASSUME NEW i \in Incident, Retry(i) PROVE Counted'
  <2>1. UNCHANGED <<used, runs>>
    BY <1>5, <1>a DEF Retry, Attempt
  <2>2. QED
    BY <1>5, <1>a, <2>1 DEF Retry, Attempt
<1>6. ASSUME NEW i \in Incident, AuditThrows(i) PROVE Counted'
  BY <1>6, <1>a DEF AuditThrows
<1>7. ASSUME NEW i \in Incident, Observe(i) PROVE Counted'
  BY <1>7, <1>a DEF Observe, EndNotified, Attempt
<1>8. ASSUME NEW i \in Incident, ObserveWithoutRecovery(i) PROVE Counted'
  BY <1>8, <1>a DEF ObserveWithoutRecovery, EndNotified
<1>8b. ASSUME NEW i \in Incident, CreationThrows(i) PROVE Counted'
  BY <1>8b, <1>a DEF CreationThrows
<1>9. ASSUME NEW i \in Incident, ReturnFailed(i) PROVE Counted'
  BY <1>9, <1>a DEF ReturnFailed, EndWith, EndNotified
<1>10. ASSUME NEW i \in Incident, ReturnDone(i) PROVE Counted'
  BY <1>10, <1>a DEF ReturnDone
<1>11. ASSUME NEW i \in Incident, FetchFails(i) PROVE Counted'
  BY <1>11, <1>a DEF FetchFails
<1>12. ASSUME NEW i \in Incident, Verify(i) PROVE Counted'
  <2>1. UNCHANGED <<used, runs>>
    BY <1>12, <1>a DEF Verify, EndNotified
  <2>2. pc' = [pc EXCEPT ![i] = "ended"]
    BY <1>12, <1>a DEF Verify, EndWith, EndNotified
  <2>3. QED
    BY <2>1, <2>2, <1>a
<1>13. ASSUME NEW i \in Operated, NEW s \in IncidentStatus, OperatorMoves(i, s) PROVE Counted'
  BY <1>13, <1>a DEF OperatorMoves
<1>14. ASSUME NEW i \in Operated, NEW o \in Observation, OperatorResolves(i, o) PROVE Counted'
  BY <1>14, <1>a DEF OperatorResolves
<1>15. ASSUME NEW a \in Action, OwnerGrants(a) PROVE Counted'
  BY <1>15, <1>a DEF OwnerGrants
<1>16. ASSUME NEW a \in Action, TokenLapses(a) PROVE Counted'
  BY <1>16, <1>a DEF TokenLapses
<1>17. CASE UNCHANGED vars
  BY <1>17, <1>a DEF vars
<1>18. QED
  BY <1>1, <1>2, <1>3, <1>4, <1>5, <1>6, <1>7, <1>8, <1>8b, <1>9,
     <1>10, <1>11, <1>12, <1>13, <1>14, <1>15, <1>16, <1>17
     DEF Next, Continue

\* The retries of the budget bound the runs of the tool.
THEOREM RunsBoundedAlways == Spec => []RunsBounded
<1>1. Init => TypeOK /\ Counted
  <2>1. Init => Counted
    BY DEF Init, Counted
  <2>2. QED
    BY <2>1, InitTypes
<1>2. TypeOK /\ Counted => RunsBounded
  <2> SUFFICES ASSUME TypeOK, Counted, NEW i \in Incident PROVE runs[i] <= 1 + MaxRetries
    BY DEF RunsBounded
  <2>1. used[i] \in 0..MaxRetries /\ runs[i] \in Nat /\ runs[i] <= used[i] + 1
    BY DEF TypeOK, Counted
  <2>2. QED
    BY <2>1, IncidentsAssumption
<1>3. QED
  BY <1>1, <1>2, TypeInductive, CountedInductive, PTL DEF Spec

-----------------------------------------------------------------------------
(* What a handler says. *)

\* A state that is resolved is not left again, and a handler that is over does
\* nothing more; evidence is never less than healthy.
Proven ==
    \A i \in Incident :
        /\ outcome[i] # "NONE" => pc[i] = "ended"
        /\ pc[i] \in {"done", "fetch"} => i \in succeeded
        /\ evidence[i] # NoEvidence => Health(evidence[i]) = "HEALTHY"
        /\ outcome[i] = "resolved" =>
              status[i] = "RESOLVED" /\ i \in succeeded /\ evidence[i] # NoEvidence
        /\ i \notin touched /\ status[i] = "RESOLVED" =>
              /\ outcome[i] \in {"resolved", "rejected"} /\ i \in succeeded
              /\ evidence[i] # NoEvidence /\ evidence[i].inScope

LEMMA ResolvedIsFinal == ASSUME NEW i, status[i] = "RESOLVED", NEW s PROVE ~Allowed(i, s)
BY DEF Allowed, Transitions

LEMMA HealthyHasNoTrouble ==
  ASSUME NEW o \in Observation, Health(o) = "HEALTHY" PROVE Healthy(o)
BY DEF Observation, Health, Healthy

LEMMA ProvenInductive == TypeOK /\ Proven /\ [Next]_vars => Proven'
<1> SUFFICES ASSUME TypeOK, Proven, [Next]_vars PROVE Proven'
  OBVIOUS
<1> USE DEF Proven, TypeOK, InAction, incidentVars, handlerVars, history, Goto, MoveTo, SetRecord, End
<1>1. ASSUME NEW i \in Incident, GateRefuses(i) PROVE Proven'
  BY <1>1 DEF GateRefuses, Fails
<1>2. ASSUME NEW i \in Incident, GatePasses(i) PROVE Proven'
  BY <1>2 DEF GatePasses, ToolStarts
<1>3. ASSUME NEW i \in Incident, ToolFails(i) PROVE Proven'
  BY <1>3 DEF ToolFails, Fails
<1>4. ASSUME NEW i \in Incident, ToolSucceeds(i) PROVE Proven'
  BY <1>4 DEF ToolSucceeds
<1>5. ASSUME NEW i \in Incident, Retry(i) PROVE Proven'
  BY <1>5 DEF Retry, Attempt
<1>6. ASSUME NEW i \in Incident, AuditThrows(i) PROVE Proven'
  BY <1>6 DEF AuditThrows
<1>7. ASSUME NEW i \in Incident, Observe(i) PROVE Proven'
  BY <1>7 DEF Observe, EndNotified, Attempt
<1>8. ASSUME NEW i \in Incident, ObserveWithoutRecovery(i) PROVE Proven'
  BY <1>8 DEF ObserveWithoutRecovery, EndNotified
<1>8b. ASSUME NEW i \in Incident, CreationThrows(i) PROVE Proven'
  BY <1>8b DEF CreationThrows
<1>9. ASSUME NEW i \in Incident, ReturnFailed(i) PROVE Proven'
  BY <1>9 DEF ReturnFailed, EndWith, EndNotified
<1>10. ASSUME NEW i \in Incident, ReturnDone(i) PROVE Proven'
  BY <1>10 DEF ReturnDone
<1>11. ASSUME NEW i \in Incident, FetchFails(i) PROVE Proven'
  BY <1>11 DEF FetchFails
<1>12. ASSUME NEW i \in Incident, Verify(i) PROVE Proven'
  BY <1>12, IncidentsAssumption DEF Verify, EndWith, EndNotified
<1>13. ASSUME NEW i \in Operated, NEW s \in IncidentStatus, OperatorMoves(i, s) PROVE Proven'
  BY <1>13, IncidentsAssumption, ResolvedIsFinal DEF OperatorMoves
<1>14. ASSUME NEW i \in Operated, NEW o \in Observation, OperatorResolves(i, o) PROVE Proven'
  BY <1>14, IncidentsAssumption, ResolvedIsFinal DEF OperatorResolves
<1>15. ASSUME NEW a \in Action, OwnerGrants(a) PROVE Proven'
  BY <1>15 DEF OwnerGrants
<1>16. ASSUME NEW a \in Action, TokenLapses(a) PROVE Proven'
  BY <1>16 DEF TokenLapses
<1>17. CASE UNCHANGED vars
  BY <1>17 DEF vars
<1>18. QED
  BY <1>1, <1>2, <1>3, <1>4, <1>5, <1>6, <1>7, <1>8, <1>8b, <1>9,
     <1>10, <1>11, <1>12, <1>13, <1>14, <1>15, <1>16, <1>17
     DEF Next, Continue

LEMMA ProvenAlways == Spec => [](TypeOK /\ Proven)
<1>1. Init => Proven
  BY DEF Init, Proven
<1>2. QED
  BY <1>1, InitTypes, TypeInductive, ProvenInductive, PTL DEF Spec

\* What a handler reports as resolved is resolved, for good and on evidence.
THEOREM ResolvedIsProvenAlways == Spec => []ResolvedIsProven
<1>1. TypeOK /\ Proven => ResolvedIsProven
  BY HealthyHasNoTrouble DEF TypeOK, Proven, ResolvedIsProven
<1>2. QED
  BY <1>1, ProvenAlways, PTL

\* Without an operator, a resolved incident rests on what its handler saw in its
\* own scope after its tool had succeeded, even when telling of it threw.
THEOREM ResolvedInScopeAlways == Spec => []ResolvedInScope
<1>1. TypeOK /\ Proven => ResolvedInScope
  BY HealthyHasNoTrouble DEF TypeOK, Proven, ResolvedInScope
<1>2. QED
  BY <1>1, ProvenAlways, PTL

\* What a step must show of the outcomes it changes.
Settles ==
    \A i \in Incident :
        outcome'[i] # outcome[i] =>
            \/ outcome'[i] = "rejected"
            \/ outcome'[i] = "resolved" /\ status'[i] = "RESOLVED"
            \/ outcome'[i] = "unresolved" /\ status'[i] = "ESCALATED"

LEMMA SettledStep == TypeOK /\ [Next]_vars => Settles
<1> SUFFICES ASSUME TypeOK, [Next]_vars PROVE Settles
  OBVIOUS
<1> USE DEF Settles, TypeOK, incidentVars, handlerVars, Goto, MoveTo, End
<1>1. ASSUME NEW i \in Incident, GateRefuses(i) PROVE Settles
  BY <1>1 DEF GateRefuses
<1>2. ASSUME NEW i \in Incident, GatePasses(i) PROVE Settles
  BY <1>2 DEF GatePasses
<1>3. ASSUME NEW i \in Incident, ToolFails(i) PROVE Settles
  BY <1>3 DEF ToolFails
<1>4. ASSUME NEW i \in Incident, ToolSucceeds(i) PROVE Settles
  BY <1>4 DEF ToolSucceeds
<1>5. ASSUME NEW i \in Incident, Retry(i) PROVE Settles
  BY <1>5 DEF Retry
<1>6. ASSUME NEW i \in Incident, AuditThrows(i) PROVE Settles
  BY <1>6 DEF AuditThrows
<1>7. ASSUME NEW i \in Incident, Observe(i) PROVE Settles
  BY <1>7 DEF Observe, EndNotified
<1>8. ASSUME NEW i \in Incident, ObserveWithoutRecovery(i) PROVE Settles
  BY <1>8 DEF ObserveWithoutRecovery, EndNotified
<1>8b. ASSUME NEW i \in Incident, CreationThrows(i) PROVE Settles
  BY <1>8b DEF CreationThrows
<1>9. ASSUME NEW i \in Incident, ReturnFailed(i) PROVE Settles
  BY <1>9 DEF ReturnFailed, EndWith, EndNotified
<1>10. ASSUME NEW i \in Incident, ReturnDone(i) PROVE Settles
  BY <1>10 DEF ReturnDone
<1>11. ASSUME NEW i \in Incident, FetchFails(i) PROVE Settles
  BY <1>11 DEF FetchFails
<1>12. ASSUME NEW i \in Incident, Verify(i) PROVE Settles
  BY <1>12 DEF Verify, EndWith, EndNotified
<1>13. ASSUME NEW i \in Operated, NEW s \in IncidentStatus, OperatorMoves(i, s) PROVE Settles
  BY <1>13 DEF OperatorMoves
<1>14. ASSUME NEW i \in Operated, NEW o \in Observation, OperatorResolves(i, o) PROVE Settles
  BY <1>14 DEF OperatorResolves
<1>15. ASSUME NEW a \in Action, OwnerGrants(a) PROVE Settles
  BY <1>15 DEF OwnerGrants
<1>16. ASSUME NEW a \in Action, TokenLapses(a) PROVE Settles
  BY <1>16 DEF TokenLapses
<1>17. CASE UNCHANGED vars
  BY <1>17 DEF vars
<1>18. QED
  BY <1>1, <1>2, <1>3, <1>4, <1>5, <1>6, <1>7, <1>8, <1>8b, <1>9,
     <1>10, <1>11, <1>12, <1>13, <1>14, <1>15, <1>16, <1>17
     DEF Next, Continue

\* Every handler that returns leaves its incident where it says.
THEOREM ReturnsSettledAlways == Spec => ReturnsSettled
<1>1. TypeOK /\ [Next]_vars => [Settles]_vars
  BY SettledStep
<1>2. QED
  BY <1>1, TypeCorrect, PTL DEF Spec, ReturnsSettled, Settles
-----------------------------------------------------------------------------
(* The approvals of recovery actions are single-use tokens. *)

\* Everything handlers and the owner do to approvals is what SingleUseTokens
\* allows; module Approvals shows that the manager and its table implement the
\* same specification.
THEOREM UsesTokens == Spec => Tokens!Spec
<1>1. Init => Tokens!Init
  BY DEF Init
<1>2. TypeOK /\ [Next]_vars => [Tokens!Next]_(Tokens!vars)
  <2> SUFFICES ASSUME TypeOK, [Next]_vars PROVE [Tokens!Next]_(Tokens!vars)
    OBVIOUS
  <2> USE DEF Tokens!vars, tokenVars
  <2>1. ASSUME NEW i \in Incident, GatePasses(i) PROVE [Tokens!Next]_(Tokens!vars)
    <3>1. CASE GateLevel(i) = "APPROVAL_REQUIRED"
      <4>1. action[i] \in Action /\ Tokens!Spend(action[i])
        BY <2>1, <3>1 DEF GatePasses, TypeOK
      <4>2. QED
        BY <4>1 DEF Tokens!Next
    <3>2. CASE GateLevel(i) # "APPROVAL_REQUIRED"
      BY <2>1, <3>2 DEF GatePasses
    <3>3. QED
      BY <3>1, <3>2
  <2>2. ASSUME NEW i \in Incident, Continue(i), ~GatePasses(i) PROVE UNCHANGED Tokens!vars
    BY <2>2 DEF Continue, GateRefuses, ToolFails, ToolSucceeds, Retry, AuditThrows, ReturnFailed,
                ReturnDone, FetchFails, Verify
  <2>3. ASSUME NEW i \in Incident, Observe(i) \/ ObserveWithoutRecovery(i) \/ CreationThrows(i)
        PROVE  UNCHANGED Tokens!vars
    BY <2>3 DEF Observe, ObserveWithoutRecovery, EndNotified, CreationThrows
  <2>4. ASSUME NEW i \in Operated, NEW t \in IncidentStatus, OperatorMoves(i, t)
        PROVE  UNCHANGED Tokens!vars
    BY <2>4 DEF OperatorMoves
  <2>5. ASSUME NEW i \in Operated, NEW o \in Observation, OperatorResolves(i, o)
        PROVE  UNCHANGED Tokens!vars
    BY <2>5 DEF OperatorResolves
  <2>6. ASSUME NEW a \in Action, OwnerGrants(a) PROVE Tokens!Next
    BY <2>6 DEF OwnerGrants, Tokens!Next
  <2>7. ASSUME NEW a \in Action, TokenLapses(a) PROVE Tokens!Next
    BY <2>7 DEF TokenLapses, Tokens!Next, Tokens!Withdraw
  <2>8. CASE UNCHANGED vars
    BY <2>8 DEF vars
  <2>9. QED
    BY <2>1, <2>2, <2>3, <2>4, <2>5, <2>6, <2>7, <2>8 DEF Next
<1>3. QED
  BY <1>1, <1>2, TypeCorrect, PTL DEF Spec, Tokens!Spec

-----------------------------------------------------------------------------
(* Every handler gets nearer to its end. *)

\* How far a handler is from its end: six awaits for each retry that is left,
\* and those of this attempt and of what follows it.
Distance(i) ==
    IF pc[i] = "idle" THEN 6 * MaxRetries + 6
    ELSE 6 * (MaxRetries - used[i]) +
           (CASE pc[i] = "retry" -> 5 [] pc[i] = "gate" -> 4 [] pc[i] = "tool" -> 3
              [] pc[i] \in {"refused", "failed", "done"} -> 2 [] pc[i] = "fetch" -> 1
              [] pc[i] = "ended" -> 0)

\* Every step of its own brings a handler nearer to its end, and nothing that
\* other handlers, the owner or an operator do sets it back.
Advances(i) ==
    /\ Distance(i) \in 0..(6 * MaxRetries + 6)
    /\ Continue(i) => Distance(i)' < Distance(i)
    /\ Distance(i)' < Distance(i) \/ UNCHANGED <<pc[i], used[i]>>

LEMMA DistanceTypes ==
  ASSUME TypeOK, NEW i \in Incident
  PROVE  Distance(i) \in 0..(6 * MaxRetries + 6)
<1>1. MaxRetries \in Nat /\ used[i] \in 0..MaxRetries
  BY IncidentsAssumption DEF TypeOK
<1>2. pc[i] \in {"idle", "fetch", "ended", "gate", "tool", "retry", "refused", "failed", "done"}
  BY DEF TypeOK, InAction
<1>3. QED
  BY <1>1, <1>2 DEF Distance

\* A step of its own.
LEMMA ContinueCloser ==
  ASSUME TypeOK, NEW i \in Incident, Continue(i)
  PROVE  Distance(i)' < Distance(i)
<1>a. MaxRetries \in Nat /\ used[i] \in 0..MaxRetries
  BY IncidentsAssumption DEF TypeOK
<1> USE DEF TypeOK, Goto, End, Distance
<1>1. ASSUME pc[i] \in {"gate", "tool"}, Fails(i) PROVE Distance(i)' < Distance(i)
  <2>1. CASE used[i] < MaxRetries /\ used' = [used EXCEPT ![i] = @ + 1] /\ Goto(i, "retry")
    BY <1>1, <1>a, <2>1
  <2>2. CASE Goto(i, "failed") /\ UNCHANGED used
    BY <1>1, <1>a, <2>2
  <2>3. QED
    BY <1>1, <2>1, <2>2 DEF Fails
<1>2. CASE GateRefuses(i) \/ ToolFails(i)
  BY <1>1, <1>2 DEF GateRefuses, ToolFails
<1>3. CASE GatePasses(i)
  BY <1>3, <1>a DEF GatePasses, ToolStarts
<1>4. CASE ToolSucceeds(i)
  BY <1>4, <1>a DEF ToolSucceeds
<1>5. CASE Retry(i)
  BY <1>5, <1>a DEF Retry, Attempt
<1>6. CASE AuditThrows(i)
  BY <1>6, <1>a DEF AuditThrows
<1>7. CASE ReturnFailed(i)
  BY <1>7, <1>a DEF ReturnFailed, EndWith, EndNotified
<1>8. CASE ReturnDone(i)
  BY <1>8, <1>a DEF ReturnDone
<1>9. CASE FetchFails(i)
  BY <1>9, <1>a DEF FetchFails
<1>10. CASE Verify(i)
  <2>1. pc'[i] = "ended" /\ used' = used /\ pc[i] = "fetch"
    BY <1>10 DEF Verify, EndWith, EndNotified
  <2>2. QED
    BY <2>1, <1>a
<1>11. QED
  BY <1>2, <1>3, <1>4, <1>5, <1>6, <1>7, <1>8, <1>9, <1>10 DEF Continue

\* What others do leaves a handler where it is.
LEMMA OthersLeave ==
  ASSUME TypeOK, NEW i \in Incident, NEW j \in Incident, j # i,
         Continue(j) \/ Observe(j) \/ ObserveWithoutRecovery(j) \/ CreationThrows(j)
  PROVE  UNCHANGED <<pc[i], used[i]>>
<1> USE DEF TypeOK, Goto, End
<1>1. CASE GateRefuses(j) \/ ToolFails(j)
  BY <1>1 DEF GateRefuses, ToolFails, Fails
<1>2. CASE GatePasses(j) \/ ToolSucceeds(j)
  BY <1>2 DEF GatePasses, ToolSucceeds, ToolStarts
<1>3. CASE Retry(j)
  BY <1>3 DEF Retry, Attempt
<1>4. CASE AuditThrows(j) \/ FetchFails(j)
  BY <1>4 DEF AuditThrows, FetchFails
<1>5. CASE ReturnFailed(j) \/ ReturnDone(j)
  BY <1>5 DEF ReturnFailed, ReturnDone, EndWith, EndNotified
<1>6. CASE Verify(j)
  BY <1>6 DEF Verify, EndWith, EndNotified
<1>7. CASE Observe(j)
  BY <1>7 DEF Observe, EndNotified, Attempt
<1>8. CASE ObserveWithoutRecovery(j) \/ CreationThrows(j)
  BY <1>8 DEF ObserveWithoutRecovery, EndNotified, CreationThrows
<1>9. QED
  BY <1>1, <1>2, <1>3, <1>4, <1>5, <1>6, <1>7, <1>8 DEF Continue

\* However its retries, the gates and other handlers turn out, a handler takes
\* at most 6 * MaxRetries + 6 steps from the observation to its end.
THEOREM HandlersAdvance == Spec => [][\A i \in Incident : Advances(i)]_vars
<1>1. TypeOK /\ [Next]_vars => [\A i \in Incident : Advances(i)]_vars
  <2> SUFFICES ASSUME TypeOK, Next, NEW i \in Incident PROVE Advances(i)
    OBVIOUS
  <2>a. MaxRetries \in Nat /\ used[i] \in 0..MaxRetries
    BY IncidentsAssumption DEF TypeOK
  <2>1. ASSUME Observe(i) PROVE Distance(i)' < Distance(i)
    BY <2>1, <2>a DEF Observe, EndNotified, Attempt, End, Goto, Distance, TypeOK
  <2>2. ASSUME ObserveWithoutRecovery(i) \/ CreationThrows(i) PROVE Distance(i)' < Distance(i)
    BY <2>2, <2>a DEF ObserveWithoutRecovery, EndNotified, CreationThrows, End, Goto, Distance, TypeOK
  <2>3. ASSUME NEW k \in Operated, NEW t \in IncidentStatus, OperatorMoves(k, t)
        PROVE  UNCHANGED <<pc[i], used[i]>>
    BY <2>3 DEF OperatorMoves, handlerVars
  <2>4. ASSUME NEW k \in Operated, NEW o \in Observation, OperatorResolves(k, o)
        PROVE  UNCHANGED <<pc[i], used[i]>>
    BY <2>4 DEF OperatorResolves, handlerVars
  <2>5. ASSUME NEW a \in Action, OwnerGrants(a) \/ TokenLapses(a)
        PROVE  UNCHANGED <<pc[i], used[i]>>
    BY <2>5 DEF OwnerGrants, TokenLapses, handlerVars
  <2>6. Distance(i)' < Distance(i) \/ UNCHANGED <<pc[i], used[i]>>
    BY <2>1, <2>2, <2>3, <2>4, <2>5, ContinueCloser, OthersLeave DEF Next
  <2>7. QED
    BY <2>6, DistanceTypes, ContinueCloser DEF Advances
<1>2. QED
  BY <1>1, TypeCorrect, PTL DEF Spec

-----------------------------------------------------------------------------
(* The probe that asks for an observation, and its two callers: module      *)
(* Diagnosis, with names of its own where both modules use the same ones.   *)

CONSTANTS Origin, Inner, Covers, Timeout

VARIABLES
    kind, items, safe, listed, anyOrigin, stage, report, result, net, at,
    redirects, left, code, probe, begun, carried, connections, elapsed, audited

D == INSTANCE Diagnosis WITH pc <- stage, ran <- begun

\* Where a call stands: the probe is asked once, sends once per redirect and
\* spends its time from one deadline.
Asking ==
    /\ stage \in {"start", "denial", "git", "http"} =>
          net = "off" /\ probe = "none" /\ connections = 0
    /\ net # "off" => stage = "probing" /\ probe = "none"
    /\ net = "dns" => connections = redirects
    /\ net \in {"sent", "body"} => connections = redirects + 1
    /\ elapsed + left = Timeout

\* Beyond the first request only origins listed by name are visited.
Addressed ==
    net # "off" => \/ at \in listed
                   \/ /\ anyOrigin /\ redirects = 0
                      /\ net = "dns" \/ (at \in Inner => D!Exempt(at))

\* What may be said of the remote service, and of a call that was denied.
Answered ==
    /\ net = "body" /\ code = "ok" => redirects \in carried
    /\ probe = "ok" => redirects \in carried
    /\ stage \in {"denial", "git", "http", "health", "audit"} => kind = "worker"
    /\ stage \in {"start", "denial"} => begun = {}
    /\ result # "none" => stage = "ended"

\* The types are inductive with the place of the call.
LEMMA DiagnosisTypes ==
  ASSUME Timeout \in Nat \ {0}, D!TypeOK, Asking, [D!Next]_(D!vars)
  PROVE  D!TypeOK'
<1> USE DEF D!TypeOK, D!Tool, D!MaxRedirects, D!inputs, D!probeVars, Asking
<1>1. CASE D!Authorize
  BY <1>1 DEF D!Authorize
<1>2. CASE D!Deny
  BY <1>2 DEF D!Deny
<1>3. CASE D!GitAnswers
  BY <1>3 DEF D!GitAnswers, D!Say
<1>4. CASE D!HttpSkipped
  BY <1>4 DEF D!HttpSkipped, D!Say
<1>5. CASE D!HttpThrows
  BY <1>5 DEF D!HttpThrows
<1>6. ASSUME NEW o \in Origin, D!HttpProbe(o) PROVE D!TypeOK'
  BY <1>6 DEF D!HttpProbe, D!Visit, D!Settle
<1>7. CASE D!HttpAnswers
  BY <1>7 DEF D!HttpAnswers, D!Say
<1>8. CASE D!Health
  <2>1. report' \in [{"git", "http", "health"} -> {"none", "OK", "FAIL", "UNAVAILABLE"}]
    BY <1>8 DEF D!Health, D!Say
  <2>2. begun' \subseteq D!Tool /\ stage' = "audit"
    BY <1>8 DEF D!Health
  <2>3. QED
    BY <1>8, <2>1, <2>2 DEF D!Health
<1>9. CASE D!Complete
  BY <1>9 DEF D!Complete
<1>10. CASE D!AdapterRefuses
  BY <1>10 DEF D!AdapterRefuses
<1>11. ASSUME NEW o \in Origin, D!AdapterProbes(o) PROVE D!TypeOK'
  BY <1>11 DEF D!AdapterProbes, D!Visit, D!Settle
<1>12. CASE D!AdapterAnswers
  BY <1>12 DEF D!AdapterAnswers
<1>13. CASE D!Abort
  BY <1>13 DEF D!Abort, D!Settle
<1>14. CASE D!Resolve
  BY <1>14 DEF D!Resolve, D!Settle
<1>15. CASE D!CarryOut
  BY <1>15 DEF D!CarryOut
<1>16. ASSUME NEW c \in {"ok", "refused", "error"}, D!Respond(c) PROVE D!TypeOK'
  BY <1>16 DEF D!Respond
<1>17. ASSUME NEW o \in Origin, D!Redirect(o) PROVE D!TypeOK'
  BY <1>17 DEF D!Redirect, D!Visit, D!Settle
<1>18. CASE D!Break
  BY <1>18 DEF D!Break, D!Settle
<1>19. CASE D!BodyEnds
  BY <1>19 DEF D!BodyEnds, D!Settle
<1>20. CASE D!Tick
  BY <1>20 DEF D!Tick
<1>21. CASE UNCHANGED D!vars
  BY <1>21 DEF D!vars
<1>22. QED
  BY <1>1, <1>2, <1>3, <1>4, <1>5, <1>6, <1>7, <1>8, <1>9, <1>10, <1>11, <1>12, <1>13,
     <1>14, <1>15, <1>16, <1>17, <1>18, <1>19, <1>20, <1>21 DEF D!Next, D!Proceed,
     D!Network

\* The place of a call is inductive.
LEMMA AskingInductive ==
  ASSUME Timeout \in Nat \ {0}, D!TypeOK, Asking, [D!Next]_(D!vars)
  PROVE  Asking'
<1> USE DEF D!TypeOK, D!Tool, D!MaxRedirects, D!inputs, D!probeVars, Asking
<1>1. CASE D!Authorize
  BY <1>1 DEF D!Authorize
<1>2. CASE D!Deny
  BY <1>2 DEF D!Deny
<1>3. CASE D!GitAnswers
  BY <1>3 DEF D!GitAnswers, D!Say
<1>4. CASE D!HttpSkipped
  BY <1>4 DEF D!HttpSkipped, D!Say
<1>5. CASE D!HttpThrows
  BY <1>5 DEF D!HttpThrows
<1>6. ASSUME NEW o \in Origin, D!HttpProbe(o) PROVE Asking'
  BY <1>6 DEF D!HttpProbe, D!Visit, D!Settle
<1>7. CASE D!HttpAnswers
  BY <1>7 DEF D!HttpAnswers, D!Say
<1>8. CASE D!Health
  BY <1>8 DEF D!Health, D!Say
<1>9. CASE D!Complete
  BY <1>9 DEF D!Complete
<1>10. CASE D!AdapterRefuses
  BY <1>10 DEF D!AdapterRefuses
<1>11. ASSUME NEW o \in Origin, D!AdapterProbes(o) PROVE Asking'
  BY <1>11 DEF D!AdapterProbes, D!Visit, D!Settle
<1>12. CASE D!AdapterAnswers
  BY <1>12 DEF D!AdapterAnswers
<1>13. CASE D!Abort
  BY <1>13 DEF D!Abort, D!Settle
<1>14. CASE D!Resolve
  BY <1>14 DEF D!Resolve, D!Settle
<1>15. CASE D!CarryOut
  BY <1>15 DEF D!CarryOut
<1>16. ASSUME NEW c \in {"ok", "refused", "error"}, D!Respond(c) PROVE Asking'
  BY <1>16 DEF D!Respond
<1>17. ASSUME NEW o \in Origin, D!Redirect(o) PROVE Asking'
  BY <1>17 DEF D!Redirect, D!Visit, D!Settle
<1>18. CASE D!Break
  BY <1>18 DEF D!Break, D!Settle
<1>19. CASE D!BodyEnds
  BY <1>19 DEF D!BodyEnds, D!Settle
<1>20. CASE D!Tick
  BY <1>20 DEF D!Tick
<1>21. CASE UNCHANGED D!vars
  BY <1>21 DEF D!vars
<1>22. QED
  BY <1>1, <1>2, <1>3, <1>4, <1>5, <1>6, <1>7, <1>8, <1>9, <1>10, <1>11, <1>12, <1>13,
     <1>14, <1>15, <1>16, <1>17, <1>18, <1>19, <1>20, <1>21 DEF D!Next, D!Proceed,
     D!Network

\* So is the address.
LEMMA AddressedInductive ==
  ASSUME Timeout \in Nat \ {0}, D!TypeOK, Asking, Addressed, [D!Next]_(D!vars)
  PROVE  Addressed'
<1> USE DEF D!TypeOK, D!Tool, D!MaxRedirects, D!inputs, D!probeVars, D!Exempt, Asking, Addressed
<1>1. CASE D!Authorize
  BY <1>1 DEF D!Authorize
<1>2. CASE D!Deny
  BY <1>2 DEF D!Deny
<1>3. CASE D!GitAnswers
  BY <1>3 DEF D!GitAnswers, D!Say
<1>4. CASE D!HttpSkipped
  BY <1>4 DEF D!HttpSkipped, D!Say
<1>5. CASE D!HttpThrows
  BY <1>5 DEF D!HttpThrows
<1>6. ASSUME NEW o \in Origin, D!HttpProbe(o) PROVE Addressed'
  BY <1>6 DEF D!HttpProbe, D!Visit, D!Settle, D!Allowed
<1>7. CASE D!HttpAnswers
  BY <1>7 DEF D!HttpAnswers, D!Say
<1>8. CASE D!Health
  BY <1>8 DEF D!Health, D!Say
<1>9. CASE D!Complete
  BY <1>9 DEF D!Complete
<1>10. CASE D!AdapterRefuses
  BY <1>10 DEF D!AdapterRefuses
<1>11. ASSUME NEW o \in Origin, D!AdapterProbes(o) PROVE Addressed'
  BY <1>11 DEF D!AdapterProbes, D!Visit, D!Settle, D!Allowed
<1>12. CASE D!AdapterAnswers
  BY <1>12 DEF D!AdapterAnswers
<1>13. CASE D!Abort
  BY <1>13 DEF D!Abort, D!Settle
<1>14. CASE D!Resolve
  BY <1>14 DEF D!Resolve, D!Settle
<1>15. CASE D!CarryOut
  BY <1>15 DEF D!CarryOut
<1>16. ASSUME NEW c \in {"ok", "refused", "error"}, D!Respond(c) PROVE Addressed'
  BY <1>16 DEF D!Respond
<1>17. ASSUME NEW o \in Origin, D!Redirect(o) PROVE Addressed'
  BY <1>17 DEF D!Redirect, D!Visit, D!Settle
<1>18. CASE D!Break
  BY <1>18 DEF D!Break, D!Settle
<1>19. CASE D!BodyEnds
  BY <1>19 DEF D!BodyEnds, D!Settle
<1>20. CASE D!Tick
  BY <1>20 DEF D!Tick
<1>21. CASE UNCHANGED D!vars
  BY <1>21 DEF D!vars
<1>22. QED
  BY <1>1, <1>2, <1>3, <1>4, <1>5, <1>6, <1>7, <1>8, <1>9, <1>10, <1>11, <1>12, <1>13,
     <1>14, <1>15, <1>16, <1>17, <1>18, <1>19, <1>20, <1>21 DEF D!Next, D!Proceed,
     D!Network

\* So is what may be said.
LEMMA AnsweredInductive ==
  ASSUME Timeout \in Nat \ {0}, D!TypeOK, Asking, Answered, [D!Next]_(D!vars)
  PROVE  Answered'
<1> USE DEF D!TypeOK, D!Tool, D!MaxRedirects, D!inputs, D!probeVars, Asking, Answered
<1>1. CASE D!Authorize
  BY <1>1 DEF D!Authorize
<1>2. CASE D!Deny
  BY <1>2 DEF D!Deny
<1>3. CASE D!GitAnswers
  BY <1>3 DEF D!GitAnswers, D!Say
<1>4. CASE D!HttpSkipped
  BY <1>4 DEF D!HttpSkipped, D!Say
<1>5. CASE D!HttpThrows
  BY <1>5 DEF D!HttpThrows
<1>6. ASSUME NEW o \in Origin, D!HttpProbe(o) PROVE Answered'
  BY <1>6 DEF D!HttpProbe, D!Visit, D!Settle
<1>7. CASE D!HttpAnswers
  BY <1>7 DEF D!HttpAnswers, D!Say
<1>8. CASE D!Health
  BY <1>8 DEF D!Health, D!Say
<1>9. CASE D!Complete
  BY <1>9 DEF D!Complete
<1>10. CASE D!AdapterRefuses
  BY <1>10 DEF D!AdapterRefuses
<1>11. ASSUME NEW o \in Origin, D!AdapterProbes(o) PROVE Answered'
  BY <1>11 DEF D!AdapterProbes, D!Visit, D!Settle
<1>12. CASE D!AdapterAnswers
  BY <1>12 DEF D!AdapterAnswers
<1>13. CASE D!Abort
  BY <1>13 DEF D!Abort, D!Settle
<1>14. CASE D!Resolve
  BY <1>14 DEF D!Resolve, D!Settle
<1>15. CASE D!CarryOut
  BY <1>15 DEF D!CarryOut
<1>16. ASSUME NEW c \in {"ok", "refused", "error"}, D!Respond(c) PROVE Answered'
  BY <1>16 DEF D!Respond
<1>17. ASSUME NEW o \in Origin, D!Redirect(o) PROVE Answered'
  BY <1>17 DEF D!Redirect, D!Visit, D!Settle
<1>18. CASE D!Break
  BY <1>18 DEF D!Break, D!Settle
<1>19. CASE D!BodyEnds
  BY <1>19 DEF D!BodyEnds, D!Settle
<1>20. CASE D!Tick
  BY <1>20 DEF D!Tick
<1>21. CASE UNCHANGED D!vars
  BY <1>21 DEF D!vars
<1>22. QED
  BY <1>1, <1>2, <1>3, <1>4, <1>5, <1>6, <1>7, <1>8, <1>9, <1>10, <1>11, <1>12, <1>13,
     <1>14, <1>15, <1>16, <1>17, <1>18, <1>19, <1>20, <1>21 DEF D!Next, D!Proceed,
     D!Network

\* So is the truth of the answer.
LEMMA AnswerInductive ==
  ASSUME Timeout \in Nat \ {0}, D!TypeOK, Asking, Answered, D!AnswerIsTrue,
         [D!Next]_(D!vars)
  PROVE  D!AnswerIsTrue'
<1> USE DEF D!inputs, D!probeVars, Asking, Answered, D!AnswerIsTrue
<1>1. CASE D!Authorize
  BY <1>1 DEF D!Authorize
<1>2. CASE D!Deny
  BY <1>2 DEF D!Deny
<1>3. CASE D!GitAnswers
  BY <1>3 DEF D!GitAnswers, D!Say
<1>4. CASE D!HttpSkipped
  BY <1>4 DEF D!HttpSkipped, D!Say
<1>5. CASE D!HttpThrows
  BY <1>5 DEF D!HttpThrows
<1>6. ASSUME NEW o \in Origin, D!HttpProbe(o) PROVE D!AnswerIsTrue'
  BY <1>6 DEF D!HttpProbe, D!Visit, D!Settle
<1>7. CASE D!HttpAnswers
  BY <1>7 DEF D!HttpAnswers, D!Say
<1>8. CASE D!Health
  BY <1>8 DEF D!Health, D!Say
<1>9. CASE D!Complete
  BY <1>9 DEF D!Complete
<1>10. CASE D!AdapterRefuses
  BY <1>10 DEF D!AdapterRefuses
<1>11. ASSUME NEW o \in Origin, D!AdapterProbes(o) PROVE D!AnswerIsTrue'
  BY <1>11 DEF D!AdapterProbes, D!Visit, D!Settle
<1>12. CASE D!AdapterAnswers
  BY <1>12 DEF D!AdapterAnswers
<1>13. CASE D!Abort
  BY <1>13 DEF D!Abort, D!Settle
<1>14. CASE D!Resolve
  BY <1>14 DEF D!Resolve, D!Settle
<1>15. CASE D!CarryOut
  BY <1>15 DEF D!CarryOut
<1>16. ASSUME NEW c \in {"ok", "refused", "error"}, D!Respond(c) PROVE D!AnswerIsTrue'
  BY <1>16 DEF D!Respond
<1>17. ASSUME NEW o \in Origin, D!Redirect(o) PROVE D!AnswerIsTrue'
  BY <1>17 DEF D!Redirect, D!Visit, D!Settle
<1>18. CASE D!Break
  BY <1>18 DEF D!Break, D!Settle
<1>19. CASE D!BodyEnds
  BY <1>19 DEF D!BodyEnds, D!Settle
<1>20. CASE D!Tick
  BY <1>20 DEF D!Tick
<1>21. CASE UNCHANGED D!vars
  BY <1>21 DEF D!vars
<1>22. QED
  BY <1>1, <1>2, <1>3, <1>4, <1>5, <1>6, <1>7, <1>8, <1>9, <1>10, <1>11, <1>12, <1>13,
     <1>14, <1>15, <1>16, <1>17, <1>18, <1>19, <1>20, <1>21 DEF D!Next, D!Proceed,
     D!Network

\* Only a lookup that was answered in time, for an address that may be
\* visited, sends a request.
LEMMA SendsStep ==
  ASSUME Timeout \in Nat \ {0}, D!TypeOK, Asking, Addressed, [D!Next]_(D!vars),
         connections' # connections
  PROVE  /\ elapsed < Timeout
         /\ connections' <= D!MaxRedirects
         /\ \/ at \in listed
            \/ anyOrigin /\ connections = 0 /\ (at \in Inner => D!Exempt(at))
<1> USE DEF D!TypeOK, D!MaxRedirects, D!inputs, D!probeVars, Asking, Addressed
<1>1. CASE D!Authorize
  BY <1>1 DEF D!Authorize
<1>2. CASE D!Deny
  BY <1>2 DEF D!Deny
<1>3. CASE D!GitAnswers
  BY <1>3 DEF D!GitAnswers, D!Say
<1>4. CASE D!HttpSkipped
  BY <1>4 DEF D!HttpSkipped, D!Say
<1>5. CASE D!HttpThrows
  BY <1>5 DEF D!HttpThrows
<1>6. ASSUME NEW o \in Origin, D!HttpProbe(o) PROVE connections' = connections
  BY <1>6 DEF D!HttpProbe, D!Visit, D!Settle
<1>7. CASE D!HttpAnswers
  BY <1>7 DEF D!HttpAnswers, D!Say
<1>8. CASE D!Health
  BY <1>8 DEF D!Health, D!Say
<1>9. CASE D!Complete
  BY <1>9 DEF D!Complete
<1>10. CASE D!AdapterRefuses
  BY <1>10 DEF D!AdapterRefuses
<1>11. ASSUME NEW o \in Origin, D!AdapterProbes(o) PROVE connections' = connections
  BY <1>11 DEF D!AdapterProbes, D!Visit, D!Settle
<1>12. CASE D!AdapterAnswers
  BY <1>12 DEF D!AdapterAnswers
<1>13. CASE D!Abort
  BY <1>13 DEF D!Abort, D!Settle
<1>14. CASE D!Resolve
  BY <1>14 DEF D!Resolve, D!Settle
<1>15. CASE D!CarryOut
  BY <1>15 DEF D!CarryOut
<1>16. ASSUME NEW c \in {"ok", "refused", "error"}, D!Respond(c) PROVE connections' = connections
  BY <1>16 DEF D!Respond
<1>17. ASSUME NEW o \in Origin, D!Redirect(o) PROVE connections' = connections
  BY <1>17 DEF D!Redirect, D!Visit, D!Settle
<1>18. CASE D!Break
  BY <1>18 DEF D!Break, D!Settle
<1>19. CASE D!BodyEnds
  BY <1>19 DEF D!BodyEnds, D!Settle
<1>20. CASE D!Tick
  BY <1>20 DEF D!Tick
<1>21. CASE UNCHANGED D!vars
  BY <1>21 DEF D!vars
<1>22. QED
  BY <1>1, <1>2, <1>3, <1>4, <1>5, <1>6, <1>7, <1>8, <1>9, <1>10, <1>11, <1>12, <1>13,
     <1>14, <1>15, <1>16, <1>17, <1>18, <1>19, <1>20, <1>21 DEF D!Next, D!Proceed,
     D!Network

\* The whole invariant holds always.
LEMMA DiagnosisAlways ==
  ASSUME Timeout \in Nat \ {0}
  PROVE  D!Spec => [](D!TypeOK /\ Asking /\ Addressed /\ Answered)
<1>1. D!Init => D!TypeOK /\ Asking /\ Addressed /\ Answered
  <2>1. D!Init => D!TypeOK
    <3> SUFFICES ASSUME D!Init PROVE D!TypeOK
      OBVIOUS
    <3>1. items \subseteq D!Tool /\ safe \subseteq D!Tool
      BY DEF D!Init, D!Tool
    <3>2. /\ stage = "start" /\ result = "none" /\ net = "off" /\ code = "ok" /\ probe = "none"
          /\ report \in [D!Tool -> {"none", "OK", "FAIL", "UNAVAILABLE"}]
      BY DEF D!Init
    <3>3. /\ redirects \in 0..(D!MaxRedirects - 1) /\ connections \in 0..D!MaxRedirects
          /\ left \in 0..Timeout /\ elapsed \in 0..Timeout
      BY DEF D!Init, D!MaxRedirects
    <3>4. QED
      BY <3>1, <3>2, <3>3 DEF D!Init, D!TypeOK
  <2>2. D!Init => Asking
    BY DEF D!Init, Asking
  <2>3. D!Init => Addressed /\ Answered
    BY DEF D!Init, Addressed, Answered
  <2>4. QED
    BY <2>1, <2>2, <2>3
<1>2. /\ D!TypeOK /\ Asking /\ Addressed /\ Answered
      /\ [D!Next]_(D!vars)
      => (D!TypeOK /\ Asking /\ Addressed /\ Answered)'
  BY DiagnosisTypes, AskingInductive, AddressedInductive, AnsweredInductive
<1>3. QED
  BY <1>1, <1>2, PTL DEF D!Spec

\* Whatever the server answers, redirects to or keeps to itself: requests are
\* sent before the one deadline, at most five, and beyond the first only to
\* origins that the list names; a first one under "*" does not go to a private
\* hostname that the list has no entry for.
THEOREM SendsBounded ==
  ASSUME Timeout \in Nat \ {0}
  PROVE  D!Spec => D!SendsWithinBounds
<1>1. D!TypeOK /\ Asking /\ Addressed /\ [D!Next]_(D!vars)
        => [connections' # connections =>
              /\ elapsed < Timeout
              /\ connections' <= D!MaxRedirects
              /\ \/ at \in listed
                 \/ anyOrigin /\ connections = 0 /\ (at \in Inner => D!Exempt(at))]_(D!vars)
  BY SendsStep
<1>2. QED
  BY <1>1, DiagnosisAlways, PTL DEF D!Spec, D!SendsWithinBounds

\* A success that is reported is one, and a diagnosis that is denied has touched
\* nothing.
THEOREM AnswersTruly ==
  ASSUME Timeout \in Nat \ {0}
  PROVE  D!Spec => []D!AnswerIsTrue
<1>1. D!Init => D!AnswerIsTrue
  BY DEF D!Init, D!AnswerIsTrue
<1>2. D!TypeOK /\ Asking /\ Answered /\ D!AnswerIsTrue /\ [D!Next]_(D!vars)
        => D!AnswerIsTrue'
  BY AnswerInductive
<1>3. QED
  BY <1>1, <1>2, DiagnosisAlways, PTL DEF D!Spec

\* How much is left of a call: what the caller still does, the redirects that
\* may still be followed, three awaits each, and the time until the deadline.
Remaining ==
    CASE stage = "start" -> Timeout + 24
      [] stage = "git" -> Timeout + 23
      [] stage = "http" -> Timeout + 22
      [] stage = "probing" /\ net = "dns" -> 21 - 3 * redirects + left
      [] stage = "probing" /\ net = "sent" -> 20 - 3 * redirects + left
      [] stage = "probing" /\ net = "body" -> 19 - 3 * redirects + left
      [] stage = "probing" /\ net = "off" -> 3
      [] stage = "health" -> 2
      [] stage \in {"audit", "denial"} -> 1
      [] stage = "ended" -> 0

LEMMA RemainingTypes ==
  ASSUME Timeout \in Nat \ {0}, D!TypeOK
  PROVE  Remaining \in 0..(Timeout + 24)
<1>1. /\ Timeout \in Nat /\ left \in 0..Timeout /\ redirects \in 0..4
      /\ stage \in {"start", "denial", "git", "http", "probing", "health", "audit", "ended"}
      /\ net \in {"off", "dns", "sent", "body"}
  BY DEF D!TypeOK, D!MaxRedirects
<1>2. CASE stage # "probing"
  BY <1>1, <1>2 DEF Remaining
<1>3. CASE stage = "probing" /\ net = "off"
  BY <1>1, <1>3 DEF Remaining
<1>4. CASE stage = "probing" /\ net \in {"dns", "sent", "body"}
  <2>1. PICK b \in {19, 20, 21} : Remaining = b - 3 * redirects + left
    BY <1>4 DEF Remaining
  <2>2. QED
    BY ONLY <1>1, <2>1, Timeout \in Nat \ {0}
<1>5. QED
  BY <1>1, <1>2, <1>3, <1>4

\* What every step but one does.
LEMMA RemainingStep ==
  ASSUME Timeout \in Nat \ {0}, D!TypeOK, Asking, D!Next, ~D!CarryOut
  PROVE  Remaining' < Remaining
<1>a. /\ Timeout \in Nat /\ left \in 0..Timeout /\ redirects \in 0..4
      /\ stage \in {"start", "denial", "git", "http", "probing", "health", "audit", "ended"}
      /\ net \in {"off", "dns", "sent", "body"}
      /\ net # "off" => stage = "probing"
  BY DEF D!TypeOK, D!MaxRedirects, Asking
<1> USE DEF D!MaxRedirects, D!inputs, D!probeVars, Remaining
<1>1. CASE D!Authorize
  BY <1>1, <1>a DEF D!Authorize
<1>2. CASE D!Deny
  BY <1>2, <1>a DEF D!Deny
<1>3. CASE D!GitAnswers
  BY <1>3, <1>a DEF D!GitAnswers, D!Say
<1>4. CASE D!HttpSkipped
  BY <1>4, <1>a DEF D!HttpSkipped, D!Say
<1>5. CASE D!HttpThrows
  BY <1>5, <1>a DEF D!HttpThrows
<1>6. ASSUME NEW o \in Origin, D!HttpProbe(o) PROVE Remaining' < Remaining
  BY <1>6, <1>a DEF D!HttpProbe, D!Visit, D!Settle
<1>7. CASE D!HttpAnswers
  BY <1>7, <1>a DEF D!HttpAnswers, D!Say
<1>8. CASE D!Health
  BY <1>8, <1>a DEF D!Health, D!Say
<1>9. CASE D!Complete
  BY <1>9, <1>a DEF D!Complete
<1>10. CASE D!AdapterRefuses
  BY <1>10, <1>a DEF D!AdapterRefuses
<1>11. ASSUME NEW o \in Origin, D!AdapterProbes(o) PROVE Remaining' < Remaining
  BY <1>11, <1>a DEF D!AdapterProbes, D!Visit, D!Settle
<1>12. CASE D!AdapterAnswers
  BY <1>12, <1>a DEF D!AdapterAnswers
<1>13. CASE D!Abort
  BY <1>13, <1>a DEF D!Abort, D!Settle
<1>14. CASE D!Resolve
  BY <1>14, <1>a DEF D!Resolve, D!Settle
<1>15. ASSUME NEW c \in {"ok", "refused", "error"}, D!Respond(c) PROVE Remaining' < Remaining
  BY <1>15, <1>a DEF D!Respond
<1>16. ASSUME NEW o \in Origin, D!Redirect(o) PROVE Remaining' < Remaining
  BY <1>16, <1>a DEF D!Redirect, D!Visit, D!Settle
<1>17. CASE D!Break
  BY <1>17, <1>a DEF D!Break, D!Settle
<1>18. CASE D!BodyEnds
  BY <1>18, <1>a DEF D!BodyEnds, D!Settle
<1>19. CASE D!Tick
  BY <1>19, <1>a DEF D!Tick
<1>20. QED
  BY <1>1, <1>2, <1>3, <1>4, <1>5, <1>6, <1>7, <1>8, <1>9, <1>10, <1>11, <1>12, <1>13,
     <1>14, <1>15, <1>16, <1>17, <1>18, <1>19 DEF D!Next, D!Proceed, D!Network

\* Whatever the network and the server do, a call is answered after at most
\* Timeout + 24 steps, awaits and ticks of the clock together; the server may
\* carry a request out once more, which is no step of the call.
THEOREM CallAdvances ==
  ASSUME Timeout \in Nat \ {0}
  PROVE  D!Spec => [][/\ Remaining \in 0..(Timeout + 24)
                      /\ \/ Remaining' < Remaining
                         \/ D!CarryOut /\ Remaining' = Remaining]_(D!vars)
<1>1. D!CarryOut => Remaining' = Remaining
  BY DEF D!CarryOut, Remaining
<1>2. D!TypeOK /\ Asking /\ [D!Next]_(D!vars)
        => [/\ Remaining \in 0..(Timeout + 24)
            /\ \/ Remaining' < Remaining
               \/ D!CarryOut /\ Remaining' = Remaining]_(D!vars)
  BY <1>1, RemainingTypes, RemainingStep
<1>3. QED
  BY <1>2, DiagnosisAlways, PTL DEF D!Spec
=============================================================================
