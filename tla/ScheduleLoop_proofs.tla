------------------------- MODULE ScheduleLoop_proofs -------------------------
(***************************************************************************)
(* Proofs about ScheduleLoop for any number of starts, ticks, schedules,   *)
(* approvals and retries.                                                  *)
(***************************************************************************)
EXTENDS ScheduleLoop, TLAPS

-----------------------------------------------------------------------------
(* Type correctness. *)

\* A call begun or begun again with a number of retries within the budget
\* keeps the types of what describes it.
LEMMA AttemptTypes ==
  ASSUME TypeOK, NEW p \in Proc, NEW t \in Task, NEW n \in 0..MaxRetries, Attempt(p, t, n)
  PROVE  /\ pc' \in [Proc -> {"idle"} \cup Recovering \cup InCall]
         /\ task' \in [Proc -> Task]
         /\ used' \in [Proc -> 0..MaxRetries]
  BY DEF TypeOK, Attempt, Goto, InCall, Recovering

\* So does going on to what is left of the snapshot.
LEMMA NextTypes ==
  ASSUME TypeOK, NEW p \in Proc, NEW rest \in SUBSET Task, NextOf(p, rest)
  PROVE  /\ pc' \in [Proc -> {"idle"} \cup Recovering \cup InCall]
         /\ todo' \in [Proc -> SUBSET Task]
         /\ task' \in [Proc -> Task]
         /\ used' \in [Proc -> 0..MaxRetries]
<1>1. CASE rest = {}
  <2>1. AnyTask \in Task /\ 0 \in 0..MaxRetries
    BY ScheduleLoopAssumption DEF AnyTask
  <2>2. QED
    BY <1>1, <2>1 DEF NextOf, TypeOK, Goto
<1>2. ASSUME NEW t \in rest, todo' = [todo EXCEPT ![p] = rest \ {t}], Attempt(p, t, 0)
      PROVE  todo' \in [Proc -> SUBSET Task] /\ t \in Task /\ 0 \in 0..MaxRetries
  BY <1>2, ScheduleLoopAssumption DEF TypeOK
<1>3. QED
  BY <1>1, <1>2, AttemptTypes DEF NextOf

\* A failure is counted only while retries are left.
LEMMA FailsTypes ==
  ASSUME TypeOK, NEW p \in Proc, Fails(p)
  PROVE  /\ pc' \in [Proc -> {"idle"} \cup Recovering \cup InCall]
         /\ used' \in [Proc -> 0..MaxRetries]
         /\ retry' \in [Task -> {"NONE", "RETRYING", "EXHAUSTED", "COMPLETED", "CANCELLED"}]
<1> USE DEF TypeOK, Goto, SetRetry, InCall, Recovering
<1>1. CASE /\ used[p] < MaxRetries
           /\ used' = [used EXCEPT ![p] = @ + 1]
           /\ SetRetry(task[p], "RETRYING")
           /\ Goto(p, "retry")
  <2>1. used[p] + 1 \in 0..MaxRetries
    BY <1>1, ScheduleLoopAssumption
  <2>2. QED
    BY <1>1, <2>1
<1>2. CASE SetRetry(task[p], "EXHAUSTED") /\ Goto(p, "failed") /\ UNCHANGED used
  BY <1>2
<1>3. QED
  BY <1>1, <1>2 DEF Fails

\* The handle is an installed timer: the count is never taken below zero.
HandleIsATimer == handle => timers > 0

LEMMA HandleInductive == TypeOK /\ HandleIsATimer /\ [Next]_vars => HandleIsATimer'
<1> SUFFICES ASSUME TypeOK, HandleIsATimer, [Next]_vars PROVE HandleIsATimer'
  OBVIOUS
<1>a. timers \in Nat
  BY DEF TypeOK
<1> USE DEF HandleIsATimer, loopVars
<1>1. ASSUME NEW t \in Task, CreateSchedule(t) PROVE HandleIsATimer'
  BY <1>1 DEF CreateSchedule
<1>2. ASSUME NEW k \in Key, OwnerGrants(k) PROVE HandleIsATimer'
  BY <1>2 DEF OwnerGrants
<1>3. ASSUME NEW k \in Key, TokenLapses(k) PROVE HandleIsATimer'
  BY <1>3 DEF TokenLapses
<1>4. ASSUME NEW p \in Proc, Start(p) PROVE HandleIsATimer'
  BY <1>4 DEF Start
<1>5. ASSUME NEW p \in Proc, Tick(p) PROVE HandleIsATimer'
  BY <1>5 DEF Tick
<1>6. ASSUME NEW p \in Proc, GateRefuses(p) PROVE HandleIsATimer'
  BY <1>6 DEF GateRefuses
<1>7. ASSUME NEW p \in Proc, GatePasses(p) PROVE HandleIsATimer'
  BY <1>7 DEF GatePasses
<1>8. ASSUME NEW p \in Proc, ToolFails(p) PROVE HandleIsATimer'
  BY <1>8 DEF ToolFails
<1>9. ASSUME NEW p \in Proc, ToolSucceeds(p) PROVE HandleIsATimer'
  BY <1>9 DEF ToolSucceeds
<1>10. ASSUME NEW p \in Proc, Retry(p) PROVE HandleIsATimer'
  BY <1>10 DEF Retry
<1>11. ASSUME NEW p \in Proc, Return(p) PROVE HandleIsATimer'
  BY <1>11 DEF Return
<1>12. ASSUME NEW p \in Proc, RecoverCancels(p) PROVE HandleIsATimer'
  BY <1>12 DEF RecoverCancels
<1>13. ASSUME NEW p \in Proc, RecoverEnds(p) PROVE HandleIsATimer'
  BY <1>13, <1>a DEF RecoverEnds
<1>13b. ASSUME NEW p \in Proc, RecoverFails(p) PROVE HandleIsATimer'
  BY <1>13b, <1>a DEF RecoverFails
<1>14. CASE Stop
  BY <1>14 DEF Stop
<1>15. CASE Crash
  BY <1>15 DEF Crash
<1>16. CASE UNCHANGED vars
  BY <1>16 DEF vars
<1>17. QED
  BY <1>1, <1>2, <1>3, <1>4, <1>5, <1>6, <1>7, <1>8, <1>9,
     <1>10, <1>11, <1>12, <1>13, <1>13b, <1>14, <1>15, <1>16 DEF Next, Continue

LEMMA TypeInductive == TypeOK /\ HandleIsATimer /\ [Next]_vars => TypeOK'
<1> SUFFICES ASSUME TypeOK, HandleIsATimer, [Next]_vars PROVE TypeOK'
  OBVIOUS
<1> USE DEF TypeOK, Tokens!TypeOK, Goto, SetRetry, tokenVars, loopVars, callVars, history
<1>1. ASSUME NEW t \in Task, CreateSchedule(t) PROVE TypeOK'
  BY <1>1 DEF CreateSchedule, Ended
<1>2. ASSUME NEW k \in Key, OwnerGrants(k) PROVE TypeOK'
  BY <1>2 DEF OwnerGrants, Tokens!Issue
<1>3. ASSUME NEW k \in Key, TokenLapses(k) PROVE TypeOK'
  BY <1>3 DEF TokenLapses
<1>4. ASSUME NEW p \in Proc, Start(p) PROVE TypeOK'
  BY <1>4 DEF Start, Recovering
<1>5. ASSUME NEW p \in Proc, Tick(p) PROVE TypeOK'
  <2>1. Due \in SUBSET Task
    BY DEF Due
  <2>2. QED
    BY <1>5, <2>1, NextTypes DEF Tick
<1>6. ASSUME NEW p \in Proc, GateRefuses(p) PROVE TypeOK'
  BY <1>6, FailsTypes DEF GateRefuses
<1>7. ASSUME NEW p \in Proc, GatePasses(p) PROVE TypeOK'
  <2>1. Tokens!TypeOK' /\ runs' \in [Key -> Nat]
    BY <1>7 DEF GatePasses, Tokens!Spend
  <2>2. QED
    BY <1>7, <2>1 DEF GatePasses, InCall
<1>8. ASSUME NEW p \in Proc, ToolFails(p) PROVE TypeOK'
  BY <1>8, FailsTypes DEF ToolFails
<1>9. ASSUME NEW p \in Proc, ToolSucceeds(p) PROVE TypeOK'
  BY <1>9 DEF ToolSucceeds, InCall
<1>10. ASSUME NEW p \in Proc, Retry(p) PROVE TypeOK'
  <2>1. Attempt(p, task[p], used[p]) /\ task[p] \in Task /\ used[p] \in 0..MaxRetries
    BY <1>10 DEF Retry
  <2>2. QED
    BY <1>10, <2>1, AttemptTypes DEF Retry
<1>11. ASSUME NEW p \in Proc, Return(p) PROVE TypeOK'
  <2>1. todo[p] \in SUBSET Task /\ NextOf(p, todo[p])
    BY <1>11 DEF Return
  <2>2. schedule' \in [Task -> {"NONE", "SCHEDULED"} \cup Ended]
    <3>1. task[p] \in Task /\ schedule[task[p]] \in {"NONE", "SCHEDULED"} \cup Ended
      OBVIOUS
    <3>2. PICK s \in {"NONE", "SCHEDULED"} \cup Ended : schedule' = [schedule EXCEPT ![task[p]] = s]
      BY <1>11, <3>1 DEF Return, Ended
    <3>3. QED
      BY <3>2
  <2>3. QED
    BY <1>11, <2>1, <2>2, NextTypes DEF Return
<1>12. ASSUME NEW p \in Proc, RecoverCancels(p) PROVE TypeOK'
  <2>1. Entries(p) \subseteq Task
    BY DEF Entries
  <2>2. PICK t \in Task, rest \in SUBSET Task :
           SetRetry(t, "CANCELLED") /\ todo' = [todo EXCEPT ![p] = rest]
    BY <1>12, <2>1 DEF RecoverCancels
  <2>3. QED
    BY <1>12, <2>2 DEF RecoverCancels, Recovering
<1>13. ASSUME NEW p \in Proc, RecoverEnds(p) PROVE TypeOK'
  BY <1>13 DEF RecoverEnds
<1>13b. ASSUME NEW p \in Proc, RecoverFails(p) PROVE TypeOK'
  BY <1>13b DEF RecoverFails
<1>14. CASE Stop
  <2>1. timers' \in Nat
    <3>1. CASE handle
      <4>1. timers' = timers - 1 /\ timers \in Nat /\ timers > 0
        BY <1>14, <3>1 DEF Stop, HandleIsATimer
      <4>2. QED
        BY ONLY <4>1
    <3>2. CASE ~handle
      <4>1. timers' = timers
        BY <1>14, <3>2 DEF Stop
      <4>2. QED
        BY <4>1
    <3>3. QED
      BY <3>1, <3>2
  <2>2. QED
    BY <1>14, <2>1 DEF Stop
<1>15. CASE Crash
  <2>1. AnyTask \in Task /\ 0 \in 0..MaxRetries
    BY ScheduleLoopAssumption DEF AnyTask
  <2>2. QED
    BY <1>15, <2>1 DEF Crash
<1>16. CASE UNCHANGED vars
  BY <1>16 DEF vars
<1>17. QED
  BY <1>1, <1>2, <1>3, <1>4, <1>5, <1>6, <1>7, <1>8, <1>9,
     <1>10, <1>11, <1>12, <1>13, <1>13b, <1>14, <1>15, <1>16 DEF Next, Continue

\* Statuses stay among those the code compares them with, and a call never has
\* more retries behind it than its budget allows.
THEOREM TypeCorrect == Spec => []TypeOK
<1>1. Init => TypeOK /\ HandleIsATimer
  <2> SUFFICES ASSUME Init PROVE TypeOK /\ HandleIsATimer
    OBVIOUS
  <2>1. AnyTask \in Task /\ 0 \in 0..MaxRetries
    BY ScheduleLoopAssumption DEF AnyTask
  <2>2. Tokens!TypeOK
    BY DEF Init, Tokens!Init, Tokens!TypeOK
  <2>3. /\ pc \in [Proc -> {"idle"} \cup Recovering \cup InCall]
        /\ todo \in [Proc -> SUBSET Task]
        /\ task \in [Proc -> Task]
        /\ used \in [Proc -> 0..MaxRetries]
    BY <2>1 DEF Init
  <2>4. QED
    BY <2>2, <2>3 DEF Init, TypeOK, HandleIsATimer
<1>2. QED
  BY <1>1, TypeInductive, HandleInductive, PTL DEF Spec

-----------------------------------------------------------------------------
(* Every run of a guarded tool is paid for. *)

\* What is true of the approvals and the runs they paid for.
PaidInv ==
    /\ Tokens!NeverOverspent
    /\ \A k \in Key : runs[k] <= spent[k]

LEMMA PaidInductive == TypeOK /\ PaidInv /\ [Next]_vars => PaidInv'
<1> SUFFICES ASSUME TypeOK, PaidInv, [Next]_vars PROVE PaidInv'
  OBVIOUS
<1> USE DEF PaidInv, Tokens!NeverOverspent
<1>a. /\ spendable \subseteq Key
      /\ issued \in [Key -> Nat] /\ spent \in [Key -> Nat] /\ runs \in [Key -> Nat]
  BY DEF TypeOK, Tokens!TypeOK
<1>b. ASSUME UNCHANGED <<spendable, issued, spent, runs>>
      PROVE  PaidInv'
  BY <1>b
<1>1. ASSUME NEW t \in Task, CreateSchedule(t) PROVE PaidInv'
  BY <1>1, <1>b DEF CreateSchedule, tokenVars, history
<1>2. ASSUME NEW k \in Key, OwnerGrants(k) PROVE PaidInv'
  BY <1>2, <1>a DEF OwnerGrants, Tokens!Issue, history
<1>3. ASSUME NEW k \in Key, TokenLapses(k) PROVE PaidInv'
  BY <1>3, <1>a DEF TokenLapses, history
<1>4. ASSUME NEW p \in Proc, Start(p) PROVE PaidInv'
  BY <1>4, <1>b DEF Start, tokenVars, history
<1>5. ASSUME NEW p \in Proc, Tick(p) PROVE PaidInv'
  BY <1>5, <1>b DEF Tick, tokenVars, history
<1>6. ASSUME NEW p \in Proc, GateRefuses(p) PROVE PaidInv'
  BY <1>6, <1>b DEF GateRefuses, tokenVars, history
<1>7. ASSUME NEW p \in Proc, GatePasses(p) PROVE PaidInv'
  <2>1. CASE task[p] \in Guarded
    <3> DEFINE k == KeyOf[task[p]]
    <3>1. k \in Key
      BY <2>1, ScheduleLoopAssumption
    <3>2. Tokens!Spend(k) /\ runs' = [runs EXCEPT ![k] = @ + 1]
      BY <1>7, <2>1 DEF GatePasses
    <3> HIDE DEF k
    <3>3. QED
      BY <3>1, <3>2, <1>a DEF Tokens!Spend
  <2>2. CASE task[p] \notin Guarded
    BY <1>7, <2>2, <1>b DEF GatePasses, tokenVars
  <2>3. QED
    BY <2>1, <2>2
<1>8. ASSUME NEW p \in Proc, ToolFails(p) PROVE PaidInv'
  BY <1>8, <1>b DEF ToolFails, tokenVars, history
<1>9. ASSUME NEW p \in Proc, ToolSucceeds(p) PROVE PaidInv'
  BY <1>9, <1>b DEF ToolSucceeds, tokenVars
<1>10. ASSUME NEW p \in Proc, Retry(p) PROVE PaidInv'
  BY <1>10, <1>b DEF Retry, tokenVars, history
<1>11. ASSUME NEW p \in Proc, Return(p) PROVE PaidInv'
  BY <1>11, <1>b DEF Return, tokenVars, history
<1>12. ASSUME NEW p \in Proc, RecoverCancels(p) PROVE PaidInv'
  BY <1>12, <1>b DEF RecoverCancels, tokenVars, history
<1>13. ASSUME NEW p \in Proc, RecoverEnds(p) PROVE PaidInv'
  BY <1>13, <1>b DEF RecoverEnds, tokenVars, history
<1>13b. ASSUME NEW p \in Proc, RecoverFails(p) PROVE PaidInv'
  BY <1>13b, <1>b DEF RecoverFails, tokenVars, history
<1>14. CASE Stop
  BY <1>14, <1>b DEF Stop, tokenVars, history
<1>15. CASE Crash
  BY <1>15, <1>b DEF Crash, tokenVars, history
<1>16. CASE UNCHANGED vars
  BY <1>16, <1>b DEF vars, tokenVars, history
<1>17. QED
  BY <1>1, <1>2, <1>3, <1>4, <1>5, <1>6, <1>7, <1>8, <1>9,
     <1>10, <1>11, <1>12, <1>13, <1>13b, <1>14, <1>15, <1>16 DEF Next, Continue

\* However ticks, retries and schedules with the same action race for an
\* approval, the guarded tool runs at most once for every answer of the owner.
THEOREM GuardedPaid == Spec => []GuardedRunsPaid
<1>1. Init => PaidInv
  BY DEF Init, PaidInv, Tokens!Init, Tokens!NeverOverspent
<1>2. TypeOK /\ PaidInv => GuardedRunsPaid
  <2> SUFFICES ASSUME TypeOK, PaidInv, NEW k \in Key PROVE runs[k] <= issued[k]
    BY DEF GuardedRunsPaid
  <2>1. issued[k] \in Nat /\ spent[k] \in Nat /\ runs[k] \in Nat
    BY DEF TypeOK, Tokens!TypeOK
  <2>2. runs[k] <= spent[k] /\ spent[k] <= issued[k]
    BY <2>1 DEF PaidInv, Tokens!NeverOverspent
  <2>3. QED
    BY <2>1, <2>2
<1>3. QED
  BY <1>1, <1>2, TypeCorrect, PaidInductive, PTL DEF Spec

-----------------------------------------------------------------------------
(* COMPLETED stands for a success. *)

\* A call that is about to return success has one behind it.
CompletedInv ==
    /\ CompletedRan
    /\ \A p \in Proc : pc[p] = "done" => task[p] \in succeeded

\* Where a call begins or begins again nothing is done.
LEMMA AttemptIsNotDone ==
  ASSUME TypeOK, CompletedInv, NEW p \in Proc, NEW t, NEW n, Attempt(p, t, n),
         UNCHANGED succeeded
  PROVE  \A q \in Proc : pc'[q] = "done" => task'[q] \in succeeded'
  BY DEF TypeOK, CompletedInv, Attempt, Goto

LEMMA NextIsNotDone ==
  ASSUME TypeOK, CompletedInv, NEW p \in Proc, NEW rest, NextOf(p, rest),
         UNCHANGED succeeded
  PROVE  \A q \in Proc : pc'[q] = "done" => task'[q] \in succeeded'
<1>1. CASE rest = {}
  BY <1>1 DEF TypeOK, CompletedInv, NextOf, Goto
<1>2. CASE rest # {}
  BY <1>2, AttemptIsNotDone DEF NextOf
<1>3. QED
  BY <1>1, <1>2

LEMMA CompletedInductive == TypeOK /\ CompletedInv /\ [Next]_vars => CompletedInv'
<1> SUFFICES ASSUME TypeOK, CompletedInv, [Next]_vars PROVE CompletedInv'
  OBVIOUS
<1> USE DEF TypeOK, CompletedInv, CompletedRan, Goto, SetRetry, loopVars, callVars, history
<1>1. ASSUME NEW t \in Task, CreateSchedule(t) PROVE CompletedInv'
  BY <1>1 DEF CreateSchedule
<1>2. ASSUME NEW k \in Key, OwnerGrants(k) PROVE CompletedInv'
  BY <1>2 DEF OwnerGrants
<1>3. ASSUME NEW k \in Key, TokenLapses(k) PROVE CompletedInv'
  BY <1>3 DEF TokenLapses
<1>4. ASSUME NEW p \in Proc, Start(p) PROVE CompletedInv'
  BY <1>4 DEF Start
<1>5. ASSUME NEW p \in Proc, Tick(p) PROVE CompletedInv'
  BY <1>5, NextIsNotDone DEF Tick
<1>6. ASSUME NEW p \in Proc, GateRefuses(p) PROVE CompletedInv'
  BY <1>6 DEF GateRefuses, Fails
<1>7. ASSUME NEW p \in Proc, GatePasses(p) PROVE CompletedInv'
  BY <1>7 DEF GatePasses
<1>8. ASSUME NEW p \in Proc, ToolFails(p) PROVE CompletedInv'
  BY <1>8 DEF ToolFails, Fails
<1>9. ASSUME NEW p \in Proc, ToolSucceeds(p) PROVE CompletedInv'
  BY <1>9 DEF ToolSucceeds
<1>10. ASSUME NEW p \in Proc, Retry(p) PROVE CompletedInv'
  BY <1>10, AttemptIsNotDone DEF Retry
<1>11. ASSUME NEW p \in Proc, Return(p) PROVE CompletedInv'
  <2>1. \A q \in Proc : pc'[q] = "done" => task'[q] \in succeeded'
    BY <1>11, NextIsNotDone DEF Return
  <2>2. \A t \in Task : schedule'[t] = "COMPLETED" => t \in succeeded'
    BY <1>11 DEF Return
  <2>3. QED
    BY <1>11, <2>1, <2>2 DEF Return
<1>12. ASSUME NEW p \in Proc, RecoverCancels(p) PROVE CompletedInv'
  BY <1>12 DEF RecoverCancels
<1>13. ASSUME NEW p \in Proc, RecoverEnds(p) PROVE CompletedInv'
  BY <1>13 DEF RecoverEnds
<1>13b. ASSUME NEW p \in Proc, RecoverFails(p) PROVE CompletedInv'
  BY <1>13b DEF RecoverFails
<1>14. CASE Stop
  BY <1>14 DEF Stop
<1>15. CASE Crash
  BY <1>15 DEF Crash
<1>16. CASE UNCHANGED vars
  BY <1>16 DEF vars
<1>17. QED
  BY <1>1, <1>2, <1>3, <1>4, <1>5, <1>6, <1>7, <1>8, <1>9,
     <1>10, <1>11, <1>12, <1>13, <1>13b, <1>14, <1>15, <1>16 DEF Next, Continue

\* However ticks overlap, fail, retry and are cut off, a schedule or a retry
\* entry that says COMPLETED stands for a success of the tool.
THEOREM CompletedIsTrue == Spec => []CompletedRan
<1>1. Init => CompletedInv
  BY DEF Init, CompletedInv, CompletedRan
<1>2. CompletedInv => CompletedRan
  BY DEF CompletedInv
<1>3. QED
  BY <1>1, <1>2, TypeCorrect, CompletedInductive, PTL DEF Spec

-----------------------------------------------------------------------------
(* A running loop polls. *)

LEMMA PollsInductive == TypeOK /\ PollsWhileRunning /\ [Next]_vars => PollsWhileRunning'
<1> SUFFICES ASSUME TypeOK, PollsWhileRunning, [Next]_vars PROVE PollsWhileRunning'
  OBVIOUS
<1>a. pc \in [Proc -> {"idle"} \cup Recovering \cup InCall]
  BY DEF TypeOK
<1>b. ASSUME UNCHANGED <<running, handle, threw>>,
             \A q \in Proc : pc[q] \in Recovering => pc'[q] \in Recovering
      PROVE  PollsWhileRunning'
  BY <1>b DEF PollsWhileRunning
<1> USE DEF Goto, loopVars, callVars
<1>1. ASSUME NEW t \in Task, CreateSchedule(t) PROVE PollsWhileRunning'
  BY <1>1, <1>a, <1>b DEF CreateSchedule, Recovering, InCall
<1>2. ASSUME NEW k \in Key, OwnerGrants(k) PROVE PollsWhileRunning'
  BY <1>2, <1>a, <1>b DEF OwnerGrants, Recovering, InCall
<1>3. ASSUME NEW k \in Key, TokenLapses(k) PROVE PollsWhileRunning'
  BY <1>3, <1>a, <1>b DEF TokenLapses, Recovering, InCall
<1>4. ASSUME NEW p \in Proc, Start(p) PROVE PollsWhileRunning'
  BY <1>4, <1>a DEF Start, PollsWhileRunning, Recovering
<1>5. ASSUME NEW p \in Proc, Tick(p) PROVE PollsWhileRunning'
  <2>1. pc[p] = "idle" /\ UNCHANGED <<running, handle, threw>>
    BY <1>5 DEF Tick
  <2>2. PICK l : Goto(p, l)
    BY <1>5 DEF Tick, NextOf, Attempt
  <2>3. QED
    BY <2>1, <2>2, <1>a, <1>b DEF Recovering
<1>6. ASSUME NEW p \in Proc, GateRefuses(p) PROVE PollsWhileRunning'
  BY <1>6, <1>a, <1>b DEF GateRefuses, Recovering, InCall, Fails
<1>7. ASSUME NEW p \in Proc, GatePasses(p) PROVE PollsWhileRunning'
  BY <1>7, <1>a, <1>b DEF GatePasses, Recovering, InCall
<1>8. ASSUME NEW p \in Proc, ToolFails(p) PROVE PollsWhileRunning'
  BY <1>8, <1>a, <1>b DEF ToolFails, Recovering, InCall, Fails
<1>9. ASSUME NEW p \in Proc, ToolSucceeds(p) PROVE PollsWhileRunning'
  BY <1>9, <1>a, <1>b DEF ToolSucceeds, Recovering, InCall
<1>10. ASSUME NEW p \in Proc, Retry(p) PROVE PollsWhileRunning'
  <2>1. pc[p] = "retry" /\ UNCHANGED <<running, handle, threw>>
    BY <1>10 DEF Retry
  <2>2. PICK l : Goto(p, l)
    BY <1>10 DEF Retry, Attempt
  <2>3. QED
    BY <2>1, <2>2, <1>a, <1>b DEF Recovering
<1>11. ASSUME NEW p \in Proc, Return(p) PROVE PollsWhileRunning'
  <2>1. pc[p] \in InCall /\ UNCHANGED <<running, handle, threw>>
    BY <1>11 DEF Return, InCall
  <2>2. PICK l : Goto(p, l)
    BY <1>11 DEF Return, NextOf, Attempt
  <2>3. QED
    BY <2>1, <2>2, <1>a, <1>b DEF Recovering, InCall
<1>12. ASSUME NEW p \in Proc, RecoverCancels(p) PROVE PollsWhileRunning'
  BY <1>12, <1>a, <1>b DEF RecoverCancels, Recovering, InCall
<1>13. ASSUME NEW p \in Proc, RecoverEnds(p) PROVE PollsWhileRunning'
  BY <1>13 DEF RecoverEnds, PollsWhileRunning
<1>13b. ASSUME NEW p \in Proc, RecoverFails(p) PROVE PollsWhileRunning'
  BY <1>13b DEF RecoverFails, PollsWhileRunning
<1>14. CASE Stop
  BY <1>14 DEF Stop, PollsWhileRunning
<1>15. CASE Crash
  BY <1>15 DEF Crash, PollsWhileRunning
<1>16. CASE UNCHANGED vars
  BY <1>16, <1>b DEF vars
<1>17. QED
  BY <1>1, <1>2, <1>3, <1>4, <1>5, <1>6, <1>7, <1>8, <1>9,
     <1>10, <1>11, <1>12, <1>13, <1>13b, <1>14, <1>15, <1>16 DEF Next, Continue

\* Starts and stops in any order do not leave a running loop without a timer,
\* other than for the time a start needs to recover: one that runs without polling
\* has had a recovery throw.
THEOREM RunningPolls == Spec => []PollsWhileRunning
<1>1. Init => PollsWhileRunning
  BY DEF Init, PollsWhileRunning
<1>2. QED
  BY <1>1, TypeCorrect, PollsInductive, PTL DEF Spec

-----------------------------------------------------------------------------
(* The approvals of the loop are single-use tokens. *)

\* Everything the loop, its ticks and the owner do to approvals is what
\* SingleUseTokens allows; module Approvals shows that the manager and its table
\* implement the same specification.
THEOREM UsesTokens == Spec => Tokens!Spec
<1>1. Init => Tokens!Init
  BY DEF Init
<1>2. [Next]_vars => [Tokens!Next]_(Tokens!vars)
  <2> SUFFICES ASSUME [Next]_vars PROVE [Tokens!Next]_(Tokens!vars)
    OBVIOUS
  <2> USE DEF Tokens!vars, tokenVars
  <2>1. ASSUME NEW t \in Task, CreateSchedule(t) PROVE UNCHANGED Tokens!vars
    BY <2>1 DEF CreateSchedule
  <2>2. ASSUME NEW k \in Key, OwnerGrants(k) PROVE Tokens!Next
    BY <2>2 DEF OwnerGrants, Tokens!Next
  <2>3. ASSUME NEW k \in Key, TokenLapses(k) PROVE Tokens!Next
    BY <2>3 DEF TokenLapses, Tokens!Next, Tokens!Withdraw
  <2>4. ASSUME NEW p \in Proc, Start(p) PROVE UNCHANGED Tokens!vars
    BY <2>4 DEF Start
  <2>5. ASSUME NEW p \in Proc, Tick(p) PROVE UNCHANGED Tokens!vars
    BY <2>5 DEF Tick
  <2>6. ASSUME NEW p \in Proc, GateRefuses(p) PROVE UNCHANGED Tokens!vars
    BY <2>6 DEF GateRefuses
  <2>7. ASSUME NEW p \in Proc, GatePasses(p) PROVE [Tokens!Next]_(Tokens!vars)
    <3>1. CASE task[p] \in Guarded
      <4>1. KeyOf[task[p]] \in Key /\ Tokens!Spend(KeyOf[task[p]])
        BY <2>7, <3>1, ScheduleLoopAssumption DEF GatePasses
      <4>2. QED
        BY <4>1 DEF Tokens!Next
    <3>2. CASE task[p] \notin Guarded
      BY <2>7, <3>2 DEF GatePasses
    <3>3. QED
      BY <3>1, <3>2
  <2>8. ASSUME NEW p \in Proc, ToolFails(p) PROVE UNCHANGED Tokens!vars
    BY <2>8 DEF ToolFails
  <2>9. ASSUME NEW p \in Proc, ToolSucceeds(p) PROVE UNCHANGED Tokens!vars
    BY <2>9 DEF ToolSucceeds
  <2>10. ASSUME NEW p \in Proc, Retry(p) PROVE UNCHANGED Tokens!vars
    BY <2>10 DEF Retry
  <2>11. ASSUME NEW p \in Proc, Return(p) PROVE UNCHANGED Tokens!vars
    BY <2>11 DEF Return
  <2>12. ASSUME NEW p \in Proc, RecoverCancels(p) PROVE UNCHANGED Tokens!vars
    BY <2>12 DEF RecoverCancels
  <2>13. ASSUME NEW p \in Proc, RecoverEnds(p) PROVE UNCHANGED Tokens!vars
    BY <2>13 DEF RecoverEnds
  <2>13b. ASSUME NEW p \in Proc, RecoverFails(p) PROVE UNCHANGED Tokens!vars
    BY <2>13b DEF RecoverFails
  <2>14. CASE Stop
    BY <2>14 DEF Stop
  <2>15. CASE Crash
    BY <2>15 DEF Crash
  <2>16. CASE UNCHANGED vars
    BY <2>16 DEF vars
  <2>17. QED
    BY <2>1, <2>2, <2>3, <2>4, <2>5, <2>6, <2>7, <2>8, <2>9,
       <2>10, <2>11, <2>12, <2>13, <2>13b, <2>14, <2>15, <2>16 DEF Next, Continue
<1>3. QED
  BY <1>1, <1>2, PTL DEF Spec, Tokens!Spec

-----------------------------------------------------------------------------
(* Every start and every tick gets nearer to its end. *)

\* How far the call of a tick is from its return: four awaits for each retry
\* that is left, and those of this attempt.
Distance(p) ==
    4 * (MaxRetries - used[p]) +
        (CASE pc[p] = "retry" -> 3 [] pc[p] = "gate" -> 2 [] pc[p] = "tool" -> 1 [] OTHER -> 0)

\* One schedule or one retry entry less to look at.
Shorter(p) == todo'[p] \subseteq todo[p] /\ todo'[p] # todo[p]

\* What a start or a tick does next: it ends; it takes the next element of what
\* it works through; or it has one await less before it.
Closer(p) ==
    \/ pc'[p] = "idle"
    \/ pc[p] = "recover" /\ pc'[p] = "recovering"
    \/ Shorter(p)
    \/ UNCHANGED todo[p] /\ Distance(p)' < Distance(p)

\* A failure either uses up a retry or ends the call.
LEMMA FailsCloser ==
  ASSUME TypeOK, NEW p \in Proc, Fails(p), pc[p] \in {"gate", "tool"}, UNCHANGED todo
  PROVE  Closer(p)
<1> USE DEF TypeOK, Goto, Distance, Closer
<1>a. MaxRetries \in Nat /\ used[p] \in 0..MaxRetries
  BY ScheduleLoopAssumption
<1>1. CASE /\ used[p] < MaxRetries
           /\ used' = [used EXCEPT ![p] = @ + 1]
           /\ SetRetry(task[p], "RETRYING")
           /\ Goto(p, "retry")
  BY <1>1, <1>a
<1>2. CASE SetRetry(task[p], "EXHAUSTED") /\ Goto(p, "failed") /\ UNCHANGED used
  BY <1>2, <1>a
<1>3. QED
  BY <1>1, <1>2 DEF Fails

\* So does every step of its own.
LEMMA ContinueCloser ==
  ASSUME TypeOK, NEW p \in Proc, Continue(p)
  PROVE  Closer(p)
<1>a. /\ MaxRetries \in Nat /\ used[p] \in 0..MaxRetries
      /\ pc \in [Proc -> {"idle"} \cup Recovering \cup InCall]
  BY ScheduleLoopAssumption DEF TypeOK
<1>1. CASE GateRefuses(p) \/ ToolFails(p)
  BY <1>1, FailsCloser DEF GateRefuses, ToolFails
<1>2. CASE GatePasses(p)
  BY <1>2, <1>a DEF GatePasses, Goto, Closer, Distance
<1>3. CASE ToolSucceeds(p)
  BY <1>3, <1>a DEF ToolSucceeds, Goto, Closer, Distance
<1>4. CASE Retry(p)
  <2>1. pc'[p] \in {"gate", "failed", "blocked"} /\ used'[p] = used[p]
    BY <1>4, <1>a DEF Retry, Attempt, Goto, TypeOK
  <2>2. QED
    BY <1>4, <2>1, <1>a DEF Retry, Closer, Distance
<1>5. CASE Return(p)
  <2>1. NextOf(p, todo[p])
    BY <1>5 DEF Return
  <2>2. CASE todo[p] = {}
    BY <2>1, <2>2 DEF TypeOK, NextOf, Goto, Closer
  <2>3. ASSUME NEW t \in todo[p], todo' = [todo EXCEPT ![p] = todo[p] \ {t}] PROVE Closer(p)
    BY <2>3 DEF TypeOK, Closer, Shorter
  <2>4. QED
    BY <2>1, <2>2, <2>3 DEF NextOf
<1>6. CASE RecoverCancels(p)
  <2>1. pc'[p] = "recovering"
    BY <1>6, <1>a DEF RecoverCancels, Goto
  <2>2. CASE pc[p] = "recovering"
    <3>1. PICK t \in todo[p], rest \in SUBSET todo[p] :
             t \notin rest /\ todo' = [todo EXCEPT ![p] = rest]
      BY <1>6, <2>2 DEF RecoverCancels, Entries
    <3>2. QED
      BY <3>1 DEF TypeOK, Closer, Shorter
  <2>3. QED
    BY <1>6, <2>1, <2>2 DEF RecoverCancels, Recovering, Closer
<1>7. CASE RecoverEnds(p) \/ RecoverFails(p)
  BY <1>7, <1>a DEF RecoverEnds, RecoverFails, Goto, Closer
<1>8. QED
  BY <1>1, <1>2, <1>3, <1>4, <1>5, <1>6, <1>7 DEF Continue

\* What others do leaves a start or a tick where it is.
LEMMA OthersLeave ==
  ASSUME TypeOK, NEW p \in Proc, NEW q \in Proc, q # p, Start(q) \/ Tick(q) \/ Continue(q)
  PROVE  UNCHANGED <<pc[p], todo[p], used[p]>>
<1> USE DEF TypeOK, Goto
<1>1. CASE Start(q)
  BY <1>1 DEF Start
<1>2. CASE Tick(q)
  BY <1>2 DEF Tick, NextOf, Attempt
<1>3. CASE GateRefuses(q) \/ ToolFails(q)
  BY <1>3 DEF GateRefuses, ToolFails, Fails
<1>4. CASE GatePasses(q) \/ ToolSucceeds(q)
  BY <1>4 DEF GatePasses, ToolSucceeds
<1>5. CASE Retry(q)
  BY <1>5 DEF Retry, Attempt
<1>6. CASE Return(q)
  BY <1>6 DEF Return, NextOf, Attempt
<1>7. CASE RecoverCancels(q) \/ RecoverEnds(q) \/ RecoverFails(q)
  BY <1>7 DEF RecoverCancels, RecoverEnds, RecoverFails
<1>8. QED
  BY <1>1, <1>2, <1>3, <1>4, <1>5, <1>6, <1>7 DEF Continue

\* Each step of its own brings a start or a tick nearer to its end, and whatever
\* others do in between sets none back.
Advances(p) ==
    /\ Continue(p) => Closer(p)
    /\ pc[p] # "idle" => Closer(p) \/ UNCHANGED <<pc[p], todo[p], used[p]>>

\* With a finite number of schedules a start or a tick ends after a bounded
\* number of awaits, however they overlap: every retry is counted and every entry
\* of the list it has read is left behind once.
THEOREM TicksAdvance == Spec => [][\A p \in Proc : Advances(p)]_vars
<1>1. TypeOK /\ [Next]_vars => [\A p \in Proc : Advances(p)]_vars
  <2> SUFFICES ASSUME TypeOK, Next, NEW p \in Proc PROVE Advances(p)
    OBVIOUS
  <2>a. ASSUME UNCHANGED <<pc, todo, used>> PROVE UNCHANGED <<pc[p], todo[p], used[p]>>
    BY <2>a
  <2>1. ASSUME pc[p] # "idle", ~Continue(p)
        PROVE  Closer(p) \/ UNCHANGED <<pc[p], todo[p], used[p]>>
    <3>1. ASSUME NEW t \in Task, CreateSchedule(t) PROVE UNCHANGED <<pc[p], todo[p], used[p]>>
      BY <3>1, <2>a DEF CreateSchedule, callVars
    <3>2. ASSUME NEW k \in Key, OwnerGrants(k) \/ TokenLapses(k)
          PROVE  UNCHANGED <<pc[p], todo[p], used[p]>>
      BY <3>2, <2>a DEF OwnerGrants, TokenLapses, callVars
    <3>3. ~(Start(p) \/ Tick(p))
      BY <2>1 DEF Start, Tick
    <3>4. CASE Stop
      BY <3>4, <2>a DEF Stop, callVars
    <3>5. CASE Crash
      BY <3>5 DEF Crash, Closer
    <3>6. QED
      BY <2>1, <3>1, <3>2, <3>3, <3>4, <3>5, OthersLeave DEF Next
  <2>2. QED
    BY <2>1, ContinueCloser DEF Advances
<1>2. QED
  BY <1>1, TypeCorrect, PTL DEF Spec
=============================================================================
