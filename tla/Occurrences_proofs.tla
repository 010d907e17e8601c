------------------------ MODULE Occurrences_proofs ------------------------
(***************************************************************************)
(* Proofs about Occurrences for any number of workers and schedules.       *)
(***************************************************************************)
EXTENDS Occurrences, FiniteSetTheorems, TLAPS

\* The disjunct of Next that belongs to one worker.
WorkerStep(w) ==
    \/ \E s \in Schedule, on, rec, wf \in BOOLEAN : CreateSchedule(w, s, on, rec, wf)
    \/ Work(w)
    \/ RunOnce(w)
    \/ BreakOff(w)

LEMMA TimeFacts == 0 \in Time /\ \A t \in 0..MaxClock : t \in Time
BY OccurrencesAssumption DEF Time

LEMMA TypeInductive == TypeOK /\ [Next]_vars => TypeOK'
<1> SUFFICES ASSUME TypeOK, [Next]_vars PROVE TypeOK'
  OBVIOUS
<1> USE OccurrencesAssumption, TimeFacts
        DEF TypeOK, Open, Settled, Occurrence, ScheduleOf, Goto, SetStatus,
            scheduleVars, rowVars, workerVars, history
<1>1. ASSUME NEW w \in Worker, WorkerStep(w)
      PROVE  TypeOK'
  <2>1. ASSUME NEW s \in Schedule, NEW on \in BOOLEAN, NEW rec \in BOOLEAN, NEW wf \in BOOLEAN,
               CreateSchedule(w, s, on, rec, wf)
        PROVE  TypeOK'
    BY <2>1 DEF CreateSchedule
  <2>2. CASE RegisterNext(w)
    BY <2>2 DEF RegisterNext, ScheduleNextOccurrence, Insert
  <2>3. CASE Claim(w)
    BY <2>3 DEF Claim
  <2>4. CASE ExecuteRefused(w) \/ ExecuteNothing(w)
    BY <2>4 DEF ExecuteRefused, ExecuteNothing, Leaves
  <2>5. CASE Execute(w)
    BY <2>5 DEF Execute
  <2>6. ASSUME NEW result \in {"EXECUTED", "FAILED"}, Finish(w, result)
        PROVE  TypeOK'
    BY <2>6 DEF Finish
  <2>7. CASE FinishNext(w)
    BY <2>7 DEF FinishNext, ScheduleNextOccurrence, Insert, CountLate
  <2>8. CASE RunOnceSkips(w)
    BY <2>8 DEF RunOnceSkips
  <2>9. CASE RunOnce(w)
    BY <2>9 DEF RunOnce, Missed
  <2>10. CASE BreakOff(w)
    BY <2>10 DEF BreakOff, Leaves
  <2>11. QED
    BY <1>1, <2>1, <2>2, <2>3, <2>4, <2>5, <2>6, <2>7, <2>8, <2>9, <2>10 DEF WorkerStep, Work
<1>2. ASSUME NEW s \in Schedule, EndSchedule(s)
      PROVE  TypeOK'
  BY <1>2 DEF EndSchedule
<1>3. ASSUME NEW s \in Schedule, DeleteSchedule(s)
      PROVE  TypeOK'
  BY <1>3 DEF DeleteSchedule
<1>4. CASE ReconcileStaleClaims
  BY <1>4 DEF ReconcileStaleClaims
<1>5. CASE SkipMissed
  BY <1>5 DEF SkipMissed, Missed
<1>6. CASE Tick
  BY <1>6 DEF Tick
<1>7. CASE UNCHANGED vars
  BY <1>7 DEF vars
<1>8. QED
  BY <1>1, <1>2, <1>3, <1>4, <1>5, <1>6, <1>7 DEF Next, WorkerStep

\* The tables and the calls of the workers always have the shape TypeOK gives.
THEOREM TypeCorrect == Spec => []TypeOK
<1>1. (CHOOSE o \in Occurrence : TRUE) \in Occurrence
  <2>1. PICK s \in Schedule : TRUE
    BY OccurrencesAssumption
  <2>2. <<s, 0>> \in Occurrence
    BY TimeFacts DEF Occurrence
  <2>3. QED
    BY <2>2
<1>2. Init => TypeOK
  BY <1>1, OccurrencesAssumption, TimeFacts DEF Init, TypeOK
<1>3. QED
  BY <1>2, TypeInductive, PTL DEF Spec

-----------------------------------------------------------------------------
(* A settled occurrence is never offered again. *)

\* What was executed, failed or skipped is never offered to a worker again.
SettledStaysSettled ==
    [][\A o \in Occurrence : status[o] \in Settled => status'[o] \in Settled]_vars

\* One step of it.
StaysSettled == \A o \in Occurrence : status[o] \in Settled => status'[o] \in Settled

LEMMA StepStaysSettled == TypeOK /\ [Next]_vars => StaysSettled
<1> SUFFICES ASSUME TypeOK, [Next]_vars PROVE StaysSettled
  OBVIOUS
<1> USE DEF TypeOK, StaysSettled, Open, Settled, Goto, SetStatus,
            rowVars, workerVars
<1>1. ASSUME NEW w \in Worker, WorkerStep(w)
      PROVE  StaysSettled
  <2>1. ASSUME NEW s \in Schedule, NEW on \in BOOLEAN, NEW rec \in BOOLEAN, NEW wf \in BOOLEAN,
               CreateSchedule(w, s, on, rec, wf)
        PROVE  StaysSettled
    BY <2>1 DEF CreateSchedule
  <2>2. CASE RegisterNext(w)
    BY <2>2 DEF RegisterNext, ScheduleNextOccurrence, Insert
  <2>3. CASE Claim(w)
    BY <2>3 DEF Claim
  <2>4. CASE ExecuteRefused(w) \/ ExecuteNothing(w)
    BY <2>4 DEF ExecuteRefused, ExecuteNothing, Leaves
  <2>5. CASE Execute(w)
    BY <2>5 DEF Execute
  <2>6. ASSUME NEW result \in {"EXECUTED", "FAILED"}, Finish(w, result)
        PROVE  StaysSettled
    BY <2>6 DEF Finish
  <2>7. CASE FinishNext(w)
    BY <2>7 DEF FinishNext, ScheduleNextOccurrence, Insert
  <2>8. CASE RunOnceSkips(w)
    BY <2>8 DEF RunOnceSkips
  <2>9. CASE RunOnce(w)
    BY <2>9 DEF RunOnce, Missed
  <2>10. CASE BreakOff(w)
    BY <2>10 DEF BreakOff, Leaves
  <2>11. QED
    BY <1>1, <2>1, <2>2, <2>3, <2>4, <2>5, <2>6, <2>7, <2>8, <2>9, <2>10 DEF WorkerStep, Work
<1>2. ASSUME NEW s \in Schedule, EndSchedule(s)
      PROVE  StaysSettled
  BY <1>2 DEF EndSchedule
<1>3. ASSUME NEW s \in Schedule, DeleteSchedule(s)
      PROVE  StaysSettled
  BY <1>3 DEF DeleteSchedule
<1>4. CASE ReconcileStaleClaims
  BY <1>4 DEF ReconcileStaleClaims
<1>5. CASE SkipMissed
  BY <1>5 DEF SkipMissed, Missed
<1>6. CASE Tick
  BY <1>6 DEF Tick
<1>7. CASE UNCHANGED vars
  BY <1>7 DEF vars
<1>8. QED
  BY <1>1, <1>2, <1>3, <1>4, <1>5, <1>6, <1>7 DEF Next, WorkerStep

\* However many workers and processes share the queue, and whatever is stale,
\* late or dead: what was executed, failed or skipped is not claimed again.
THEOREM SettledForGood == Spec => SettledStaysSettled
BY TypeCorrect, StepStaysSettled, PTL DEF Spec, SettledStaysSettled, StaysSettled

-----------------------------------------------------------------------------
(* Executions are paid for. *)

\* The workers that hold a claim they have not begun to execute.
Claimers(o) == {w \in Worker : pc[w] = "claimed" /\ work[w] = o}

\* What a row still allows: a claim taken or lost, or none yet.
Taken(o) == IF status[o] \in {"NONE", "PENDING"} THEN 0 ELSE 1

\* Every execution, and every claim that may become one, has a claim of its own
\* behind it: the last one, or one that was taken back.
Paid == \A o \in Occurrence : runs[o] + Cardinality(Claimers(o)) <= reconciled[o] + Taken(o)

LEMMA ClaimersFinite ==
  \A o \in Occurrence : IsFiniteSet(Claimers(o)) /\ Cardinality(Claimers(o)) \in Nat
<1>1. ASSUME NEW o \in Occurrence
      PROVE  IsFiniteSet(Claimers(o))
  BY FS_Subset, OccurrencesAssumption DEF Claimers
<1>2. QED
  BY <1>1, FS_CardinalityType

\* A worker that is not at a claim after a step counts no more.
LEMMA ClaimerLeaves ==
  ASSUME NEW w \in Worker, pc'[w] # "claimed",
         \A v \in Worker \ {w} : pc'[v] = pc[v] /\ work'[v] = work[v]
  PROVE  \A o \in Occurrence :
             Cardinality(Claimers(o)') =
                 Cardinality(Claimers(o)) - (IF w \in Claimers(o) THEN 1 ELSE 0)
<1> SUFFICES ASSUME NEW o \in Occurrence
             PROVE  Cardinality(Claimers(o)') =
                      Cardinality(Claimers(o)) - (IF w \in Claimers(o) THEN 1 ELSE 0)
  OBVIOUS
<1>1. Claimers(o)' = Claimers(o) \ {w}
  BY DEF Claimers
<1>2. /\ IsFiniteSet(Claimers(o)) /\ Cardinality(Claimers(o)) \in Nat
      /\ Cardinality(Claimers(o) \ {w}) =
            IF w \in Claimers(o) THEN Cardinality(Claimers(o)) - 1 ELSE Cardinality(Claimers(o))
  BY ClaimersFinite, FS_RemoveElement
<1> HIDE DEF Claimers
<1>3. QED
  BY ONLY <1>1, <1>2

\* When nobody moves, nobody leaves.
LEMMA ClaimersStay ==
  ASSUME UNCHANGED <<pc, work>>
  PROVE  \A o \in Occurrence : Claimers(o)' = Claimers(o)
BY DEF Claimers

\* A step at which a worker leaves, or stays away from, its claim and no row is
\* opened again keeps Paid.
LEMMA PaidWhenLeaving ==
  ASSUME TypeOK, TypeOK', Paid, NEW w \in Worker, pc'[w] # "claimed",
         \A v \in Worker \ {w} : pc'[v] = pc[v] /\ work'[v] = work[v],
         UNCHANGED <<runs, reconciled>>,
         \A o \in Occurrence : Taken(o)' >= Taken(o)
  PROVE  Paid'
<1> SUFFICES ASSUME NEW o \in Occurrence
             PROVE  runs'[o] + Cardinality(Claimers(o)') <= reconciled'[o] + Taken(o)'
  BY DEF Paid
<1>1. /\ Cardinality(Claimers(o)) \in Nat
      /\ Cardinality(Claimers(o)') = Cardinality(Claimers(o)) - (IF w \in Claimers(o) THEN 1 ELSE 0)
  BY ClaimersFinite, ClaimerLeaves
<1>2. runs[o] \in Nat /\ reconciled[o] \in Nat /\ Taken(o) \in 0..1 /\ Taken(o)' \in 0..1
  BY DEF TypeOK, Taken
<1>3. runs[o] + Cardinality(Claimers(o)) <= reconciled[o] + Taken(o)
  BY DEF Paid
<1>4. QED
  BY <1>1, <1>2, <1>3

\* A step of nobody's call that opens no row again keeps Paid.
LEMMA PaidAtRest ==
  ASSUME TypeOK, Paid, UNCHANGED <<pc, work, runs, reconciled>>,
         \A o \in Occurrence : Taken(o)' >= Taken(o)
  PROVE  Paid'
<1> SUFFICES ASSUME NEW o \in Occurrence
             PROVE  runs[o] + Cardinality(Claimers(o)) <= reconciled[o] + Taken(o)'
  BY ClaimersStay DEF Paid
<1>1. runs[o] + Cardinality(Claimers(o)) <= reconciled[o] + Taken(o)
  BY DEF Paid
<1>2. /\ runs[o] \in Nat /\ reconciled[o] \in Nat /\ Taken(o) \in 0..1 /\ Taken(o)' \in 0..1
      /\ Cardinality(Claimers(o)) \in Nat
  BY ClaimersFinite DEF TypeOK, Taken
<1>3. Taken(o)' >= Taken(o)
  OBVIOUS
<1>4. QED
  BY <1>1, <1>2, <1>3

LEMMA PaidClaim ==
  ASSUME TypeOK, Paid, NEW w \in Worker, Claim(w)
  PROVE  Paid'
<1>1. PICK p \in Occurrence : /\ status[p] = "PENDING"
                              /\ SetStatus(p, "CLAIMED")
                              /\ work' = [work EXCEPT ![w] = p]
  BY DEF Claim
<1>2. pc[w] = "idle" /\ pc' = [pc EXCEPT ![w] = "claimed"] /\ UNCHANGED <<runs, reconciled>>
  BY DEF Claim, Goto, history
<1> SUFFICES ASSUME NEW o \in Occurrence
             PROVE  runs[o] + Cardinality(Claimers(o)') <= reconciled[o] + Taken(o)'
  BY <1>2 DEF Paid
<1>3. runs[o] + Cardinality(Claimers(o)) <= reconciled[o] + Taken(o)
  BY DEF Paid
<1>4. runs[o] \in Nat /\ reconciled[o] \in Nat /\ Cardinality(Claimers(o)) \in Nat
  BY ClaimersFinite DEF TypeOK
<1>5. CASE o = p
  <2>1. Claimers(o)' = Claimers(o) \cup {w} /\ w \notin Claimers(o)
    BY <1>1, <1>2, <1>5 DEF Claimers, TypeOK
  <2>2. Cardinality(Claimers(o)') = Cardinality(Claimers(o)) + 1
    BY <2>1, ClaimersFinite, FS_AddElement
  <2>3. Taken(o) = 0 /\ Taken(o)' = 1
    BY <1>1, <1>5 DEF Taken, SetStatus, TypeOK
  <2>4. QED
    BY <1>3, <1>4, <2>2, <2>3
<1>6. CASE o # p
  <2>1. Claimers(o)' = Claimers(o)
    BY <1>1, <1>2, <1>6 DEF Claimers, TypeOK
  <2>2. Taken(o)' = Taken(o)
    BY <1>1, <1>6 DEF Taken, SetStatus, TypeOK
  <2>3. QED
    BY <1>3, <2>1, <2>2
<1>7. QED
  BY <1>5, <1>6

LEMMA PaidExecute ==
  ASSUME TypeOK, Paid, NEW w \in Worker, Execute(w)
  PROVE  Paid'
<1>1. /\ pc[w] = "claimed" /\ pc' = [pc EXCEPT ![w] = "running"]
      /\ runs' = [runs EXCEPT ![work[w]] = @ + 1]
      /\ UNCHANGED <<work, reconciled, status>>
  BY DEF Execute, Goto, rowVars
<1> SUFFICES ASSUME NEW o \in Occurrence
             PROVE  runs'[o] + Cardinality(Claimers(o)') <= reconciled[o] + Taken(o)
  BY <1>1 DEF Paid, Taken
<1>2. /\ Cardinality(Claimers(o)) \in Nat
      /\ Cardinality(Claimers(o)') = Cardinality(Claimers(o)) - (IF w \in Claimers(o) THEN 1 ELSE 0)
  <2>1. pc'[w] # "claimed" /\ \A v \in Worker \ {w} : pc'[v] = pc[v] /\ work'[v] = work[v]
    BY <1>1 DEF TypeOK
  <2>2. QED
    BY <2>1, ClaimersFinite, ClaimerLeaves
<1>3. runs[o] \in Nat /\ runs'[o] = runs[o] + (IF work[w] = o THEN 1 ELSE 0)
  BY <1>1 DEF TypeOK
<1>4. w \in Claimers(o) <=> work[w] = o
  BY <1>1 DEF Claimers
<1>5. runs[o] + Cardinality(Claimers(o)) <= reconciled[o] + Taken(o)
  BY DEF Paid
<1>6. reconciled[o] \in Nat /\ Taken(o) \in 0..1
  BY DEF TypeOK, Taken
<1>7. QED
  BY <1>2, <1>3, <1>4, <1>5, <1>6

LEMMA PaidReconcile ==
  ASSUME TypeOK, Paid, ReconcileStaleClaims
  PROVE  Paid'
<1>1. UNCHANGED <<pc, work, runs>>
  BY DEF ReconcileStaleClaims, workerVars
<1> SUFFICES ASSUME NEW o \in Occurrence
             PROVE  runs[o] + Cardinality(Claimers(o)) <= reconciled'[o] + Taken(o)'
  BY <1>1, ClaimersStay DEF Paid
<1>2. reconciled[o] \in Nat /\ reconciled'[o] + Taken(o)' = reconciled[o] + Taken(o)
  BY DEF ReconcileStaleClaims, Taken, TypeOK
<1>3. runs[o] + Cardinality(Claimers(o)) <= reconciled[o] + Taken(o)
  BY DEF Paid
<1>4. QED
  BY <1>2, <1>3

LEMMA PaidInductive ==
  ASSUME TypeOK, TypeOK', Paid, [Next]_vars
  PROVE  Paid'
<1>1. ASSUME NEW w \in Worker, WorkerStep(w)
      PROVE  Paid'
  <2>1. ASSUME NEW s \in Schedule, NEW on \in BOOLEAN, NEW rec \in BOOLEAN, NEW wf \in BOOLEAN,
               CreateSchedule(w, s, on, rec, wf)
        PROVE  Paid'
    <3>1. /\ pc'[w] # "claimed" /\ \A v \in Worker \ {w} : pc'[v] = pc[v] /\ work'[v] = work[v]
          /\ UNCHANGED <<runs, reconciled, status>>
      BY <2>1 DEF CreateSchedule, Goto, TypeOK, history, rowVars
    <3>2. \A o \in Occurrence : Taken(o)' >= Taken(o)
      BY <3>1 DEF Taken
    <3>3. QED
      BY <3>1, <3>2, PaidWhenLeaving
  <2>2. CASE RegisterNext(w)
    <3>1. /\ pc'[w] # "claimed" /\ \A v \in Worker \ {w} : pc'[v] = pc[v] /\ work'[v] = work[v]
          /\ UNCHANGED <<runs, reconciled>>
      BY <2>2 DEF RegisterNext, Goto, TypeOK, history
    <3>2. \A o \in Occurrence : Taken(o)' >= Taken(o)
      BY <2>2 DEF RegisterNext, ScheduleNextOccurrence, Insert, Taken, TypeOK
    <3>3. QED
      BY <3>1, <3>2, PaidWhenLeaving
  <2>3. CASE Claim(w)
    BY <2>3, PaidClaim
  <2>4. CASE ExecuteRefused(w) \/ ExecuteNothing(w)
    <3>1. /\ pc'[w] # "claimed" /\ \A v \in Worker \ {w} : pc'[v] = pc[v] /\ work'[v] = work[v]
          /\ UNCHANGED <<runs, reconciled, status>>
      BY <2>4 DEF ExecuteRefused, ExecuteNothing, Leaves, Goto, TypeOK, history, rowVars
    <3>2. \A o \in Occurrence : Taken(o)' >= Taken(o)
      BY <3>1 DEF Taken
    <3>3. QED
      BY <3>1, <3>2, PaidWhenLeaving
  <2>5. CASE Execute(w)
    BY <2>5, PaidExecute
  <2>6. ASSUME NEW result \in {"EXECUTED", "FAILED"}, Finish(w, result)
        PROVE  Paid'
    <3>1. /\ pc'[w] # "claimed" /\ \A v \in Worker \ {w} : pc'[v] = pc[v] /\ work'[v] = work[v]
          /\ UNCHANGED <<runs, reconciled>>
      BY <2>6 DEF Finish, Goto, TypeOK, history
    <3>2. \A o \in Occurrence : Taken(o)' >= Taken(o)
      BY <2>6 DEF Finish, SetStatus, Taken, TypeOK
    <3>3. QED
      BY <3>1, <3>2, PaidWhenLeaving
  <2>7. CASE FinishNext(w)
    <3>1. /\ pc'[w] # "claimed" /\ \A v \in Worker \ {w} : pc'[v] = pc[v] /\ work'[v] = work[v]
          /\ UNCHANGED <<runs, reconciled>>
      BY <2>7 DEF FinishNext, Goto, TypeOK, history
    <3>2. \A o \in Occurrence : Taken(o)' >= Taken(o)
      BY <2>7 DEF FinishNext, ScheduleNextOccurrence, Insert, Taken, TypeOK
    <3>3. QED
      BY <3>1, <3>2, PaidWhenLeaving
  <2>8. CASE RunOnceSkips(w)
    <3>1. /\ pc'[w] # "claimed" /\ \A v \in Worker \ {w} : pc'[v] = pc[v] /\ work'[v] = work[v]
          /\ UNCHANGED <<runs, reconciled>>
      BY <2>8 DEF RunOnceSkips, Goto, TypeOK, history
    <3>2. \A o \in Occurrence : Taken(o)' >= Taken(o)
      BY <2>8 DEF RunOnceSkips, SetStatus, Taken, TypeOK
    <3>3. QED
      BY <3>1, <3>2, PaidWhenLeaving
  <2>9. CASE RunOnce(w)
    <3>1. /\ pc'[w] # "claimed" /\ \A v \in Worker \ {w} : pc'[v] = pc[v] /\ work'[v] = work[v]
          /\ UNCHANGED <<runs, reconciled, status>>
      BY <2>9 DEF RunOnce, Goto, TypeOK, history, rowVars
    <3>2. \A o \in Occurrence : Taken(o)' >= Taken(o)
      BY <3>1 DEF Taken
    <3>3. QED
      BY <3>1, <3>2, PaidWhenLeaving
  <2>10. CASE BreakOff(w)
    <3>1. /\ pc'[w] # "claimed" /\ \A v \in Worker \ {w} : pc'[v] = pc[v] /\ work'[v] = work[v]
          /\ UNCHANGED <<runs, reconciled, status>>
      BY <2>10 DEF BreakOff, Leaves, Goto, TypeOK, rowVars
    <3>2. \A o \in Occurrence : Taken(o)' >= Taken(o)
      BY <3>1 DEF Taken
    <3>3. QED
      BY <3>1, <3>2, PaidWhenLeaving
  <2>11. QED
    BY <1>1, <2>1, <2>2, <2>3, <2>4, <2>5, <2>6, <2>7, <2>8, <2>9, <2>10 DEF WorkerStep, Work
<1>2. ASSUME NEW s \in Schedule, EndSchedule(s)
      PROVE  Paid'
  <2>1. UNCHANGED <<pc, work, runs, reconciled, status>>
    BY <1>2 DEF EndSchedule, workerVars, history, rowVars
  <2>2. QED
    BY <2>1, PaidAtRest DEF Taken
<1>3. ASSUME NEW s \in Schedule, DeleteSchedule(s)
      PROVE  Paid'
  <2>1. UNCHANGED <<pc, work, runs, reconciled, status>>
    BY <1>3 DEF DeleteSchedule, workerVars, history, rowVars
  <2>2. QED
    BY <2>1, PaidAtRest DEF Taken
<1>4. CASE ReconcileStaleClaims
  BY <1>4, PaidReconcile
<1>5. CASE SkipMissed
  <2>1. UNCHANGED <<pc, work, runs, reconciled>>
    BY <1>5 DEF SkipMissed, workerVars, history
  <2>2. \A o \in Occurrence : Taken(o)' >= Taken(o)
    BY <1>5 DEF SkipMissed, Taken, TypeOK
  <2>3. QED
    BY <2>1, <2>2, PaidAtRest
<1>6. CASE Tick
  <2>1. UNCHANGED <<pc, work, runs, reconciled, status>>
    BY <1>6 DEF Tick, workerVars, history, rowVars
  <2>2. QED
    BY <2>1, PaidAtRest DEF Taken
<1>7. CASE UNCHANGED vars
  <2>1. UNCHANGED <<pc, work, runs, reconciled, status>>
    BY <1>7 DEF vars, workerVars, history, rowVars
  <2>2. QED
    BY <2>1, PaidAtRest DEF Taken
<1>8. QED
  BY <1>1, <1>2, <1>3, <1>4, <1>5, <1>6, <1>7 DEF Next, WorkerStep

\* However many workers share the queue, and however slow or dead they are, an
\* occurrence is executed again only for a claim that was taken back as stale.
THEOREM RunsPaidAlways == Spec => []RunsPaid
<1>1. Init => Paid
  <2> SUFFICES ASSUME Init, NEW o \in Occurrence
               PROVE  runs[o] + Cardinality(Claimers(o)) <= reconciled[o] + Taken(o)
    BY DEF Paid
  <2>1. Claimers(o) = {}
    BY DEF Init, Claimers
  <2>2. QED
    BY <2>1, FS_EmptySet DEF Init, Taken
<1>2. TypeOK /\ Paid => RunsPaid
  <2> SUFFICES ASSUME TypeOK, Paid, NEW o \in Occurrence
               PROVE  runs[o] <= 1 + reconciled[o]
    BY DEF RunsPaid
  <2>1. runs[o] + Cardinality(Claimers(o)) <= reconciled[o] + Taken(o)
    BY DEF Paid
  <2>2. /\ runs[o] \in Nat /\ reconciled[o] \in Nat /\ Taken(o) \in 0..1
        /\ Cardinality(Claimers(o)) \in Nat
    BY ClaimersFinite DEF TypeOK, Taken
  <2>3. QED
    BY <2>1, <2>2
<1>3. QED
  BY <1>1, <1>2, TypeCorrect, PaidInductive, PTL DEF Spec

-----------------------------------------------------------------------------
(* The chain of a recurring schedule is not broken. *)

\* What has a row, is worked at or is going to be skipped was registered once.
RowsKnown == \A o \in Occurrence : status[o] # "NONE" => registered[ScheduleOf(o)] # 0
CallsKnown ==
    \A w \in Worker : pc[w] \in {"register", "claimed", "running", "next"}
                        => registered[ScheduleOf(work[w])] # 0
TodoKnown == \A w \in Worker : \A o \in todo[w] : registered[ScheduleOf(o)] # 0
Known == RowsKnown /\ CallsKnown /\ TodoKnown

\* What was claimed was due.
RowsDue ==
    \A o \in Occurrence : status[o] \in {"CLAIMED", "EXECUTED", "FAILED"} => DueAt(o) <= MaxClock
CallsDue ==
    \A w \in Worker : pc[w] \in {"claimed", "running", "next"} => DueAt(work[w]) <= MaxClock
Due == RowsDue /\ CallsDue

\* A worker that executes a schedule registered once, and recurring still, has
\* read it as recurring.
Chained ==
    \A w \in Worker :
        LET s == ScheduleOf(work[w]) IN
        pc[w] = "running" /\ registered[s] = 1 /\ s \in enabled \cap recurring => w \in chained

RowStays == \A o \in Occurrence : status[o] # "NONE" => status'[o] # "NONE"

\* A next occurrence is a new row of its schedule, or nothing.
LEMMA NextIsNew ==
  ASSUME TypeOK, NEW s \in Schedule, NEW from, ScheduleNextOccurrence(s, from)
  PROVE  \A o \in Occurrence :
             \/ status'[o] = status[o]
             \/ status[o] = "NONE" /\ status'[o] = "PENDING" /\ ScheduleOf(o) = s
<1> USE DEF TypeOK
<1>1. CASE UNCHANGED status
  BY <1>1
<1>2. ASSUME NEW due, Insert(s, due)
      PROVE  \A o \in Occurrence :
                 \/ status'[o] = status[o]
                 \/ status[o] = "NONE" /\ status'[o] = "PENDING" /\ ScheduleOf(o) = s
  BY <1>2 DEF Insert, ScheduleOf
<1>3. QED
  BY <1>1, <1>2 DEF ScheduleNextOccurrence

\* An enabled recurring schedule gets one.
LEMMA NextIsThere ==
  ASSUME TypeOK, NEW s \in enabled \cap recurring, NEW from \in Nat,
         <<s, from + Interval>> \in Occurrence, ScheduleNextOccurrence(s, from)
  PROVE  status'[<<s, from + Interval>>] # "NONE"
<1>1. NextDue(s, from) = {from + Interval}
  BY DEF NextDue
<1>2. Insert(s, from + Interval)
  BY <1>1 DEF ScheduleNextOccurrence
<1>3. QED
  BY <1>2 DEF Insert

\* A row is never removed.
LEMMA StepRowStays ==
  ASSUME TypeOK, [Next]_vars
  PROVE  RowStays
<1> USE DEF TypeOK, Occurrence, Open, Settled, ScheduleOf, DueAt, Goto, SetStatus,
            scheduleVars, rowVars, workerVars, history, RowStays
<1>1. ASSUME NEW w \in Worker, WorkerStep(w)
      PROVE  RowStays
  <2>1. ASSUME NEW s \in Schedule, NEW on \in BOOLEAN, NEW rec \in BOOLEAN, NEW wf \in BOOLEAN,
               CreateSchedule(w, s, on, rec, wf)
        PROVE  RowStays
    BY <2>1 DEF CreateSchedule
  <2>2. CASE RegisterNext(w)
    BY <2>2 DEF RegisterNext, ScheduleNextOccurrence, Insert, NextDue
  <2>3. CASE Claim(w)
    BY <2>3 DEF Claim
  <2>4. CASE ExecuteRefused(w) \/ ExecuteNothing(w)
    BY <2>4 DEF ExecuteRefused, ExecuteNothing, Leaves
  <2>5. CASE Execute(w)
    BY <2>5 DEF Execute
  <2>6. ASSUME NEW result \in {"EXECUTED", "FAILED"}, Finish(w, result)
        PROVE  RowStays
    BY <2>6 DEF Finish
  <2>7. CASE FinishNext(w)
    BY <2>7 DEF FinishNext, ScheduleNextOccurrence, Insert, NextDue
  <2>8. CASE RunOnceSkips(w)
    BY <2>8 DEF RunOnceSkips
  <2>9. CASE RunOnce(w)
    BY <2>9 DEF RunOnce, Missed
  <2>10. CASE BreakOff(w)
    BY <2>10 DEF BreakOff, Leaves
  <2>11. QED
    BY ONLY <1>1, <2>1, <2>2, <2>3, <2>4, <2>5, <2>6, <2>7, <2>8, <2>9, <2>10 DEF WorkerStep, Work
<1>2. ASSUME NEW s \in Schedule, EndSchedule(s)
      PROVE  RowStays
  BY <1>2 DEF EndSchedule
<1>3. ASSUME NEW s \in Schedule, DeleteSchedule(s)
      PROVE  RowStays
  BY <1>3 DEF DeleteSchedule
<1>4. CASE ReconcileStaleClaims
  BY <1>4 DEF ReconcileStaleClaims
<1>5. CASE SkipMissed
  BY <1>5 DEF SkipMissed, Missed
<1>6. CASE Tick
  BY <1>6 DEF Tick
<1>7. CASE UNCHANGED vars
  BY <1>7 DEF vars
<1>8. QED
  BY ONLY [Next]_vars, <1>1, <1>2, <1>3, <1>4, <1>5, <1>6, <1>7 DEF Next, WorkerStep, vars

\* Rows are made of registered schedules only.
LEMMA RowsKnownInductive ==
  ASSUME TypeOK, TypeOK', Known, [Next]_vars
  PROVE  RowsKnown'
<1> USE DEF TypeOK, Occurrence, Open, Settled, ScheduleOf, DueAt, Goto, SetStatus,
            scheduleVars, rowVars, workerVars, history,
            Known, RowsKnown, CallsKnown, TodoKnown
<1>1. ASSUME NEW w \in Worker, WorkerStep(w)
      PROVE  RowsKnown'
  <2>1. ASSUME NEW s \in Schedule, NEW on \in BOOLEAN, NEW rec \in BOOLEAN, NEW wf \in BOOLEAN,
               CreateSchedule(w, s, on, rec, wf)
        PROVE  RowsKnown'
    BY <2>1 DEF CreateSchedule
  <2>2. CASE RegisterNext(w)
    <3>1. ScheduleOf(work[w]) \in Schedule
      OBVIOUS
    <3>2. ScheduleNextOccurrence(ScheduleOf(work[w]), clock) /\ pc[w] = "register" /\ UNCHANGED registered
      BY <2>2 DEF RegisterNext
    <3> HIDE DEF ScheduleOf
    <3>3. \A o \in Occurrence : \/ status'[o] = status[o]
                                \/ /\ status[o] = "NONE" /\ status'[o] = "PENDING"
                                   /\ ScheduleOf(o) = ScheduleOf(work[w])
      BY <3>1, <3>2, NextIsNew
    <3>4. QED
      BY <3>2, <3>3
  <2>3. CASE Claim(w)
    BY <2>3 DEF Claim
  <2>4. CASE ExecuteRefused(w) \/ ExecuteNothing(w)
    BY <2>4 DEF ExecuteRefused, ExecuteNothing, Leaves
  <2>5. CASE Execute(w)
    BY <2>5 DEF Execute
  <2>6. ASSUME NEW result \in {"EXECUTED", "FAILED"}, Finish(w, result)
        PROVE  RowsKnown'
    BY <2>6 DEF Finish
  <2>7. CASE FinishNext(w)
    <3>1. ScheduleOf(work[w]) \in Schedule
      OBVIOUS
    <3>2. ScheduleNextOccurrence(ScheduleOf(work[w]), DueAt(work[w])) /\ pc[w] = "next" /\ UNCHANGED registered
      BY <2>7 DEF FinishNext
    <3> HIDE DEF ScheduleOf
    <3>3. \A o \in Occurrence : \/ status'[o] = status[o]
                                \/ /\ status[o] = "NONE" /\ status'[o] = "PENDING"
                                   /\ ScheduleOf(o) = ScheduleOf(work[w])
      BY <3>1, <3>2, NextIsNew
    <3>4. QED
      BY <3>2, <3>3
  <2>8. CASE RunOnceSkips(w)
    BY <2>8 DEF RunOnceSkips
  <2>9. CASE RunOnce(w)
    BY <2>9 DEF RunOnce, Missed
  <2>10. CASE BreakOff(w)
    BY <2>10 DEF BreakOff, Leaves
  <2>11. QED
    BY ONLY <1>1, <2>1, <2>2, <2>3, <2>4, <2>5, <2>6, <2>7, <2>8, <2>9, <2>10 DEF WorkerStep, Work
<1>2. ASSUME NEW s \in Schedule, EndSchedule(s)
      PROVE  RowsKnown'
  BY <1>2 DEF EndSchedule
<1>3. ASSUME NEW s \in Schedule, DeleteSchedule(s)
      PROVE  RowsKnown'
  BY <1>3 DEF DeleteSchedule
<1>4. CASE ReconcileStaleClaims
  BY <1>4 DEF ReconcileStaleClaims
<1>5. CASE SkipMissed
  BY <1>5 DEF SkipMissed, Missed
<1>6. CASE Tick
  BY <1>6 DEF Tick
<1>7. CASE UNCHANGED vars
  BY <1>7 DEF vars
<1>8. QED
  BY ONLY [Next]_vars, <1>1, <1>2, <1>3, <1>4, <1>5, <1>6, <1>7 DEF Next, WorkerStep, vars

\* Workers work at rows, or register what they have created.
LEMMA CallsKnownInductive ==
  ASSUME TypeOK, TypeOK', Known, [Next]_vars
  PROVE  CallsKnown'
<1> USE DEF TypeOK, Occurrence, Open, Settled, ScheduleOf, DueAt, Goto, SetStatus,
            scheduleVars, rowVars, workerVars, history,
            Known, RowsKnown, CallsKnown
<1>1. ASSUME NEW w \in Worker, WorkerStep(w)
      PROVE  CallsKnown'
  <2>1. ASSUME NEW s \in Schedule, NEW on \in BOOLEAN, NEW rec \in BOOLEAN, NEW wf \in BOOLEAN,
               CreateSchedule(w, s, on, rec, wf)
        PROVE  CallsKnown'
    BY <2>1 DEF CreateSchedule
  <2>2. CASE RegisterNext(w)
    BY <2>2 DEF RegisterNext, ScheduleNextOccurrence, Insert, NextDue
  <2>3. CASE Claim(w)
    BY <2>3 DEF Claim
  <2>4. CASE ExecuteRefused(w) \/ ExecuteNothing(w)
    BY <2>4 DEF ExecuteRefused, ExecuteNothing, Leaves
  <2>5. CASE Execute(w)
    BY <2>5 DEF Execute
  <2>6. ASSUME NEW result \in {"EXECUTED", "FAILED"}, Finish(w, result)
        PROVE  CallsKnown'
    BY <2>6 DEF Finish
  <2>7. CASE FinishNext(w)
    BY <2>7 DEF FinishNext, ScheduleNextOccurrence, Insert, NextDue
  <2>8. CASE RunOnceSkips(w)
    BY <2>8 DEF RunOnceSkips
  <2>9. CASE RunOnce(w)
    BY <2>9 DEF RunOnce, Missed
  <2>10. CASE BreakOff(w)
    BY <2>10 DEF BreakOff, Leaves
  <2>11. QED
    BY ONLY <1>1, <2>1, <2>2, <2>3, <2>4, <2>5, <2>6, <2>7, <2>8, <2>9, <2>10 DEF WorkerStep, Work
<1>2. ASSUME NEW s \in Schedule, EndSchedule(s)
      PROVE  CallsKnown'
  BY <1>2 DEF EndSchedule
<1>3. ASSUME NEW s \in Schedule, DeleteSchedule(s)
      PROVE  CallsKnown'
  BY <1>3 DEF DeleteSchedule
<1>4. CASE ReconcileStaleClaims
  BY <1>4 DEF ReconcileStaleClaims
<1>5. CASE SkipMissed
  BY <1>5 DEF SkipMissed, Missed
<1>6. CASE Tick
  BY <1>6 DEF Tick
<1>7. CASE UNCHANGED vars
  BY <1>7 DEF vars
<1>8. QED
  BY ONLY [Next]_vars, <1>1, <1>2, <1>3, <1>4, <1>5, <1>6, <1>7 DEF Next, WorkerStep, vars

\* Only rows are skipped.
LEMMA TodoKnownInductive ==
  ASSUME TypeOK, TypeOK', Known, [Next]_vars
  PROVE  TodoKnown'
<1> USE DEF TypeOK, Occurrence, Open, Settled, ScheduleOf, DueAt, Goto, SetStatus,
            scheduleVars, rowVars, workerVars, history,
            Known, RowsKnown, TodoKnown
<1>1. ASSUME NEW w \in Worker, WorkerStep(w)
      PROVE  TodoKnown'
  <2>1. ASSUME NEW s \in Schedule, NEW on \in BOOLEAN, NEW rec \in BOOLEAN, NEW wf \in BOOLEAN,
               CreateSchedule(w, s, on, rec, wf)
        PROVE  TodoKnown'
    BY <2>1 DEF CreateSchedule
  <2>2. CASE RegisterNext(w)
    BY <2>2 DEF RegisterNext, ScheduleNextOccurrence, Insert, NextDue
  <2>3. CASE Claim(w)
    BY <2>3 DEF Claim
  <2>4. CASE ExecuteRefused(w) \/ ExecuteNothing(w)
    BY <2>4 DEF ExecuteRefused, ExecuteNothing, Leaves
  <2>5. CASE Execute(w)
    BY <2>5 DEF Execute
  <2>6. ASSUME NEW result \in {"EXECUTED", "FAILED"}, Finish(w, result)
        PROVE  TodoKnown'
    BY <2>6 DEF Finish
  <2>7. CASE FinishNext(w)
    BY <2>7 DEF FinishNext, ScheduleNextOccurrence, Insert, NextDue
  <2>8. CASE RunOnceSkips(w)
    BY <2>8 DEF RunOnceSkips
  <2>9. CASE RunOnce(w)
    BY <2>9 DEF RunOnce, Missed
  <2>10. CASE BreakOff(w)
    BY <2>10 DEF BreakOff, Leaves
  <2>11. QED
    BY ONLY <1>1, <2>1, <2>2, <2>3, <2>4, <2>5, <2>6, <2>7, <2>8, <2>9, <2>10 DEF WorkerStep, Work
<1>2. ASSUME NEW s \in Schedule, EndSchedule(s)
      PROVE  TodoKnown'
  BY <1>2 DEF EndSchedule
<1>3. ASSUME NEW s \in Schedule, DeleteSchedule(s)
      PROVE  TodoKnown'
  BY <1>3 DEF DeleteSchedule
<1>4. CASE ReconcileStaleClaims
  BY <1>4 DEF ReconcileStaleClaims
<1>5. CASE SkipMissed
  BY <1>5 DEF SkipMissed, Missed
<1>6. CASE Tick
  BY <1>6 DEF Tick
<1>7. CASE UNCHANGED vars
  BY <1>7 DEF vars
<1>8. QED
  BY ONLY [Next]_vars, <1>1, <1>2, <1>3, <1>4, <1>5, <1>6, <1>7 DEF Next, WorkerStep, vars

\* A row is claimed when it is due.
LEMMA RowsDueInductive ==
  ASSUME TypeOK, TypeOK', Due, [Next]_vars
  PROVE  RowsDue'
<1> USE DEF TypeOK, Occurrence, Open, Settled, ScheduleOf, DueAt, Goto, SetStatus,
            scheduleVars, rowVars, workerVars, history,
            Due, RowsDue, CallsDue
<1>1. ASSUME NEW w \in Worker, WorkerStep(w)
      PROVE  RowsDue'
  <2>1. ASSUME NEW s \in Schedule, NEW on \in BOOLEAN, NEW rec \in BOOLEAN, NEW wf \in BOOLEAN,
               CreateSchedule(w, s, on, rec, wf)
        PROVE  RowsDue'
    BY <2>1 DEF CreateSchedule
  <2>2. CASE RegisterNext(w)
    <3>1. ScheduleOf(work[w]) \in Schedule
      OBVIOUS
    <3>2. ScheduleNextOccurrence(ScheduleOf(work[w]), clock) /\ pc[w] = "register"
      BY <2>2 DEF RegisterNext
    <3> HIDE DEF ScheduleOf
    <3>3. \A o \in Occurrence : \/ status'[o] = status[o]
                                \/ /\ status[o] = "NONE" /\ status'[o] = "PENDING"
                                   /\ ScheduleOf(o) = ScheduleOf(work[w])
      BY <3>1, <3>2, NextIsNew
    <3>4. QED
      BY <3>2, <3>3
  <2>3. CASE Claim(w)
    <3>1. clock \in Nat /\ clock <= MaxClock /\ MaxClock \in Nat
      BY OccurrencesAssumption
    <3>2. PICK o \in Occurrence : /\ DueAt(o) <= clock
                                  /\ SetStatus(o, "CLAIMED")
                                  /\ work' = [work EXCEPT ![w] = o]
      BY <2>3 DEF Claim
    <3>3. DueAt(o) \in Nat
      BY OccurrencesAssumption DEF Time
    <3>4. DueAt(o) <= MaxClock /\ pc' = [pc EXCEPT ![w] = "claimed"]
      BY <2>3, <3>1, <3>2, <3>3 DEF Claim
    <3> HIDE DEF DueAt
    <3>5. QED
      BY <3>2, <3>4
  <2>4. CASE ExecuteRefused(w) \/ ExecuteNothing(w)
    BY <2>4 DEF ExecuteRefused, ExecuteNothing, Leaves
  <2>5. CASE Execute(w)
    BY <2>5 DEF Execute
  <2>6. ASSUME NEW result \in {"EXECUTED", "FAILED"}, Finish(w, result)
        PROVE  RowsDue'
    BY <2>6 DEF Finish
  <2>7. CASE FinishNext(w)
    <3>1. ScheduleOf(work[w]) \in Schedule
      OBVIOUS
    <3>2. ScheduleNextOccurrence(ScheduleOf(work[w]), DueAt(work[w])) /\ pc[w] = "next"
      BY <2>7 DEF FinishNext
    <3> HIDE DEF ScheduleOf
    <3>3. \A o \in Occurrence : \/ status'[o] = status[o]
                                \/ /\ status[o] = "NONE" /\ status'[o] = "PENDING"
                                   /\ ScheduleOf(o) = ScheduleOf(work[w])
      BY <3>1, <3>2, NextIsNew
    <3>4. QED
      BY <3>2, <3>3
  <2>8. CASE RunOnceSkips(w)
    BY <2>8 DEF RunOnceSkips
  <2>9. CASE RunOnce(w)
    BY <2>9 DEF RunOnce, Missed
  <2>10. CASE BreakOff(w)
    BY <2>10 DEF BreakOff, Leaves
  <2>11. QED
    BY ONLY <1>1, <2>1, <2>2, <2>3, <2>4, <2>5, <2>6, <2>7, <2>8, <2>9, <2>10 DEF WorkerStep, Work
<1>2. ASSUME NEW s \in Schedule, EndSchedule(s)
      PROVE  RowsDue'
  BY <1>2 DEF EndSchedule
<1>3. ASSUME NEW s \in Schedule, DeleteSchedule(s)
      PROVE  RowsDue'
  BY <1>3 DEF DeleteSchedule
<1>4. CASE ReconcileStaleClaims
  BY <1>4 DEF ReconcileStaleClaims
<1>5. CASE SkipMissed
  BY <1>5 DEF SkipMissed, Missed
<1>6. CASE Tick
  BY <1>6 DEF Tick
<1>7. CASE UNCHANGED vars
  BY <1>7 DEF vars
<1>8. QED
  BY ONLY [Next]_vars, <1>1, <1>2, <1>3, <1>4, <1>5, <1>6, <1>7 DEF Next, WorkerStep, vars

\* Workers work at claimed rows.
LEMMA CallsDueInductive ==
  ASSUME TypeOK, TypeOK', Due, [Next]_vars
  PROVE  CallsDue'
<1> USE DEF TypeOK, Occurrence, Open, Settled, ScheduleOf, DueAt, Goto, SetStatus,
            scheduleVars, rowVars, workerVars, history,
            Due, CallsDue
<1>1. ASSUME NEW w \in Worker, WorkerStep(w)
      PROVE  CallsDue'
  <2>1. ASSUME NEW s \in Schedule, NEW on \in BOOLEAN, NEW rec \in BOOLEAN, NEW wf \in BOOLEAN,
               CreateSchedule(w, s, on, rec, wf)
        PROVE  CallsDue'
    BY <2>1 DEF CreateSchedule
  <2>2. CASE RegisterNext(w)
    BY <2>2 DEF RegisterNext, ScheduleNextOccurrence, Insert, NextDue
  <2>3. CASE Claim(w)
    <3>1. clock \in Nat /\ clock <= MaxClock /\ MaxClock \in Nat
      BY OccurrencesAssumption
    <3>2. PICK o \in Occurrence : /\ DueAt(o) <= clock
                                  /\ SetStatus(o, "CLAIMED")
                                  /\ work' = [work EXCEPT ![w] = o]
      BY <2>3 DEF Claim
    <3>3. DueAt(o) \in Nat
      BY OccurrencesAssumption DEF Time
    <3>4. DueAt(o) <= MaxClock /\ pc' = [pc EXCEPT ![w] = "claimed"]
      BY <2>3, <3>1, <3>2, <3>3 DEF Claim
    <3> HIDE DEF DueAt
    <3>5. QED
      BY <3>2, <3>4
  <2>4. CASE ExecuteRefused(w) \/ ExecuteNothing(w)
    BY <2>4 DEF ExecuteRefused, ExecuteNothing, Leaves
  <2>5. CASE Execute(w)
    BY <2>5 DEF Execute
  <2>6. ASSUME NEW result \in {"EXECUTED", "FAILED"}, Finish(w, result)
        PROVE  CallsDue'
    BY <2>6 DEF Finish
  <2>7. CASE FinishNext(w)
    BY <2>7 DEF FinishNext, ScheduleNextOccurrence, Insert, NextDue
  <2>8. CASE RunOnceSkips(w)
    BY <2>8 DEF RunOnceSkips
  <2>9. CASE RunOnce(w)
    BY <2>9 DEF RunOnce, Missed
  <2>10. CASE BreakOff(w)
    BY <2>10 DEF BreakOff, Leaves
  <2>11. QED
    BY ONLY <1>1, <2>1, <2>2, <2>3, <2>4, <2>5, <2>6, <2>7, <2>8, <2>9, <2>10 DEF WorkerStep, Work
<1>2. ASSUME NEW s \in Schedule, EndSchedule(s)
      PROVE  CallsDue'
  BY <1>2 DEF EndSchedule
<1>3. ASSUME NEW s \in Schedule, DeleteSchedule(s)
      PROVE  CallsDue'
  BY <1>3 DEF DeleteSchedule
<1>4. CASE ReconcileStaleClaims
  BY <1>4 DEF ReconcileStaleClaims
<1>5. CASE SkipMissed
  BY <1>5 DEF SkipMissed, Missed
<1>6. CASE Tick
  BY <1>6 DEF Tick
<1>7. CASE UNCHANGED vars
  BY <1>7 DEF vars
<1>8. QED
  BY ONLY [Next]_vars, <1>1, <1>2, <1>3, <1>4, <1>5, <1>6, <1>7 DEF Next, WorkerStep, vars

\* Only a new registration makes a schedule recurring.
LEMMA ChainedInductive ==
  ASSUME TypeOK, TypeOK', Known, Chained, [Next]_vars
  PROVE  Chained'
<1> USE DEF TypeOK, Occurrence, Open, Settled, ScheduleOf, DueAt, Goto, SetStatus,
            scheduleVars, rowVars, workerVars, history,
            Known, CallsKnown, Chained
<1>1. ASSUME NEW w \in Worker, WorkerStep(w)
      PROVE  Chained'
  <2>1. ASSUME NEW s \in Schedule, NEW on \in BOOLEAN, NEW rec \in BOOLEAN, NEW wf \in BOOLEAN,
               CreateSchedule(w, s, on, rec, wf)
        PROVE  Chained'
    <3>1. /\ pc[w] = "idle" /\ pc' = [pc EXCEPT ![w] = "register"]
          /\ work' = [work EXCEPT ![w] = <<s, 0>>]
          /\ registered' = [registered EXCEPT ![s] = @ + 1]
          /\ \A r \in Schedule \ {s} : r \in enabled' \cap recurring' => r \in enabled \cap recurring
          /\ chained' = chained
      BY <2>1 DEF CreateSchedule
    <3>2. SUFFICES ASSUME NEW v \in Worker, pc'[v] = "running",
                          registered'[ScheduleOf(work'[v])] = 1,
                          ScheduleOf(work'[v]) \in enabled' \cap recurring'
                   PROVE  v \in chained'
      OBVIOUS
    <3>3. v # w /\ pc[v] = "running" /\ work'[v] = work[v]
      BY <3>1, <3>2
    <3>4. ScheduleOf(work[v]) \in Schedule /\ registered[ScheduleOf(work[v])] # 0
      BY <3>3
    <3>5. ScheduleOf(work[v]) # s
      <4>1. \A r \in Schedule : registered[r] \in Nat
        BY OccurrencesAssumption
      <4>2. QED
        BY ONLY <3>1, <3>2, <3>3, <3>4, <4>1, registered \in [Schedule -> 0..MaxRegistrations]
    <3>6. registered[ScheduleOf(work[v])] = 1 /\ ScheduleOf(work[v]) \in enabled \cap recurring
      BY <3>1, <3>2, <3>3, <3>4, <3>5
    <3>7. QED
      BY <3>1, <3>3, <3>6
  <2>2. CASE RegisterNext(w)
    BY <2>2 DEF RegisterNext, ScheduleNextOccurrence, Insert, NextDue
  <2>3. CASE Claim(w)
    BY <2>3 DEF Claim
  <2>4. CASE ExecuteRefused(w) \/ ExecuteNothing(w)
    BY <2>4 DEF ExecuteRefused, ExecuteNothing, Leaves
  <2>5. CASE Execute(w)
    BY <2>5 DEF Execute
  <2>6. ASSUME NEW result \in {"EXECUTED", "FAILED"}, Finish(w, result)
        PROVE  Chained'
    BY <2>6 DEF Finish
  <2>7. CASE FinishNext(w)
    BY <2>7 DEF FinishNext, ScheduleNextOccurrence, Insert, NextDue
  <2>8. CASE RunOnceSkips(w)
    BY <2>8 DEF RunOnceSkips
  <2>9. CASE RunOnce(w)
    BY <2>9 DEF RunOnce, Missed
  <2>10. CASE BreakOff(w)
    BY <2>10 DEF BreakOff, Leaves
  <2>11. QED
    BY ONLY <1>1, <2>1, <2>2, <2>3, <2>4, <2>5, <2>6, <2>7, <2>8, <2>9, <2>10 DEF WorkerStep, Work
<1>2. ASSUME NEW s \in Schedule, EndSchedule(s)
      PROVE  Chained'
  BY <1>2 DEF EndSchedule
<1>3. ASSUME NEW s \in Schedule, DeleteSchedule(s)
      PROVE  Chained'
  BY <1>3 DEF DeleteSchedule
<1>4. CASE ReconcileStaleClaims
  BY <1>4 DEF ReconcileStaleClaims
<1>5. CASE SkipMissed
  BY <1>5 DEF SkipMissed, Missed
<1>6. CASE Tick
  BY <1>6 DEF Tick
<1>7. CASE UNCHANGED vars
  BY <1>7 DEF vars
<1>8. QED
  BY ONLY [Next]_vars, <1>1, <1>2, <1>3, <1>4, <1>5, <1>6, <1>7 DEF Next, WorkerStep, vars

\* The next occurrence of a claimed occurrence has a row.
LEMMA NextInTime ==
  ASSUME TypeOK, NEW o \in Occurrence, DueAt(o) <= MaxClock
  PROVE  /\ ScheduleOf(o) \in Schedule /\ DueAt(o) \in Nat
         /\ <<ScheduleOf(o), DueAt(o) + Interval>> \in Occurrence
BY OccurrencesAssumption DEF Occurrence, Time, ScheduleOf, DueAt

\* What ChainContinues says of one occurrence, its next one being n.
Premises(o) ==
    /\ registered[ScheduleOf(o)] = 1 /\ ScheduleOf(o) \in enabled \cap recurring
    /\ status[o] \in {"EXECUTED", "FAILED"}
Followed(o) ==
    \/ status[<<ScheduleOf(o), DueAt(o) + Interval>>] # "NONE"
    \/ \E w \in Worker : pc[w] = "next" /\ work[w] = o
    \/ <<o, "next">> \in cut

\* An occurrence that was followed, and whose workers stay where they are, is.
LEMMA StaysFollowed ==
  ASSUME TypeOK, Due, ChainContinues, RowStays, NEW o \in Occurrence, Premises(o),
         <<o, "next">> \in cut => <<o, "next">> \in cut',
         \A v \in Worker : pc[v] = "next" /\ work[v] = o =>
             (pc'[v] = "next" /\ work'[v] = o) \/ <<o, "next">> \in cut'
  PROVE  Followed(o)'
<1>1. Followed(o)
  BY DEF ChainContinues, Premises, Followed
<1>2. <<ScheduleOf(o), DueAt(o) + Interval>> \in Occurrence
  BY NextInTime DEF Premises, Due, RowsDue
<1>3. QED
  BY <1>1, <1>2 DEF Followed, RowStays, DueAt, ScheduleOf

\* A step that registers nothing, starts and ends no execution, keeps the chain.
LEMMA ChainUndisturbed ==
  ASSUME TypeOK, Due, ChainContinues, RowStays,
         UNCHANGED registered, enabled' \subseteq enabled, recurring' \subseteq recurring,
         \A o \in Occurrence : status'[o] \in {"EXECUTED", "FAILED"} =>
             /\ status'[o] = status[o]
             /\ <<o, "next">> \in cut => <<o, "next">> \in cut',
         \A v \in Worker : pc[v] = "next" =>
             (pc'[v] = "next" /\ work'[v] = work[v]) \/ <<work[v], "next">> \in cut'
  PROVE  ChainContinues'
<1> SUFFICES ASSUME NEW o \in Occurrence, Premises(o)' PROVE Followed(o)'
  BY DEF ChainContinues, Premises, Followed
<1>1. Premises(o) /\ status'[o] \in {"EXECUTED", "FAILED"}
  BY DEF Premises
<1>2. QED
  BY <1>1, StaysFollowed

LEMMA ChainCreate ==
  ASSUME TypeOK, Known, Due, ChainContinues, RowStays, NEW w \in Worker, NEW s \in Schedule,
         NEW on \in BOOLEAN, NEW rec \in BOOLEAN, NEW wf \in BOOLEAN,
         CreateSchedule(w, s, on, rec, wf)
  PROVE  ChainContinues'
<1> SUFFICES ASSUME NEW o \in Occurrence, Premises(o)' PROVE Followed(o)'
  BY DEF ChainContinues, Premises, Followed
<1>1. /\ pc[w] = "idle" /\ pc' = [pc EXCEPT ![w] = "register"]
      /\ work' = [work EXCEPT ![w] = <<s, 0>>]
      /\ registered' = [registered EXCEPT ![s] = @ + 1]
      /\ \A r \in Schedule \ {s} : r \in enabled' \cap recurring' => r \in enabled \cap recurring
      /\ UNCHANGED <<status, cut>>
  BY DEF CreateSchedule, Goto, rowVars, history
<1>2. ScheduleOf(o) \in Schedule /\ registered[ScheduleOf(o)] \in Nat \ {0}
  <2>1. registered \in [Schedule -> Nat] /\ ScheduleOf(o) \in Schedule
    BY OccurrencesAssumption DEF TypeOK, Occurrence, ScheduleOf
  <2>2. status[o] # "NONE"
    BY <1>1 DEF Premises
  <2>3. registered[ScheduleOf(o)] # 0
    BY <2>2 DEF Known, RowsKnown
  <2>4. QED
    BY <2>1, <2>3
<1>3. ScheduleOf(o) # s
  <2>1. registered'[ScheduleOf(o)] = 1
    BY DEF Premises
  <2>2. registered \in [Schedule -> 0..MaxRegistrations]
    BY DEF TypeOK
  <2>3. QED
    BY ONLY <1>1, <1>2, <2>1, <2>2
<1>4. Premises(o)
  BY <1>1, <1>2, <1>3 DEF Premises, TypeOK
<1>5. \A v \in Worker : pc[v] = "next" => pc'[v] = "next" /\ work'[v] = work[v]
  BY <1>1 DEF TypeOK
<1>6. QED
  BY <1>1, <1>4, <1>5, StaysFollowed

LEMMA ChainFinish ==
  ASSUME TypeOK, Due, Chained, ChainContinues, RowStays, NEW w \in Worker,
         NEW result \in {"EXECUTED", "FAILED"}, Finish(w, result)
  PROVE  ChainContinues'
<1> SUFFICES ASSUME NEW o \in Occurrence, Premises(o)' PROVE Followed(o)'
  BY DEF ChainContinues, Premises, Followed
<1>1. /\ pc[w] = "running" /\ status' = [status EXCEPT ![work[w]] = result]
      /\ pc' = [pc EXCEPT ![w] = IF w \in chained THEN "next" ELSE "idle"]
      /\ UNCHANGED <<registered, enabled, recurring, cut, work>>
  BY DEF Finish, Goto, SetStatus, scheduleVars, history
<1>2. CASE o = work[w]
  <2>1. w \in chained
    BY <1>1, <1>2 DEF Chained, Premises
  <2>2. pc'[w] = "next" /\ work'[w] = o
    BY <1>1, <1>2, <2>1 DEF TypeOK
  <2>3. QED
    BY <2>2 DEF Followed
<1>3. CASE o # work[w]
  <2>1. Premises(o)
    BY <1>1, <1>3 DEF Premises, TypeOK
  <2>2. \A v \in Worker : pc[v] = "next" => pc'[v] = "next" /\ work'[v] = work[v]
    BY <1>1 DEF TypeOK
  <2>3. QED
    BY <1>1, <2>1, <2>2, StaysFollowed
<1>4. QED
  BY <1>2, <1>3

LEMMA ChainFinishNext ==
  ASSUME TypeOK, Due, ChainContinues, RowStays, NEW w \in Worker, FinishNext(w)
  PROVE  ChainContinues'
<1> SUFFICES ASSUME NEW o \in Occurrence, Premises(o)' PROVE Followed(o)'
  BY DEF ChainContinues, Premises, Followed
<1>1. /\ pc[w] = "next" /\ pc' = [pc EXCEPT ![w] = "idle"]
      /\ ScheduleNextOccurrence(ScheduleOf(work[w]), DueAt(work[w]))
      /\ UNCHANGED <<registered, enabled, recurring, cut, work>>
  BY DEF FinishNext, Goto, scheduleVars, history
<1>2. ScheduleOf(work[w]) \in Schedule /\ work[w] \in Occurrence
  BY DEF TypeOK, Occurrence, ScheduleOf
<1>3. Premises(o)
  <2>1. status'[o] \in {"EXECUTED", "FAILED"} => status'[o] = status[o]
    BY <1>1, <1>2, NextIsNew
  <2>2. QED
    BY <1>1, <2>1 DEF Premises
<1>4. CASE o = work[w]
  <2>1. /\ ScheduleOf(o) \in enabled \cap recurring /\ DueAt(o) \in Nat
        /\ <<ScheduleOf(o), DueAt(o) + Interval>> \in Occurrence
    BY <1>3, NextInTime DEF Premises, Due, RowsDue
  <2>2. status'[<<ScheduleOf(o), DueAt(o) + Interval>>] # "NONE"
    BY <1>1, <1>4, <2>1, NextIsThere
  <2>3. QED
    BY <2>2 DEF Followed, DueAt, ScheduleOf
<1>5. CASE o # work[w]
  <2>1. \A v \in Worker : pc[v] = "next" /\ work[v] = o => pc'[v] = "next" /\ work'[v] = o
    BY <1>1, <1>5 DEF TypeOK
  <2>2. QED
    BY <1>1, <1>3, <2>1, StaysFollowed
<1>6. QED
  BY <1>4, <1>5

\* An execution of a recurring schedule leaves the next one behind.
LEMMA ChainContinuesInductive ==
  ASSUME TypeOK, Known, Due, Chained, ChainContinues, RowStays, [Next]_vars
  PROVE  ChainContinues'
<1>1. ASSUME NEW w \in Worker, WorkerStep(w)
      PROVE  ChainContinues'
  <2>1. ASSUME NEW s \in Schedule, NEW on \in BOOLEAN, NEW rec \in BOOLEAN, NEW wf \in BOOLEAN,
               CreateSchedule(w, s, on, rec, wf)
        PROVE  ChainContinues'
    BY <2>1, ChainCreate
  <2>2. CASE RegisterNext(w)
    <3>1. \A o \in Occurrence : status'[o] \in {"EXECUTED", "FAILED"} => status'[o] = status[o]
      <4>1. ScheduleNextOccurrence(ScheduleOf(work[w]), clock) /\ ScheduleOf(work[w]) \in Schedule
        BY <2>2 DEF RegisterNext, TypeOK, Occurrence, ScheduleOf
      <4>2. QED
        BY <4>1, NextIsNew
    <3>2. QED
      BY <2>2, <3>1, ChainUndisturbed DEF RegisterNext, TypeOK, Goto, scheduleVars, history
  <2>3. CASE Claim(w)
    BY <2>3, ChainUndisturbed DEF Claim, TypeOK, Goto, SetStatus,
       scheduleVars, rowVars, workerVars, history
  <2>4. CASE ExecuteRefused(w) \/ ExecuteNothing(w)
    BY <2>4, ChainUndisturbed DEF ExecuteRefused, ExecuteNothing, Leaves, TypeOK, Goto, SetStatus,
       scheduleVars, rowVars, workerVars, history
  <2>5. CASE Execute(w)
    BY <2>5, ChainUndisturbed DEF Execute, TypeOK, Goto, SetStatus,
       scheduleVars, rowVars, workerVars, history
  <2>6. ASSUME NEW result \in {"EXECUTED", "FAILED"}, Finish(w, result)
        PROVE  ChainContinues'
    BY <2>6, ChainFinish
  <2>7. CASE FinishNext(w)
    BY <2>7, ChainFinishNext
  <2>8. CASE RunOnceSkips(w)
    BY <2>8, ChainUndisturbed DEF RunOnceSkips, TypeOK, Goto, SetStatus,
       scheduleVars, rowVars, workerVars, history
  <2>9. CASE RunOnce(w)
    BY <2>9, ChainUndisturbed DEF RunOnce, TypeOK, Goto, SetStatus,
       scheduleVars, rowVars, workerVars, history
  <2>10. CASE BreakOff(w)
    <3>1. /\ pc' = [pc EXCEPT ![w] = "idle"] /\ cut \subseteq cut'
          /\ pc[w] = "next" => <<work[w], "next">> \in cut'
          /\ UNCHANGED <<status, work, registered, enabled, recurring>>
      BY <2>10 DEF BreakOff, Leaves, Goto, scheduleVars, rowVars
    <3>2. QED
      BY <3>1, ChainUndisturbed DEF TypeOK
  <2>11. QED
    BY ONLY <1>1, <2>1, <2>2, <2>3, <2>4, <2>5, <2>6, <2>7, <2>8, <2>9, <2>10 DEF WorkerStep, Work
<1>2. ASSUME NEW s \in Schedule, EndSchedule(s)
      PROVE  ChainContinues'
  BY <1>2, ChainUndisturbed DEF EndSchedule, TypeOK, Goto, SetStatus,
     scheduleVars, rowVars, workerVars, history
<1>3. ASSUME NEW s \in Schedule, DeleteSchedule(s)
      PROVE  ChainContinues'
  BY <1>3, ChainUndisturbed DEF DeleteSchedule, TypeOK, Goto, SetStatus,
     scheduleVars, rowVars, workerVars, history
<1>4. CASE ReconcileStaleClaims
  BY <1>4, ChainUndisturbed DEF ReconcileStaleClaims, TypeOK, Goto, SetStatus,
     scheduleVars, rowVars, workerVars, history
<1>5. CASE SkipMissed
  BY <1>5, ChainUndisturbed DEF SkipMissed, Missed, TypeOK, Goto, SetStatus,
     scheduleVars, rowVars, workerVars, history
<1>6. CASE Tick
  BY <1>6, ChainUndisturbed DEF Tick, TypeOK, Goto, SetStatus,
     scheduleVars, rowVars, workerVars, history
<1>7. CASE UNCHANGED vars
  BY <1>7, ChainUndisturbed DEF vars, TypeOK, Goto, SetStatus,
     scheduleVars, rowVars, workerVars, history
<1>8. QED
  BY ONLY [Next]_vars, <1>1, <1>2, <1>3, <1>4, <1>5, <1>6, <1>7 DEF Next, WorkerStep, vars

\* An execution of a recurring schedule, successful or not, leaves the next
\* occurrence behind, whoever else works at the queue, unless the call that has
\* written the result breaks off before the insert.
THEOREM ChainContinuesAlways == Spec => []ChainContinues
<1>1. Init => Known /\ Due /\ Chained /\ ChainContinues
  BY DEF Init, Known, RowsKnown, CallsKnown, TodoKnown, Due, RowsDue, CallsDue, Chained, ChainContinues
<1>2. TypeOK /\ TypeOK' /\ Known /\ Due /\ Chained /\ ChainContinues /\ [Next]_vars
        => (Known /\ Due /\ Chained /\ ChainContinues)'
  BY StepRowStays, RowsKnownInductive, CallsKnownInductive, TodoKnownInductive, RowsDueInductive,
     CallsDueInductive, ChainedInductive, ChainContinuesInductive DEF Known, Due
<1>3. QED
  BY <1>1, <1>2, TypeCorrect, PTL DEF Spec

-----------------------------------------------------------------------------
(* The chain of a schedule does not fork. *)

\* What was executed is settled before its next occurrence is inserted.
NextSettled == \A w \in Worker : pc[w] = "next" => status[work[w]] \in Settled

NextOf(o) == <<ScheduleOf(o), DueAt(o) + Interval>>

\* The ends of the chains of a schedule: what is open, and what somebody executes
\* that has no next occurrence yet.
Executed(o) == \E w \in Worker : pc[w] \in {"running", "next"} /\ work[w] = o
Heads(s) ==
    {o \in Occurrence : /\ ScheduleOf(o) = s
                        /\ \/ status[o] \in Open
                           \/ Executed(o) /\ status[NextOf(o)] = "NONE"}

\* The registrations whose first occurrence is not inserted yet.
Registering(s) == {w \in Worker : pc[w] = "register" /\ ScheduleOf(work[w]) = s}

\* Every end, and every registration that may become one, has a registration of
\* its own behind it, or a late result.
Bounded(s) == Cardinality(Heads(s)) + Cardinality(Registering(s)) <= registered[s] + late[s]
NoFork == \A s \in Schedule : Bounded(s)

\* Only a result moves a worker on to the next occurrence.
LEMMA NextSettledInductive ==
  ASSUME TypeOK, NextSettled, StaysSettled, [Next]_vars
  PROVE  NextSettled'
<1> USE DEF TypeOK, Goto, workerVars, NextSettled, StaysSettled
<1>1. ASSUME NEW w \in Worker, WorkerStep(w)
      PROVE  NextSettled'
  <2>1. ASSUME NEW s \in Schedule, NEW on \in BOOLEAN, NEW rec \in BOOLEAN, NEW wf \in BOOLEAN,
               CreateSchedule(w, s, on, rec, wf)
        PROVE  NextSettled'
    BY <2>1 DEF CreateSchedule
  <2>2. CASE RegisterNext(w)
    BY <2>2 DEF RegisterNext, ScheduleNextOccurrence, Insert, NextDue
  <2>3. CASE Claim(w)
    BY <2>3 DEF Claim
  <2>4. CASE ExecuteRefused(w) \/ ExecuteNothing(w)
    BY <2>4 DEF ExecuteRefused, ExecuteNothing, Leaves
  <2>5. CASE Execute(w)
    BY <2>5 DEF Execute
  <2>6. ASSUME NEW result \in {"EXECUTED", "FAILED"}, Finish(w, result)
        PROVE  NextSettled'
    BY <2>6 DEF Finish, SetStatus, Settled
  <2>7. CASE FinishNext(w)
    BY <2>7 DEF FinishNext, ScheduleNextOccurrence, Insert, NextDue
  <2>8. CASE RunOnceSkips(w)
    BY <2>8 DEF RunOnceSkips
  <2>9. CASE RunOnce(w)
    BY <2>9 DEF RunOnce, Missed
  <2>10. CASE BreakOff(w)
    BY <2>10 DEF BreakOff, Leaves
  <2>11. QED
    BY ONLY <1>1, <2>1, <2>2, <2>3, <2>4, <2>5, <2>6, <2>7, <2>8, <2>9, <2>10 DEF WorkerStep, Work
<1>2. ASSUME NEW s \in Schedule, EndSchedule(s)
      PROVE  NextSettled'
  BY <1>2 DEF EndSchedule
<1>3. ASSUME NEW s \in Schedule, DeleteSchedule(s)
      PROVE  NextSettled'
  BY <1>3 DEF DeleteSchedule
<1>4. CASE ReconcileStaleClaims
  BY <1>4 DEF ReconcileStaleClaims
<1>5. CASE SkipMissed
  BY <1>5 DEF SkipMissed, Missed
<1>6. CASE Tick
  BY <1>6 DEF Tick
<1>7. CASE UNCHANGED vars
  BY <1>7 DEF vars
<1>8. QED
  BY ONLY [Next]_vars, <1>1, <1>2, <1>3, <1>4, <1>5, <1>6, <1>7 DEF Next, WorkerStep, vars

\* One element more is one more, or none.
LEMMA AddOne ==
  ASSUME NEW A, IsFiniteSet(A), NEW n
  PROVE  /\ IsFiniteSet(A \cup {n}) /\ Cardinality(A \cup {n}) \in Nat
         /\ Cardinality(A) <= Cardinality(A \cup {n})
         /\ Cardinality(A \cup {n}) <= Cardinality(A) + 1
<1>1. Cardinality(A) \in Nat
  BY FS_CardinalityType
<1>2. CASE n \in A
  <2>1. A \cup {n} = A
    BY <1>2
  <2>2. QED
    BY <1>1, <2>1
<1>3. CASE n \notin A
  <2>1. IsFiniteSet(A \cup {n}) /\ Cardinality(A \cup {n}) = Cardinality(A) + 1
    BY <1>3, FS_AddElement
  <2>2. QED
    BY <1>1, <2>1
<1>4. QED
  BY <1>2, <1>3

LEMMA HeadsFinite ==
  ASSUME TypeOK, NEW s \in Schedule
  PROVE  /\ IsFiniteSet(Heads(s)) /\ Cardinality(Heads(s)) \in Nat
         /\ IsFiniteSet(Registering(s)) /\ Cardinality(Registering(s)) \in Nat
<1>1. IsFiniteSet({s} \X Time)
  <2>1. IsFiniteSet({s})
    BY FS_Singleton
  <2>2. IsFiniteSet(Time)
    BY FS_Interval, OccurrencesAssumption DEF Time
  <2>3. QED
    BY <2>1, <2>2, FS_Product
<1>2. Heads(s) \subseteq {s} \X Time
  BY DEF Heads, Occurrence, ScheduleOf
<1>3. Registering(s) \subseteq Worker
  BY DEF Registering
<1>4. QED
  BY <1>1, <1>2, <1>3, FS_Subset, FS_CardinalityType, OccurrencesAssumption

LEMMA CountsAreNat ==
  ASSUME TypeOK
  PROVE  \A s \in Schedule : registered[s] \in Nat /\ late[s] \in Nat
BY OccurrencesAssumption DEF TypeOK

\* New ends are opened rows only.
LEMMA HeadsGrow ==
  ASSUME TypeOK, CallsDue', TypeOK', RowStays, NEW N,
         \A o \in Occurrence \ N : status'[o] \in Open => status[o] \in Open,
         \A w \in Worker : pc'[w] \in {"running", "next"} =>
             \/ pc[w] \in {"running", "next"} /\ work'[w] = work[w]
             \/ status[work'[w]] \in Open
  PROVE  \A s \in Schedule : Heads(s)' \subseteq Heads(s) \cup {n \in N : ScheduleOf(n) = s}
<1> SUFFICES ASSUME NEW s \in Schedule, NEW o \in Heads(s)', o \notin N
             PROVE  o \in Heads(s)
  BY DEF Heads
<1>1. o \in Occurrence /\ ScheduleOf(o) = s
  BY DEF Heads
<1>2. CASE status[o] \in Open
  BY <1>1, <1>2 DEF Heads
<1>3. CASE status[o] \notin Open
  <2>1. Executed(o)' /\ status'[NextOf(o)] = "NONE"
    BY <1>1, <1>3 DEF Heads, NextOf, ScheduleOf, DueAt
  <2>2. PICK w \in Worker : pc'[w] \in {"running", "next"} /\ work'[w] = o
    BY <2>1 DEF Executed
  <2>3. pc[w] \in {"running", "next"} /\ work[w] = o
    BY <1>3, <2>2
  <2>4. DueAt(o) <= MaxClock
    BY <2>2 DEF CallsDue, DueAt
  <2>5. NextOf(o) \in Occurrence
    BY <1>1, <2>4, NextInTime DEF NextOf
  <2>6. status[NextOf(o)] = "NONE"
    BY <2>1, <2>5 DEF RowStays
  <2>7. QED
    BY <1>1, <2>3, <2>6 DEF Heads, Executed
<1>4. QED
  BY <1>2, <1>3

\* A schedule that gets no end and no registration keeps the bound.
LEMMA BoundedStays ==
  ASSUME TypeOK, TypeOK', NEW s \in Schedule, Bounded(s),
         Heads(s)' \subseteq Heads(s), Registering(s)' \subseteq Registering(s),
         registered'[s] = registered[s], late'[s] = late[s]
  PROVE  Bounded(s)'
<1>1. Cardinality(Heads(s)') <= Cardinality(Heads(s)) /\ Cardinality(Heads(s)') \in Nat
  BY HeadsFinite, FS_Subset, FS_CardinalityType
<1>2. /\ Cardinality(Registering(s)') <= Cardinality(Registering(s))
      /\ Cardinality(Registering(s)') \in Nat
  BY HeadsFinite, FS_Subset, FS_CardinalityType
<1>3. Cardinality(Heads(s)) + Cardinality(Registering(s)) <= registered[s] + late[s]
  BY DEF Bounded
<1>4. /\ Cardinality(Heads(s)) \in Nat /\ Cardinality(Registering(s)) \in Nat
      /\ registered[s] \in Nat /\ late[s] \in Nat
  BY HeadsFinite, CountsAreNat
<1> HIDE DEF Heads, Registering
<1>5. Cardinality(Heads(s)') + Cardinality(Registering(s)') <= registered'[s] + late'[s]
  BY <1>1, <1>2, <1>3, <1>4
<1>6. QED
  BY <1>5 DEF Bounded

\* A step that opens no row and registers nothing keeps the bound.
LEMMA NoForkUndisturbed ==
  ASSUME TypeOK, TypeOK', NoFork, CallsDue', RowStays, UNCHANGED <<registered, late>>,
         \A o \in Occurrence : status'[o] \in Open => status[o] \in Open,
         \A w \in Worker : pc'[w] \in {"running", "next"} =>
             \/ pc[w] \in {"running", "next"} /\ work'[w] = work[w]
             \/ status[work'[w]] \in Open,
         \A w \in Worker : pc'[w] = "register" => pc[w] = "register" /\ work'[w] = work[w]
  PROVE  NoFork'
<1> SUFFICES ASSUME NEW s \in Schedule PROVE Bounded(s)'
  BY DEF NoFork
<1>1. Heads(s)' \subseteq Heads(s) \cup {n \in {} : ScheduleOf(n) = s}
  BY HeadsGrow
<1>2. Registering(s)' \subseteq Registering(s)
  BY DEF Registering
<1>3. Bounded(s)
  BY DEF NoFork
<1>4. QED
  BY <1>1, <1>2, <1>3, BoundedStays

\* One end more, for one registration less.
LEMMA BoundedMoves ==
  ASSUME TypeOK, TypeOK', NEW s \in Schedule, Bounded(s), NEW n, NEW w \in Registering(s),
         Heads(s)' \subseteq Heads(s) \cup {n}, Registering(s)' \subseteq Registering(s) \ {w},
         registered'[s] = registered[s], late'[s] = late[s]
  PROVE  Bounded(s)'
<1>1. /\ IsFiniteSet(Heads(s) \cup {n})
      /\ Cardinality(Heads(s) \cup {n}) <= Cardinality(Heads(s)) + 1
  BY HeadsFinite, AddOne
<1>2. /\ IsFiniteSet(Registering(s) \ {w})
      /\ Cardinality(Registering(s) \ {w}) = Cardinality(Registering(s)) - 1
  BY HeadsFinite, FS_RemoveElement
<1>3. /\ Cardinality(Heads(s)') <= Cardinality(Heads(s) \cup {n})
      /\ Cardinality(Registering(s)') <= Cardinality(Registering(s) \ {w})
      /\ Cardinality(Heads(s)') \in Nat /\ Cardinality(Registering(s)') \in Nat
      /\ Cardinality(Heads(s) \cup {n}) \in Nat
  BY <1>1, <1>2, FS_Subset, FS_CardinalityType
<1>4. /\ Cardinality(Heads(s)) + Cardinality(Registering(s)) <= registered[s] + late[s]
      /\ Cardinality(Heads(s)) \in Nat /\ Cardinality(Registering(s)) \in Nat
      /\ registered[s] \in Nat /\ late[s] \in Nat
  BY HeadsFinite, CountsAreNat DEF Bounded
<1> HIDE DEF Heads, Registering
<1>5. Cardinality(Heads(s)') + Cardinality(Registering(s)') <= registered'[s] + late'[s]
  BY <1>1, <1>2, <1>3, <1>4
<1>6. QED
  BY <1>5 DEF Bounded

\* One end for another.
LEMMA BoundedReplaces ==
  ASSUME TypeOK, TypeOK', NEW s \in Schedule, Bounded(s), NEW n, NEW o \in Heads(s),
         Heads(s)' \subseteq (Heads(s) \ {o}) \cup {n}, Registering(s)' \subseteq Registering(s),
         registered'[s] = registered[s], late'[s] = late[s]
  PROVE  Bounded(s)'
<1>1. /\ IsFiniteSet(Heads(s) \ {o})
      /\ Cardinality(Heads(s) \ {o}) = Cardinality(Heads(s)) - 1
  BY HeadsFinite, FS_RemoveElement
<1>2. /\ IsFiniteSet((Heads(s) \ {o}) \cup {n})
      /\ Cardinality((Heads(s) \ {o}) \cup {n}) <= Cardinality(Heads(s) \ {o}) + 1
  BY <1>1, AddOne
<1>3. /\ Cardinality(Heads(s)') <= Cardinality((Heads(s) \ {o}) \cup {n})
      /\ Cardinality(Heads(s)') \in Nat /\ Cardinality((Heads(s) \ {o}) \cup {n}) \in Nat
  BY <1>2, FS_Subset, FS_CardinalityType
<1>4. /\ Cardinality(Registering(s)') <= Cardinality(Registering(s))
      /\ Cardinality(Registering(s)') \in Nat
  BY HeadsFinite, FS_Subset, FS_CardinalityType
<1>5. /\ Cardinality(Heads(s)) + Cardinality(Registering(s)) <= registered[s] + late[s]
      /\ Cardinality(Heads(s)) \in Nat /\ Cardinality(Registering(s)) \in Nat
      /\ registered[s] \in Nat /\ late[s] \in Nat
  BY HeadsFinite, CountsAreNat DEF Bounded
<1> HIDE DEF Heads, Registering
<1>6. Cardinality(Heads(s)') + Cardinality(Registering(s)') <= registered'[s] + late'[s]
  BY <1>1, <1>2, <1>3, <1>4, <1>5
<1>7. QED
  BY <1>6 DEF Bounded

\* One end more, and one registration or late result more.
LEMMA BoundedCounts ==
  ASSUME TypeOK, TypeOK', NEW s \in Schedule, Bounded(s), NEW n, NEW w,
         \/ /\ Heads(s)' \subseteq Heads(s) \cup {n} /\ Registering(s)' \subseteq Registering(s)
            /\ late'[s] = late[s] + 1 /\ registered'[s] = registered[s]
         \/ /\ Heads(s)' \subseteq Heads(s) /\ Registering(s)' \subseteq Registering(s) \cup {w}
            /\ late'[s] = late[s] /\ registered'[s] = registered[s] + 1
  PROVE  Bounded(s)'
<1>1. /\ IsFiniteSet(Heads(s) \cup {n}) /\ Cardinality(Heads(s) \cup {n}) \in Nat
      /\ Cardinality(Heads(s) \cup {n}) <= Cardinality(Heads(s)) + 1
      /\ Cardinality(Heads(s)) <= Cardinality(Heads(s) \cup {n})
  BY HeadsFinite, AddOne
<1>2. /\ IsFiniteSet(Registering(s) \cup {w}) /\ Cardinality(Registering(s) \cup {w}) \in Nat
      /\ Cardinality(Registering(s) \cup {w}) <= Cardinality(Registering(s)) + 1
      /\ Cardinality(Registering(s)) <= Cardinality(Registering(s) \cup {w})
  BY HeadsFinite, AddOne
<1>3. /\ Cardinality(Heads(s)) + Cardinality(Registering(s)) <= registered[s] + late[s]
      /\ Cardinality(Heads(s)) \in Nat /\ Cardinality(Registering(s)) \in Nat
      /\ registered[s] \in Nat /\ late[s] \in Nat
  BY HeadsFinite, CountsAreNat DEF Bounded
<1>4. CASE /\ Heads(s)' \subseteq Heads(s) \cup {n} /\ Registering(s)' \subseteq Registering(s)
           /\ late'[s] = late[s] + 1 /\ registered'[s] = registered[s]
  <2>1. /\ Cardinality(Heads(s)') <= Cardinality(Heads(s) \cup {n})
        /\ Cardinality(Registering(s)') <= Cardinality(Registering(s))
        /\ Cardinality(Heads(s)') \in Nat /\ Cardinality(Registering(s)') \in Nat
    BY <1>1, <1>4, HeadsFinite, FS_Subset, FS_CardinalityType
  <2> HIDE DEF Heads, Registering
  <2>2. Cardinality(Heads(s)') + Cardinality(Registering(s)') <= registered'[s] + late'[s]
    BY <1>1, <1>3, <1>4, <2>1
  <2>3. QED
    BY <2>2 DEF Bounded
<1>5. CASE /\ Heads(s)' \subseteq Heads(s) /\ Registering(s)' \subseteq Registering(s) \cup {w}
           /\ late'[s] = late[s] /\ registered'[s] = registered[s] + 1
  <2>1. /\ Cardinality(Heads(s)') <= Cardinality(Heads(s))
        /\ Cardinality(Registering(s)') <= Cardinality(Registering(s) \cup {w})
        /\ Cardinality(Heads(s)') \in Nat /\ Cardinality(Registering(s)') \in Nat
    BY <1>2, <1>5, HeadsFinite, FS_Subset, FS_CardinalityType
  <2> HIDE DEF Heads, Registering
  <2>2. Cardinality(Heads(s)') + Cardinality(Registering(s)') <= registered'[s] + late'[s]
    BY <1>2, <1>3, <1>5, <2>1
  <2>3. QED
    BY <2>2 DEF Bounded
<1>6. QED
  BY <1>4, <1>5

LEMMA NoForkCreate ==
  ASSUME TypeOK, TypeOK', NoFork, CallsDue', RowStays, NEW w \in Worker, NEW s \in Schedule,
         NEW on \in BOOLEAN, NEW rec \in BOOLEAN, NEW wf \in BOOLEAN,
         CreateSchedule(w, s, on, rec, wf)
  PROVE  NoFork'
<1>1. /\ pc[w] = "idle" /\ pc' = [pc EXCEPT ![w] = "register"]
      /\ work' = [work EXCEPT ![w] = <<s, 0>>]
      /\ registered' = [registered EXCEPT ![s] = @ + 1]
      /\ UNCHANGED <<status, late>>
  BY DEF CreateSchedule, Goto, rowVars, history
<1>2. \A v \in Worker : pc'[v] \in {"running", "next"} =>
          pc[v] \in {"running", "next"} /\ work'[v] = work[v]
  BY <1>1 DEF TypeOK
<1>3. \A r \in Schedule : Heads(r)' \subseteq Heads(r) \cup {n \in {} : ScheduleOf(n) = r}
  BY <1>1, <1>2, HeadsGrow
<1> SUFFICES ASSUME NEW r \in Schedule PROVE Bounded(r)'
  BY DEF NoFork
<1>4. Heads(r)' \subseteq Heads(r) /\ Bounded(r)
  BY <1>3 DEF NoFork
<1>5. CASE r = s
  <2>1. Registering(r)' \subseteq Registering(r) \cup {w}
    BY <1>1 DEF Registering, TypeOK
  <2>2. registered'[r] = registered[r] + 1 /\ late'[r] = late[r]
    BY <1>1, <1>5 DEF TypeOK
  <2>3. QED
    BY <1>4, <2>1, <2>2, BoundedCounts
<1>6. CASE r # s
  <2>1. Registering(r)' \subseteq Registering(r)
    BY <1>1, <1>6 DEF Registering, TypeOK, ScheduleOf
  <2>2. registered'[r] = registered[r] /\ late'[r] = late[r]
    BY <1>1, <1>6 DEF TypeOK
  <2>3. QED
    BY <1>4, <2>1, <2>2, BoundedStays
<1>7. QED
  BY <1>5, <1>6

\* A next occurrence opens at most one row, of its schedule.
LEMMA NextIsOne ==
  ASSUME TypeOK, NEW s \in Schedule, NEW from, ScheduleNextOccurrence(s, from)
  PROVE  \E n : /\ \A o \in Occurrence \ {n} : status'[o] = status[o]
                /\ s \in enabled \cap recurring => n = <<s, from + Interval>>
                /\ n = <<s, n[2]>>
<1>1. CASE s \in enabled /\ NextDue(s, from) # {}
  <2>1. PICK due \in NextDue(s, from) : Insert(s, due)
    BY <1>1 DEF ScheduleNextOccurrence
  <2>2. s \in recurring => due = from + Interval
    BY <2>1 DEF NextDue
  <2>3. \A o \in Occurrence \ {<<s, due>>} : status'[o] = status[o]
    BY <2>1 DEF Insert, TypeOK
  <2>4. s \in enabled \cap recurring => <<s, due>> = <<s, from + Interval>>
    BY <2>2
  <2>5. <<s, due>> = <<s, <<s, due>>[2]>>
    OBVIOUS
  <2>6. QED
    BY <2>3, <2>4, <2>5
<1>2. CASE ~(s \in enabled /\ NextDue(s, from) # {})
  <2> DEFINE m == <<s, from + Interval>>
  <2>1. \A o \in Occurrence \ {m} : status'[o] = status[o]
    BY <1>2 DEF ScheduleNextOccurrence
  <2>2. m = <<s, m[2]>>
    OBVIOUS
  <2>3. QED
    BY <2>1, <2>2
<1>3. QED
  BY <1>1, <1>2

LEMMA NoForkRegister ==
  ASSUME TypeOK, TypeOK', NoFork, CallsDue', RowStays, NEW w \in Worker, RegisterNext(w)
  PROVE  NoFork'
<1> DEFINE s == ScheduleOf(work[w])
<1>1. /\ pc[w] = "register" /\ pc' = [pc EXCEPT ![w] = "idle"]
      /\ ScheduleNextOccurrence(s, clock)
      /\ UNCHANGED <<work, registered, late>>
  BY DEF RegisterNext, Goto, scheduleVars, history
<1>2. s \in Schedule
  BY DEF TypeOK, Occurrence, ScheduleOf
<1>3. PICK n : /\ \A o \in Occurrence \ {n} : status'[o] = status[o]
               /\ n = <<s, n[2]>>
  BY <1>1, <1>2, NextIsOne
<1>4. \A v \in Worker : pc'[v] \in {"running", "next"} =>
          pc[v] \in {"running", "next"} /\ work'[v] = work[v]
  BY <1>1 DEF TypeOK
<1>5. \A r \in Schedule : Heads(r)' \subseteq Heads(r) \cup {m \in {n} : ScheduleOf(m) = r}
  BY <1>3, <1>4, HeadsGrow
<1> SUFFICES ASSUME NEW r \in Schedule PROVE Bounded(r)'
  BY DEF NoFork
<1>6. Bounded(r) /\ registered'[r] = registered[r] /\ late'[r] = late[r]
  BY <1>1 DEF NoFork
<1>7. CASE r = s
  <2>1. w \in Registering(r)
    BY <1>1, <1>7 DEF Registering
  <2>2. Registering(r)' \subseteq Registering(r) \ {w}
    BY <1>1 DEF Registering, TypeOK
  <2>3. Heads(r)' \subseteq Heads(r) \cup {n}
    BY <1>5
  <2>4. QED
    BY <1>6, <2>1, <2>2, <2>3, BoundedMoves
<1>8. CASE r # s
  <2>1. Registering(r)' \subseteq Registering(r)
    BY <1>1 DEF Registering, TypeOK
  <2>2. ScheduleOf(n) # r
    BY <1>3, <1>8 DEF ScheduleOf
  <2>3. Heads(r)' \subseteq Heads(r)
    BY <1>5, <2>2
  <2>4. QED
    BY <1>6, <2>1, <2>3, BoundedStays
<1>9. QED
  BY <1>7, <1>8

LEMMA NoForkFinishNext ==
  ASSUME TypeOK, TypeOK', NoFork, Due, CallsDue', RowStays, NextSettled, StaysSettled,
         NEW w \in Worker, FinishNext(w)
  PROVE  NoFork'
<1> DEFINE o == work[w]
           s == ScheduleOf(o)
<1>1. /\ pc[w] = "next" /\ pc' = [pc EXCEPT ![w] = "idle"]
      /\ ScheduleNextOccurrence(s, DueAt(o)) /\ CountLate(s)
      /\ UNCHANGED <<work, registered>>
  BY DEF FinishNext, Goto, scheduleVars
<1>2. s \in Schedule /\ o \in Occurrence
  BY DEF TypeOK, Occurrence, ScheduleOf
<1>3. PICK n : /\ \A p \in Occurrence \ {n} : status'[p] = status[p]
               /\ s \in enabled \cap recurring => n = NextOf(o)
               /\ n = <<s, n[2]>>
  <2> HIDE DEF o, s
  <2>1. \E n : /\ \A p \in Occurrence \ {n} : status'[p] = status[p]
               /\ s \in enabled \cap recurring => n = <<s, DueAt(o) + Interval>>
               /\ n = <<s, n[2]>>
    BY <1>1, <1>2, NextIsOne
  <2>2. QED
    BY <2>1 DEF NextOf, s
<1>4. \A v \in Worker : pc'[v] \in {"running", "next"} =>
          pc[v] \in {"running", "next"} /\ work'[v] = work[v]
  BY <1>1 DEF TypeOK
<1>5. \A r \in Schedule : Heads(r)' \subseteq Heads(r) \cup {m \in {n} : ScheduleOf(m) = r}
  BY <1>3, <1>4, HeadsGrow
<1> SUFFICES ASSUME NEW r \in Schedule PROVE Bounded(r)'
  BY DEF NoFork
<1>6. Bounded(r) /\ registered'[r] = registered[r]
  BY <1>1 DEF NoFork
<1>7. Registering(r)' \subseteq Registering(r)
  BY <1>1 DEF Registering, TypeOK
<1>8. ASSUME status' = status
      PROVE  Bounded(r)'
  <2>1. \A p \in Occurrence : status'[p] \in Open => status[p] \in Open
    BY <1>8
  <2>2. Heads(r)' \subseteq Heads(r) \cup {m \in {} : ScheduleOf(m) = r}
    BY <1>4, <2>1, HeadsGrow
  <2>3. late'[r] = late[r]
    BY <1>1, <1>8 DEF CountLate
  <2>4. QED
    BY <1>6, <1>7, <2>2, <2>3, BoundedStays
<1>9. ASSUME r # s
      PROVE  Bounded(r)'
  <2>1. ScheduleOf(n) # r
    BY <1>3, <1>9 DEF ScheduleOf
  <2>2. Heads(r)' \subseteq Heads(r)
    BY <1>5, <2>1
  <2>3. late'[r] = late[r]
    BY <1>1, <1>2, <1>9 DEF CountLate, TypeOK
  <2>4. QED
    BY <1>6, <1>7, <2>2, <2>3, BoundedStays
<1>10. ASSUME r = s, status' # status, s \notin recurring
       PROVE  Bounded(r)'
  <2>1. late'[r] = late[r] + 1
    BY <1>1, <1>2, <1>10 DEF CountLate, TypeOK
  <2>2. Heads(r)' \subseteq Heads(r) \cup {n}
    BY <1>5
  <2>3. QED
    BY <1>6, <1>7, <2>1, <2>2, BoundedCounts
<1>11. ASSUME r = s, status' # status, s \in recurring
       PROVE  Bounded(r)'
  <2>1. s \in enabled
    BY <1>1, <1>11 DEF ScheduleNextOccurrence
  <2>2. n = NextOf(o) /\ NextOf(o) \in Occurrence
    BY <1>1, <1>2, <1>3, <1>11, <2>1, NextInTime DEF NextOf, Due, CallsDue
  <2>3. status[n] = "NONE" /\ status'[n] # "NONE"
    <3>1. status \in [Occurrence -> {"NONE"} \cup Open \cup Settled]
      BY DEF TypeOK
    <3>2. status' \in [Occurrence -> {"NONE"} \cup Open \cup Settled]
      BY DEF TypeOK
    <3>3. status'[n] # status[n]
      BY <1>3, <1>11, <3>1, <3>2
    <3>4. \A p \in Occurrence :
             status'[p] = status[p] \/ (status[p] = "NONE" /\ status'[p] = "PENDING")
      BY <1>1, <1>2, NextIsNew
    <3>5. QED
      BY <2>2, <3>3, <3>4
  <2>4. o \in Heads(r)
    BY <1>1, <1>2, <1>11, <2>2, <2>3 DEF Heads, Executed
  <2>5. o \notin Heads(r)'
    <3>1. status'[o] \in Settled
      BY <1>1, <1>2 DEF NextSettled, StaysSettled
    <3>2. status'[NextOf(o)] # "NONE"
      BY <2>2, <2>3
    <3>3. QED
      BY <3>1, <3>2 DEF Heads, Settled, Open, NextOf, ScheduleOf, DueAt
  <2>6. Heads(r)' \subseteq (Heads(r) \ {o}) \cup {n}
    BY <1>5, <2>5
  <2>7. late'[r] = late[r]
    BY <1>1, <1>11 DEF CountLate
  <2>8. QED
    BY <1>6, <1>7, <2>4, <2>6, <2>7, BoundedReplaces
<1>12. QED
  BY <1>8, <1>9, <1>10, <1>11

\* Only a registration and a late result add an end.
LEMMA NoForkInductive ==
  ASSUME TypeOK, TypeOK', NoFork, Due, CallsDue', RowStays, NextSettled, StaysSettled, [Next]_vars
  PROVE  NoFork'
<1>1. ASSUME NEW w \in Worker, WorkerStep(w)
      PROVE  NoFork'
  <2>1. ASSUME NEW s \in Schedule, NEW on \in BOOLEAN, NEW rec \in BOOLEAN, NEW wf \in BOOLEAN,
               CreateSchedule(w, s, on, rec, wf)
        PROVE  NoFork'
    BY <2>1, NoForkCreate
  <2>2. CASE RegisterNext(w)
    BY <2>2, NoForkRegister
  <2>3. CASE Claim(w)
    BY <2>3, NoForkUndisturbed DEF Claim, TypeOK, Goto, SetStatus, Open,
       scheduleVars, rowVars, workerVars, history
  <2>4. CASE ExecuteRefused(w) \/ ExecuteNothing(w)
    BY <2>4, NoForkUndisturbed DEF ExecuteRefused, ExecuteNothing, Leaves, TypeOK, Goto, SetStatus, Open,
       scheduleVars, rowVars, workerVars, history
  <2>5. CASE Execute(w)
    BY <2>5, NoForkUndisturbed DEF Execute, TypeOK, Goto, SetStatus, Open,
       scheduleVars, rowVars, workerVars, history
  <2>6. ASSUME NEW result \in {"EXECUTED", "FAILED"}, Finish(w, result)
        PROVE  NoFork'
    BY <2>6, NoForkUndisturbed DEF Finish, TypeOK, Goto, SetStatus, Open,
       scheduleVars, rowVars, workerVars, history
  <2>7. CASE FinishNext(w)
    BY <2>7, NoForkFinishNext
  <2>8. CASE RunOnceSkips(w)
    BY <2>8, NoForkUndisturbed DEF RunOnceSkips, TypeOK, Goto, SetStatus, Open,
       scheduleVars, rowVars, workerVars, history
  <2>9. CASE RunOnce(w)
    BY <2>9, NoForkUndisturbed DEF RunOnce, TypeOK, Goto, SetStatus, Open,
       scheduleVars, rowVars, workerVars, history
  <2>10. CASE BreakOff(w)
    BY <2>10, NoForkUndisturbed DEF BreakOff, Leaves, TypeOK, Goto, SetStatus, Open,
       scheduleVars, rowVars, workerVars, history
  <2>11. QED
    BY ONLY <1>1, <2>1, <2>2, <2>3, <2>4, <2>5, <2>6, <2>7, <2>8, <2>9, <2>10 DEF WorkerStep, Work
<1>2. ASSUME NEW s \in Schedule, EndSchedule(s)
      PROVE  NoFork'
  BY <1>2, NoForkUndisturbed DEF EndSchedule, TypeOK, Goto, SetStatus, Open,
     scheduleVars, rowVars, workerVars, history
<1>3. ASSUME NEW s \in Schedule, DeleteSchedule(s)
      PROVE  NoFork'
  BY <1>3, NoForkUndisturbed DEF DeleteSchedule, TypeOK, Goto, SetStatus, Open,
     scheduleVars, rowVars, workerVars, history
<1>4. CASE ReconcileStaleClaims
  BY <1>4, NoForkUndisturbed DEF ReconcileStaleClaims, TypeOK, Goto, SetStatus, Open,
     scheduleVars, rowVars, workerVars, history
<1>5. CASE SkipMissed
  BY <1>5, NoForkUndisturbed DEF SkipMissed, Missed, TypeOK, Goto, SetStatus, Open,
     scheduleVars, rowVars, workerVars, history
<1>6. CASE Tick
  BY <1>6, NoForkUndisturbed DEF Tick, TypeOK, Goto, SetStatus, Open,
     scheduleVars, rowVars, workerVars, history
<1>7. CASE UNCHANGED vars
  BY <1>7, NoForkUndisturbed DEF vars, TypeOK, Goto, SetStatus, Open,
     scheduleVars, rowVars, workerVars, history
<1>8. QED
  BY ONLY [Next]_vars, <1>1, <1>2, <1>3, <1>4, <1>5, <1>6, <1>7 DEF Next, WorkerStep, vars

\* However many workers finish an occurrence, and however often a schedule is
\* registered, switched off or turned into another kind: it has no more open
\* occurrences than registrations and late results.
THEOREM ChainNeverForksAlways == Spec => []ChainNeverForks
<1>1. Init => Due /\ NextSettled
  BY DEF Init, Due, RowsDue, CallsDue, NextSettled
<1>2. Init => NoFork
  <2> SUFFICES ASSUME Init, NEW s \in Schedule PROVE Bounded(s)
    BY DEF NoFork
  <2>1. Heads(s) = {} /\ Registering(s) = {}
    BY DEF Init, Heads, Executed, Registering, Open
  <2>2. QED
    BY <2>1, FS_EmptySet DEF Bounded, Init
<1>3. TypeOK /\ TypeOK' /\ Due /\ NextSettled /\ NoFork /\ [Next]_vars
        => (Due /\ NextSettled /\ NoFork)'
  BY RowsDueInductive, CallsDueInductive, StepRowStays, StepStaysSettled, NextSettledInductive,
     NoForkInductive DEF Due
<1>4. TypeOK /\ NoFork => ChainNeverForks
  <2> SUFFICES ASSUME TypeOK, NoFork, NEW s \in Schedule
               PROVE  Cardinality({o \in Occurrence : ScheduleOf(o) = s /\ status[o] \in Open})
                        <= registered[s] + late[s]
    BY DEF ChainNeverForks
  <2>1. {o \in Occurrence : ScheduleOf(o) = s /\ status[o] \in Open} \subseteq Heads(s)
    BY DEF Heads
  <2>2. /\ Cardinality({o \in Occurrence : ScheduleOf(o) = s /\ status[o] \in Open})
             <= Cardinality(Heads(s))
        /\ Cardinality({o \in Occurrence : ScheduleOf(o) = s /\ status[o] \in Open}) \in Nat
    BY <2>1, HeadsFinite, FS_Subset, FS_CardinalityType
  <2>3. /\ Cardinality(Heads(s)) + Cardinality(Registering(s)) <= registered[s] + late[s]
        /\ Cardinality(Heads(s)) \in Nat /\ Cardinality(Registering(s)) \in Nat
        /\ registered[s] \in Nat /\ late[s] \in Nat
    BY HeadsFinite, CountsAreNat DEF NoFork, Bounded
  <2>4. QED
    BY <2>2, <2>3
<1>5. QED
  BY <1>1, <1>2, <1>3, <1>4, TypeCorrect, PTL DEF Spec
-----------------------------------------------------------------------------
(* The queue is worked off. *)

\* What is claimed, executed, followed or going to be skipped is in the queue.
Queued ==
    /\ \A w \in Worker :
          pc[w] \in {"claimed", "running", "next"} => status[work[w]] # "NONE"
    /\ \A w \in Worker : \A o \in todo[w] : status[o] # "NONE"

\* An occurrence is inserted, claimed and settled, in this order, and stays settled.
Onward(o) ==
    \/ status'[o] = status[o]
    \/ status[o] = "NONE" /\ status'[o] = "PENDING"
    \/ status[o] = "PENDING" /\ status'[o] \in {"CLAIMED"} \cup Settled
    \/ status[o] \in {"CLAIMED"} \cup Settled /\ status'[o] \in Settled

\* A claim that is stale is the one thing that is offered again.
TakenBack(o) ==
    status[o] = "CLAIMED" /\ claimedAt[o] + Stale <= clock /\ status'[o] = "PENDING"

\* Rows are never removed, so work is done on rows.
LEMMA QueuedInductive == TypeOK /\ Queued /\ [Next]_vars => Queued'
<1> SUFFICES ASSUME TypeOK, Queued, [Next]_vars PROVE Queued'
  OBVIOUS
<1>r. \A o \in Occurrence : status[o] # "NONE" => status'[o] # "NONE"
  BY StepRowStays DEF RowStays
<1> USE <1>r DEF TypeOK, Queued, Goto, SetStatus, ScheduleOf, scheduleVars, rowVars, workerVars, history
<1>1. ASSUME NEW w \in Worker, WorkerStep(w)
      PROVE  Queued'
  <2>1. ASSUME NEW s \in Schedule, NEW on \in BOOLEAN, NEW rec \in BOOLEAN, NEW wf \in BOOLEAN,
               CreateSchedule(w, s, on, rec, wf)
        PROVE  Queued'
    BY <2>1 DEF CreateSchedule
  <2>2. CASE RegisterNext(w)
    BY <2>2 DEF RegisterNext
  <2>3. CASE Claim(w)
    BY <2>3 DEF Claim
  <2>4. CASE ExecuteRefused(w) \/ ExecuteNothing(w)
    BY <2>4 DEF ExecuteRefused, ExecuteNothing, Leaves
  <2>5. CASE Execute(w)
    BY <2>5 DEF Execute
  <2>6. ASSUME NEW result \in {"EXECUTED", "FAILED"}, Finish(w, result)
        PROVE  Queued'
    BY <2>6 DEF Finish
  <2>7. CASE FinishNext(w)
    BY <2>7 DEF FinishNext
  <2>8. CASE RunOnceSkips(w)
    BY <2>8 DEF RunOnceSkips
  <2>9. CASE RunOnce(w)
    BY <2>9 DEF RunOnce, Missed
  <2>10. CASE BreakOff(w)
    BY <2>10 DEF BreakOff, Leaves
  <2>11. QED
    BY <1>1, <2>1, <2>2, <2>3, <2>4, <2>5, <2>6, <2>7, <2>8, <2>9, <2>10 DEF WorkerStep, Work
<1>2. ASSUME NEW s \in Schedule, EndSchedule(s)
      PROVE  Queued'
  BY <1>2 DEF EndSchedule
<1>3. ASSUME NEW s \in Schedule, DeleteSchedule(s)
      PROVE  Queued'
  BY <1>3 DEF DeleteSchedule
<1>4. CASE ReconcileStaleClaims
  BY <1>4 DEF ReconcileStaleClaims
<1>5. CASE SkipMissed
  BY <1>5 DEF SkipMissed, Missed
<1>6. CASE Tick
  BY <1>6 DEF Tick
<1>7. CASE UNCHANGED vars
  BY <1>7 DEF vars
<1>8. QED
  BY ONLY [Next]_vars, <1>1, <1>2, <1>3, <1>4, <1>5, <1>6, <1>7 DEF Next, WorkerStep, vars

\* What a step does to an occurrence.
LEMMA QueueStep ==
  ASSUME TypeOK, Queued, [Next]_vars
  PROVE  \A o \in Occurrence : Onward(o) \/ TakenBack(o)
<1> SUFFICES ASSUME NEW o \in Occurrence PROVE Onward(o) \/ TakenBack(o)
  OBVIOUS
<1>s. \A w \in Worker : ScheduleOf(work[w]) \in Schedule
  BY DEF TypeOK, Occurrence, ScheduleOf
<1> USE DEF TypeOK, Queued, Onward, TakenBack, Open, Settled, Goto, SetStatus,
            rowVars, workerVars
<1>1. ASSUME NEW w \in Worker, WorkerStep(w)
      PROVE  Onward(o) \/ TakenBack(o)
  <2>1. ASSUME NEW s \in Schedule, NEW on \in BOOLEAN, NEW rec \in BOOLEAN, NEW wf \in BOOLEAN,
               CreateSchedule(w, s, on, rec, wf)
        PROVE  Onward(o) \/ TakenBack(o)
    BY <2>1 DEF CreateSchedule
  <2>2. CASE RegisterNext(w)
    BY <2>2, <1>s, NextIsNew DEF RegisterNext
  <2>3. CASE Claim(w)
    BY <2>3 DEF Claim
  <2>4. CASE ExecuteRefused(w) \/ ExecuteNothing(w)
    BY <2>4 DEF ExecuteRefused, ExecuteNothing, Leaves
  <2>5. CASE Execute(w)
    BY <2>5 DEF Execute
  <2>6. ASSUME NEW result \in {"EXECUTED", "FAILED"}, Finish(w, result)
        PROVE  Onward(o) \/ TakenBack(o)
    BY <2>6 DEF Finish
  <2>7. CASE FinishNext(w)
    BY <2>7, <1>s, NextIsNew DEF FinishNext
  <2>8. CASE RunOnceSkips(w)
    BY <2>8 DEF RunOnceSkips
  <2>9. CASE RunOnce(w)
    BY <2>9 DEF RunOnce, Missed
  <2>10. CASE BreakOff(w)
    BY <2>10 DEF BreakOff, Leaves
  <2>11. QED
    BY <1>1, <2>1, <2>2, <2>3, <2>4, <2>5, <2>6, <2>7, <2>8, <2>9, <2>10 DEF WorkerStep, Work
<1>2. ASSUME NEW s \in Schedule, EndSchedule(s)
      PROVE  Onward(o) \/ TakenBack(o)
  BY <1>2 DEF EndSchedule
<1>3. ASSUME NEW s \in Schedule, DeleteSchedule(s)
      PROVE  Onward(o) \/ TakenBack(o)
  BY <1>3 DEF DeleteSchedule
<1>4. CASE ReconcileStaleClaims
  BY <1>4 DEF ReconcileStaleClaims
<1>5. CASE SkipMissed
  BY <1>5 DEF SkipMissed, Missed
<1>6. CASE Tick
  BY <1>6 DEF Tick
<1>7. CASE UNCHANGED vars
  BY <1>7 DEF vars
<1>8. QED
  BY ONLY [Next]_vars, <1>1, <1>2, <1>3, <1>4, <1>5, <1>6, <1>7 DEF Next, WorkerStep, vars

\* However many workers claim, finish late, skip and die: an occurrence goes back
\* in the queue only when its claim is stale, and is never lost from it.
THEOREM QueueMovesOn == Spec => [][\A o \in Occurrence : Onward(o) \/ TakenBack(o)]_vars
<1>1. Init => Queued
  BY DEF Init, Queued
<1>2. TypeOK /\ Queued /\ [Next]_vars => [\A o \in Occurrence : Onward(o) \/ TakenBack(o)]_vars
  BY QueueStep
<1>3. QED
  BY <1>1, <1>2, TypeCorrect, QueuedInductive, PTL DEF Spec

\* A worker returns, begins to execute, goes on to the next occurrence, or has one
\* less to skip.
Closer(w) ==
    \/ pc'[w] = "idle"
    \/ pc[w] = "claimed" /\ pc'[w] = "running"
    \/ pc[w] = "running" /\ pc'[w] = "next"
    \/ pc[w] = "skip" /\ pc'[w] = "skip" /\ todo'[w] \subseteq todo[w] /\ todo'[w] # todo[w]

\* A worker that was idle has claimed something that was due.
Claims(w) ==
    /\ pc[w] = "idle" /\ pc'[w] = "claimed"
    /\ status[work'[w]] = "PENDING" /\ DueAt(work'[w]) <= clock
    /\ status'[work'[w]] = "CLAIMED"

\* A step of its own; what others do changes nothing of a call.
Advances(w) ==
    /\ Work(w) => Closer(w) \/ Claims(w)
    /\ pc[w] # "idle" => Closer(w) \/ UNCHANGED <<pc[w], work[w], todo[w]>>

\* Whatever the queue holds, a worker does not go round in it: every step of its
\* own uses up a part of its call, which has at most three steps and what there
\* is to skip, or claims an occurrence that is due.
THEOREM WorkersAdvance == Spec => [][\A w \in Worker : Advances(w)]_vars
<1>1. TypeOK /\ [Next]_vars => [\A w \in Worker : Advances(w)]_vars
  <2> SUFFICES ASSUME TypeOK, Next, NEW w \in Worker PROVE Advances(w)
    OBVIOUS
  <2> USE DEF TypeOK, Goto, SetStatus, workerVars
  <2>1. Work(w) => Closer(w) \/ Claims(w)
    <3>1. CASE RegisterNext(w)
      BY <3>1 DEF RegisterNext, Closer
    <3>2. CASE Claim(w)
      BY <3>2 DEF Claim, Claims, rowVars
    <3>3. CASE ExecuteRefused(w) \/ ExecuteNothing(w)
      BY <3>3 DEF ExecuteRefused, ExecuteNothing, Leaves, Closer
    <3>4. CASE Execute(w)
      BY <3>4 DEF Execute, Closer
    <3>5. ASSUME NEW result \in {"EXECUTED", "FAILED"}, Finish(w, result) PROVE Closer(w)
      BY <3>5 DEF Finish, Closer
    <3>6. CASE FinishNext(w)
      BY <3>6 DEF FinishNext, Closer
    <3>7. CASE RunOnceSkips(w)
      BY <3>7 DEF RunOnceSkips, Closer
    <3>8. QED
      BY <3>1, <3>2, <3>3, <3>4, <3>5, <3>6, <3>7 DEF Work
  <2>2. ASSUME pc[w] # "idle" PROVE Closer(w) \/ UNCHANGED <<pc[w], work[w], todo[w]>>
    <3>1. CASE Work(w)
      BY <2>1, <2>2, <3>1 DEF Claims
    <3>2. CASE BreakOff(w)
      BY <3>2 DEF BreakOff, Leaves, Closer
    <3>3. ASSUME NEW s \in Schedule, NEW on \in BOOLEAN, NEW rec \in BOOLEAN, NEW wf \in BOOLEAN,
                 CreateSchedule(w, s, on, rec, wf) \/ RunOnce(w)
          PROVE  FALSE
      BY <2>2, <3>3 DEF CreateSchedule, RunOnce
    <3>4. ASSUME NEW v \in Worker, v # w, WorkerStep(v)
          PROVE  UNCHANGED <<pc[w], work[w], todo[w]>>
      <4>1. ASSUME NEW s \in Schedule, NEW on \in BOOLEAN, NEW rec \in BOOLEAN, NEW wf \in BOOLEAN,
                   CreateSchedule(v, s, on, rec, wf)
            PROVE  UNCHANGED <<pc[w], work[w], todo[w]>>
        BY <3>4, <4>1 DEF CreateSchedule
      <4>2. ASSUME Work(v) PROVE UNCHANGED <<pc[w], work[w], todo[w]>>
        BY <3>4, <4>2 DEF Work, RegisterNext, Claim, ExecuteRefused, ExecuteNothing, Leaves,
           Execute, Finish, FinishNext, RunOnceSkips
      <4>3. ASSUME RunOnce(v) \/ BreakOff(v) PROVE UNCHANGED <<pc[w], work[w], todo[w]>>
        BY <3>4, <4>3 DEF RunOnce, BreakOff, Leaves
      <4>4. QED
        BY <3>4, <4>1, <4>2, <4>3 DEF WorkerStep
    <3>5. ASSUME NEW s \in Schedule, EndSchedule(s) \/ DeleteSchedule(s)
          PROVE  UNCHANGED <<pc[w], work[w], todo[w]>>
      BY <3>5 DEF EndSchedule, DeleteSchedule
    <3>6. CASE ReconcileStaleClaims \/ SkipMissed \/ Tick
      BY <3>6 DEF ReconcileStaleClaims, SkipMissed, Tick
    <3>7. RunOnce(w) => FALSE
      BY <2>2 DEF RunOnce
    <3>8. QED
      BY <3>1, <3>2, <3>3, <3>4, <3>5, <3>6, <3>7 DEF Next, WorkerStep
  <2>3. QED
    BY <2>1, <2>2 DEF Advances
<1>2. QED
  BY <1>1, TypeCorrect, PTL DEF Spec
-----------------------------------------------------------------------------
(* The queue keeps the contract of WorkQueue. *)

\* An execution that is under way has been counted.
Started == \A w \in Worker : pc[w] = "running" => runs[work[w]] > 0

\* It stays counted.
LEMMA StartedInductive == TypeOK /\ Started /\ [Next]_vars => Started'
<1> SUFFICES ASSUME TypeOK, Started, [Next]_vars PROVE Started'
  OBVIOUS
<1> USE DEF TypeOK, Started, Goto, rowVars, workerVars, history
<1>1. ASSUME NEW w \in Worker, WorkerStep(w)
      PROVE  Started'
  <2>1. ASSUME NEW s \in Schedule, NEW on \in BOOLEAN, NEW rec \in BOOLEAN, NEW wf \in BOOLEAN,
               CreateSchedule(w, s, on, rec, wf)
        PROVE  Started'
    BY <2>1 DEF CreateSchedule
  <2>2. CASE RegisterNext(w)
    BY <2>2 DEF RegisterNext
  <2>3. CASE Claim(w)
    BY <2>3 DEF Claim
  <2>4. CASE ExecuteRefused(w) \/ ExecuteNothing(w)
    BY <2>4 DEF ExecuteRefused, ExecuteNothing, Leaves
  <2>5. CASE Execute(w)
    BY <2>5 DEF Execute
  <2>6. ASSUME NEW result \in {"EXECUTED", "FAILED"}, Finish(w, result)
        PROVE  Started'
    BY <2>6 DEF Finish
  <2>7. CASE FinishNext(w)
    BY <2>7 DEF FinishNext
  <2>8. CASE RunOnceSkips(w)
    BY <2>8 DEF RunOnceSkips
  <2>9. CASE RunOnce(w)
    BY <2>9 DEF RunOnce, Missed
  <2>10. CASE BreakOff(w)
    BY <2>10 DEF BreakOff, Leaves
  <2>11. QED
    BY <1>1, <2>1, <2>2, <2>3, <2>4, <2>5, <2>6, <2>7, <2>8, <2>9, <2>10 DEF WorkerStep, Work
<1>2. ASSUME NEW s \in Schedule, EndSchedule(s)
      PROVE  Started'
  BY <1>2 DEF EndSchedule
<1>3. ASSUME NEW s \in Schedule, DeleteSchedule(s)
      PROVE  Started'
  BY <1>3 DEF DeleteSchedule
<1>4. CASE ReconcileStaleClaims
  BY <1>4 DEF ReconcileStaleClaims
<1>5. CASE SkipMissed
  BY <1>5 DEF SkipMissed, Missed
<1>6. CASE Tick
  BY <1>6 DEF Tick
<1>7. CASE UNCHANGED vars
  BY <1>7 DEF vars
<1>8. QED
  BY ONLY [Next]_vars, <1>1, <1>2, <1>3, <1>4, <1>5, <1>6, <1>7 DEF Next, WorkerStep, vars

\* A next occurrence is put in the queue, once.
LEMMA NextIsPut ==
  ASSUME TypeOK, NEW s, NEW from, ScheduleNextOccurrence(s, from),
         UNCHANGED <<runs, reconciled>>
  PROVE  [Queue!Next]_<<status, runs, reconciled>>
<1>1. ASSUME NEW due, Insert(s, due)
      PROVE  [Queue!Next]_<<status, runs, reconciled>>
  <2> DEFINE o == <<s, due>>
  <2>t. status \in [Occurrence -> {"NONE"} \cup Open \cup Settled]
    BY DEF TypeOK
  <2>1. CASE o \in Occurrence /\ status[o] = "NONE"
    <3>1. status' = [status EXCEPT ![o] = "PENDING"]
      BY <1>1, <2>1, <2>t DEF Insert
    <3>2. Queue!Put(o)
      BY <2>1, <3>1 DEF Queue!Put
    <3>3. QED
      BY <2>1, <3>2 DEF Queue!Next
  <2>2. CASE ~(o \in Occurrence /\ status[o] = "NONE")
    <3>1. status' = status
      BY <1>1, <2>2, <2>t DEF Insert
    <3>2. QED
      BY <3>1
  <2>3. QED
    BY <2>1, <2>2
<1>2. QED
  BY <1>1 DEF ScheduleNextOccurrence

\* A worker that begins an execution has a claim of its own for it.
LEMMA ExecuteStarts ==
  ASSUME TypeOK, Paid, NEW w \in Worker, Execute(w)
  PROVE  Queue!Start(work[w])
<1> DEFINE o == work[w]
<1>1. o \in Occurrence /\ status[o] = "CLAIMED" /\ w \in Claimers(o)
  BY DEF TypeOK, Execute, Claimers
<1>2. Cardinality(Claimers(o)) \in Nat /\ Cardinality(Claimers(o)) # 0
  BY <1>1, ClaimersFinite, FS_EmptySet
<1>3. runs[o] + Cardinality(Claimers(o)) <= reconciled[o] + Taken(o)
  BY <1>1 DEF Paid
<1>4. runs[o] \in Nat /\ reconciled[o] \in Nat /\ Taken(o) = 1
  BY <1>1 DEF TypeOK, Taken
<1>5. runs[o] <= reconciled[o]
  BY ONLY <1>2, <1>3, <1>4
<1>6. runs' = [runs EXCEPT ![o] = @ + 1] /\ UNCHANGED <<status, reconciled>>
  BY DEF Execute, rowVars
<1>7. QED
  BY <1>1, <1>5, <1>6 DEF Queue!Start

\* What the calls of one worker do to the queue.
LEMMA WorkerKeepsQueue ==
  ASSUME TypeOK, Paid, Queued, Started, NEW w \in Worker, WorkerStep(w)
  PROVE  [Queue!Next]_<<status, runs, reconciled>>
<1>s. status \in [Occurrence -> {"NONE"} \cup Open \cup Settled]
  BY DEF TypeOK
<1>w. work[w] \in Occurrence
  BY DEF TypeOK
<1>1. ASSUME NEW s \in Schedule, NEW on \in BOOLEAN, NEW rec \in BOOLEAN, NEW wf \in BOOLEAN,
             CreateSchedule(w, s, on, rec, wf)
      PROVE  UNCHANGED <<status, runs, reconciled>>
  BY <1>1 DEF CreateSchedule, rowVars, history
<1>2. CASE RegisterNext(w)
  BY <1>2, NextIsPut DEF RegisterNext, history
<1>3. CASE Claim(w)
  <2>1. PICK o \in Occurrence : status[o] = "PENDING" /\ SetStatus(o, "CLAIMED")
    BY <1>3 DEF Claim
  <2>2. Queue!Take(o)
    BY <1>3, <2>1 DEF Claim, SetStatus, history, Queue!Take
  <2>3. QED
    BY <2>2 DEF Queue!Next
<1>4. CASE ExecuteRefused(w) \/ ExecuteNothing(w)
  BY <1>4 DEF ExecuteRefused, ExecuteNothing, Leaves, rowVars, history
<1>5. CASE Execute(w)
  BY <1>5, <1>w, ExecuteStarts DEF Queue!Next
<1>6. ASSUME NEW result \in {"EXECUTED", "FAILED"}, Finish(w, result)
      PROVE  Queue!Finish(work[w], result)
  BY <1>6 DEF Finish, Started, SetStatus, history, Queue!Finish
<1>7. CASE FinishNext(w)
  BY <1>7, NextIsPut DEF FinishNext
<1>8. CASE RunOnceSkips(w)
  <2>1. PICK o \in todo[w] : SetStatus(o, "SKIPPED")
    BY <1>8 DEF RunOnceSkips
  <2>2. o \in Occurrence /\ status[o] # "NONE"
    BY DEF TypeOK, Queued
  <2>3. status' = [i \in Occurrence |-> IF i \in {o} THEN "SKIPPED" ELSE status[i]]
    BY <1>s, <2>1, <2>2 DEF SetStatus
  <2>4. UNCHANGED <<runs, reconciled>>
    BY <1>8 DEF RunOnceSkips, history
  <2>5. Queue!Skip({o}) /\ {o} \in SUBSET Occurrence
    BY <2>2, <2>3, <2>4 DEF Queue!Skip
  <2>6. QED
    BY <2>5 DEF Queue!Next
<1>9. CASE RunOnce(w)
  BY <1>9 DEF RunOnce, rowVars, history
<1>10. CASE BreakOff(w)
  BY <1>10 DEF BreakOff, Leaves, rowVars
<1>11. ASSUME NEW result \in {"EXECUTED", "FAILED"}, Finish(w, result)
       PROVE  [Queue!Next]_<<status, runs, reconciled>>
  BY <1>w, <1>6, <1>11 DEF Queue!Next
<1>12. QED
  BY <1>1, <1>2, <1>3, <1>4, <1>5, <1>7, <1>8, <1>9, <1>10, <1>11 DEF WorkerStep, Work

\* What any step does to it.
LEMMA StepKeepsQueue ==
  ASSUME TypeOK, Paid, Queued, Started, [Next]_vars
  PROVE  [Queue!Next]_<<status, runs, reconciled>>
<1>1. ASSUME NEW s \in Schedule, EndSchedule(s)
      PROVE  UNCHANGED <<status, runs, reconciled>>
  BY <1>1 DEF EndSchedule, rowVars, history
<1>2. ASSUME NEW s \in Schedule, DeleteSchedule(s)
      PROVE  UNCHANGED <<status, runs, reconciled>>
  BY <1>2 DEF DeleteSchedule, rowVars, history
<1>3. CASE ReconcileStaleClaims
  <2> DEFINE S == {o \in Occurrence : status[o] = "CLAIMED" /\ claimedAt[o] + Stale <= clock}
  <2>1. Queue!TakeBack(S) /\ S \in SUBSET Occurrence
    BY <1>3 DEF ReconcileStaleClaims, Queue!TakeBack
  <2>2. QED
    BY <2>1 DEF Queue!Next
<1>4. CASE SkipMissed
  <2>1. Queue!Skip(Missed) /\ Missed \in SUBSET Occurrence
    BY <1>4 DEF SkipMissed, Missed, history, Queue!Skip
  <2>2. QED
    BY <2>1 DEF Queue!Next
<1>5. CASE Tick \/ UNCHANGED vars
  BY <1>5 DEF Tick, vars, rowVars, history
<1>6. QED
  BY <1>1, <1>2, <1>3, <1>4, <1>5, WorkerKeepsQueue DEF Next, WorkerStep

\* The scheduler implements WorkQueue, for any number of workers and schedules:
\* what is due is done at least once, again only after a claim was taken back, and
\* is on record as done only if it was begun.
THEOREM QueueContract == Spec => ImplementsQueue
<1>1. Init => Queued /\ Started
  BY DEF Init, Queued, Started
<1>2. Init => Paid
  <2> SUFFICES ASSUME Init, NEW o \in Occurrence
               PROVE  runs[o] + Cardinality(Claimers(o)) <= reconciled[o] + Taken(o)
    BY DEF Paid
  <2>1. Claimers(o) = {}
    BY DEF Init, Claimers
  <2>2. QED
    BY <2>1, FS_EmptySet DEF Init, Taken
<1>3. Init => Queue!Init
  BY DEF Init, Queue!Init
<1>4. TypeOK /\ Paid /\ Queued /\ Started /\ [Next]_vars => [Queue!Next]_<<status, runs, reconciled>>
  BY StepKeepsQueue
<1>5. QED
  BY <1>1, <1>2, <1>3, <1>4, TypeCorrect, PaidInductive, QueuedInductive, StartedInductive, PTL
  DEF Spec, ImplementsQueue, Queue!Spec, Queue!vars

\* What the record says was executed, or failed, was begun: of the queue by its
\* contract, of the scheduler because it keeps it.
THEOREM RecordIsTrue == Spec => []Queue!DoneWasStarted
<1>1. Init => Queue!DoneWasStarted
  BY DEF Init, Queue!DoneWasStarted
<1>2. TypeOK /\ Queue!DoneWasStarted /\ [Queue!Next]_<<status, runs, reconciled>>
        => Queue!DoneWasStarted'
  <2> SUFFICES ASSUME TypeOK, Queue!DoneWasStarted, NEW i \in Occurrence,
                      [Queue!Next]_<<status, runs, reconciled>>,
                      status'[i] \in {"EXECUTED", "FAILED"}
               PROVE  runs'[i] > 0
    BY DEF Queue!DoneWasStarted
  <2>t. status \in [Occurrence -> {"NONE"} \cup Open \cup Settled] /\ runs \in [Occurrence -> Nat]
    BY DEF TypeOK
  <2>d. status[i] \in {"EXECUTED", "FAILED"} => runs[i] > 0
    BY DEF Queue!DoneWasStarted
  <2>1. ASSUME NEW o \in Occurrence, Queue!Put(o) \/ Queue!Take(o)
        PROVE  runs'[i] > 0
    BY <2>1, <2>t, <2>d DEF Queue!Put, Queue!Take
  <2>2. ASSUME NEW o \in Occurrence, Queue!Start(o)
        PROVE  runs'[i] > 0
    BY <2>2, <2>t, <2>d DEF Queue!Start
  <2>3. ASSUME NEW o \in Occurrence, NEW result, Queue!Finish(o, result)
        PROVE  runs'[i] > 0
    BY <2>3, <2>t, <2>d DEF Queue!Finish
  <2>4. ASSUME NEW S \in SUBSET Occurrence, Queue!TakeBack(S) \/ Queue!Skip(S)
        PROVE  runs'[i] > 0
    BY <2>4, <2>t, <2>d DEF Queue!TakeBack, Queue!Skip
  <2>5. CASE UNCHANGED <<status, runs, reconciled>>
    BY <2>5, <2>d
  <2>6. QED
    BY <2>1, <2>2, <2>3, <2>4, <2>5 DEF Queue!Next
<1>3. QED
  BY <1>1, <1>2, QueueContract, TypeCorrect, PTL
  DEF Spec, ImplementsQueue, Queue!Spec, Queue!vars
=============================================================================
