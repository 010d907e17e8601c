----------------------------- MODULE Occurrences -----------------------------
(***************************************************************************)
(* The occurrence queue of DurableScheduler (src/src/core/scheduler/       *)
(* index.ts): schedules produce due occurrences, workers claim and execute *)
(* them, stale claims are reconciled.  Workers may be different processes  *)
(* on one sqlite file.  Only the claim is a transaction; an execution      *)
(* waits for the workflow between its reads and its writes, a process can  *)
(* die between two statements, and each statement can throw (the database  *)
(* is opened without a busy timeout).                                      *)
(***************************************************************************)
EXTENDS Naturals, FiniteSets

CONSTANTS
    Worker,           \* processes that claim and execute occurrences
    Schedule,         \* schedule ids
    RunAt,            \* runAtUtc of a ONCE schedule
    Interval,         \* distance of two occurrences of a recurring schedule
    Stale,            \* staleThresholdMs of reconcileStaleClaims
    MaxClock,         \* bound on the clock
    MaxRegistrations, \* bound on registerSchedule calls per schedule
    MaxBroken         \* bound on the calls that break off

ASSUME OccurrencesAssumption ==
    /\ Schedule # {} /\ IsFiniteSet(Worker)
    /\ Interval \in Nat \ {0}
    /\ RunAt \in 0..MaxClock
    /\ Stale \in Nat /\ MaxClock \in Nat
    /\ MaxRegistrations \in Nat /\ MaxBroken \in Nat

VARIABLES
    clock,
    scheduleStatus,  \* schedules.status
    enabled,         \* schedules.enabled
    recurring,       \* those of type INTERVAL or CRON; the others are ONCE
    runnable,        \* those stored with a workflow
    status,          \* occurrences.status; NONE is a missing row
    claimedAt,       \* occurrences.claimed_at_utc; 0 is also NULL
    pc, work,        \* per worker: the call in progress and its occurrence
    chained,         \* workers whose executeOccurrence read an enabled, recurring schedule
    todo,            \* per worker: ids RUN_ONCE still has to skip
    registered,      \* history: registrations per schedule
    runs,            \* history: executions started per occurrence
    reconciled,      \* history: times a stale claim was taken back
    late,            \* history: results that added the occurrence of a schedule now ONCE
    cut,             \* history: what workers left undone of an occurrence since its last claim
    broken           \* history: calls that broke off

scheduleVars == <<scheduleStatus, enabled, recurring, runnable, registered>>
rowVars == <<status, claimedAt>>
workerVars == <<pc, work, chained, todo>>
history == <<runs, reconciled, late, cut, broken>>
vars == <<clock, scheduleVars, rowVars, workerVars, history>>
-----------------------------------------------------------------------------
Time == 0..(MaxClock + Interval)

\* The id of an occurrence is made of its schedule and its due time.
Occurrence == Schedule \X Time
ScheduleOf(o) == o[1]
DueAt(o) == o[2]

Open == {"PENDING", "CLAIMED"}
Settled == {"EXECUTED", "FAILED", "SKIPPED"}

TypeOK ==
    /\ clock \in 0..MaxClock
    /\ scheduleStatus \in [Schedule -> {"NONE", "SCHEDULED", "ENDED"}]
    /\ enabled \subseteq Schedule /\ recurring \subseteq Schedule /\ runnable \subseteq Schedule
    /\ status \in [Occurrence -> {"NONE"} \cup Open \cup Settled]
    /\ claimedAt \in [Occurrence -> Time]
    /\ pc \in [Worker -> {"idle", "register", "claimed", "running", "next", "skip"}]
    /\ work \in [Worker -> Occurrence]
    /\ chained \subseteq Worker
    /\ todo \in [Worker -> SUBSET Occurrence]
    /\ registered \in [Schedule -> 0..MaxRegistrations]
    /\ runs \in [Occurrence -> Nat]
    /\ reconciled \in [Occurrence -> Nat]
    /\ late \in [Schedule -> Nat]
    /\ cut \subseteq Occurrence \X {"result", "next"}
    /\ broken \in 0..MaxBroken

Init ==
    /\ clock = 0
    /\ scheduleStatus = [s \in Schedule |-> "NONE"]
    /\ enabled = {} /\ recurring = {} /\ runnable = {}
    /\ status = [o \in Occurrence |-> "NONE"]
    /\ claimedAt = [o \in Occurrence |-> 0]
    /\ pc = [w \in Worker |-> "idle"]
    /\ work = [w \in Worker |-> CHOOSE o \in Occurrence : TRUE]
    /\ chained = {}
    /\ todo = [w \in Worker |-> {}]
    /\ registered = [s \in Schedule |-> 0]
    /\ runs = [o \in Occurrence |-> 0]
    /\ reconciled = [o \in Occurrence |-> 0]
    /\ late = [s \in Schedule |-> 0]
    /\ cut = {}
    /\ broken = 0
-----------------------------------------------------------------------------
Goto(w, l) == pc' = [pc EXCEPT ![w] = l]
SetStatus(o, s) == status' = [status EXCEPT ![o] = s]

\* calculateNextDue of an enabled schedule: a set with the due time, or empty.
NextDue(s, from) ==
    IF s \in recurring THEN {from + Interval} ELSE {t \in {RunAt} : t >= from}

\* Mutant: INSERT OR REPLACE.
InsertOrReplace(s, due) == status' = [status EXCEPT ![<<s, due>>] = "PENDING"]

\* INSERT OR IGNORE: an occurrence that is there already stays as it is.
Insert(s, due) ==
    status' = [o \in Occurrence |->
                  IF o = <<s, due>> /\ status[o] = "NONE" THEN "PENDING" ELSE status[o]]

\* scheduleNextOccurrence: only `enabled` is looked at, not the status.
ScheduleNextOccurrence(s, from) ==
    IF s \in enabled /\ NextDue(s, from) # {}
    THEN \E due \in NextDue(s, from) : Insert(s, due)
    ELSE UNCHANGED status
-----------------------------------------------------------------------------
(* Schedules. *)

\* createSchedule: INSERT OR REPLACE, whatever was there.
CreateSchedule(w, s, on, rec, wf) ==
    /\ pc[w] = "idle"
    /\ registered[s] < MaxRegistrations
    /\ registered' = [registered EXCEPT ![s] = @ + 1]
    /\ scheduleStatus' = [scheduleStatus EXCEPT ![s] = "SCHEDULED"]
    /\ enabled' = IF on THEN enabled \cup {s} ELSE enabled \ {s}
    /\ recurring' = IF rec THEN recurring \cup {s} ELSE recurring \ {s}
    /\ runnable' = IF wf THEN runnable \cup {s} ELSE runnable \ {s}
    /\ work' = [work EXCEPT ![w] = <<s, 0>>]
    /\ Goto(w, "register")
    /\ UNCHANGED <<clock, rowVars, chained, todo, history>>

\* The second half of registerSchedule.
RegisterNext(w) ==
    /\ pc[w] = "register"
    /\ ScheduleNextOccurrence(ScheduleOf(work[w]), clock)
    /\ Goto(w, "idle")
    /\ UNCHANGED <<clock, scheduleVars, claimedAt, work, chained, todo, history>>

\* completeSchedule and cancelSchedule write unconditionally; COMPLETED and
\* CANCELLED, which nothing here looks at, are both ENDED.
EndSchedule(s) ==
    /\ scheduleStatus[s] # "NONE"
    /\ scheduleStatus' = [scheduleStatus EXCEPT ![s] = "ENDED"]
    /\ UNCHANGED <<clock, enabled, recurring, runnable, registered, rowVars, workerVars, history>>

\* deleteSchedule.  The foreign key of the occurrences, which node:sqlite
\* enforces, makes it throw for a schedule that has any.
DeleteSchedule(s) ==
    /\ scheduleStatus[s] # "NONE"
    /\ \A o \in Occurrence : ScheduleOf(o) = s => status[o] = "NONE"
    /\ scheduleStatus' = [scheduleStatus EXCEPT ![s] = "NONE"]
    /\ enabled' = enabled \ {s} /\ recurring' = recurring \ {s}
    /\ runnable' = runnable \ {s}
    /\ UNCHANGED <<clock, registered, rowVars, workerVars, history>>
-----------------------------------------------------------------------------
(* Claims and executions. *)

\* Mutant: the claim does not ask for PENDING.
ClaimOpen(w) ==
    /\ pc[w] = "idle"
    /\ \E o \in Occurrence :
          /\ status[o] \in Open /\ DueAt(o) <= clock
          /\ SetStatus(o, "CLAIMED")
          /\ claimedAt' = [claimedAt EXCEPT ![o] = clock]
          /\ work' = [work EXCEPT ![w] = o]
          /\ cut' = {x \in cut : x[1] # o}
    /\ Goto(w, "claimed")
    /\ UNCHANGED <<clock, scheduleVars, chained, todo, runs, reconciled, late, broken>>

\* claimDueOccurrence: the earliest due PENDING occurrence, in a transaction.
Claim(w) ==
    /\ pc[w] = "idle"
    /\ \E o \in Occurrence :
          /\ status[o] = "PENDING" /\ DueAt(o) <= clock
          /\ \A p \in Occurrence : status[p] = "PENDING" => DueAt(o) <= DueAt(p)
          /\ SetStatus(o, "CLAIMED")
          /\ claimedAt' = [claimedAt EXCEPT ![o] = clock]
          /\ work' = [work EXCEPT ![w] = o]
          /\ cut' = {x \in cut : x[1] # o}
    /\ Goto(w, "claimed")
    /\ UNCHANGED <<clock, scheduleVars, chained, todo, runs, reconciled, late, broken>>

\* The worker leaves its occurrence, without a result or without the next one.
Leaves(w) == cut' = cut \cup {<<work[w], IF pc[w] = "next" THEN "next" ELSE "result">>}

\* executeOccurrence returns at once when the occurrence is not CLAIMED (any
\* more, by anybody).
ExecuteRefused(w) ==
    /\ pc[w] = "claimed"
    /\ status[work[w]] # "CLAIMED"
    /\ Goto(w, "idle")
    /\ UNCHANGED <<clock, scheduleVars, rowVars, work, chained, todo, history>>

\* It does so as well when the schedule has no workflow; the row stays CLAIMED.
ExecuteNothing(w) ==
    /\ pc[w] = "claimed"
    /\ status[work[w]] = "CLAIMED" /\ ScheduleOf(work[w]) \notin runnable
    /\ Leaves(w)
    /\ Goto(w, "idle")
    /\ UNCHANGED <<clock, scheduleVars, rowVars, work, chained, todo, runs, reconciled, late, broken>>

\* Otherwise it starts the workflow and waits for it.
Execute(w) ==
    /\ pc[w] = "claimed"
    /\ status[work[w]] = "CLAIMED" /\ ScheduleOf(work[w]) \in runnable
    /\ runs' = [runs EXCEPT ![work[w]] = @ + 1]
    /\ chained' = IF ScheduleOf(work[w]) \in enabled \cap recurring
                  THEN chained \cup {w} ELSE chained \ {w}
    /\ Goto(w, "running")
    /\ UNCHANGED <<clock, scheduleVars, rowVars, work, todo, reconciled, late, cut, broken>>

\* Mutant: a failed workflow is not recorded.
FinishSuccessOnly(w, result) ==
    /\ pc[w] = "running"
    /\ SetStatus(work[w], IF result = "EXECUTED" THEN result ELSE status[work[w]])
    /\ Goto(w, IF w \in chained THEN "next" ELSE "idle")
    /\ UNCHANGED <<clock, scheduleVars, claimedAt, work, chained, todo, history>>

\* Mutant: a failed workflow ends the chain.
FinishChainsOnSuccess(w, result) ==
    /\ pc[w] = "running"
    /\ SetStatus(work[w], result)
    /\ Goto(w, IF w \in chained /\ result = "EXECUTED" THEN "next" ELSE "idle")
    /\ UNCHANGED <<clock, scheduleVars, claimedAt, work, chained, todo, history>>

\* The result is written whatever the row says by now.
Finish(w, result) ==
    /\ pc[w] = "running"
    /\ SetStatus(work[w], result)
    /\ Goto(w, IF w \in chained THEN "next" ELSE "idle")
    /\ UNCHANGED <<clock, scheduleVars, claimedAt, work, chained, todo, history>>

CountLate(s) ==
    late' = IF s \in recurring \/ status' = status THEN late ELSE [late EXCEPT ![s] = @ + 1]

\* Mutant: the next occurrence is counted from now.
FinishNextFromNow(w) ==
    /\ pc[w] = "next"
    /\ ScheduleNextOccurrence(ScheduleOf(work[w]), clock)
    /\ CountLate(ScheduleOf(work[w]))
    /\ chained' = chained \ {w}
    /\ Goto(w, "idle")
    /\ UNCHANGED <<clock, scheduleVars, claimedAt, work, todo, runs, reconciled, cut, broken>>

\* The next occurrence is counted from the due time of this one, and by the
\* schedule as it is by now.
FinishNext(w) ==
    /\ pc[w] = "next"
    /\ ScheduleNextOccurrence(ScheduleOf(work[w]), DueAt(work[w]))
    /\ CountLate(ScheduleOf(work[w]))
    /\ chained' = chained \ {w}
    /\ Goto(w, "idle")
    /\ UNCHANGED <<clock, scheduleVars, claimedAt, work, todo, runs, reconciled, cut, broken>>
-----------------------------------------------------------------------------
(* Recovery. *)

\* reconcileStaleClaims: one UPDATE.
ReconcileStaleClaims ==
    LET stale == {o \in Occurrence : status[o] = "CLAIMED" /\ claimedAt[o] + Stale <= clock} IN
    /\ stale # {}
    /\ status' = [o \in Occurrence |-> IF o \in stale THEN "PENDING" ELSE status[o]]
    /\ claimedAt' = [o \in Occurrence |-> IF o \in stale THEN 0 ELSE claimedAt[o]]
    /\ reconciled' = [o \in Occurrence |-> reconciled[o] + (IF o \in stale THEN 1 ELSE 0)]
    /\ UNCHANGED <<clock, scheduleVars, workerVars, runs, late, cut, broken>>

Missed == {o \in Occurrence : status[o] = "PENDING" /\ DueAt(o) < clock}

\* handleMissedOccurrences("SKIP"): one UPDATE.
SkipMissed ==
    /\ Missed # {}
    /\ status' = [o \in Occurrence |-> IF o \in Missed THEN "SKIPPED" ELSE status[o]]
    /\ UNCHANGED <<clock, scheduleVars, claimedAt, workerVars, history>>

\* handleMissedOccurrences("RUN_ONCE"): every missed occurrence but the newest
\* is skipped, one UPDATE by id at a time.
RunOnce(w) ==
    /\ pc[w] = "idle"
    /\ Cardinality(Missed) > 1
    /\ \E newest \in Missed :
          /\ \A o \in Missed : DueAt(o) <= DueAt(newest)
          /\ todo' = [todo EXCEPT ![w] = Missed \ {newest}]
    /\ Goto(w, "skip")
    /\ UNCHANGED <<clock, scheduleVars, rowVars, work, chained, history>>

RunOnceSkips(w) ==
    /\ pc[w] = "skip"
    /\ \E o \in todo[w] :
          /\ \A p \in todo[w] : DueAt(p) <= DueAt(o)
          /\ SetStatus(o, "SKIPPED")
          /\ todo' = [todo EXCEPT ![w] = @ \ {o}]
          /\ Goto(w, IF todo[w] = {o} THEN "idle" ELSE "skip")
    /\ UNCHANGED <<clock, scheduleVars, claimedAt, work, chained, history>>

\* The process dies and starts again, or a statement or the workflow throws: in
\* either case the call goes no further, and what it has written stays.
BreakOff(w) ==
    /\ pc[w] # "idle" /\ broken < MaxBroken
    /\ broken' = broken + 1
    /\ IF pc[w] \in {"claimed", "running", "next"} THEN Leaves(w) ELSE UNCHANGED cut
    /\ Goto(w, "idle")
    /\ todo' = [todo EXCEPT ![w] = {}]
    /\ chained' = chained \ {w}
    /\ UNCHANGED <<clock, scheduleVars, rowVars, work, runs, reconciled, late>>

Tick ==
    /\ clock < MaxClock
    /\ clock' = clock + 1
    /\ UNCHANGED <<scheduleVars, rowVars, workerVars, history>>

\* The steps a worker takes once it has begun, and its claims.
Work(w) ==
    \/ RegisterNext(w)
    \/ Claim(w) \/ ExecuteRefused(w) \/ ExecuteNothing(w) \/ Execute(w)
    \/ \E result \in {"EXECUTED", "FAILED"} : Finish(w, result)
    \/ FinishNext(w)
    \/ RunOnceSkips(w)

Next ==
    \/ \E w \in Worker :
          \/ \E s \in Schedule, on, rec, wf \in BOOLEAN : CreateSchedule(w, s, on, rec, wf)
          \/ Work(w)
          \/ RunOnce(w)
          \/ BreakOff(w)
    \/ \E s \in Schedule :
          \/ EndSchedule(s)
          \/ DeleteSchedule(s)
    \/ ReconcileStaleClaims
    \/ SkipMissed
    \/ Tick

Spec == Init /\ [][Next]_vars

\* The workers keep polling, workflows end, time passes.
Fairness == WF_vars(Tick) /\ \A w \in Worker : WF_vars(Work(w))

FairSpec == Spec /\ Fairness
-----------------------------------------------------------------------------
(* Properties. *)

\* Every execution of an occurrence after its first is paid for by a claim
\* taken back as stale: nothing else makes a worker run an occurrence again.
RunsPaid == \A o \in Occurrence : runs[o] <= 1 + reconciled[o]

\* A schedule has at most one open occurrence per registration, even when two
\* workers finish the same occurrence: the chain of occurrences never forks.
\* The one more there can be is added by a worker that began an execution of a
\* recurring schedule and ends it when the schedule is ONCE.
ChainNeverForks ==
    \A s \in Schedule :
        Cardinality({o \in Occurrence : ScheduleOf(o) = s /\ status[o] \in Open})
            <= registered[s] + late[s]

\* An execution of a recurring schedule, successful or not, is followed by its
\* next occurrence; only a call that breaks off between the two, because its
\* process dies or its insert throws, leaves the schedule without one.  (A
\* schedule that is registered anew may have been off before.)
ChainContinues ==
    \A o \in Occurrence :
        LET s == ScheduleOf(o) IN
        /\ registered[s] = 1 /\ s \in enabled \cap recurring
        /\ status[o] \in {"EXECUTED", "FAILED"}
        => \/ status[<<s, DueAt(o) + Interval>>] # "NONE"
           \/ \E w \in Worker : pc[w] = "next" /\ work[w] = o
           \/ <<o, "next">> \in cut

\* The queue keeps the contract of WorkQueue: no occurrence is lost or comes back
\* once it is settled, one is started by who has claimed it and again only after
\* its claim was taken back, and what is on record as executed was begun.
Queue == INSTANCE WorkQueue WITH
             Item <- Occurrence, state <- status, starts <- runs, returned <- reconciled

ImplementsQueue == Queue!Spec

\* Whatever the workflows answer and however slow they are, the workers come to
\* the end of what is due again and again: nothing due is left waiting or in
\* anybody's hands then.  A row that is CLAIMED by nobody was left by the very
\* call that claimed it last, which had no workflow to run or broke off.
DueIsSettled ==
    []<>(\A o \in Occurrence :
            status[o] \in Open /\ DueAt(o) <= clock =>
                status[o] = "CLAIMED" /\ <<o, "result">> \in cut)
=============================================================================
