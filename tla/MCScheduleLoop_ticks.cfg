\* Two starts or ticks at a time, two schedules whose guarded actions are the same.
CONSTANTS
    Proc = {p1, p2}
    Task = {t1, t2}
    Guarded = {t1, t2}
    Key = {k1}
    KeyOf <- MCKeyOf
    MaxRetries = 1
    MaxGrants = 1
    MaxTimers = 2
SPECIFICATION FairSpec
INVARIANT GuardedRunsPaid
INVARIANT CompletedRan
INVARIANT PollsWhileRunning
PROPERTY TickReturns
