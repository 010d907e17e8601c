\* Two workers and a schedule that is registered up to twice, as ONCE or recurring; one crash.  When the
\* clock has reached its bound and all is settled nothing is left to do.
CONSTANTS
    Worker = {w1, w2}
    Schedule = {s1}
    RunAt = 2
    Interval = 1
    Stale = 1
    MaxClock = 3
    MaxRegistrations = 2
    MaxBroken = 1
SPECIFICATION FairSpec
CHECK_DEADLOCK FALSE
INVARIANT RunsPaid
INVARIANT ChainNeverForks
INVARIANT ChainContinues
PROPERTY ImplementsQueue
PROPERTY DueIsSettled
