\* One fair engine that crashes and restarts, and recovers once more while it
\* works on the run.  A run that has ended leaves nothing to do.
CONSTANTS
    Engine = {e1}
    NoEngine = NoEngine
    Copy = {c1, c2}
    MaxIterations = 2
    MaxDelegations = 1
    MaxActions = 1
    MaxRetries = 0
    Levels = {"SAFE", "APPROVAL_REQUIRED"}
    MaxCrashes = 1
    MaxCopies = 2
SPECIFICATION FairSpec
CHECK_DEADLOCK FALSE
INVARIANT AtMostOncePerStep
INVARIANT ActionsWithinLimit
PROPERTY ImplementsLog
PROPERTY RunEnds
