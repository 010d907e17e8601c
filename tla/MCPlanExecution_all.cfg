\* Every plan of three steps, every executor.  An execution that has ended does nothing more.
CONSTANTS
    Step = {1, 2, 3}
    MaxRetries = 1
SPECIFICATION FairSpec
CHECK_DEADLOCK FALSE
INVARIANT AcceptsExactlyDags
INVARIANT DependenciesFirst
INVARIANT ReportIsTrue
PROPERTY PlanEnds
