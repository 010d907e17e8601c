\* One engine crashes after the tool succeeded.
CONSTANTS
    Engine = {e1}
    NoEngine = NoEngine
    Copy = {c1}
    MaxIterations = 2
    MaxDelegations = 2
    MaxActions = 2
    MaxRetries = 1
    Levels = {"SAFE"}
    MaxCrashes = 1
    MaxCopies = 0
SPECIFICATION Spec
CHECK_DEADLOCK FALSE
INVARIANT ExecutedRunResumes
