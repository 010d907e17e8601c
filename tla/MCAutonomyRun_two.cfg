\* Two engines on one store, one of which may stop for good at any point; one
\* of them may hold both copies.  A run that has ended leaves nothing to do.
CONSTANTS
    Engine = {e1, e2}
    NoEngine = NoEngine
    Copy = {c1, c2}
    MaxIterations = 2
    MaxDelegations = 2
    MaxActions = 2
    MaxRetries = 1
    Levels = {"SAFE"}
    MaxCrashes = 0
    MaxCopies = 2
SPECIFICATION Spec
CHECK_DEADLOCK FALSE
SYMMETRY Interchange
INVARIANT OneFrame
INVARIANT WriteAhead
INVARIANT VerifiedMeansRan
INVARIANT AtMostOncePerStep
PROPERTY DurableTerminalFinal
