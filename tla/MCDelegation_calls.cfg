\* Two delegate() calls with the same id, audits that may fail.  When all records have ended nothing is left to do.
CONSTANTS
    Call = {c1, c2}
    NoCall = NoCall
    MaxRetries = 1
    CallBound = 3
SPECIFICATION FairSpec
CHECK_DEADLOCK FALSE
INVARIANT OutcomeAgrees
INVARIANT ApprovedBeforeCall
PROPERTY CancelledWhileAsking
PROPERTY DelegationEnds
