\* Two handlers, an operator, and an owner who answers once per action.
CONSTANTS
    Tool = {t}
    SubAction = {a}
    t = t
    a = a
    own = own
    other = other
    ToolOf <- MCToolOf
    Workspace = {own, other}
    Declared <- MCDeclared
    Incident = {i1, i2}
    Operated = {i1}
    AnySite <- MCSites
    AnyRules <- Rules
    NoEvidence = NoEvidence
    MaxAttempts = 3
    MaxRetries = 1
    MaxGrants = 1
SPECIFICATION FairSpec
CHECK_DEADLOCK FALSE
INVARIANT RecoveryPermitted
INVARIANT GuardedRunsPaid
INVARIANT ResolvedIsProven
INVARIANT ResolvedInScope
PROPERTY HandlerEnds
