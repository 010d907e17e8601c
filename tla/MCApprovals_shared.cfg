\* Two managers (processes) on one database file.
CONSTANTS
    Manager = {m1, m2}
    Fingerprint = {f1}
    TTL <- MCTTL
    MaxClock = 3
    MaxRequests = 2
SPECIFICATION Spec
INVARIANT EveryUseGranted
INVARIANT OneUsePerRequest
PROPERTY ImplementsTokens
