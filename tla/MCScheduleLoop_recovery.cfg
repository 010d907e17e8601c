\* A process dies while a retry is due and its loop is started again.
CONSTANTS
    Proc = {p1}
    Task = {t1}
    Guarded = {}
    Key = {k1}
    KeyOf <- MCKeyOf
    MaxRetries = 1
    MaxGrants = 0
    MaxTimers = 1
SPECIFICATION Spec
PROPERTY RetryIsRecovered
