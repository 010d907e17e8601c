\* Two requests at a time, two logins, two owners the process may be started for.
CONSTANTS
    Owner = {o1, o2}
    LoginOwner = o1
    Account = account
    Configured = configured
    LoginToken = {t1, t2}
    State = {s1, s2}
    Request = {r1, r2}
    None = none
    MaxStarts = 2
SPECIFICATION Spec
INVARIANT OneSessionPerState
INVARIANT CommandForOwner
PROPERTY EndedStaysEnded
SYMMETRY Symmetry
