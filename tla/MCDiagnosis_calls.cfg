\* Three origins, two of them of one private host, on any allowlist.  A call that
\* is answered ends.
CONSTANTS
    out = out
    inner = inner
    port = port
    Origin = {out, inner, port}
    Inner = {inner, port}
    Covers <- MCCovers
    Timeout = 3
SPECIFICATION FairSpec
CHECK_DEADLOCK FALSE
INVARIANT AnswerIsTrue
PROPERTY SendsWithinBounds
PROPERTY CallEnds
