SPECIFICATION Spec
CONSTANTS
    Key = {k1, k2}
    None = None
    Window = 2
    MaxTime = 3
    MaxRequests = 3
INVARIANTS OncePerKey AnswerIsTrue
PROPERTY FollowersEnd
\* The server may stop for good, and the clock and the requests are bounded.
CHECK_DEADLOCK FALSE
