SPECIFICATION FairSpec
CONSTANTS
    Task = {t1, t2}
    None = None
    MaxCalls = 3
    MaxMisses = 2
    MaxAttempts = 2
    Cancels = TRUE
    Silence = TRUE
INVARIANTS TypeOK StopIsLast RepliesMatch ConnectRollsBack
PROPERTY CallsEnd
