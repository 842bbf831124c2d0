SPECIFICATION Spec
CONSTANTS
    LatchWired = TRUE
    StopOnConnect = TRUE
    DiskFails = FALSE
    MaxKills = 2
INVARIANT TripIsSavedAtExit
