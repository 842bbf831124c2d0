SPECIFICATION FairSpec
CONSTANTS
    LatchWired = TRUE
    StopOnConnect = TRUE
    DiskFails = TRUE
    MaxKills = 2
INVARIANTS TypeOK RecordedMeansStill HaltedAtExit
PROPERTIES KeepsPromise NoTickAfterRequest ShutdownEnds OrphanedWheelsStop LatchedWheelsStop
