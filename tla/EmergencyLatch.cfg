SPECIFICATION FairSpec
CONSTANTS
    Writer = {w1, w2}
    Fsync = TRUE
    None = None
INVARIANTS AckIsDurable
PROPERTIES KeepsPromise TripReachesDisk
