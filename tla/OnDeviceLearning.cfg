SPECIFICATION FairSpec
CONSTANTS
    Digests = {c1, c2, c3}
    Better = {c1, c2}
    Boot = Boot
    Garbage = Garbage
    Zero = Zero
    None = None
    Needed = 2
    MinNew = 1
    MaxRecords = 4
    MaxRestarts = 1
INVARIANTS TypeOK LiveIsBlessed CarriedIsOwn EngineOfPending ConsumedIsReal
PROPERTY ActiveGoesLive
