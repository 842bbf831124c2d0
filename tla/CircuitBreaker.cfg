SPECIFICATION FairSpec
CONSTANTS
    Caller = {c1, c2, c3}
    Threshold = 2
    MaxProbes = 3
INVARIANTS SlotsAccounted
PROPERTY RecoversUnlessLost
