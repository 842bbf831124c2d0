SPECIFICATION FairSpec
CONSTANTS
    MaxMissions = 3
    StallWindow = 2
    MaxReplans = 2
    MaxActive = 2
    None = None
INVARIANTS TypeOK ReplanBudget TrackerAgrees BoundaryKept
PROPERTIES OutcomeFinal StallEnds
