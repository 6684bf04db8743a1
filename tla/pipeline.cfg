CONSTANTS
    Runs = {r1, r2, r3}
    None = None
    RefreshLimit = 2
    MaxRefreshes = 2
    MaxEvents = 3
SPECIFICATION FairSpec
INVARIANTS TypeOK RestMeansBuilt Inv
PROPERTIES AwaitMeansPublished ComesToRest
CHECK_DEADLOCK FALSE
