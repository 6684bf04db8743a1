CONSTANTS
    Windows = {w1, w2}
    Agents = {a1}
    None = None
    MaxPending = 2
    Memory = 1
    MaxConns = 2
    MaxDocs = 1
    MaxOffers = 2
    MaxMishaps = 1
SPECIFICATION FairSpec
INVARIANTS TypeOK AdoptedMeansApplied HandedOverOnce StaleIsRefused SessionHasParties
PROPERTIES LapsedAreNotCollected SharingIsPublished OffMeansForgotten OffersDoNotStay
CHECK_DEADLOCK FALSE
