CONSTANTS
    Paths = {p1, p2}
    Ops = {o1}
    None = None
    Torn = Torn
    MaxDocs = 2
    MaxMishaps = 2
SPECIFICATION Spec
SYMMETRY Symmetric
INVARIANTS TypeOK CleanMeansSaved UnsavedIsCovered NewestIsOffered SnapshotsAreUnsaved
PROPERTIES SaveStaysInItsDocument
CHECK_DEADLOCK FALSE
