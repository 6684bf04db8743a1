CONSTANTS
    Paths = {p1, p2}
    Ops = {o1}
    None = None
    Torn = Torn
    MaxDocs = 3
    MaxMishaps = 0
SPECIFICATION Spec
INVARIANTS ShownSavedIsSaved
CHECK_DEADLOCK FALSE
