CONSTANTS
    Runs = {r1, r2, r3}
    None = None
    RefreshLimit = 2
    MaxRefreshes = 1
    MaxEvents = 1
SPECIFICATION Spec
INVARIANTS Serialized
CHECK_DEADLOCK FALSE
