CONSTANTS
    None = None
    UndoCap = 2
    RefreshLimit = 1
    MaxSteps = 3
    MaxWaiting = 2
    MaxMoves = 2
SPECIFICATION Spec
INVARIANTS TypeOK HistoryIsAChain QuietMeansFresh SketchFollowsParameter
PROPERTIES RefreshKeepsEdits
CHECK_DEADLOCK FALSE
