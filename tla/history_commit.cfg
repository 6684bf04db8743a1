CONSTANTS
    None = None
    UndoCap = 2
    RefreshLimit = 1
    MaxSteps = 3
    MaxWaiting = 2
    MaxMoves = 1
SPECIFICATION Spec
PROPERTIES CommitKeepsEdits
CHECK_DEADLOCK FALSE
