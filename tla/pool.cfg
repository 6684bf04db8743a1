CONSTANTS
    Jobs = {j1, j2}
    Timed = {j2}
    None = None
    MaxAttempts = 2
    Patience = 1
    Handed = 2
    MaxBeats = 1
    MaxMishaps = 3
SPECIFICATION FairSpec
INVARIANTS TypeOK GivesUpOnlyWhenBroken AnswersAreTrue
PROPERTIES CancelIsKept EveryRequestEnds
CHECK_DEADLOCK FALSE
