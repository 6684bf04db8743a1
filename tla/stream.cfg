CONSTANTS
    b1 = b1  b2 = b2   s1 = s1  s2 = s2
    Bodies = {b1, b2}
    Shapes = {s1, s2}
    Builds <- FewBuilds
    Callers = {k1}
    None = None
    Room = 2
    MaxMishaps = 2
SPECIFICATION FairSpec
INVARIANTS TypeOK AnswersAreTheBuild
PROPERTIES EveryCallSettles
