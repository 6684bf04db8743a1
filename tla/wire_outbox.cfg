CONSTANTS
    f1 = f1  f2 = f2   x = x  y = y
    Refs = {f1, f2}
    Vals = {x, y}
    Objects <- SmallObjects
    Params = {p, q}
    Vis = {shown}
    Ids = {i1, i2}
    None = None
    MaxFeatures = 2
    MaxRevision = 2
    DeltaFloor = 1
    Admits = {"connectFails"}
SPECIFICATION Spec
SYMMETRY Symmetric
INVARIANTS EngineInStep
