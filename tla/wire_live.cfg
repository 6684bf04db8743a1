CONSTANTS
    f1 = f1 f2 = f2 x = x  y = y
    Refs = {f1}
    Vals = {x, y}
    Objects <- OneObject
    Params = {p}
    Vis = {}
    Ids = {i1, i2}
    None = None
    MaxFeatures = 1
    MaxRevision = 2
    DeltaFloor = 1
    Admits = {"connectFails", "clearVisibility", "inPlaceEdits", "secondClient"}
SPECIFICATION FairSpec
PROPERTIES CallSettles
