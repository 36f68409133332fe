SPECIFICATION ModesSpec
CONSTANTS
    e1 = e1  e2 = e2  e3 = e3  e4 = e4
    Relays = {1, 2}
    Claims = {2}
    Speaks = {1}
    Cap <- CapOf
    NumKinds = 2
    Ids = {e1, e2, e3, e4}
    Kind <- KindOf
    Time <- TimeOf
    Old = {e1, e2, e4}
    Live <- LiveOf
    Refused = {e2}
    Epoch = 1
    Base = 2
    MinWindow = 1
    MaxWindow = 4
    MaxWindows = 1
    FirstNow = 5
    MaxNow = 8
    Authors = {1, 2, 3, 4}
    NoteTiers = {1, 2}
    Pinned = {1, 2}
    BatchSize = 1
    MaxAges = 2
    Nobody = Nobody
    None = None
    MaxFaults = 1
INVARIANTS TypesOK OnlyTakesHalf
PROPERTIES ImplementsCoverage HybridWalkEnds OnlyPassEnds
