SPECIFICATION FairSpec
CONSTANTS
    Callers = {c1, c2, c3}
    Keys = {k1}
    Profiles = {}
    MaxRelays = 2
    MaxRequests = 3
    MaxCancels = 1
    MaxStalls = 1
    MaxExpiries = 1
    None = None
INVARIANTS
    TypeOK
PROPERTIES
    RegisteredIsWoken
    ImplementsSingleFlight
CHECK_DEADLOCK FALSE
