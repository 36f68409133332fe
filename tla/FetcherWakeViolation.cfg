SPECIFICATION FairSpec
CONSTANTS
    Callers = {c1, c2}
    Keys = {k1}
    Profiles = {}
    MaxRelays = 1
    MaxRequests = 2
    MaxCancels = 0
    MaxStalls = 0
    MaxExpiries = 0
    None = None

PROPERTY RequestReturns

CHECK_DEADLOCK FALSE
