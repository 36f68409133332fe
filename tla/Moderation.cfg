SPECIFICATION FairSpec
CONSTANTS
    p1 = p1  n1 = n1  n2 = n2  root = root
    Pubkeys = {p1}
    Notes = {n1, n2}
    Root = root
    Author <- AuthorOne
    ReplyTo <- Nested
    MachineNotes = {}
    Writers = {w1, w2}
    Admins = {a1, a2}
    BatchSize = 1
    MaxDeliveries = 2
    MaxRequests = 2
    MaxFaults = 2
    None = None
INVARIANTS
    TypeOK
    PurgedStaysPurged
    MemoryIsTable
    ReplyDrift
PROPERTIES
    PurgeEnds
CHECK_DEADLOCK FALSE
