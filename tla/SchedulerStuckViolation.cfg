SPECIFICATION FairSpec
CONSTANTS
    e1 = e1  e2 = e2  e3 = e3  u1 = u1  u2 = u2  r1 = r1  r2 = r2
    Events = {e1, e2}
    Pubkeys = {u1, u2}
    Conns = {c1}
    Publishers = {p1}
    Relays = {r1, r2}
    Owner <- OwnerTwo
    DueAt <- DueTwo
    Signed = {e1, e2}
    WriteRelays <- ListOne
    TopRelays = {r1, r2}
    MaxPending = 2
    MinFuture = 1
    MaxFuture = 5
    BatchLimit = 1
    MaxTime = 2
    MaxCrashes = 1
    MaxDbErrors = 0
    None = None
PROPERTIES
    DueIsPublished
