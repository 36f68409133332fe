SPECIFICATION FairSpec
CONSTANTS
    e1 = e1  e2 = e2  e3 = e3  u1 = u1  u2 = u2  r1 = r1  r2 = r2
    Events = {e1, e2}
    Pubkeys = {u1, u2}
    Conns = {c1}
    Publishers = {p1, p2}
    Relays = {r1}
    Owner <- OwnerTwo
    DueAt <- DueTwo
    Signed = {e1, e2}
    WriteRelays <- ListOne
    TopRelays = {r1}
    MaxPending = 1
    MinFuture = 1
    MaxFuture = 5
    BatchLimit = 1
    MaxTime = 2
    MaxCrashes = 1
    MaxDbErrors = 1
    None = None
INVARIANTS
    TypeOK
    HandedAtMostOnce
    AcceptedIsStored
PROPERTIES
    ImplementsScheduledPost
    DueIsClaimed
    ClaimedIsSettled
