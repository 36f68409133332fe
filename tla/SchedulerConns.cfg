SPECIFICATION Spec
CONSTANTS
    e1 = e1  e2 = e2  e3 = e3  u1 = u1  u2 = u2  r1 = r1  r2 = r2
    Events = {e1, e2, e3}
    Pubkeys = {u1, u2}
    Conns = {c1, c2}
    Publishers = {p1}
    Relays = {r1}
    Owner <- OwnerOne
    DueAt <- DueOne
    Signed = {e1, e2, e3}
    WriteRelays <- ListOne
    TopRelays = {}
    MaxPending = 1
    MinFuture = 1
    MaxFuture = 5
    BatchLimit = 2
    MaxTime = 1
    MaxCrashes = 0
    MaxDbErrors = 0
    None = None
INVARIANTS
    PendingOvershoot
