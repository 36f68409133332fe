SPECIFICATION LegacyFairSpec
CONSTANTS
    c1 = c1  p1 = p1  p2 = p2  n1 = n1  n2 = n2  n3 = n3  m1 = m1
    Crawlers = {c1, c2}
    Authors = {p1, p2}
    Low = {p2}
    Notes = {n1, n2, n3, m1}
    Instances <- InstancesOf
    Followed <- FollowedOf
    Author <- AuthorOf
    Time <- TimeOf
    MaxTime = 3
    Live = {n2}
    Refusable = {n2}
    Old = {n1, n2, m1}
    Relays = {1, 2}
    Primary = {1}
    Writes <- WritesOf
    Modes = {"legacy", "targeted"}
    BatchSize = 2
    Limit = 2
    MaxFaults = 1
    None = None
INVARIANTS TypeOK HolesAreAccounted
PROPERTIES CursorsOnlyWiden LegacyBackfillIsDone
