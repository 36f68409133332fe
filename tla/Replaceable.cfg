SPECIFICATION FairSpec
CONSTANTS
    a = a  b = b  ingester = ingester  backfill = backfill  crawler = crawler
    Versions = {1, 2}
    Time <- TimeOf
    People = {a, b}
    Follows <- FollowsOf
    Workers = {ingester, backfill, crawler}
    Path <- PathOf
    None = None
    MaxFaults = 1
INVARIANTS TypeOK GraphAgrees OnlyRivalsKept
PROPERTIES LatestStays
