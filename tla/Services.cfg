SPECIFICATION EmptySpec
CONSTANTS
    Authors = {a, b}
    NamesCap = 1
    QueueCap = 1
    MaxAsked = 1
    Watched = a
    TrimAbove = 1
    Relays = {r1}
    Events = {e1, e2}
    ChannelCap = 1
    Storing = {w1, w2}
    Readers = {r1, r2}
    Minute = 2
    Absent = Absent
    MaxStored = 2
    MaxTime = 3
    TableKeys = {notes}
    ViewKeys = {board}
    WarmKeys = {notes}
    PurgeKeys = {notes, board}
    RefreshKeys = {board}
    HashtagKeys = {notes}
    Tasks = {t1}
    MaxVersion = 2
    CacheNames = {"wot", "profiles"}
    Callers = {t1, t2}
    MaxGraph = 1
    None = None
    MaxFaults = 1
INVARIANTS TypesOK ResolverAccounts CountersBounded StaleAnswerIsLate
PROPERTIES IngestersStop CachesCatchUp
CHECK_DEADLOCK FALSE
