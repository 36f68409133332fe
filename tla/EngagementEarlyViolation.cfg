SPECIFICATION Spec
CONSTANTS
    n1 = n1  t2 = t2  n2 = n2  t1 = t1
    Workers = {w1}
    Notes = {n1, n2}
    Admitted = {n1, n2}
    Taps = {t1}
    Zaps = {}
    Kind <- KindOf
    Target <- TargetOne
    Parent <- ParentTwo
    MaxAttempts = 2
    BatchLimit = 1
    MaxDeliveries = 4
    MaxFaults = 0
    None = None
INVARIANT FetchedIsLinked
CHECK_DEADLOCK FALSE
